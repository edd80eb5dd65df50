----------------------------- MODULE IndexerSpec -----------------------------
(***************************************************************************)
(* What the indexing pipeline promises, whatever path fetched the blocks   *)
(* (spec sections 3 and 5): heights are indexed in strictly ascending      *)
(* order, no height that some datasource needs is skipped unless it is a   *)
(* bypass block, and indexing a creator height adds a dynamic datasource   *)
(* whose handlers apply to the heights after it.  Which heights a          *)
(* datasource needs is a parameter: Needed(h, created) says whether the    *)
(* block at h matters given the start blocks of the dynamic datasources.   *)
(***************************************************************************)
EXTENDS Naturals, Sequences, SequencesExt, FiniteSetsExt

CONSTANTS
  Heights,          \* the heights the project covers
  BypassBlocks,     \* heights never to be indexed
  CreatorHeights,   \* heights whose indexing creates a dynamic datasource
  Needed(_, _)      \* Needed(h, created): a datasource needs the block at h

VARIABLES
  indexed,          \* heights indexed, in order
  created           \* start blocks of the dynamic datasources

ivars == <<indexed, created>>

LastIndexed == IF indexed = <<>> THEN Min(Heights) - 1 ELSE Last(indexed)

(* Heights past the last indexed one that still have to be indexed. *)
Outstanding ==
  {h \in Heights : h > LastIndexed /\ h \notin BypassBlocks /\ Needed(h, created)}

Init == indexed = <<>> /\ created = {}

(* Index h: it comes after the last indexed height and no outstanding      *)
(* height lies before it.  Heights nobody needs may be indexed too.        *)
IndexBlock(h) ==
  /\ h \in Heights \ BypassBlocks
  /\ h > LastIndexed
  /\ \A g \in Outstanding : h <= g
  /\ indexed' = Append(indexed, h)
  /\ created' = IF h \in CreatorHeights THEN created \cup {h} ELSE created

Next == \E h \in Heights : IndexBlock(h)

Safety == Init /\ [][Next]_ivars

(* Progress: the indexer does not stop while a needed height is left. *)
Spec == Safety /\ WF_ivars(Outstanding # {} /\ Next)

=============================================================================
