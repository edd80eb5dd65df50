--------------------------- MODULE BlockDispatcher ---------------------------
(***************************************************************************)
(* The single-process block dispatcher of @subql/node-core, as the spec    *)
(* (section 4.7) describes it: a bounded queue of block heights filled by  *)
(* the fetch loop, the height of the last block buffered, and the flush    *)
(* that discards buffered work on a dynamic-datasource creation.  The      *)
(* dispatcher's code is a dependency, not part of this repository, so the  *)
(* operators here are modelled from the spec.  They are action fragments   *)
(* used by FetchService, which owns the next-state relation.               *)
(***************************************************************************)
EXTENDS Naturals, Sequences

CONSTANTS
  BatchSize,   \* nodeConfig.batchSize
  Undefined    \* the JavaScript value undefined (a model value)

ASSUME BatchSize \in Nat \ {0}

VARIABLES
  queue,                 \* heights buffered for fetching and indexing, in order
  latestBufferedHeight   \* height the fetch loop has buffered up to, or Undefined

dispatcherVars == <<queue, latestBufferedHeight>>

(* The queue holds batchSize * 3 heights. *)
QueueCapacity == BatchSize * 3

(* freeSize, the backpressure signal read by the fetch loop. *)
FreeSize == QueueCapacity - Len(queue)

(***************************************************************************)
(* enqueueBlocks(heights, latestBufferHeight): an empty list only moves    *)
(* latestBufferedHeight; otherwise the heights are appended.               *)
(***************************************************************************)
EnqueueBlocks(heights, latestBufferHeight) ==
  /\ queue' = queue \o heights
  /\ latestBufferedHeight' = latestBufferHeight

(***************************************************************************)
(* flushQueue(height) discards every buffered height >= height and resets  *)
(* latestBufferedHeight to height - 1.                                     *)
(***************************************************************************)
FlushQueue(height) ==
  /\ queue' = SelectSeq(queue, LAMBDA b : b < height)
  /\ latestBufferedHeight' = height - 1

=============================================================================
