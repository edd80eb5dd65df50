--------------------------- MODULE MC_FetchService ---------------------------
(***************************************************************************)
(* Instances of FetchService for TLC.  Each .cfg picks one project (its    *)
(* handlers, templates, bypass list and dictionary) from the definitions   *)
(* below and gives the bounds.  Heights are small integers; hits are the   *)
(* heights whose block holds an item a handler's filter matches.          *)
(***************************************************************************)
EXTENDS FetchService

Runtime(kind, modulo, hits) ==
  [kind |-> kind, filtered |-> TRUE, modulo |-> modulo, hits |-> hits,
   custom |-> FALSE, dictionaryQuery |-> FALSE]

Tx(hits)      == Runtime("Transaction", 0, hits)
Act(hits)     == Runtime("Action", 0, hits)
EveryBlock(m) == Runtime("Block", m, {})

(* A custom datasource's transaction handler whose processor synthesises   *)
(* a dictionary query for its filter.                                      *)
CustomTx(hits) == [Tx(hits) EXCEPT !.custom = TRUE, !.dictionaryQuery = TRUE]

\* seq: a transaction handler and a modulo block handler, so every height is
\* fetched by range; the template adds an action handler.
SeqStatic    == {Tx({2, 5}), EveryBlock(3)}
SeqTemplate  == {Act({4, 6, 7})}
SeqCreators  == {3}
SeqBypass    == {5}

\* dict: transaction and action handlers with filters, served by the dictionary;
\* the template is a custom datasource whose processor queries the dictionary;
\* the datasource created at 3 matches heights the static ones already match,
\* so a dictionary result from before its creation is still complete.
DictStatic   == {Tx({2, 3, 6}), Act({3, 4, 7})}
DictBypass   == {4}
DictTemplate == {CustomTx({3, 6})}
DictCreators == {3}

\* live: the bypass block lies below the creator, where no rewind reaches it.
LiveBypass   == {2}

\* stale: the created datasource matches heights the static ones do not.
StaleDictTemplate == {Tx({5, 7})}

\* dictmod: a transaction handler and a modulo block handler with the dictionary.
DictModStatic == {Tx({1, 2}), EveryBlock(3)}

\* dup: a dictionary hit on a modulo height.
DupStatic    == {Tx({3}), EveryBlock(3)}

\* stale: a creator at the last buffered height while a dictionary query is out.
StaleStatic   == {Tx({1, 2})}
StaleTemplate == {Tx({3})}
StaleCreators == {2}

\* custom: a static custom datasource beside a runtime transaction handler.
CustomStatic == {Tx({2}), CustomTx({3, 5})}

\* tplmod: a template with a modulo block handler, created at 2.
TplModStatic   == {Tx({2})}
TplModTemplate == {EveryBlock(2)}
TplModCreators == {2}

\* modulo-only projects.
ModPassStatic == {EveryBlock(2), EveryBlock(3)}
ModStatic     == {EveryBlock(2)}
ModEveryStatic == {EveryBlock(1)}
ModTemplate   == {Tx({3})}
ModCreators   == {2}
ModBypass     == {6}

\* bypass: a creator below a bypass block already dropped from the list.
BypassStatic   == {Tx({1, 2, 3, 4})}
BypassList     == {2}
BypassCreators == {1}
BypassTemplate == {Tx({3})}

\* forkbypass: a bypass block above the finalized head, below the best one.
ForkBypassList == {4}

\* undefined head: a range project started while the first finalized-head
\* poll failed.
RangeStatic    == {Tx({1, 2})}

\* nodeConfig.unfinalizedBlocks: off, or either value.
FinalizedOnly == {FALSE}
EitherMode    == BOOLEAN

NoHandlers == {}
NoHeights  == {}

=============================================================================
