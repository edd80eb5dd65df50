-------------------------- MODULE NearBlockAssembly --------------------------
(***************************************************************************)
(* The block assembler of utils/near.ts (concatenated in                   *)
(* subcommands/mmrMigrate.module.ts): fetchBlocksBatches fetches the       *)
(* blocks of a list of heights, and wrapBlock turns a block with its       *)
(* chunks into the unified block of transactions, actions and receipts.    *)
(* wrapAction decodes an action from its JSON wire form.                   *)
(*                                                                         *)
(* Data abstraction: a block result is its header (height and timestamp) *)
(* and the results of api.chunk for its chunks, in order; a transaction   *)
(* is its hash and its wire actions; a receipt and an action payload are *)
(* model values.  The fields wrapTransaction copies from the header and    *)
(* from txStatusReceipts (gas, hash, timestamp, logs) are left out: only the    *)
(* height tells two wrapped transactions of one block apart.               *)
(***************************************************************************)
EXTENDS Naturals, Sequences, SequencesExt

(* The action types parseNearAction accepts; any other type throws. *)
NearActionTypes ==
  {"CreateAccount", "DeployContract", "FunctionCall", "Transfer", "Stake",
   "AddKey", "DeleteKey", "DeleteAccount"}

(* The two JSON wire forms of an action: a bare string, or an object whose *)
(* only key is the action type.                                            *)
WireString(s) == [str |-> s]
WireObject(type, payload) == [obj |-> [k \in {type} |-> payload]]
IsWireString(a) == "str" \in DOMAIN a

(* The object {}. *)
EmptyPayload == [k \in {} |-> k]

(* The type wrapAction reads: "CreateAccount" for that bare string, else   *)
(* Object.keys(action)[0], which for any other string is its first index,  *)
(* "0".                                                                    *)
ActionType(a) ==
  IF IsWireString(a)
  THEN IF a.str = "CreateAccount" THEN "CreateAccount" ELSE "0"
  ELSE CHOOSE k \in DOMAIN a.obj : TRUE

(* The payload: {} for the bare "CreateAccount", else action[type]. *)
ActionPayload(a) ==
  IF IsWireString(a) THEN EmptyPayload ELSE a.obj[ActionType(a)]

(* parseNearAction does not throw. *)
ParseNearAction(a) == ActionType(a) \in NearActionTypes

WrapTransaction(block, tx) == [hash |-> tx.hash, block_height |-> block.header.height]

WrapAction(a, id, wrappedTx) ==
  [id |-> id, type |-> ActionType(a), action |-> ActionPayload(a),
   transaction |-> wrappedTx]

(* Mutant: the action id counts the actions of the whole block so far.  *)
WrapChunkTransactionBlockIds(nb, block, tx) ==
  LET wtx == WrapTransaction(block, tx)
  IN [nb EXCEPT !.transactions = Append(@, wtx),
                !.actions = @ \o [i \in DOMAIN tx.actions |->
                                    WrapAction(tx.actions[i], Len(nb.actions) + i - 1, wtx)]]

(* One pass of wrapBlock's inner loop: push the wrapped transaction and    *)
(* concat its actions, each with its index in the transaction as id.       *)
WrapChunkTransaction(nb, block, tx) ==
  LET wtx == WrapTransaction(block, tx)
  IN [nb EXCEPT !.transactions = Append(@, wtx),
                !.actions = @ \o [i \in DOMAIN tx.actions |->
                                    WrapAction(tx.actions[i], i - 1, wtx)]]

(* One pass of wrapBlock's outer loop: the chunk's transactions, then its  *)
(* receipts.                                                               *)
WrapChunk(nb, block, chunk) ==
  LET withTxs == FoldLeft(LAMBDA acc, tx : WrapChunkTransaction(acc, block, tx),
                          nb, chunk.transactions)
  IN [withTxs EXCEPT !.receipts = @ \o chunk.receipts]

WrapBlock(block) ==
  FoldLeft(LAMBDA acc, chunk : WrapChunk(acc, block, chunk),
           [header |-> block.header, transactions |-> <<>>,
            actions |-> <<>>, receipts |-> <<>>],
           block.chunks)

(* wrapBlock rejects: some action of some transaction does not decode. *)
WrapBlockRejects(block) ==
  \E c \in DOMAIN block.chunks :
    \E t \in DOMAIN block.chunks[c].transactions :
      \E k \in DOMAIN block.chunks[c].transactions[t].actions :
        ~ParseNearAction(block.chunks[c].transactions[t].actions[k])

(* fetchBlocksBatches(api, heights) over chain, a function from heights to *)
(* block results or NoBlock: getBlockByHeight rethrows a failed            *)
(* api.block, Promise.all rejects when any block or any wrapBlock does,    *)
(* and otherwise the block contents come in the order of the heights.      *)
FetchBlocksBatchesRejects(chain, heights, NoBlock) ==
  \E k \in DOMAIN heights :
    chain[heights[k]] = NoBlock \/ WrapBlockRejects(chain[heights[k]])

FetchBlocksBatches(chain, heights) ==
  [k \in DOMAIN heights |->
     LET b == WrapBlock(chain[heights[k]])
     IN [block |-> b, transactions |-> b.transactions, actions |-> b.actions]]

-----------------------------------------------------------------------------
(* The reference of spec 4.4: the actions of a block in the order of their *)
(* chunk, then their transaction in the chunk, then their place in the     *)
(* transaction, whose index is the action id.                              *)
ActionPositions(block) ==
  UNION {UNION {{<<c, t, k>> : k \in DOMAIN block.chunks[c].transactions[t].actions} :
                t \in DOMAIN block.chunks[c].transactions} :
         c \in DOMAIN block.chunks}

PositionBefore(p, q) ==
  \/ p[1] < q[1]
  \/ p[1] = q[1] /\ p[2] < q[2]
  \/ p[1] = q[1] /\ p[2] = q[2] /\ p[3] < q[3]

ReferenceActions(block) ==
  LET ps == SetToSortSeq(ActionPositions(block), PositionBefore)
  IN [j \in DOMAIN ps |->
        LET tx == block.chunks[ps[j][1]].transactions[ps[j][2]]
            a  == tx.actions[ps[j][3]]
        IN [id |-> ps[j][3] - 1, type |-> ActionType(a),
            action |-> ActionPayload(a),
            transaction |-> WrapTransaction(block, tx)]]

=============================================================================
