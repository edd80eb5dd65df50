--------------------------- MODULE MC_WorkerService ---------------------------
(* Chains and projects for the runs of WorkerService. *)
EXTENDS WorkerService

(* A chunk's transactions: one with a bare CreateAccount and a transfer,   *)
(* one with a function call, and one without actions.                      *)
TxA == [hash |-> "A", actions |-> <<WireString("CreateAccount"),
                                    WireObject("Transfer", "amount")>>]
TxB == [hash |-> "B", actions |-> <<WireObject("FunctionCall", "call")>>]
TxC == [hash |-> "C", actions |-> <<>>]

Chunk1 == [transactions |-> <<TxA, TxB>>, receipts |-> <<"r1">>]
Chunk2 == [transactions |-> <<TxC, TxA>>, receipts |-> <<>>]
Chunk3 == [transactions |-> <<TxB>>, receipts |-> <<"r2">>]

(* Block timestamps: heights 2, 3 and 4 come 3, 4 and 5 time units after   *)
(* height 1, the cron reference.                                           *)
Timestamp == <<10, 13, 14, 15>>

(* Every height has a block of one or two chunks. *)
FullChain ==
  [h \in 1..4 |-> [header |-> [height |-> h, timestamp |-> Timestamp[h]],
                   chunks |-> CASE h = 1 -> <<Chunk1, Chunk2>>
                                [] h = 2 -> <<Chunk3, Chunk1>>
                                [] h = 3 -> <<Chunk2>>
                                [] OTHER -> <<Chunk3>>]]

(* The chain skipped height 2. *)
SkippedChain == [FullChain EXCEPT ![2] = NoBlock]

(* The chain after a halt: heights 3 and 4 come long after the reference. *)
LateChain ==
  [FullChain EXCEPT ![3].header.timestamp = 21, ![4].header.timestamp = 22]

MCOneWorker == {1}

MCWorkers == {1, 2}
MCCreators == {1}
====
