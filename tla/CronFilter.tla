----------------------------- MODULE CronFilter -----------------------------
(***************************************************************************)
(* The cron timestamp filter of block handlers.                            *)
(* generateTimestampReferenceForBlockFilters (configure/SubqueryProject    *)
(* .ts) compiles a handler's filter.timestamp into a cron-converter        *)
(* schedule anchored at the timestamp of the datasource's startBlock, with *)
(* a getter `next` that calls schedule.next().  filterBlockTimestamp       *)
(* (utils/near.ts, in subcommands/mmrMigrate.module.ts) reads that getter, *)
(* reads it once more in its second log line when the block matches, and  *)
(* then calls schedule.prev().                                             *)
(*                                                                         *)
(* Data abstraction: a cron expression is one that fires at every multiple *)
(* of a period, and a schedule is its reference time and the seeker's      *)
(* position, counted in slots from the reference: position 0 is the        *)
(* reference itself, position j > 0 the j-th slot after it.  Block         *)
(* timestamps and slot times are on one time line; the unit of NEAR's      *)
(* header.timestamp against Date.parse is left to a hazard of its own.     *)
(***************************************************************************)
EXTENDS Integers

(* cron.schedule(timestampReference) for an expression of period p. *)
CronSchedule(reference, p) == [reference |-> reference, period |-> p]

(* The time of the slot at position j: the j-th multiple of the period     *)
(* after the reference, and for j = 0 the last one at or before it.        *)
SlotTime(s, j) == (s.reference \div s.period + j) * s.period

(* schedule.next() and schedule.prev() move the seeker one slot. *)
SeekNext(j) == j + 1
SeekPrev(j) == j - 1

(* Mutant: the second log line, which reads the getter, is gone. *)
FilterBlockTimestampNoLogRead(ts, s, j) ==
  LET read == SeekNext(j)
  IN IF ts > SlotTime(s, read)
     THEN [match |-> TRUE, position |-> SeekPrev(read)]
     ELSE [match |-> FALSE, position |-> SeekPrev(read)]

(* filterBlockTimestamp: the getter moves the seeker to the next slot and  *)
(* the block matches when its timestamp is past that slot; a match reads   *)
(* the getter again for its log line.  prev() then moves back one slot.    *)
(* The result is the match and the seeker's new position.                  *)
FilterBlockTimestamp(ts, s, j) ==
  LET read == SeekNext(j)
  IN IF ts > SlotTime(s, read)
     THEN [match |-> TRUE, position |-> SeekPrev(SeekNext(read))]
     ELSE [match |-> FALSE, position |-> SeekPrev(read)]

(* Whether some slot of schedule s lies in [t1, t2). *)
SlotBetween(s, t1, t2) ==
  \E j \in 0..((t2 - s.reference) \div s.period + 1) :
    t1 <= SlotTime(s, j) /\ SlotTime(s, j) < t2

=============================================================================
