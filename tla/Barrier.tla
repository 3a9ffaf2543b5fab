------------------------------- MODULE Barrier -------------------------------
(***************************************************************************)
(* One barrier of lib/lock.c shared by all harts, as main() uses it: every *)
(* hart calls wait_barrier on it once per synchronisation point.           *)
(***************************************************************************)
EXTENDS WaitBarrier

CONSTANTS
    Bar,        \* the barrier
    MaxRounds   \* a bound: how many times a hart calls wait_barrier

VARIABLE
    round       \* round[h]: how often h has called wait_barrier

ASSUME HartsAssumption == IsFiniteSet(Harts) /\ Harts # {}
ASSUME BarsAssumption == Bars = {Bar}
ASSUME RoundsAssumption == MaxRounds \in Nat

vars == <<initial, tokens, passed, locked, at, reg, round>>

\* static struct barrier bar = BARRIER_INITIALIZER(DTB_NR_CPUS)
Init ==
    /\ BARRIER_INITIALIZER([b \in Bars |-> Cardinality(Harts)])
    /\ WB_Init
    /\ round = [h \in Harts |-> 0]

call(h) ==
    /\ round[h] < MaxRounds
    /\ call_wait_barrier(h)
    /\ round' = [round EXCEPT ![h] = round[h] + 1]

inside(h) == wait_barrier(h, Bar) /\ UNCHANGED round

hart(h) == call(h) \/ inside(h)

Next == \E h \in Harts : hart(h)

\* A hart that runs executes its next instruction; harts are not preempted.
Fairness == \A h \in Harts : WF_vars(hart(h))

Spec == Init /\ [][Next]_vars /\ Fairness
-----------------------------------------------------------------------------
(***************************************************************************)
(* The counters stay in range: tokens-- never takes tokens below zero and  *)
(* passed never exceeds the number of harts (lock.c:41, 51).               *)
(***************************************************************************)
TypeOK ==
    /\ WB_TypeOK
    /\ initial[Bar] = Cardinality(Harts)
    /\ tokens[Bar] \in 0 .. initial[Bar]
    /\ passed[Bar] \in 0 .. initial[Bar]
    /\ round \in [Harts -> 0 .. MaxRounds]

(***************************************************************************)
(* At most one hart is between acquire(&bar->lk) and release(&bar->lk), in *)
(* either of the two critical sections of wait_barrier, so no decrement of *)
(* tokens and no increment of passed is lost.                              *)
(***************************************************************************)
LockExclusive ==
    \A g, h \in Harts :
        at[g] \in LockedLabels /\ at[h] \in LockedLabels => g = h

(***************************************************************************)
(* What a barrier is for: a hart that is outside wait_barrier after its    *)
(* n-th call finds that every hart has made its n-th call.  lock_test.c:   *)
(* "successful if all ABCs seperated from DEFs".                           *)
(***************************************************************************)
BarrierSafe ==
    \A g, h \in Harts : at[h] = "out" => round[g] >= round[h]

(***************************************************************************)
(* What the passed counter was added for (lock.c:25-27): no hart starts    *)
(* the next use of the barrier while another one has not yet seen the      *)
(* reset of this use; if it did, its decrement would hide the reset.       *)
(***************************************************************************)
NoLapping ==
    \A g, h \in Harts :
        round[g] < round[h] => at[g] \notin {"release1", "test_last", "wait_tokens"}

\* At most one hart found tokens = 0 in this use of the barrier.
SingleLast ==
    \A g, h \in Harts : at[g] \in LastLabels /\ at[h] \in LastLabels => g = h

\* Everybody who is to come has come.
AllArrived == \A g, h \in Harts : round[g] = round[h]

(***************************************************************************)
(* wait_barrier returns: a use of the barrier that every hart has entered  *)
(* ends with every hart outside.  lock.c:20-21: "other harts [...] are     *)
(* waiting for reset", "last hart enters barrier and does the reset        *)
(* (signals other harts to cont.)".                                        *)
(***************************************************************************)
BarrierProgress ==
    \A h \in Harts :
        (at[h] # "out" /\ AllArrived) ~> (at[h] = "out")

(***************************************************************************)
(* The same, in executions in which no two harts both take the branch of   *)
(* the last hart (lock.c:44): the race on tokens outside the lock is the   *)
(* only thing that can keep a hart in the barrier.                         *)
(***************************************************************************)
ProgressIfSingleLast == []SingleLast => BarrierProgress
=============================================================================
