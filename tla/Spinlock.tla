------------------------------ MODULE Spinlock -------------------------------
(***************************************************************************)
(* The spinlock of lib/spinlock.S: a plain load that spins while the lock  *)
(* word is set, then an atomic swap whose old value decides.               *)
(***************************************************************************)
EXTENDS Naturals, FiniteSets

CONSTANT Harts

VARIABLES
    locked,     \* lk->locked
    pc          \* pc[h]: the next instruction of h on this lock

vars == <<locked, pc>>

TypeOK == locked \in {0, 1} /\ pc \in [Harts -> {"idle", "lw", "amoswap", "held"}]

\* init_lock, LOCK_INITIALIZER
Init ==
    /\ locked = 0
    /\ pc = [h \in Harts |-> "idle"]

\* A call of acquire.
acquire(h) ==
    /\ pc[h] = "idle"
    /\ pc' = [pc EXCEPT ![h] = "lw"]
    /\ UNCHANGED locked

\* lw; bnez: the read that leaves the loop.
lw(h) ==
    /\ pc[h] = "lw"
    /\ locked = 0
    /\ pc' = [pc EXCEPT ![h] = "amoswap"]
    /\ UNCHANGED locked

\* Faulty: an atomic add in place of the swap.
amoadd(h) ==
    /\ pc[h] = "amoswap"
    /\ pc' = [pc EXCEPT ![h] = IF locked = 0 THEN "held" ELSE "lw"]
    /\ locked' = locked + 1

\* Faulty: the old value is not looked at: a hart that lost the race goes on.
amoswap_unchecked(h) ==
    /\ pc[h] = "amoswap"
    /\ pc' = [pc EXCEPT ![h] = "held"]
    /\ locked' = 1

\* amoswap.w.aq; bnez: one atomic step, back to the test if it lost the race.
amoswap(h) ==
    /\ pc[h] = "amoswap"
    /\ pc' = [pc EXCEPT ![h] = IF locked = 0 THEN "held" ELSE "lw"]
    /\ locked' = 1

\* Faulty: the store of release is lost.
release_nothing(h) ==
    /\ pc[h] = "held"
    /\ pc' = [pc EXCEPT ![h] = "idle"]
    /\ UNCHANGED locked

release(h) ==
    /\ pc[h] = "held"
    /\ pc' = [pc EXCEPT ![h] = "idle"]
    /\ locked' = 0

Next == \E h \in Harts : acquire(h) \/ lw(h) \/ amoswap(h) \/ release(h)

(***************************************************************************)
(* A hart inside acquire or in its critical section goes on executing:     *)
(* harts are not preempted, traps are off in the hypervisor (the lock's    *)
(* users run with sstatus.SIE = 0) and no critical section waits for       *)
(* another hart.  Nobody has to ask for the lock.                          *)
(***************************************************************************)
Fairness == \A h \in Harts : WF_vars(lw(h) \/ amoswap(h) \/ release(h))

Spec == Init /\ [][Next]_vars /\ Fairness
-----------------------------------------------------------------------------
(***************************************************************************)
(* acquire lets one hart at a time into the critical section, although the *)
(* test and the swap are separate instructions and several harts can have  *)
(* seen the lock free (spinlock.S:10-13).                                  *)
(***************************************************************************)
MutualExclusion == \A g, h \in Harts : pc[g] = "held" /\ pc[h] = "held" => g = h

\* The lock word is set exactly while a hart is in the critical section.
LockWord == locked = 1 <=> \E h \in Harts : pc[h] = "held"

Inv == TypeOK /\ MutualExclusion /\ LockWord

\* The two instructions of the loop are both "waiting" to a client.
st == [h \in Harts |-> IF pc[h] \in {"lw", "amoswap"} THEN "waiting" ELSE pc[h]]

L == INSTANCE Lock WITH Harts <- Harts, st <- st

(***************************************************************************)
(* The instruction sequence implements the lock WaitBarrier and the other  *)
(* users of acquire and release rely on, its liveness included: a free     *)
(* lock that is wanted is taken (spinlock.S).                              *)
(***************************************************************************)
ImplementsLock == L!Spec
=============================================================================
