--------------------------- MODULE SpinlockProofs ----------------------------
(***************************************************************************)
(* For every set of harts: the spinlock excludes, and its steps are steps  *)
(* of the abstract lock.                                                   *)
(***************************************************************************)
EXTENDS Spinlock, TLAPS

(***************************************************************************)
(* Exclusion alone is not inductive: that the winner of amoswap is alone   *)
(* follows from the lock word being set while somebody is inside.          *)
(***************************************************************************)
THEOREM SpinlockInductive == Spec => []Inv
<1>1. Init => Inv
  BY DEF Init, Inv, TypeOK, MutualExclusion, LockWord
<1>2. Inv /\ [Next]_vars => Inv'
  <2> SUFFICES ASSUME Inv, [Next]_vars PROVE Inv'
    OBVIOUS
  <2> USE DEF Inv, TypeOK, MutualExclusion, LockWord
  <2>1. ASSUME NEW h \in Harts, acquire(h) PROVE Inv'
    BY <2>1 DEF acquire
  <2>2. ASSUME NEW h \in Harts, lw(h) PROVE Inv'
    BY <2>2 DEF lw
  <2>3. ASSUME NEW h \in Harts, amoswap(h) PROVE Inv'
    BY <2>3 DEF amoswap
  <2>4. ASSUME NEW h \in Harts, release(h) PROVE Inv'
    BY <2>4 DEF release
  <2>5. CASE UNCHANGED vars
    BY <2>5 DEF vars
  <2> QED
    BY <2>1, <2>2, <2>3, <2>4, <2>5 DEF Next
<1> QED
  BY <1>1, <1>2, PTL DEF Spec

(***************************************************************************)
(* spinlock.S: no two harts hold the same lock.                            *)
(***************************************************************************)
THEOREM SpinlockExcludes == Spec => []MutualExclusion
<1>1. Inv => MutualExclusion
  BY DEF Inv
<1> QED
  BY <1>1, SpinlockInductive, PTL

(***************************************************************************)
(* The lock word is 0 or 1 and every hart is at an instruction of acquire  *)
(* or release, whatever the harts do (spinlock.S:7-19).                    *)
(***************************************************************************)
THEOREM SpinlockTypes == Spec => []TypeOK
<1>1. Inv => TypeOK
  BY DEF Inv
<1> QED
  BY <1>1, SpinlockInductive, PTL

(***************************************************************************)
(* Every step of the instruction sequence is a step of the abstract lock   *)
(* or invisible to its clients (lw, and an amoswap that lost).             *)
(***************************************************************************)
THEOREM SpinlockRefinesLock == Spec => L!Safety
<1>1. Init => L!Init
  BY DEF Init, L!Init, st
<1>2. Inv /\ [Next]_vars => [L!Next]_st
  <2> SUFFICES ASSUME Inv, [Next]_vars PROVE [L!Next]_st
    OBVIOUS
  <2> USE DEF Inv, TypeOK, MutualExclusion, LockWord
  <2>1. ASSUME NEW h \in Harts, acquire(h) PROVE L!Request(h)
    BY <2>1 DEF acquire, L!Request, st
  <2>2. ASSUME NEW h \in Harts, lw(h) PROVE UNCHANGED st
    BY <2>2 DEF lw, st
  <2>3. ASSUME NEW h \in Harts, amoswap(h) PROVE L!Acquire(h) \/ UNCHANGED st
    <3>1. CASE locked = 0
      <4>1. \A g \in Harts : pc[g] # "held"
        BY <3>1
      <4>2. pc' = [pc EXCEPT ![h] = "held"] /\ pc[h] = "amoswap"
        BY <2>3, <3>1 DEF amoswap
      <4>3. st[h] = "waiting" /\ \A g \in Harts : st[g] # "held"
        BY <4>1, <4>2 DEF st
      <4>4. st' = [st EXCEPT ![h] = "held"]
        BY <4>2 DEF st
      <4> QED
        BY <4>3, <4>4 DEF L!Acquire
    <3>2. CASE locked = 1
      BY <2>3, <3>2 DEF amoswap, st
    <3> QED
      BY <3>1, <3>2
  <2>4. ASSUME NEW h \in Harts, release(h) PROVE L!Release(h)
    BY <2>4 DEF release, L!Release, st
  <2>5. CASE UNCHANGED vars
    BY <2>5 DEF vars, st
  <2> QED
    BY <2>1, <2>2, <2>3, <2>4, <2>5 DEF Next, L!Next
<1> QED
  BY <1>1, <1>2, SpinlockInductive, PTL DEF Spec, L!Safety
=============================================================================
