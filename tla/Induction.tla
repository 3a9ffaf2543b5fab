------------------------------ MODULE Induction ------------------------------
(***************************************************************************)
(* Induction over the natural numbers in the form the proofs of KMem,      *)
(* VMem, Boot and VPlic use it: a set of numbers has a least element, and  *)
(* a function that is given by its first value and by a step exists.       *)
(***************************************************************************)
EXTENDS Integers, WellFoundedInduction, TLAPS

(***************************************************************************)
(* Every set of natural numbers that is not empty has a least element.     *)
(***************************************************************************)
LEMMA LeastNumber ==
    ASSUME NEW T \in SUBSET Nat, T # {}
    PROVE  \E m \in T : \A n \in T : m <= n
<1>1. PICK m \in T : \A n \in T : <<n, m>> \notin OpToRel(<, Nat)
  BY NatLessThanWellFounded, WFMin, Zenon
<1>2. \A n \in T : ~ (n < m)
  BY <1>1, Zenon DEF OpToRel
<1> QED
  BY <1>2

(***************************************************************************)
(* The function the links of a free list, the powers of a number and the   *)
(* levels of a page table are computed with: t[k] is a step from t[k - 1]. *)
(***************************************************************************)
Recursive(t, first, step, n) ==
    t[0] = first /\ \A k \in 1 .. n : t[k] = step[<<k, t[k - 1]>>]

LEMMA RecursiveExists ==
    ASSUME NEW D, NEW first \in D, NEW step \in [Nat \X D -> D], NEW n \in Nat
    PROVE  \E t \in [0 .. n -> D] : Recursive(t, first, step, n)
<1> DEFINE Has(m) == \E t \in [0 .. m -> D] : Recursive(t, first, step, m)
           T == {m \in Nat : ~ Has(m)}
<1> SUFFICES ASSUME T # {} PROVE FALSE
  OBVIOUS
<1>1. PICK m \in T : \A k \in T : m <= k
  <2>1. T \in SUBSET Nat
    OBVIOUS
  <2> HIDE DEF T
  <2> QED
    BY <2>1, LeastNumber
<1>2. CASE m = 0
  <2> DEFINE t == [k \in 0 .. 0 |-> first]
  <2>1. t \in [0 .. 0 -> D] /\ Recursive(t, first, step, 0)
    BY DEF Recursive
  <2> QED
    BY <1>1, <1>2, <2>1
<1>3. CASE m # 0
  <2>1. m - 1 \in Nat /\ m - 1 \notin T
    BY <1>1, <1>3
  <2>2. PICK t \in [0 .. m - 1 -> D] : Recursive(t, first, step, m - 1)
    BY <2>1
  <2> DEFINE u == [k \in 0 .. m |-> IF k = m THEN step[<<m, t[m - 1]>>] ELSE t[k]]
  <2>3. t[m - 1] \in D /\ <<m, t[m - 1]>> \in Nat \X D
    BY <2>1
  <2>4. u \in [0 .. m -> D]
    BY <2>1, <2>3
  <2>5. \A k \in 1 .. m : u[k] = step[<<k, u[k - 1]>>]
    <3> TAKE k \in 1 .. m
    <3>1. k \in 0 .. m /\ k - 1 \in 0 .. m /\ k - 1 # m
      BY <2>1
    <3>2. u[k - 1] = t[k - 1]
      BY <3>1
    <3>3. CASE k = m
      BY <3>1, <3>2, <3>3
    <3>4. CASE k # m
      <4>1. k \in 1 .. m - 1 /\ u[k] = t[k]
        BY <2>1, <3>1, <3>4
      <4>2. t[k] = step[<<k, t[k - 1]>>]
        BY <2>2, <4>1 DEF Recursive
      <4> QED
        BY <3>2, <4>1, <4>2
    <3> QED
      BY <3>3, <3>4
  <2>6. u[0] = first
    BY <1>3, <2>1, <2>2 DEF Recursive
  <2>7. Recursive(u, first, step, m)
    BY <2>5, <2>6 DEF Recursive
  <2> QED
    BY <1>1, <2>4, <2>7
<1> QED
  BY <1>2, <1>3
=============================================================================
