---------------------------- MODULE BarrierProofs ----------------------------
(***************************************************************************)
(* What wait_barrier guarantees for every number of harts and of uses, for *)
(* two harts (the DTB_NR_CPUS of the shipped board) and any number of      *)
(* uses, and for any number of harts and one use.                          *)
(***************************************************************************)
EXTENDS Barrier, FiniteSetTheorems, TLAPS

-----------------------------------------------------------------------------
(***************************************************************************)
(* The lock of the barrier: for every Harts and MaxRounds.                 *)
(***************************************************************************)
TypeInv == WB_TypeOK /\ round \in [Harts -> 0 .. MaxRounds]

LockInv ==
    /\ LockExclusive
    /\ \A h \in Harts : at[h] \in LockedLabels => locked[Bar] = 1

LEMMA TypeInductive ==
    /\ Init => TypeInv
    /\ TypeInv /\ [Next]_vars => TypeInv'
<1> USE BarsAssumption, RoundsAssumption
<1>1. Init => TypeInv
  <2> SUFFICES ASSUME Init PROVE TypeInv
    OBVIOUS
  <2>1. Cardinality(Harts) \in Nat
    BY HartsAssumption, FS_CardinalityType
  <2> QED
    BY <2>1 DEF Init, TypeInv, WB_TypeOK, WB_Init, BARRIER_INITIALIZER, Labels
<1>2. TypeInv /\ [Next]_vars => TypeInv'
  <2> SUFFICES ASSUME TypeInv, [Next]_vars PROVE TypeInv'
    OBVIOUS
  <2> USE DEF TypeInv, WB_TypeOK, Labels, LastLabels, LockedLabels, goto
  <2>1. ASSUME NEW h \in Harts, call(h) PROVE TypeInv'
    BY <2>1 DEF call, call_wait_barrier
  <2>2. ASSUME NEW h \in Harts, inside(h) PROVE TypeInv'
    <3> USE DEF bar_vars
    <3>1. ASSUME NEW f \in Labels, NEW t \in Labels, acquire(h, Bar, f, t),
                 UNCHANGED round PROVE TypeInv'
      BY <3>1 DEF acquire
    <3>2. ASSUME NEW f \in Labels, NEW t \in Labels, release(h, Bar, f, t),
                 UNCHANGED round PROVE TypeInv'
      BY <3>2 DEF release
    <3>3. CASE load_tokens(h, Bar)
      BY <2>2, <3>3 DEF inside, load_tokens
    <3>4. CASE store_tokens(h, Bar)
      BY <2>2, <3>4 DEF inside, store_tokens
    <3>5. CASE test_last(h, Bar)
      BY <2>2, <3>5 DEF inside, test_last
    <3>6. CASE set_passed(h, Bar)
      BY <2>2, <3>6 DEF inside, set_passed
    <3>7. CASE reset_tokens(h, Bar)
      BY <2>2, <3>7 DEF inside, reset_tokens
    <3>8. CASE wait_passed(h, Bar) \/ wait_tokens(h, Bar)
      BY <2>2, <3>8 DEF inside, wait_passed, wait_tokens
    <3>9. CASE load_passed(h, Bar)
      BY <2>2, <3>9 DEF inside, load_passed
    <3>10. CASE store_passed(h, Bar)
      BY <2>2, <3>10 DEF inside, store_passed
    <3> QED
      BY <2>2, <3>1, <3>2, <3>3, <3>4, <3>5, <3>6, <3>7, <3>8, <3>9, <3>10
         DEF inside, wait_barrier
  <2>3. CASE UNCHANGED vars
    BY <2>3 DEF vars
  <2> QED
    BY <2>1, <2>2, <2>3 DEF Next, hart
<1> QED
  BY <1>1, <1>2

LEMMA LockInductive ==
    /\ Init => LockInv
    /\ TypeInv /\ LockInv /\ [Next]_vars => LockInv'
<1> USE BarsAssumption
<1>1. Init => LockInv
  BY DEF Init, WB_Init, LockInv, LockExclusive, LockedLabels
<1>2. TypeInv /\ LockInv /\ [Next]_vars => LockInv'
  <2> SUFFICES ASSUME TypeInv, LockInv, [Next]_vars
               PROVE  LockInv'
    OBVIOUS
  <2> USE DEF TypeInv, WB_TypeOK, LockInv, LockExclusive, LockedLabels, goto
  <2>1. ASSUME NEW h \in Harts, call(h) PROVE LockInv'
    BY <2>1 DEF call, call_wait_barrier
  <2>2. ASSUME NEW h \in Harts, inside(h) PROVE LockInv'
    <3> USE DEF bar_vars
    <3>1. CASE \/ acquire(h, Bar, "acquire1", "load_tokens")
               \/ acquire(h, Bar, "acquire2", "load_passed")
      BY <3>1 DEF acquire
    <3>2. CASE \/ release(h, Bar, "release1", "test_last")
               \/ release(h, Bar, "release2", "out")
      BY <3>2 DEF release
    <3>3. CASE load_tokens(h, Bar) \/ load_passed(h, Bar)
      BY <3>3 DEF load_tokens, load_passed
    <3>4. CASE store_tokens(h, Bar) \/ store_passed(h, Bar)
      BY <3>4 DEF store_tokens, store_passed
    <3>5. CASE \/ test_last(h, Bar) \/ wait_passed(h, Bar) \/ wait_tokens(h, Bar)
      BY <3>5 DEF test_last, wait_passed, wait_tokens
    <3>6. CASE set_passed(h, Bar)
      BY <3>6 DEF set_passed
    <3>7. CASE reset_tokens(h, Bar)
      BY <3>7 DEF reset_tokens
    <3> QED
      BY <2>2, <3>1, <3>2, <3>3, <3>4, <3>5, <3>6, <3>7 DEF inside, wait_barrier
  <2>3. CASE UNCHANGED vars
    BY <2>3 DEF vars
  <2> QED
    BY <2>1, <2>2, <2>3 DEF Next, hart
<1> QED
  BY <1>1, <1>2

(***************************************************************************)
(* For every set of harts and every number of uses, the two critical       *)
(* sections of wait_barrier exclude each other (lock.c:40-42, 50-52).      *)
(***************************************************************************)
THEOREM BarrierLockExclusive == Spec => []LockExclusive
<1>1. LockInv => LockExclusive
  BY DEF LockInv
<1> QED
  BY <1>1, TypeInductive, LockInductive, PTL DEF Spec

-----------------------------------------------------------------------------
(***************************************************************************)
(* Two harts.  completed(h) is the number of uses h has been through.      *)
(***************************************************************************)
completed(h) == IF at[h] = "out" THEN round[h] ELSE round[h] - 1

(***************************************************************************)
(* A hart between the load and the store of a read-modify-write still      *)
(* holds the current value.  The lock alone does not give this: the last   *)
(* hart writes passed and tokens without it (lock.c:45-46).                *)
(***************************************************************************)
RegInv ==
    \A h \in Harts : /\ at[h] = "store_tokens" => reg[h] = tokens[Bar]
                     /\ at[h] = "store_passed" => reg[h] = passed[Bar]

Before == {"out", "acquire1", "load_tokens", "store_tokens"}
Between == {"release1", "test_last", "wait_tokens"}

(***************************************************************************)
(* The six phases of a use of the barrier by h and g: nobody has taken a   *)
(* token; h has; both have; h has reset; g has left before h; h has left   *)
(* before g.                                                               *)
(***************************************************************************)
Phase0(h, g) ==
    /\ at[h] \in Before /\ at[g] \in Before
    /\ completed(h) = completed(g)
    /\ tokens[Bar] = 2

Phase1(h, g) ==
    /\ at[h] \in Between /\ at[g] \in Before
    /\ completed(h) = completed(g)
    /\ tokens[Bar] = 1

Phase2(h, g) ==
    /\ at[h] \in Between \cup {"set_passed", "reset_tokens"}
    /\ at[g] \in Between \cup {"set_passed", "reset_tokens"}
    /\ at[h] # "wait_tokens" \/ at[g] # "wait_tokens"
    /\ completed(h) = completed(g)
    /\ tokens[Bar] = 0
    /\ at[h] = "reset_tokens" \/ at[g] = "reset_tokens" => passed[Bar] = 1

Phase3(h, g) ==
    /\ at[h] = "wait_passed"
    /\ at[g] \notin Before
    /\ completed(h) = completed(g)
    /\ tokens[Bar] = 2
    /\ passed[Bar] = IF at[g] = "release2" THEN 2 ELSE 1

Phase4(h, g) ==
    /\ at[h] = "wait_passed"
    /\ passed[Bar] = 2
    /\ completed(g) = completed(h) + 1
    /\ \/ at[g] \in Before /\ tokens[Bar] = 2
       \/ at[g] \in Between /\ tokens[Bar] = 1

Phase5(h, g) ==
    /\ at[g] = "release2"
    /\ at[h] \in {"out", "acquire1"}
    /\ completed(h) = completed(g) + 1
    /\ tokens[Bar] = 2

Phase(h, g) == Phase0(h, g) \/ Phase1(h, g) \/ Phase2(h, g)
                 \/ Phase3(h, g) \/ Phase4(h, g) \/ Phase5(h, g)

CounterInv ==
    /\ initial[Bar] = 2
    /\ passed[Bar] \in 0 .. 2
    /\ RegInv
    /\ \A h \in Harts : at[h] # "out" => round[h] >= 1

TwoHartInv ==
    /\ CounterInv
    /\ \A h, g \in Harts : h # g => Phase(h, g) \/ Phase(g, h)

LEMMA TwoHarts ==
    ASSUME Cardinality(Harts) = 2
    PROVE  \E h, g \in Harts : h # g /\ Harts = {h, g}
<1>1. PICK h \in Harts : TRUE
  BY HartsAssumption
<1>2. IsFiniteSet(Harts \ {h}) /\ Cardinality(Harts \ {h}) = 1
  BY <1>1, HartsAssumption, FS_RemoveElement
<1>3. PICK g : Harts \ {h} = {g}
  BY <1>2, FS_Singleton
<1> QED
  BY <1>1, <1>3

LEMMA TwoHartStep ==
    ASSUME NEW h \in Harts, NEW g \in Harts, h # g, Harts = {h, g},
           TypeInv, LockInv, CounterInv, Phase(h, g),
           NEW x \in {h, g}, hart(x)
    PROVE  CounterInv' /\ (Phase(h, g) \/ Phase(g, h))'
<1> USE BarsAssumption, RoundsAssumption
    DEF TypeInv, WB_TypeOK, LockInv, LockExclusive, LockedLabels, CounterInv,
        RegInv, Phase, Phase0, Phase1, Phase2, Phase3, Phase4, Phase5,
        completed, Before, Between, Labels, LastLabels, goto
<1>1. CASE call(x)
  BY <1>1 DEF call, call_wait_barrier
<1>2. CASE inside(x)
  <2>0. UNCHANGED round
    BY <1>2 DEF inside
  <2> USE <2>0 DEF bar_vars
  <2>1. CASE acquire(x, Bar, "acquire1", "load_tokens")
    BY <2>1 DEF acquire
  <2>2. CASE load_tokens(x, Bar)
    BY <2>2 DEF load_tokens
  <2>3. CASE store_tokens(x, Bar)
    BY <2>3 DEF store_tokens
  <2>4. CASE release(x, Bar, "release1", "test_last")
    BY <2>4 DEF release
  <2>5. CASE test_last(x, Bar)
    BY <2>5 DEF test_last, LAST_HART
  <2>6. CASE set_passed(x, Bar)
    BY <2>6 DEF set_passed
  <2>7. CASE reset_tokens(x, Bar)
    BY <2>7 DEF reset_tokens
  <2>8. CASE wait_passed(x, Bar)
    BY <2>8 DEF wait_passed
  <2>9. CASE wait_tokens(x, Bar)
    BY <2>9 DEF wait_tokens
  <2>10. CASE acquire(x, Bar, "acquire2", "load_passed")
    BY <2>10 DEF acquire
  <2>11. CASE load_passed(x, Bar)
    BY <2>11 DEF load_passed
  <2>12. CASE store_passed(x, Bar)
    BY <2>12 DEF store_passed
  <2>13. CASE release(x, Bar, "release2", "out")
    BY <2>13 DEF release
  <2> QED
    BY <1>2, <2>1, <2>2, <2>3, <2>4, <2>5, <2>6, <2>7, <2>8, <2>9, <2>10,
       <2>11, <2>12, <2>13 DEF inside, wait_barrier
<1> QED
  BY <1>1, <1>2 DEF hart

LEMMA TwoHartInductive ==
    ASSUME Cardinality(Harts) = 2
    PROVE  /\ Init => TwoHartInv
           /\ TypeInv /\ LockInv /\ TwoHartInv /\ [Next]_vars => TwoHartInv'
<1>1. Init => TwoHartInv
  BY BarsAssumption
     DEF Init, WB_Init, BARRIER_INITIALIZER, TwoHartInv, CounterInv, RegInv,
         Phase, Phase0, completed, Before
<1>2. TypeInv /\ LockInv /\ TwoHartInv /\ [Next]_vars => TwoHartInv'
  <2> SUFFICES ASSUME TypeInv, LockInv, TwoHartInv, [Next]_vars
               PROVE  TwoHartInv'
    OBVIOUS
  <2>1. PICK h \in Harts, g \in Harts : h # g /\ Harts = {h, g}
    BY TwoHarts
  <2>2. CASE \E x \in Harts : hart(x)
    <3>1. PICK x \in {h, g} : hart(x)
      BY <2>1, <2>2
    <3>2. CASE Phase(h, g)
      BY <2>1, <3>1, <3>2, TwoHartStep DEF TwoHartInv
    <3>3. CASE Phase(g, h)
      <4>1. x \in {g, h} /\ Harts = {g, h}
        BY <2>1, <3>1
      <4> QED
        BY <2>1, <3>1, <3>3, <4>1, TwoHartStep DEF TwoHartInv
    <3> QED
      BY <2>1, <3>2, <3>3 DEF TwoHartInv
  <2>3. CASE UNCHANGED vars
    BY <2>3 DEF vars, TwoHartInv, CounterInv, RegInv, Phase, Phase0, Phase1,
       Phase2, Phase3, Phase4, Phase5, completed
  <2> QED
    BY <2>2, <2>3 DEF Next
<1> QED
  BY <1>1, <1>2

(***************************************************************************)
(* With two harts the barrier separates the code before it from the code   *)
(* after it in every use, however often it is reused, no hart starts the   *)
(* next use before the other has seen the reset, and tokens and passed     *)
(* stay between 0 and 2 (wait_barrier, lock.c:37-54).                      *)
(***************************************************************************)
THEOREM TwoHartBarrier ==
    ASSUME Cardinality(Harts) = 2
    PROVE  Spec => [](TypeOK /\ BarrierSafe /\ NoLapping)
<1>1. TypeInv /\ TwoHartInv => TypeOK /\ BarrierSafe /\ NoLapping
  <2> SUFFICES ASSUME TypeInv, TwoHartInv PROVE TypeOK /\ BarrierSafe /\ NoLapping
    OBVIOUS
  <2> USE RoundsAssumption
      DEF TypeInv, WB_TypeOK, TwoHartInv, CounterInv, Phase, Phase0, Phase1,
          Phase2, Phase3, Phase4, Phase5, completed, Before, Between
  <2>1. PICK h \in Harts, g \in Harts : h # g
    BY TwoHarts
  <2>2. TypeOK
    BY <2>1 DEF TypeOK
  <2>3. BarrierSafe
    BY DEF BarrierSafe
  <2>4. NoLapping
    BY DEF NoLapping
  <2> QED
    BY <2>2, <2>3, <2>4
<1> QED
  BY <1>1, TypeInductive, LockInductive, TwoHartInductive, PTL DEF Spec

(***************************************************************************)
(* With two harts tokens and passed stay between 0 and 2, so that neither  *)
(* tokens-- nor passed++ leaves the range of the counters (lock.c:40-52).  *)
(***************************************************************************)
COROLLARY TwoHartBarrierTypes ==
    ASSUME Cardinality(Harts) = 2
    PROVE  Spec => []TypeOK
BY TwoHartBarrier, PTL

(***************************************************************************)
(* With two harts nobody begins a use before the other has seen the reset  *)
(* of the previous one (lock.c:47-52).                                     *)
(***************************************************************************)
COROLLARY TwoHartBarrierNoLapping ==
    ASSUME Cardinality(Harts) = 2
    PROVE  Spec => []NoLapping
BY TwoHartBarrier, PTL

-----------------------------------------------------------------------------
(***************************************************************************)
(* Any number of harts, one use.  Coming is the set of harts that have not *)
(* taken their token yet.  Until it is empty, tokens counts it, so nobody  *)
(* finds tokens = 0 and, some token being gone, nobody finds it reset.     *)
(***************************************************************************)
IsComing(h) ==
    \/ at[h] \in {"acquire1", "load_tokens", "store_tokens"}
    \/ at[h] = "out" /\ round[h] = 0

Coming == {h \in Harts : IsComing(h)}

OneUseInv ==
    /\ initial[Bar] = Cardinality(Harts)
    /\ \A h \in Harts : at[h] # "out" => round[h] = 1
    /\ Coming # {} =>
         /\ tokens[Bar] = Cardinality(Coming)
         /\ \A h \in Harts : at[h] = "store_tokens" => reg[h] = tokens[Bar]
         /\ \A h \in Harts : IsComing(h) \/ at[h] \in Between

LEMMA ComingFinite ==
    /\ IsFiniteSet(Coming)
    /\ Cardinality(Coming) \in Nat
    /\ Cardinality(Harts) \in Nat
    /\ Coming # {} => Cardinality(Coming) > 0
    /\ \A h \in Harts \ Coming : Cardinality(Coming) < Cardinality(Harts)
<1>1. Coming \in SUBSET Harts
  BY DEF Coming
<1>2. IsFiniteSet(Coming) /\ Cardinality(Coming) <= Cardinality(Harts)
      /\ (Cardinality(Harts) = Cardinality(Coming) => Harts = Coming)
  BY <1>1, HartsAssumption, FS_Subset
<1>3. Cardinality(Coming) \in Nat /\ Cardinality(Harts) \in Nat
  BY <1>2, HartsAssumption, FS_CardinalityType
<1>4. Coming # {} => Cardinality(Coming) # 0
  BY <1>2, FS_EmptySet
<1> QED
  BY <1>2, <1>3, <1>4

LEMMA OneUseInductive ==
    ASSUME MaxRounds = 1
    PROVE  /\ Init => OneUseInv
           /\ TypeInv /\ LockInv /\ OneUseInv /\ [Next]_vars => OneUseInv'
<1>1. Init => OneUseInv
  <2> SUFFICES ASSUME Init PROVE OneUseInv
    OBVIOUS
  <2>1. Coming = Harts
    BY DEF Init, WB_Init, Coming, IsComing
  <2> QED
    BY <2>1, BarsAssumption
       DEF Init, WB_Init, BARRIER_INITIALIZER, OneUseInv, Coming
<1>2. TypeInv /\ LockInv /\ OneUseInv /\ [Next]_vars => OneUseInv'
  <2> SUFFICES ASSUME TypeInv, LockInv, OneUseInv, [Next]_vars PROVE OneUseInv'
    OBVIOUS
  <2> USE BarsAssumption DEF TypeInv, WB_TypeOK, OneUseInv, Between, goto
  <2>1. ASSUME NEW x \in Harts, call(x) PROVE OneUseInv'
    <3>1. round[x] = 0 /\ round'[x] = 1
      BY <2>1 DEF call
    <3>2. \A h \in Harts : IsComing(h)' <=> IsComing(h)
      BY <2>1, <3>1 DEF call, call_wait_barrier, IsComing
    <3>3. Coming' = Coming
      BY <3>2 DEF Coming
    <3> QED
      BY <2>1, <3>1, <3>2, <3>3 DEF call, call_wait_barrier
  <2>2. ASSUME NEW x \in Harts, inside(x) PROVE OneUseInv'
    <3>0. UNCHANGED round
      BY <2>2 DEF inside
    <3> USE <3>0 DEF bar_vars
    <3>1. CASE store_tokens(x, Bar)
      <4>1. x \in Coming
        BY <3>1 DEF store_tokens, Coming, IsComing
      <4>2. Coming' = Coming \ {x}
        BY <3>1 DEF store_tokens, Coming, IsComing
      <4>3. Cardinality(Coming') = Cardinality(Coming) - 1
        BY <4>1, <4>2, ComingFinite, FS_RemoveElement
      <4>4. tokens'[Bar] = Cardinality(Coming')
        BY <3>1, <4>1, <4>3 DEF store_tokens
      <4>5. \A h \in Harts : at'[h] # "store_tokens"
        BY <3>1 DEF store_tokens, LockInv, LockExclusive, LockedLabels
      <4>6. \A h \in Harts : IsComing(h)' \/ at'[h] \in Between
        BY <3>1, <4>1 DEF store_tokens, IsComing
      <4> QED
        BY <3>1, <4>4, <4>5, <4>6 DEF store_tokens
    <3>2. CASE /\ Coming # {}
               /\ ~ store_tokens(x, Bar)
      <4>1. /\ tokens[Bar] # 0
            /\ x \notin Coming => tokens[Bar] # initial[Bar]
        BY <3>2, ComingFinite
      <4>2. IsComing(x) \/ at[x] \in Between
        BY <3>2
      <4>3. \/ acquire(x, Bar, "acquire1", "load_tokens")
            \/ load_tokens(x, Bar)
            \/ release(x, Bar, "release1", "test_last")
            \/ test_last(x, Bar) /\ at'[x] = "wait_tokens"
        BY <2>2, <3>2, <4>1, <4>2
           DEF inside, wait_barrier, acquire, load_tokens, release, test_last,
               set_passed, reset_tokens, wait_passed, wait_tokens, load_passed,
               store_passed, LAST_HART, Coming, IsComing
      <4>4. \A h \in Harts : IsComing(h)' <=> IsComing(h)
        BY <4>3 DEF acquire, load_tokens, release, test_last, IsComing
      <4>5. Coming' = Coming
        BY <4>4 DEF Coming
      <4>6. UNCHANGED <<tokens, initial>>
        BY <4>3 DEF acquire, load_tokens, release, test_last
      <4>7. \A h \in Harts : at'[h] = "store_tokens" => reg'[h] = tokens'[Bar]
        BY <3>2, <4>3 DEF acquire, load_tokens, release, test_last
      <4>8. \A h \in Harts : IsComing(h)' \/ at'[h] \in Between
        BY <3>2, <4>3, <4>4 DEF acquire, load_tokens, release, test_last, IsComing
      <4>9. \A h \in Harts : at'[h] # "out" => round[h] = 1
        BY <4>3 DEF acquire, load_tokens, release, test_last
      <4> QED
        BY <3>2, <4>5, <4>6, <4>7, <4>8, <4>9
    <3>3. CASE Coming = {} /\ ~ store_tokens(x, Bar)
      <4>1. at[x] # "out" /\ ~ IsComing(x)
        BY <2>2, <3>3
           DEF inside, wait_barrier, acquire, load_tokens, release, test_last,
               set_passed, reset_tokens, wait_passed, wait_tokens, load_passed,
               store_passed, Coming
      <4>2. /\ UNCHANGED initial
            /\ \A h \in Harts : h # x => at'[h] = at[h]
            /\ at'[x] \notin {"acquire1", "load_tokens", "store_tokens"}
        BY <2>2, <4>1, <3>3
           DEF inside, wait_barrier, acquire, load_tokens, release, test_last,
               set_passed, reset_tokens, wait_passed, wait_tokens, load_passed,
               store_passed, IsComing
      <4>3. round[x] = 1
        BY <4>1
      <4>4. \A h \in Harts : ~ IsComing(h)'
        BY <3>3, <4>2, <4>3 DEF Coming, IsComing
      <4>5. Coming' = {}
        BY <4>4 DEF Coming
      <4> QED
        BY <4>2, <4>3, <4>5
    <3> QED
      BY <3>1, <3>2, <3>3
  <2>3. CASE UNCHANGED vars
    <3>1. Coming' = Coming /\ \A h \in Harts : IsComing(h)' <=> IsComing(h)
      BY <2>3 DEF vars, Coming, IsComing
    <3> QED
      BY <2>3, <3>1 DEF vars
  <2> QED
    BY <2>1, <2>2, <2>3 DEF Next, hart
<1> QED
  BY <1>1, <1>2

(***************************************************************************)
(* The first use of a barrier separates any number of harts correctly: the *)
(* unlocked test of tokens (lock.c:44) can make two harts believe they are *)
(* the last one, but never lets anybody out before everybody came.         *)
(***************************************************************************)
THEOREM OneUseBarrier ==
    ASSUME MaxRounds = 1
    PROVE  Spec => []BarrierSafe
<1>1. TypeInv /\ OneUseInv => BarrierSafe
  BY DEF TypeInv, WB_TypeOK, OneUseInv, BarrierSafe, Coming, IsComing, Between
<1> QED
  BY <1>1, TypeInductive, LockInductive, OneUseInductive, PTL DEF Spec
=============================================================================
