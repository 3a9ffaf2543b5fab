------------------------------ MODULE VMemProofs -----------------------------
(***************************************************************************)
(* The page tables of vmem.c, for every number of harts, levels, entries   *)
(* and pages and every configuration: the tables and the RAM of a VM are   *)
(* its own, no entry is changed once it is there, and a hart that is done  *)
(* has mapped its regions and nothing else.                                *)
(***************************************************************************)
EXTENDS VMem, Integers, Induction, TLAPS

\* The function Power is computed with.
LEMMA PowerFunction ==
    ASSUME NEW b \in Nat \ {0}, NEW n \in Nat
    PROVE  \E t \in [0 .. n -> Nat \ {0}] :
              t[0] = 1 /\ (\A k \in 1 .. n : t[k] = b * t[k - 1]) /\ Power(b, n) = t[n]
<1> DEFINE D == Nat \ {0}
           step == [x \in Nat \X D |-> b * x[2]]
           F(p) == [k \in 0 .. n |-> IF k = 0 THEN 1 ELSE b * p[k - 1]]
<1>1. step \in [Nat \X D -> D]
  <2>1. \A d \in D : b * d \in D
    OBVIOUS
  <2> QED
    BY <2>1
<1>2. PICK t \in [0 .. n -> D] : Recursive(t, 1, step, n)
  <2>1. 1 \in D
    OBVIOUS
  <2> HIDE DEF D, step
  <2> QED
    BY <1>1, <2>1, RecursiveExists
<1>3. t = F(t)
  <2>1. ASSUME NEW k \in 0 .. n PROVE t[k] = F(t)[k]
    <3>1. CASE k = 0
      BY <1>2, <3>1 DEF Recursive
    <3>2. CASE k # 0
      <4>1. k \in 1 .. n /\ k - 1 \in 0 .. n /\ t[k - 1] \in D
        BY <3>2
      <4>2. t[k] = step[<<k, t[k - 1]>>]
        <5> HIDE DEF step
        <5> QED
          BY <1>2, <4>1 DEF Recursive
      <4>3. step[<<k, t[k - 1]>>] = b * t[k - 1]
        BY <4>1
      <4> QED
        BY <3>2, <4>2, <4>3
    <3> QED
      BY <3>1, <3>2
  <2> QED
    BY <2>1
<1> DEFINE p == CHOOSE q : q = F(q)
<1>4. Power(b, n) = p[n]
  BY DEF Power
<1>5. p = F(p)
  BY <1>3
<1> HIDE DEF p
<1> DEFINE T == {k \in 0 .. n : p[k] \notin D}
<1>6. T = {}
  <2> SUFFICES ASSUME T # {} PROVE FALSE
    OBVIOUS
  <2>1. PICK m \in T : \A k \in T : m <= k
    <3>1. T \in SUBSET Nat
      OBVIOUS
    <3> HIDE DEF T
    <3> QED
      BY <3>1, LeastNumber
  <2>2. m # 0
    BY <1>5, <2>1
  <2>3. m - 1 \in 0 .. n /\ p[m - 1] \in D
    BY <2>1, <2>2
  <2>4. p[m] = b * p[m - 1]
    BY <1>5, <2>1, <2>2
  <2> QED
    BY <2>1, <2>3, <2>4
<1>7. p \in [0 .. n -> D]
  <2>1. p = [k \in 0 .. n |-> p[k]]
    BY <1>5
  <2>2. \A k \in 0 .. n : p[k] \in D
    BY <1>6
  <2> HIDE DEF D
  <2> QED
    BY <2>1, <2>2
<1>8. p[0] = 1 /\ \A k \in 1 .. n : p[k] = b * p[k - 1]
  BY <1>5
<1> QED
  BY <1>4, <1>7, <1>8

\* The weight of an index bit field is a positive number.
LEMMA PowerType ==
    ASSUME NEW b \in Nat \ {0}, NEW n \in Nat
    PROVE  Power(b, n) \in Nat \ {0}
<1>1. PICK t \in [0 .. n -> Nat \ {0}] : Power(b, n) = t[n]
  BY PowerFunction
<1>2. n \in 0 .. n
  OBVIOUS
<1> QED
  BY <1>1, <1>2

\* An index is one of the table's entries: 4 * W at most, and W below the root.
LEMMA IndexType ==
    ASSUME NEW a \in Nat, NEW l \in Nat, NEW x
    PROVE  va2idx(a, l, x) \in 0 .. 4 * W - 1
<1>1. Power(W, l) \in Nat \ {0}
  BY PowerType, VMemAssumption
<1> DEFINE d == PAGE_SIZE * Power(W, l)
           m == IF l = LEVELS - 1 /\ x THEN 4 * W ELSE W
<1>2. d \in Nat \ {0}
  BY <1>1, VMemAssumption
<1>3. m \in 1 .. 4 * W
  BY VMemAssumption
<1>4. va2idx(a, l, x) = (a \div d) % m
  BY DEF va2idx
<1> HIDE DEF d, m
<1>5. a \div d \in Nat
  BY <1>2
<1> QED
  BY <1>3, <1>4, <1>5, VMemAssumption
-----------------------------------------------------------------------------
(***************************************************************************)
(* The inductive invariant.  Every page of Tables that is not free has a   *)
(* place: rt[t] is the root it belongs to, and dp[t] its distance from     *)
(* that root, where the tables with the leaf entries are at LEVELS - 1 and *)
(* the RAM of a VM is at LEVELS.  A place is given with the page and never *)
(* changes, so a page belongs to one root for good.                        *)
(***************************************************************************)
Child(rt, dp, p, r, d) == p \in Pool \ free /\ rt[p] = r /\ dp[p] = d

\* What the VM of hart h may reach.
Leaf(rt, dp, p, h) == p \in Configured(h) \/ Child(rt, dp, p, VmRoot[h], LEVELS)

\* An entry of table t that leads to page p.
EntryOK(rt, dp, t, p) ==
    /\ t \in Tables \ free /\ dp[t] < LEVELS
    /\ dp[t] < LEVELS - 1 => Child(rt, dp, p, rt[t], dp[t] + 1)
    /\ dp[t] = LEVELS - 1 => \A h \in Harts : rt[t] = VmRoot[h] => Leaf(rt, dp, p, h)

\* A hart in walk is in a table of its root, as deep as its level says.
WalkOK(rt, dp, h) ==
    pc[h] = "walk" =>
        /\ tbl[h] \in Tables \ free
        /\ rt[tbl[h]] = root[h] /\ dp[tbl[h]] = LEVELS - 1 - level[h]
        /\ root[h] = VmRoot[h] => Leaf(rt, dp, pa[h] \div PAGE_SIZE, h)

Placed(rt, dp) ==
    /\ \A r \in Roots : rt[r] = r /\ dp[r] = 0
    /\ \A h \in Harts : kroot[h] # 0 => Child(rt, dp, kroot[h], kroot[h], 0)
    /\ \A x \in DOMAIN pte : EntryOK(rt, dp, x[1], pte[x].ppn)
    /\ \A h \in Harts : WalkOK(rt, dp, h)

\* Which root a hart works on, and what is left to map there.
ControlOf(h) ==
    /\ root[h] = VmRoot[h] =>
         /\ conf[h] # NONE
         /\ \A i \in DOMAIN todo[h] : \E j \in DOMAIN VmRegions(conf[h]) :
              todo[h][i] = VmRegions(conf[h])[j]
    /\ root[h] # VmRoot[h] => \A x \in DOMAIN pte : x[1] # VmRoot[h]
    /\ pc[h] \in {"init_vmem", "init_hs_pgtable"} => root[h] # VmRoot[h]
    /\ pc[h] \in {"map_pages", "walk"} =>
         root[h] # 0 /\ (root[h] = kroot[h] \/ root[h] = VmRoot[h])
    /\ pc[h] = "walk" => todo[h] # <<>>

Control == todo \in [Harts -> Seq(Regions)] /\ \A h \in Harts : ControlOf(h)

HasPlaces == \E rt \in [Tables -> Tables], dp \in [Tables -> Nat] : Placed(rt, dp)

Inv == TypeOK /\ Control /\ HasPlaces
-----------------------------------------------------------------------------
LEMMA RootsApart ==
    /\ \A h \in Harts : VmRoot[h] \in Roots /\ VmRoot[h] \notin Pool /\ VmRoot[h] # 0
    /\ 0 \notin Pool /\ Tables \subseteq Nat /\ Roots \subseteq Tables /\ Pool \subseteq Tables
    /\ Roots \cap Pool = {}
BY VMemAssumption, LayoutAssumption DEF Roots, Tables

\* The pages configured for a VM are never tables or pages of the allocator.
LEMMA ConfiguredApart ==
    ASSUME TypeOK, NEW h \in Harts
    PROVE  Configured(h) \cap Tables = {}
BY LayoutAssumption DEF TypeOK, Configured

(***************************************************************************)
(* The recursion of TablesAt: at distance n from r are tables placed there.*)
(***************************************************************************)
LEMMA TablesPlaced ==
    ASSUME NEW rt, NEW dp, \A x \in DOMAIN pte : EntryOK(rt, dp, x[1], pte[x].ppn),
           NEW r \in Tables \ free, rt[r] = r, dp[r] = 0
    PROVE  \A n \in 0 .. LEVELS - 1 :
              TablesAt(r)[n] \subseteq {t \in Tables \ free : rt[t] = r /\ dp[t] = n}
<1> DEFINE D == SUBSET (Tables \cup {pte[x].ppn : x \in DOMAIN pte})
           below(S) == {pte[x].ppn : x \in {y \in DOMAIN pte : y[1] \in S}}
           step == [x \in Nat \X D |-> below(x[2])]
           F(f) == [n \in 0 .. LEVELS - 1 |-> IF n = 0 THEN {r} ELSE below(f[n - 1])]
           t == CHOOSE f : f = F(f)
<1>0. LEVELS - 1 \in Nat
  BY VMemAssumption
<1>1. step \in [Nat \X D -> D]
  OBVIOUS
<1>2. PICK f \in [0 .. LEVELS - 1 -> D] : Recursive(f, {r}, step, LEVELS - 1)
  <2>1. {r} \in D
    OBVIOUS
  <2> HIDE DEF D, step
  <2> QED
    BY <1>0, <1>1, <2>1, RecursiveExists
<1>3. f = F(f)
  <2>1. ASSUME NEW n \in 0 .. LEVELS - 1 PROVE f[n] = F(f)[n]
    <3>1. CASE n = 0
      BY <1>2, <3>1 DEF Recursive
    <3>2. CASE n # 0
      <4>1. n \in 1 .. LEVELS - 1 /\ n - 1 \in 0 .. LEVELS - 1 /\ f[n - 1] \in D
        <5> HIDE DEF D
        <5> QED
          BY <1>0, <3>2
      <4>2. f[n] = step[<<n, f[n - 1]>>]
        <5> HIDE DEF step
        <5> QED
          BY <1>2, <4>1 DEF Recursive
      <4>3. step[<<n, f[n - 1]>>] = below(f[n - 1])
        <5> HIDE DEF below, D
        <5> QED
          BY <4>1
      <4> HIDE DEF below, step, D
      <4> QED
        BY <3>2, <4>2, <4>3
    <3> QED
      BY <3>1, <3>2
  <2> HIDE DEF below, D
  <2> QED
    BY <2>1
<1>4. TablesAt(r) = t
  BY DEF TablesAt
<1>5. t = F(t)
  <2> HIDE DEF below
  <2> QED
    BY <1>3
<1> HIDE DEF t
<1> DEFINE At(n) == {q \in Tables \ free : rt[q] = r /\ dp[q] = n}
           T == {n \in 0 .. LEVELS - 1 : ~ (t[n] \subseteq At(n))}
<1>6. T = {}
  <2> SUFFICES ASSUME T # {} PROVE FALSE
    OBVIOUS
  <2>1. PICK m \in T : \A n \in T : m <= n
    <3>1. T \in SUBSET Nat
      BY <1>0
    <3> HIDE DEF T
    <3> QED
      BY <3>1, LeastNumber
  <2>2. m # 0
    BY <1>5, <2>1
  <2>3. m - 1 \in 0 .. LEVELS - 1 /\ t[m - 1] \subseteq At(m - 1)
    BY <1>0, <2>1, <2>2
  <2>4. t[m] = below(t[m - 1])
    <3> HIDE DEF below
    <3> QED
      BY <1>5, <2>1, <2>2
  <2>5. ASSUME NEW x \in DOMAIN pte, x[1] \in t[m - 1] PROVE pte[x].ppn \in At(m)
    <3>1. x[1] \in At(m - 1)
      BY <2>3, <2>5
    <3>2. Child(rt, dp, pte[x].ppn, r, m)
      BY <1>0, <2>1, <2>2, <3>1 DEF EntryOK
    <3> QED
      BY <3>2 DEF Child, Tables
  <2> QED
    BY <2>1, <2>4, <2>5
<1> QED
  BY <1>4, <1>6

\* Pages with a place are isolated.
LEMMA PlacedIsolated == Inv => Isolated
<1> SUFFICES ASSUME Inv PROVE Isolated
  OBVIOUS
<1>1. PICK rt \in [Tables -> Tables], dp \in [Tables -> Nat] : Placed(rt, dp)
  BY DEF Inv, HasPlaces
<1> DEFINE roots == (Roots \cup {kroot[h] : h \in Harts}) \ {0}
           all == UNION {TablesOf(r) : r \in roots}
<1>2. \A r \in roots : r \in Tables \ free /\ rt[r] = r /\ dp[r] = 0
  BY <1>1, RootsApart DEF Placed, Child, Inv, TypeOK
<1>3. \A r \in roots : \A n \in 0 .. LEVELS - 1 :
        TablesAt(r)[n] \subseteq {t \in Tables \ free : rt[t] = r /\ dp[t] = n}
  <2> TAKE r \in roots
  <2>1. r \in Tables \ free /\ rt[r] = r /\ dp[r] = 0
    BY <1>2
  <2>2. \A x \in DOMAIN pte : EntryOK(rt, dp, x[1], pte[x].ppn)
    BY <1>1 DEF Placed
  <2> HIDE DEF roots
  <2> QED
    BY <2>1, <2>2, TablesPlaced
<1> HIDE DEF roots
<1>4. \A r \in roots : TablesOf(r) \subseteq {t \in Tables \ free : rt[t] = r /\ dp[t] < LEVELS}
  <2> TAKE r \in roots
  <2>1. ASSUME NEW n \in 0 .. LEVELS - 1, NEW t \in TablesAt(r)[n]
        PROVE  t \in Tables \ free /\ rt[t] = r /\ dp[t] < LEVELS
    BY <1>3, VMemAssumption
  <2> QED
    BY <2>1 DEF TablesOf
<1>5. \A h \in Harts : GuestPages(h) \subseteq
        Configured(h) \cup {p \in Pool \ free : rt[p] = VmRoot[h] /\ dp[p] = LEVELS}
  <2> TAKE h \in Harts
  <2>1. VmRoot[h] \in roots
    BY RootsApart DEF roots
  <2>2. LEVELS - 1 \in 0 .. LEVELS - 1
    BY VMemAssumption
  <2>3. ASSUME NEW x \in DOMAIN pte, x[1] \in TablesAt(VmRoot[h])[LEVELS - 1]
        PROVE  Leaf(rt, dp, pte[x].ppn, h)
    <3>1. rt[x[1]] = VmRoot[h] /\ dp[x[1]] = LEVELS - 1
      BY <1>3, <2>1, <2>2, <2>3
    <3> QED
      BY <1>1, <3>1 DEF Placed, EntryOK
  <2> QED
    BY <2>3 DEF GuestPages, Leaf, Child
<1>6. all \subseteq {t \in Tables \ free : dp[t] < LEVELS}
  BY <1>4
<1>7. all \cap free = {}
  BY <1>6
<1>8. \A q, r \in roots : q # r => TablesOf(q) \cap TablesOf(r) = {}
  BY <1>4
<1>9. \A h \in Harts : GuestPages(h) \cap (all \cup free) = {}
  <2> TAKE h \in Harts
  <2>1. Configured(h) \cap (all \cup free) = {}
    BY <1>6, ConfiguredApart, RootsApart DEF Inv, TypeOK
  <2>2. \A p \in Pool \ free : dp[p] = LEVELS => p \notin all \cup free
    BY <1>6, VMemAssumption
  <2> HIDE DEF all
  <2> QED
    BY <1>5, <2>1, <2>2
<1>10. \A g, h \in Harts : g # h =>
         GuestPages(g) \cap GuestPages(h) \subseteq Configured(g) \cap Configured(h)
  <2> SUFFICES ASSUME NEW g \in Harts, NEW h \in Harts, g # h,
                      NEW p \in GuestPages(g) \cap GuestPages(h)
               PROVE  p \in Configured(g) /\ p \in Configured(h)
    OBVIOUS
  <2>1. VmRoot[g] # VmRoot[h]
    BY LayoutAssumption
  <2>2. p \in Configured(g) => p \notin Pool
    BY ConfiguredApart, RootsApart DEF Inv
  <2>3. p \in Configured(h) => p \notin Pool
    BY ConfiguredApart, RootsApart DEF Inv
  <2> QED
    BY <1>5, <2>1, <2>2, <2>3
<1> QED
  BY <1>7, <1>8, <1>9, <1>10 DEF Isolated, roots
-----------------------------------------------------------------------------
\* A page that leaves the free list gets a place; all the others keep theirs.
Grown(rt, dp, p, r, d, rt2, dp2) ==
    /\ rt2 \in [Tables -> Tables] /\ dp2 \in [Tables -> Nat]
    /\ \A t \in Tables : t # p => rt2[t] = rt[t] /\ dp2[t] = dp[t]
    /\ Child(rt2, dp2, p, r, d)'
    /\ \A q, s, e : Child(rt, dp, q, s, e) => Child(rt2, dp2, q, s, e)'
    /\ \A q : \A h \in Harts : Leaf(rt, dp, q, h) => Leaf(rt2, dp2, q, h)'
    /\ \A t, q : EntryOK(rt, dp, t, q) => EntryOK(rt2, dp2, t, q)'

LEMMA Allocated ==
    ASSUME NEW rt \in [Tables -> Tables], NEW dp \in [Tables -> Nat],
           NEW p \in free, free \subseteq Pool, free' = free \ {p}, UNCHANGED conf,
           NEW r \in Tables, NEW d \in Nat
    PROVE  Grown(rt, dp, p, r, d, [rt EXCEPT ![p] = r], [dp EXCEPT ![p] = d])
<1>r. PICK rt2, dp2 : rt2 = [rt EXCEPT ![p] = r] /\ dp2 = [dp EXCEPT ![p] = d]
  OBVIOUS
<1>0. Pool \subseteq Tables
  BY RootsApart
<1>1. /\ rt2 \in [Tables -> Tables] /\ dp2 \in [Tables -> Nat]
      /\ \A t \in Tables : t # p => rt2[t] = rt[t] /\ dp2[t] = dp[t]
      /\ rt2[p] = r /\ dp2[p] = d
  BY <1>0, <1>r
<1>2. Child(rt2, dp2, p, r, d)'
  BY <1>1 DEF Child
<1>3. ASSUME NEW q, NEW s, NEW e, Child(rt, dp, q, s, e) PROVE Child(rt2, dp2, q, s, e)'
  BY <1>0, <1>1, <1>3 DEF Child
<1>4. ASSUME NEW q, NEW h \in Harts, Leaf(rt, dp, q, h) PROVE Leaf(rt2, dp2, q, h)'
  <2>1. Configured(h)' = Configured(h)
    BY DEF Configured
  <2> QED
    BY <1>3, <1>4, <2>1 DEF Leaf
<1>5. ASSUME NEW t, NEW q, EntryOK(rt, dp, t, q) PROVE EntryOK(rt2, dp2, t, q)'
  <2>1. t \in Tables \ free /\ rt2[t] = rt[t] /\ dp2[t] = dp[t]
    BY <1>1, <1>5 DEF EntryOK
  <2> QED
    BY <1>3, <1>4, <1>5, <2>1 DEF EntryOK
<1>6. Grown(rt, dp, p, r, d, rt2, dp2)
  BY <1>1, <1>2, <1>3, <1>4, <1>5 DEF Grown
<1> QED
  BY <1>6, <1>r

\* The places stay good while pages and entries stay.
LEMMA Unmoved ==
    ASSUME NEW rt, NEW dp, UNCHANGED <<free, conf>>
    PROVE  /\ \A q, s, e : Child(rt, dp, q, s, e)' <=> Child(rt, dp, q, s, e)
           /\ \A q : \A h \in Harts : Leaf(rt, dp, q, h)' <=> Leaf(rt, dp, q, h)
           /\ \A t, q : EntryOK(rt, dp, t, q)' <=> EntryOK(rt, dp, t, q)
BY DEF EntryOK, Leaf, Child, Configured

Stays == \A x \in DOMAIN pte : x \in DOMAIN pte' /\ pte'[x] = pte[x]

\* An entry that is not there yet is added; the others stay.
LEMMA SetPte ==
    ASSUME NEW t, NEW i, NEW e, ~ valid(t, i), set_pte(t, i, e)
    PROVE  /\ DOMAIN pte' = DOMAIN pte \cup {<<t, i>>}
           /\ pte'[<<t, i>>] = e
           /\ Stays
BY DEF set_pte, valid, Stays

\* A table without entries is cleared.
LEMMA ClearEmpty ==
    ASSUME NEW t, \A x \in DOMAIN pte : x[1] # t, clear(t)
    PROVE  DOMAIN pte' = DOMAIN pte /\ Stays
BY DEF clear, Stays

\* An entry of the next state, by the page it leads to.
LEMMA EntryNext ==
    ASSUME NEW rt, NEW dp, NEW x, NEW q, q = pte'[x].ppn, EntryOK(rt, dp, x[1], q)'
    PROVE  EntryOK(rt, dp, x[1], pte[x].ppn)'
BY DEF EntryOK, Leaf, Child, Configured

LEMMA InitVmemStep ==
    ASSUME Inv, NEW h \in Harts, init_vmem(h), ~ out_of_memory(h)
    PROVE  Inv' /\ Stays
<1>1. PICK p \in Pool :
        /\ kmalloc(p) /\ clear(p)
        /\ kroot' = [kroot EXCEPT ![h] = p] /\ root' = [root EXCEPT ![h] = p]
        /\ todo' = [todo EXCEPT ![h] = KernelRegions[h]]
        /\ pc' = [pc EXCEPT ![h] = "map_pages"]
        /\ UNCHANGED <<conf, off, pa, level, tbl>>
  BY DEF init_vmem
<1>2. PICK rt \in [Tables -> Tables], dp \in [Tables -> Nat] : Placed(rt, dp)
  BY DEF Inv, HasPlaces
<1>3. p \in free /\ free' = free \ {p} /\ free \subseteq Pool /\ p \in Tables
  BY <1>1, RootsApart DEF kmalloc, Inv, TypeOK
<1>4. DOMAIN pte' = DOMAIN pte /\ Stays
  <2>1. \A x \in DOMAIN pte : x[1] # p
    BY <1>2, <1>3 DEF Placed, EntryOK
  <2> QED
    BY <1>1, <2>1, ClearEmpty
<1>5. TypeOK'
  BY <1>1, <1>3, <1>4, RootsApart DEF Inv, TypeOK, Stays
<1>6. Control'
  <2>1. todo' \in [Harts -> Seq(Regions)]
    BY <1>1, VMemAssumption DEF Inv, Control, ControlOf
  <2>2. ASSUME NEW g \in Harts, g # h
        PROVE  pc'[g] = pc[g] /\ root'[g] = root[g] /\ kroot'[g] = kroot[g] /\ todo'[g] = todo[g]
    BY <1>1, <2>2 DEF Inv, TypeOK, Control, ControlOf
  <2>3. pc'[h] = "map_pages" /\ root'[h] = p /\ kroot'[h] = p
    BY <1>1 DEF Inv, TypeOK
  <2>4. p # VmRoot[h] /\ p # 0
    BY RootsApart
  <2>5. \A x \in DOMAIN pte : x[1] # VmRoot[h]
    BY <1>1 DEF Inv, Control, ControlOf, init_vmem
  <2> QED
    BY <1>1, <1>4, <2>1, <2>2, <2>3, <2>4, <2>5 DEF Inv, Control, ControlOf
<1>7. HasPlaces'
  <2>0. PICK rt2, dp2 : Grown(rt, dp, p, p, 0, rt2, dp2)
    BY <1>1, <1>3, Allocated
  <2>1. /\ rt2 \in [Tables -> Tables] /\ dp2 \in [Tables -> Nat]
        /\ \A t \in Tables : t # p => rt2[t] = rt[t] /\ dp2[t] = dp[t]
        /\ Child(rt2, dp2, p, p, 0)'
        /\ \A q, s, e : Child(rt, dp, q, s, e) => Child(rt2, dp2, q, s, e)'
        /\ \A q : \A g \in Harts : Leaf(rt, dp, q, g) => Leaf(rt2, dp2, q, g)'
        /\ \A t, q : EntryOK(rt, dp, t, q) => EntryOK(rt2, dp2, t, q)'
    BY <2>0 DEF Grown
  <2>2. \A r \in Roots : rt2[r] = r /\ dp2[r] = 0
    BY <1>2, <2>1, RootsApart DEF Placed
  <2>3. \A g \in Harts : kroot'[g] # 0 => Child(rt2, dp2, kroot[g], kroot[g], 0)'
    <3> SUFFICES ASSUME NEW g \in Harts, kroot'[g] # 0
                 PROVE  Child(rt2, dp2, kroot[g], kroot[g], 0)'
      OBVIOUS
    <3>1. CASE g = h
      BY <1>1, <2>1, <3>1 DEF Inv, TypeOK, Child
    <3>2. CASE g # h
      <4>1. kroot'[g] = kroot[g]
        BY <1>1, <3>2 DEF Inv, TypeOK
      <4> QED
        BY <1>2, <2>1, <4>1 DEF Placed, Child
    <3> QED
      BY <3>1, <3>2
  <2>4. \A x \in DOMAIN pte' : EntryOK(rt2, dp2, x[1], pte[x].ppn)'
    <3> SUFFICES ASSUME NEW x \in DOMAIN pte' PROVE EntryOK(rt2, dp2, x[1], pte[x].ppn)'
      OBVIOUS
    <3>1. PICK q : q = pte[x].ppn /\ q = pte'[x].ppn
      BY <1>4 DEF Stays
    <3>2. EntryOK(rt2, dp2, x[1], q)'
      BY <1>2, <1>4, <2>1, <3>1 DEF Placed
    <3> QED
      BY <3>1, <3>2, EntryNext
  <2>5. \A g \in Harts : WalkOK(rt2, dp2, g)'
    BY <1>1, <1>2, <1>3, <2>1 DEF Placed, WalkOK, Inv, TypeOK
  <2> QED
    BY <2>1, <2>2, <2>3, <2>4, <2>5 DEF HasPlaces, Placed
<1> QED
  BY <1>4, <1>5, <1>6, <1>7 DEF Inv

OthersStay(h) ==
    \A g \in Harts : g # h =>
        /\ pc'[g] = pc[g] /\ root'[g] = root[g] /\ todo'[g] = todo[g] /\ off'[g] = off[g]
        /\ pa'[g] = pa[g] /\ level'[g] = level[g] /\ tbl'[g] = tbl[g]

\* A step that takes no page leaves every place as it is.
LEMMA SamePlaces ==
    ASSUME NEW rt \in [Tables -> Tables], NEW dp \in [Tables -> Nat], Placed(rt, dp),
           UNCHANGED <<conf, free, kroot>>, NEW h \in Harts, OthersStay(h),
           \A x \in DOMAIN pte' : \/ x \in DOMAIN pte /\ pte'[x] = pte[x]
                                  \/ EntryOK(rt, dp, x[1], pte[x].ppn)',
           WalkOK(rt, dp, h)'
    PROVE  HasPlaces'
<1>1. \A g \in Harts : kroot'[g] # 0 => Child(rt, dp, kroot[g], kroot[g], 0)'
  BY DEF Placed, Child
<1>2. ASSUME NEW x \in DOMAIN pte' PROVE EntryOK(rt, dp, x[1], pte[x].ppn)'
  <2>1. CASE x \in DOMAIN pte /\ pte'[x] = pte[x]
    <3>1. PICK q : q = pte[x].ppn /\ q = pte'[x].ppn
      BY <2>1
    <3>2. EntryOK(rt, dp, x[1], q)'
      BY <2>1, <3>1, Unmoved DEF Placed
    <3> QED
      BY <3>1, <3>2, EntryNext
  <2> QED
    BY <2>1
<1>3. ASSUME NEW g \in Harts PROVE WalkOK(rt, dp, g)'
  <2>1. CASE g # h
    BY <2>1 DEF OthersStay, Placed, WalkOK, Leaf, Child, Configured
  <2> QED
    BY <2>1
<1> QED
  BY <1>1, <1>2, <1>3 DEF HasPlaces, Placed

\* A step that takes page p for a place below root r.
LEMMA NewPlaces ==
    ASSUME NEW rt \in [Tables -> Tables], NEW dp \in [Tables -> Nat], Placed(rt, dp),
           free \subseteq Pool, NEW p \in free, free' = free \ {p}, UNCHANGED <<conf, kroot>>,
           NEW r, NEW d, NEW rt2, NEW dp2, Grown(rt, dp, p, r, d, rt2, dp2),
           NEW h \in Harts, OthersStay(h),
           \A x \in DOMAIN pte' : \/ x \in DOMAIN pte /\ pte'[x] = pte[x]
                                  \/ EntryOK(rt2, dp2, x[1], pte[x].ppn)',
           WalkOK(rt2, dp2, h)'
    PROVE  HasPlaces'
<1>0. /\ rt2 \in [Tables -> Tables] /\ dp2 \in [Tables -> Nat]
      /\ \A t \in Tables : t # p => rt2[t] = rt[t] /\ dp2[t] = dp[t]
      /\ \A q, s, e : Child(rt, dp, q, s, e) => Child(rt2, dp2, q, s, e)'
      /\ \A q : \A g \in Harts : Leaf(rt, dp, q, g) => Leaf(rt2, dp2, q, g)'
      /\ \A t, q : EntryOK(rt, dp, t, q) => EntryOK(rt2, dp2, t, q)'
  BY DEF Grown
<1>1. \A g \in Harts : kroot'[g] # 0 => Child(rt2, dp2, kroot[g], kroot[g], 0)'
  <2> TAKE g \in Harts
  <2>1. kroot[g] # 0 => Child(rt, dp, kroot[g], kroot[g], 0)
    BY DEF Placed
  <2> QED
    BY <1>0, <2>1 DEF Child
<1>2. ASSUME NEW x \in DOMAIN pte' PROVE EntryOK(rt2, dp2, x[1], pte[x].ppn)'
  <2>1. CASE x \in DOMAIN pte /\ pte'[x] = pte[x]
    <3>1. PICK q : q = pte[x].ppn /\ q = pte'[x].ppn
      BY <2>1
    <3>2. EntryOK(rt, dp, x[1], q)
      BY <2>1, <3>1 DEF Placed
    <3>3. EntryOK(rt2, dp2, x[1], q)'
      BY ONLY <1>0, <3>2
    <3> QED
      BY <3>1, <3>3, EntryNext
  <2> QED
    BY <2>1
<1>3. ASSUME NEW g \in Harts PROVE WalkOK(rt2, dp2, g)'
  <2>1. CASE g # h
    <3> SUFFICES ASSUME pc'[g] = "walk" PROVE WalkOK(rt2, dp2, g)'
      BY DEF WalkOK
    <3>1. pc[g] = "walk" /\ root'[g] = root[g] /\ pa'[g] = pa[g]
          /\ level'[g] = level[g] /\ tbl'[g] = tbl[g]
      BY <2>1 DEF OthersStay
    <3>2. /\ tbl[g] \in Tables \ free
          /\ rt[tbl[g]] = root[g] /\ dp[tbl[g]] = LEVELS - 1 - level[g]
          /\ root[g] = VmRoot[g] => Leaf(rt, dp, pa[g] \div PAGE_SIZE, g)
      BY <3>1 DEF Placed, WalkOK
    <3>3. tbl[g] # p /\ rt2[tbl[g]] = rt[tbl[g]] /\ dp2[tbl[g]] = dp[tbl[g]]
      BY <1>0, <3>2
    <3>4. root[g] = VmRoot[g] => Leaf(rt2, dp2, pa[g] \div PAGE_SIZE, g)'
      <4> SUFFICES ASSUME root[g] = VmRoot[g] PROVE Leaf(rt2, dp2, pa[g] \div PAGE_SIZE, g)'
        OBVIOUS
      <4>1. PICK q : q = pa[g] \div PAGE_SIZE /\ q = pa'[g] \div PAGE_SIZE
        BY <3>1
      <4>2. Leaf(rt, dp, q, g)
        BY <3>2, <4>1
      <4>3. Leaf(rt2, dp2, q, g)'
        BY ONLY <1>0, <4>2, g \in Harts
      <4> QED
        BY <4>1, <4>3 DEF Leaf, Child, Configured
    <3> QED
      BY <3>1, <3>2, <3>3, <3>4 DEF WalkOK
  <2> QED
    BY <2>1
<1>4. \A s \in Roots : rt2[s] = s /\ dp2[s] = 0
  BY <1>0, RootsApart DEF Placed
<1> QED
  BY <1>0, <1>1, <1>2, <1>3, <1>4 DEF HasPlaces, Placed
-----------------------------------------------------------------------------
LEMMA OutOfMemoryStep ==
    ASSUME Inv, NEW h \in Harts, out_of_memory(h)
    PROVE  Inv' /\ Stays
<1>1. PICK rt \in [Tables -> Tables], dp \in [Tables -> Nat] : Placed(rt, dp)
  BY DEF Inv, HasPlaces
<1>2. TypeOK' /\ Stays /\ OthersStay(h) /\ pc'[h] = "fault"
  BY DEF out_of_memory, Inv, TypeOK, Stays, OthersStay
<1>3. Control'
  BY <1>2 DEF out_of_memory, Inv, TypeOK, Control, ControlOf
<1>4. HasPlaces'
  <2>1. WalkOK(rt, dp, h)'
    BY <1>2 DEF WalkOK
  <2> QED
    BY <1>1, <1>2, <2>1, SamePlaces DEF out_of_memory
<1> QED
  BY <1>2, <1>3, <1>4 DEF Inv

LEMMA HsPgtableStep ==
    ASSUME Inv, NEW h \in Harts, init_hs_pgtable(h)
    PROVE  Inv' /\ Stays
<1> USE DEF init_hs_pgtable
<1>1. PICK rt \in [Tables -> Tables], dp \in [Tables -> Nat] : Placed(rt, dp)
  BY DEF Inv, HasPlaces
<1>2. DOMAIN pte' = DOMAIN pte /\ Stays
  <2>1. \A x \in DOMAIN pte : x[1] # VmRoot[h]
    BY DEF Inv, Control, ControlOf
  <2>2. CASE conf[h] = NONE
    BY <2>2 DEF Stays
  <2>3. CASE conf[h] # NONE
    BY <2>1, <2>3, ClearEmpty
  <2> QED
    BY <2>2, <2>3
<1>3. TypeOK' /\ OthersStay(h) /\ pc'[h] # "walk"
  <2>1. VmRoot[h] \in Tables
    BY RootsApart
  <2> QED
    BY <1>2, <2>1, ZenonT(60) DEF Inv, TypeOK, Control, ControlOf, Stays, OthersStay
<1>4. Control'
  <2>1. conf[h] # NONE => VmRegions(conf[h]) \in Seq(Regions)
    BY VMemAssumption DEF Inv, TypeOK
  <2>2. VmRoot[h] # 0
    BY RootsApart
  <2>3. CASE conf[h] = NONE
    BY <1>2, <1>3, <2>3 DEF Inv, TypeOK, Control, ControlOf
  <2>4. CASE conf[h] # NONE
    <3>1. /\ todo' = [todo EXCEPT ![h] = VmRegions(conf[h])]
          /\ pc' = [pc EXCEPT ![h] = "map_pages"] /\ root' = [root EXCEPT ![h] = VmRoot[h]]
      BY <2>4
    <3>2. todo' \in [Harts -> Seq(Regions)] /\ todo'[h] = VmRegions(conf[h])
      BY <2>1, <2>4, <3>1 DEF Inv, Control, ControlOf
    <3>3. pc'[h] = "map_pages" /\ root'[h] = VmRoot[h] /\ UNCHANGED <<conf, kroot>>
      BY <3>1 DEF Inv, TypeOK
    <3>4. ASSUME NEW g \in Harts, g # h
          PROVE  pc'[g] = pc[g] /\ root'[g] = root[g] /\ todo'[g] = todo[g]
      BY <1>3, <3>4 DEF OthersStay
    <3> HIDE DEF init_hs_pgtable
    <3>5. ControlOf(h)'
      BY <2>2, <2>4, <3>2, <3>3 DEF ControlOf
    <3>6. ASSUME NEW g \in Harts, g # h PROVE ControlOf(g)'
      BY <1>2, <3>3, <3>4, <3>6 DEF Inv, Control, ControlOf
    <3> QED
      BY <3>2, <3>5, <3>6 DEF Control
  <2> QED
    BY <2>3, <2>4
<1>5. HasPlaces'
  <2>1. WalkOK(rt, dp, h)'
    BY <1>3 DEF WalkOK
  <2>2. \A x \in DOMAIN pte' : x \in DOMAIN pte /\ pte'[x] = pte[x]
    BY <1>2 DEF Stays
  <2> QED
    BY <1>1, <1>3, <2>1, <2>2, SamePlaces
<1> QED
  BY <1>2, <1>3, <1>4, <1>5 DEF Inv

LEMMA MapPagesEndStep ==
    ASSUME Inv, NEW h \in Harts, map_pages_end(h)
    PROVE  Inv' /\ Stays
<1> USE DEF map_pages_end
<1>1. PICK rt \in [Tables -> Tables], dp \in [Tables -> Nat] : Placed(rt, dp)
  BY DEF Inv, HasPlaces
<1>2. TypeOK' /\ Stays /\ OthersStay(h) /\ pc'[h] # "walk"
  BY DEF Inv, TypeOK, Control, ControlOf, Stays, OthersStay
<1>3. todo' \in [Harts -> Seq(Regions)]
      /\ \A i \in DOMAIN todo'[h] : \E j \in DOMAIN todo[h] : todo'[h][i] = todo[h][j]
  <2>1. todo[h] \in Seq(Regions)
    BY DEF Inv, Control, ControlOf
  <2>2. CASE todo[h] = <<>>
    BY <2>2 DEF Inv, Control, ControlOf
  <2>3. CASE todo[h] # <<>>
    <3>1. /\ Tail(todo[h]) \in Seq(Regions)
          /\ \A i \in DOMAIN Tail(todo[h]) :
               i + 1 \in DOMAIN todo[h] /\ Tail(todo[h])[i] = todo[h][i + 1]
      BY <2>1, <2>3
    <3>2. todo' = [todo EXCEPT ![h] = Tail(todo[h])]
      BY <2>3
    <3>3. todo' \in [Harts -> Seq(Regions)] /\ todo'[h] = Tail(todo[h])
      BY <3>1, <3>2 DEF Inv, Control, ControlOf
    <3> QED
      BY <3>1, <3>3
  <2> QED
    BY <2>2, <2>3
<1>4. Control'
  <2>1. pc'[h] = "init_hs_pgtable" => root[h] # VmRoot[h]
    <3>1. pc'[h] = "init_hs_pgtable" => root[h] = kroot[h]
      BY DEF Inv, TypeOK
    <3>2. kroot[h] # VmRoot[h]
      BY RootsApart DEF Inv, TypeOK
    <3> QED
      BY <3>1, <3>2
  <2>2. pc'[h] \in {"map_pages", "init_hs_pgtable", "done"}
    BY DEF Inv, TypeOK
  <2>3. root' = root /\ conf' = conf /\ kroot' = kroot /\ pte' = pte /\ pc[h] = "map_pages"
    OBVIOUS
  <2>4. root[h] = VmRoot[h] =>
          \A i \in DOMAIN todo'[h] : \E j \in DOMAIN VmRegions(conf[h]) :
             todo'[h][i] = VmRegions(conf[h])[j]
    BY <1>3 DEF Inv, Control, ControlOf
  <2>5. ASSUME NEW g \in Harts, g # h PROVE pc'[g] = pc[g] /\ todo'[g] = todo[g]
    BY <1>2, <2>5 DEF OthersStay
  <2> HIDE DEF map_pages_end
  <2> QED
    BY <1>3, <2>1, <2>2, <2>3, <2>4, <2>5 DEF Inv, Control, ControlOf
<1>5. HasPlaces'
  <2>1. WalkOK(rt, dp, h)'
    BY <1>2 DEF WalkOK
  <2> QED
    BY <1>1, <1>2, <2>1, SamePlaces
<1> QED
  BY <1>2, <1>3, <1>4, <1>5 DEF Inv

\* The other harts' roots, unless an entry is written to one of them.
LEMMA OthersControl ==
    ASSUME Control, NEW h \in Harts, OthersStay(h), UNCHANGED <<conf, kroot>>,
           NEW g \in Harts, g # h,
           \A x \in DOMAIN pte' : x \in DOMAIN pte \/ x[1] # VmRoot[g]
    PROVE  ControlOf(g)'
BY DEF Control, ControlOf, OthersStay

\* A page of a region with a physical address is configured.
LEMMA RegionConfigured ==
    ASSUME Inv, NEW h \in Harts, root[h] = VmRoot[h], todo[h] # <<>>, more(h),
           Head(todo[h]).pa # 0
    PROVE  (Head(todo[h]).pa + off[h]) \div PAGE_SIZE \in Configured(h)
<1>1. conf[h] # NONE
  BY DEF Inv, Control, ControlOf
<1> DEFINE R == VmRegions(conf[h])
<1>2. PICK j \in DOMAIN R : Head(todo[h]) = R[j]
  <2>1. todo[h] \in Seq(Regions)
    BY DEF Inv, Control
  <2>2. 1 \in DOMAIN todo[h] /\ Head(todo[h]) = todo[h][1]
    BY <2>1
  <2> QED
    BY <2>2 DEF Inv, Control, ControlOf
<1>3. R \in Seq(Regions) /\ R[j] \in Regions
  BY <1>1, VMemAssumption DEF Inv, TypeOK
<1> HIDE DEF R
<1>4. off[h] \in 0 .. PGROUNDUP(R[j].size) - 1
  <2>1. off[h] \in Nat /\ off[h] < PGROUNDUP(R[j].size)
    BY <1>2 DEF more, Inv, TypeOK
  <2>2. PGROUNDUP(R[j].size) \in Int
    BY <1>3, VMemAssumption DEF PGROUNDUP, Regions
  <2> QED
    BY <2>1, <2>2
<1>5. R[j].pa # 0
  BY <1>2
<1>6. (R[j].pa + off[h]) \div PAGE_SIZE \in PhysicalPages(R)
  BY <1>4, <1>5 DEF PhysicalPages
<1> QED
  BY <1>1, <1>2, <1>6 DEF Configured, R

LEMMA RootPlaced ==
    ASSUME Inv, NEW rt, NEW dp, Placed(rt, dp), NEW h \in Harts, pc[h] \in {"map_pages", "walk"}
    PROVE  root[h] \in Tables \ free /\ rt[root[h]] = root[h] /\ dp[root[h]] = 0
<1>1. root[h] # 0 /\ (root[h] = kroot[h] \/ root[h] = VmRoot[h])
  BY DEF Inv, Control, ControlOf
<1>2. CASE root[h] = kroot[h]
  BY <1>1, <1>2, RootsApart DEF Placed, Child
<1>3. CASE root[h] = VmRoot[h]
  BY <1>3, RootsApart DEF Placed, Inv, TypeOK
<1> QED
  BY <1>1, <1>2, <1>3

LEMMA MapPagesStep ==
    ASSUME Inv, NEW h \in Harts, map_pages(h), ~ out_of_memory(h)
    PROVE  Inv' /\ Stays
<1>1. /\ pc[h] = "map_pages" /\ todo[h] # <<>> /\ more(h)
      /\ IF Head(todo[h]).pa # 0
         THEN pa' = [pa EXCEPT ![h] = Head(todo[h]).pa + off[h]] /\ UNCHANGED free
         ELSE \E p \in Pool : kmalloc(p) /\ pa' = [pa EXCEPT ![h] = p * PAGE_SIZE]
      /\ pc' = [pc EXCEPT ![h] = "walk"]
      /\ level' = [level EXCEPT ![h] = LEVELS - 1]
      /\ tbl' = [tbl EXCEPT ![h] = root[h]]
      /\ UNCHANGED <<conf, pte, kroot, root, todo, off>>
  BY DEF map_pages
<1>2. PICK rt \in [Tables -> Tables], dp \in [Tables -> Nat] : Placed(rt, dp)
  BY DEF Inv, HasPlaces
<1>3. /\ root[h] \in Tables \ free /\ rt[root[h]] = root[h] /\ dp[root[h]] = 0
      /\ root[h] # 0 /\ (root[h] = kroot[h] \/ root[h] = VmRoot[h])
  BY <1>1, <1>2, RootPlaced DEF Inv, Control, ControlOf
<1>4. Head(todo[h]) \in Regions
  BY <1>1 DEF Inv, Control
<1>5. TypeOK' /\ OthersStay(h)
  <2>1. LEVELS - 1 \in 0 .. LEVELS - 1
    BY VMemAssumption
  <2>2. /\ free' \subseteq Pool
        /\ \E a \in Nat : pa' = [pa EXCEPT ![h] = a]
    <3>1. CASE Head(todo[h]).pa # 0
      <4>1. Head(todo[h]).pa + off[h] \in Nat
        BY <1>4 DEF Regions, Inv, TypeOK
      <4> QED
        BY <1>1, <3>1, <4>1 DEF Inv, TypeOK
    <3>2. CASE Head(todo[h]).pa = 0
      <4>1. PICK p \in Pool : kmalloc(p) /\ pa' = [pa EXCEPT ![h] = p * PAGE_SIZE]
        BY <1>1, <3>2
      <4>2. p * PAGE_SIZE \in Nat
        BY VMemAssumption
      <4> QED
        BY <4>1, <4>2 DEF kmalloc, Inv, TypeOK
    <3> QED
      BY <3>1, <3>2
  <2>3. pa' \in [Harts -> Nat] /\ \A g \in Harts : g # h => pa'[g] = pa[g]
    BY <2>2 DEF Inv, TypeOK
  <2>4. /\ pc' \in [Harts -> {"init_vmem", "init_hs_pgtable", "map_pages", "walk",
                              "done", "fault", "panic"}]
        /\ level' \in [Harts -> 0 .. LEVELS - 1] /\ tbl' \in [Harts -> Tables \cup {0}]
    BY <1>1, <1>3, <2>1 DEF Inv, TypeOK
  <2>5. TypeOK'
    BY <1>1, <2>2, <2>3, <2>4 DEF Inv, TypeOK
  <2>6. OthersStay(h)
    BY <1>1, <2>3 DEF OthersStay, Inv, TypeOK
  <2> QED
    BY <2>5, <2>6
<1>6. /\ pc'[h] = "walk" /\ tbl'[h] = root[h] /\ level'[h] = LEVELS - 1
      /\ LEVELS - 1 - level'[h] = 0
  BY <1>1, VMemAssumption DEF Inv, TypeOK
<1>7. Control'
  <2>1. ControlOf(h)'
    BY <1>1, <1>3, <1>6 DEF Inv, Control, ControlOf
  <2>2. ASSUME NEW g \in Harts, g # h PROVE ControlOf(g)'
    BY <1>1, <1>5, <2>2, OthersControl DEF Inv
  <2> QED
    BY <1>1, <2>1, <2>2 DEF Inv, Control
<1>8. HasPlaces'
  <2>1. CASE Head(todo[h]).pa # 0
    <3>1. pa'[h] = Head(todo[h]).pa + off[h] /\ UNCHANGED free
      BY <1>1, <2>1 DEF Inv, TypeOK
    <3>2. root[h] = VmRoot[h] => Leaf(rt, dp, pa[h] \div PAGE_SIZE, h)'
      BY <1>1, <2>1, <3>1, RegionConfigured DEF Leaf, Configured
    <3>3. WalkOK(rt, dp, h)'
      BY <1>1, <1>3, <1>6, <3>1, <3>2 DEF WalkOK
    <3> QED
      BY <1>1, <1>2, <1>5, <3>1, <3>3, SamePlaces
  <2>2. CASE Head(todo[h]).pa = 0
    <3>1. PICK p \in Pool : kmalloc(p) /\ pa' = [pa EXCEPT ![h] = p * PAGE_SIZE]
      BY <1>1, <2>2
    <3>2. p \in free /\ free' = free \ {p} /\ free \subseteq Pool
      BY <3>1 DEF kmalloc, Inv, TypeOK
    <3>3. p \in Nat /\ pa'[h] = p * PAGE_SIZE /\ pa'[h] \div PAGE_SIZE = p
      BY <3>1, VMemAssumption DEF Inv, TypeOK
    <3>r. PICK r : r = root[h]
      OBVIOUS
    <3>g. PICK rt2, dp2 : Grown(rt, dp, p, r, LEVELS, rt2, dp2)
      <4>1. r \in Tables /\ LEVELS \in Nat /\ UNCHANGED conf
        BY <1>1, <1>3, <3>r, VMemAssumption
      <4> QED
        BY <3>2, <4>1, Allocated
    <3>4. /\ \A t \in Tables : t # p => rt2[t] = rt[t] /\ dp2[t] = dp[t]
          /\ Child(rt2, dp2, p, r, LEVELS)'
      BY <3>g DEF Grown
    <3>5. root[h] # p
      BY <1>3, <3>2
    <3>6. root[h] = VmRoot[h] => Leaf(rt2, dp2, pa[h] \div PAGE_SIZE, h)'
      BY <3>3, <3>4, <3>r DEF Leaf, Child
    <3>7. WalkOK(rt2, dp2, h)'
      BY <1>1, <1>3, <1>6, <3>2, <3>4, <3>5, <3>6 DEF WalkOK
    <3> QED
      BY <1>1, <1>2, <1>5, <3>2, <3>7, <3>g, NewPlaces
  <2> QED
    BY <2>1, <2>2
<1> QED
  BY <1>1, <1>5, <1>7, <1>8 DEF Inv, Stays

LEMMA IdxType ==
    ASSUME Inv, NEW h \in Harts, pc[h] = "walk"
    PROVE  /\ idx(h) \in 0 .. 4 * W - 1
           /\ Head(todo[h]) \in Regions
<1>1. Head(todo[h]) \in Regions
  BY DEF Inv, Control, ControlOf
<1>2. va(h) \in Nat /\ level[h] \in Nat
  BY <1>1, VMemAssumption, SMTT(40) DEF va, Regions, Inv, TypeOK
<1> QED
  BY <1>1, <1>2, IndexType DEF idx

\* A hart in walk is in no other VM's tables.
LEMMA WalkApart ==
    ASSUME Inv, NEW rt, NEW dp, Placed(rt, dp), NEW h \in Harts, pc[h] = "walk",
           NEW g \in Harts, g # h
    PROVE  tbl[h] # VmRoot[g]
<1>1. rt[tbl[h]] = root[h] /\ (root[h] = kroot[h] \/ root[h] = VmRoot[h])
  BY DEF Placed, WalkOK, Inv, Control, ControlOf
<1>2. rt[VmRoot[g]] = VmRoot[g]
  BY RootsApart DEF Placed
<1>3. VmRoot[g] # VmRoot[h] /\ VmRoot[g] # kroot[h]
  BY LayoutAssumption, RootsApart DEF Inv, TypeOK
<1> QED
  BY <1>1, <1>2, <1>3

LEMMA WalkStep ==
    ASSUME Inv, NEW h \in Harts, walk(h), ~ out_of_memory(h)
    PROVE  Inv' /\ Stays
<1>1. /\ pc[h] = "walk" /\ level[h] > 0
      /\ \/ /\ valid(tbl[h], idx(h))
            /\ tbl' = [tbl EXCEPT ![h] = pte[<<tbl[h], idx(h)>>].ppn]
            /\ UNCHANGED <<free, pte>>
         \/ /\ ~ valid(tbl[h], idx(h))
            /\ \E p \in Pool :
                 /\ kmalloc(p)
                 /\ set_pte(tbl[h], idx(h), [ppn |-> p, perm |-> {}])
                 /\ tbl' = [tbl EXCEPT ![h] = p]
      /\ level' = [level EXCEPT ![h] = level[h] - 1]
      /\ UNCHANGED <<conf, kroot, root, pc, todo, off, pa>>
  BY DEF walk
<1>2. PICK rt \in [Tables -> Tables], dp \in [Tables -> Nat] : Placed(rt, dp)
  BY DEF Inv, HasPlaces
<1>3. /\ tbl[h] \in Tables \ free
      /\ rt[tbl[h]] = root[h] /\ dp[tbl[h]] = LEVELS - 1 - level[h]
      /\ root[h] = VmRoot[h] => Leaf(rt, dp, pa[h] \div PAGE_SIZE, h)
      /\ level[h] \in 1 .. LEVELS - 1
  BY <1>1, <1>2, VMemAssumption DEF Placed, WalkOK, Inv, TypeOK
<1>4. /\ level' \in [Harts -> 0 .. LEVELS - 1] /\ level'[h] = level[h] - 1
      /\ \A g \in Harts : g # h => level'[g] = level[g]
      /\ LEVELS - 1 - level'[h] = dp[tbl[h]] + 1
      /\ dp[tbl[h]] < LEVELS - 1
  BY <1>1, <1>3, VMemAssumption DEF Inv, TypeOK
<1>5. idx(h) \in 0 .. 4 * W - 1
  BY <1>1, IdxType
<1> DEFINE x == <<tbl[h], idx(h)>>
<1>6. CASE valid(tbl[h], idx(h))
  <2>1. x \in DOMAIN pte /\ tbl' = [tbl EXCEPT ![h] = pte[x].ppn] /\ UNCHANGED <<free, pte>>
    BY <1>1, <1>6 DEF valid
  <2>2. PICK q : q = pte[x].ppn
    OBVIOUS
  <2>3. EntryOK(rt, dp, tbl[h], q)
    BY <1>2, <2>1, <2>2 DEF Placed
  <2>4. q \in Pool \ free /\ rt[q] = root[h] /\ dp[q] = dp[tbl[h]] + 1
    BY <1>3, <1>4, <2>3 DEF EntryOK, Child
  <2>5. q \in Tables
    BY <2>4, RootsApart
  <2>6. tbl' \in [Harts -> Tables \cup {0}] /\ tbl'[h] = q
        /\ \A g \in Harts : g # h => tbl'[g] = tbl[g]
    BY <2>1, <2>2, <2>5 DEF Inv, TypeOK
  <2>7. TypeOK' /\ OthersStay(h) /\ Stays
    BY <1>1, <1>4, <2>1, <2>6 DEF Inv, TypeOK, OthersStay, Stays
  <2>8. Control'
    BY <1>1, <2>1 DEF Inv, Control, ControlOf
  <2>9. WalkOK(rt, dp, h)'
    BY <1>1, <1>3, <1>4, <2>1, <2>4, <2>5, <2>6 DEF WalkOK, Leaf, Child, Configured
  <2>10. HasPlaces'
    BY <1>1, <1>2, <2>1, <2>7, <2>9, SamePlaces
  <2> QED
    BY <2>7, <2>8, <2>10 DEF Inv
<1>7. CASE ~ valid(tbl[h], idx(h))
  <2>1. PICK p \in Pool :
          /\ kmalloc(p)
          /\ set_pte(tbl[h], idx(h), [ppn |-> p, perm |-> {}])
          /\ tbl' = [tbl EXCEPT ![h] = p]
    BY <1>1, <1>7
  <2>2. p \in free /\ free' = free \ {p} /\ free \subseteq Pool /\ p \in Tables /\ p \in Nat
    BY <2>1, RootsApart DEF kmalloc, Inv, TypeOK
  <2>3. DOMAIN pte' = DOMAIN pte \cup {x} /\ pte'[x] = [ppn |-> p, perm |-> {}] /\ Stays
    BY <1>7, <2>1, SetPte, SMTT(40)
  <2>4. tbl' \in [Harts -> Tables \cup {0}] /\ tbl'[h] = p
        /\ \A g \in Harts : g # h => tbl'[g] = tbl[g]
    BY <2>1, <2>2 DEF Inv, TypeOK
  <2>5. OthersStay(h)
    BY <1>1, <1>4, <2>4 DEF OthersStay
  <2>6. TypeOK'
    <3>1. \A y \in DOMAIN pte' : y[1] \in Tables /\ y[2] \in 0 .. 4 * W - 1
      BY <1>3, <1>5, <2>3 DEF Inv, TypeOK
    <3>2. \A y \in DOMAIN pte' : pte'[y].ppn \in Nat /\ pte'[y].perm \in Perms
      BY <2>2, <2>3 DEF Inv, TypeOK, Stays, Perms
    <3> QED
      BY <1>1, <1>4, <2>2, <2>4, <3>1, <3>2 DEF Inv, TypeOK
  <2>7. Control'
    <3>1. ControlOf(h)'
      <4>1. root[h] # VmRoot[h] => tbl[h] # VmRoot[h]
        BY <1>2, <1>3, RootsApart DEF Placed
      <4> QED
        BY <1>1, <2>3, <4>1 DEF Inv, Control, ControlOf
    <3>2. ASSUME NEW g \in Harts, g # h PROVE ControlOf(g)'
      <4>1. tbl[h] # VmRoot[g]
        BY <1>1, <1>2, <3>2, WalkApart
      <4> QED
        BY <1>1, <2>3, <2>5, <3>2, <4>1, OthersControl DEF Inv
    <3> QED
      BY <1>1, <3>1, <3>2 DEF Inv, Control
  <2>8. HasPlaces'
    <3>1. PICK r, d : r = root[h] /\ d = dp[tbl[h]] + 1
      OBVIOUS
    <3>2. PICK rt2, dp2 : Grown(rt, dp, p, r, d, rt2, dp2)
      <4>1. r \in Tables /\ d \in Nat /\ UNCHANGED conf
        BY <1>1, <1>3, <3>1
      <4> QED
        BY <2>2, <4>1, Allocated
    <3>3. /\ \A t \in Tables : t # p => rt2[t] = rt[t] /\ dp2[t] = dp[t]
          /\ Child(rt2, dp2, p, r, d)'
          /\ \A q : \A g \in Harts : Leaf(rt, dp, q, g) => Leaf(rt2, dp2, q, g)'
      BY <3>2 DEF Grown
    <3>4. PICK t : t = tbl[h]
      OBVIOUS
    <3>5. t \in Tables \ free /\ t # p /\ rt2[t] = r /\ dp2[t] + 1 = d /\ dp2[t] < LEVELS - 1
          /\ dp2[t] \in Nat
      BY <1>3, <1>4, <2>2, <3>1, <3>3, <3>4
    <3>6. EntryOK(rt2, dp2, t, p)'
      BY <2>2, <3>3, <3>5, VMemAssumption DEF EntryOK
    <3>7. \A y \in DOMAIN pte' : \/ y \in DOMAIN pte /\ pte'[y] = pte[y]
                                 \/ EntryOK(rt2, dp2, y[1], pte[y].ppn)'
      <4> TAKE y \in DOMAIN pte'
      <4>1. CASE y \in DOMAIN pte
        BY <2>3, <4>1 DEF Stays
      <4>2. CASE y \notin DOMAIN pte
        <5>1. y[1] = t /\ pte'[y].ppn = p
          BY <2>3, <3>4, <4>2
        <5> QED
          BY <3>6, <5>1, EntryNext
      <4> QED
        BY <4>1, <4>2
    <3>8. Leaf(rt2, dp2, pa[h] \div PAGE_SIZE, h)' \/ root[h] # VmRoot[h]
      <4> SUFFICES ASSUME root[h] = VmRoot[h] PROVE Leaf(rt2, dp2, pa[h] \div PAGE_SIZE, h)'
        OBVIOUS
      <4>1. PICK q : q = pa[h] \div PAGE_SIZE /\ q = pa'[h] \div PAGE_SIZE
        BY <1>1
      <4>2. Leaf(rt, dp, q, h)
        BY <1>3, <4>1
      <4>3. Leaf(rt2, dp2, q, h)'
        BY ONLY <3>3, <4>2, h \in Harts
      <4> QED
        BY <4>1, <4>3 DEF Leaf, Child, Configured
    <3>9. WalkOK(rt2, dp2, h)'
      BY <1>1, <1>4, <2>2, <2>4, <3>1, <3>3, <3>8 DEF WalkOK, Child
    <3> QED
      BY <1>1, <1>2, <2>2, <2>5, <3>2, <3>7, <3>9, NewPlaces
  <2> QED
    BY <2>3, <2>6, <2>7, <2>8 DEF Inv
<1> QED
  BY <1>6, <1>7

LEMMA MapPageStep ==
    ASSUME Inv, NEW h \in Harts, map_page(h)
    PROVE  Inv' /\ Stays
<1>1. /\ pc[h] = "walk" /\ level[h] = 0
      /\ IF valid(tbl[h], idx(h))
         THEN pc' = [pc EXCEPT ![h] = "panic"] /\ UNCHANGED <<pte, off>>
         ELSE /\ pc' = [pc EXCEPT ![h] = "map_pages"]
              /\ off' = [off EXCEPT ![h] = off[h] + PAGE_SIZE]
              /\ set_pte(tbl[h], idx(h),
                         [ppn |-> pa[h] \div PAGE_SIZE, perm |-> Head(todo[h]).perm])
      /\ UNCHANGED <<conf, free, kroot, root, todo, pa, level, tbl>>
  BY DEF map_page
<1>2. PICK rt \in [Tables -> Tables], dp \in [Tables -> Nat] : Placed(rt, dp)
  BY DEF Inv, HasPlaces
<1>3. /\ tbl[h] \in Tables \ free
      /\ rt[tbl[h]] = root[h] /\ dp[tbl[h]] = LEVELS - 1
      /\ root[h] = VmRoot[h] => Leaf(rt, dp, pa[h] \div PAGE_SIZE, h)
  BY <1>1, <1>2, VMemAssumption DEF Placed, WalkOK, Inv, TypeOK
<1>4. OthersStay(h) /\ pc'[h] # "walk"
  BY <1>1 DEF OthersStay, Inv, TypeOK
<1>5. CASE valid(tbl[h], idx(h))
  <2>1. TypeOK' /\ Stays
    BY <1>1, <1>5 DEF Inv, TypeOK, Stays
  <2>2. Control'
    BY <1>1, <1>5 DEF Inv, TypeOK, Control, ControlOf
  <2>3. WalkOK(rt, dp, h)'
    BY <1>4 DEF WalkOK
  <2>4. HasPlaces'
    BY <1>1, <1>2, <1>4, <1>5, <2>3, SamePlaces
  <2> QED
    BY <2>1, <2>2, <2>4 DEF Inv
<1>6. CASE ~ valid(tbl[h], idx(h))
  <2>1. PICK q : q = pa[h] \div PAGE_SIZE
    OBVIOUS
  <2>2. q \in Nat
    <3>1. pa[h] \in Nat /\ PAGE_SIZE \in Nat \ {0}
      BY VMemAssumption DEF Inv, TypeOK
    <3> QED
      BY <2>1, <3>1
  <2> DEFINE x == <<tbl[h], idx(h)>>
             e == [ppn |-> q, perm |-> Head(todo[h]).perm]
  <2>3. DOMAIN pte' = DOMAIN pte \cup {x} /\ pte'[x] = e /\ Stays
    <3>1. set_pte(tbl[h], idx(h), e)
      BY <1>1, <1>6, <2>1
    <3> HIDE DEF e
    <3> QED
      BY <1>6, <3>1, SetPte
  <2>4. /\ pc' = [pc EXCEPT ![h] = "map_pages"]
        /\ off' = [off EXCEPT ![h] = off[h] + PAGE_SIZE]
    BY <1>1, <1>6
  <2>5. TypeOK'
    <3>1. \A y \in DOMAIN pte' : y[1] \in Tables /\ y[2] \in 0 .. 4 * W - 1
      BY <1>1, <1>3, <2>3, IdxType DEF Inv, TypeOK
    <3>2. \A y \in DOMAIN pte' : pte'[y].ppn \in Nat /\ pte'[y].perm \in Perms
      <4>1. Head(todo[h]).perm \in Perms
        BY <1>1, IdxType DEF Regions
      <4> QED
        BY <2>2, <2>3, <4>1 DEF Inv, TypeOK, Stays
    <3>3. off' \in [Harts -> Nat]
      BY <2>4, VMemAssumption DEF Inv, TypeOK
    <3> QED
      BY <1>1, <2>4, <3>1, <3>2, <3>3 DEF Inv, TypeOK
  <2>6. Control'
    <3>1. ControlOf(h)'
      <4>1. root[h] # VmRoot[h] => tbl[h] # VmRoot[h]
        BY <1>2, <1>3, RootsApart DEF Placed
      <4>2. pc'[h] = "map_pages"
        BY <2>4 DEF Inv, TypeOK
      <4>3. UNCHANGED <<conf, kroot, root, todo>> /\ pc[h] = "walk"
        BY <1>1
      <4>4. \A y \in DOMAIN pte' : y \in DOMAIN pte \/ y[1] = tbl[h]
        BY <2>3
      <4> QED
        BY <4>1, <4>2, <4>3, <4>4 DEF Inv, Control, ControlOf
    <3>2. ASSUME NEW g \in Harts, g # h PROVE ControlOf(g)'
      <4>1. tbl[h] # VmRoot[g]
        BY <1>1, <1>2, <3>2, WalkApart
      <4> QED
        BY <1>1, <1>4, <2>3, <3>2, <4>1, OthersControl DEF Inv
    <3> QED
      BY <1>1, <3>1, <3>2 DEF Inv, Control
  <2>7. HasPlaces'
    <3>1. PICK t : t = tbl[h]
      OBVIOUS
    <3>2. EntryOK(rt, dp, t, q)
      <4>1. \A g \in Harts : rt[t] = VmRoot[g] => g = h
        <5> TAKE g \in Harts
        <5>1. root[h] = kroot[h] \/ root[h] = VmRoot[h]
          BY <1>1 DEF Inv, Control, ControlOf
        <5>2. kroot[h] # VmRoot[g]
          BY RootsApart DEF Inv, TypeOK
        <5> QED
          BY <1>3, <3>1, <5>1, <5>2, LayoutAssumption
      <4> QED
        BY <1>3, <2>1, <3>1, <4>1, VMemAssumption DEF EntryOK
    <3>3. EntryOK(rt, dp, t, q)'
      BY <1>1, <3>2, Unmoved
    <3>4. \A y \in DOMAIN pte' : \/ y \in DOMAIN pte /\ pte'[y] = pte[y]
                                 \/ EntryOK(rt, dp, y[1], pte[y].ppn)'
      <4> TAKE y \in DOMAIN pte'
      <4>1. CASE y \in DOMAIN pte
        BY <2>3, <4>1 DEF Stays
      <4>2. CASE y \notin DOMAIN pte
        <5>1. y[1] = t /\ pte'[y].ppn = q
          BY <2>3, <3>1, <4>2
        <5> QED
          BY <3>3, <5>1, EntryNext
      <4> QED
        BY <4>1, <4>2
    <3>5. WalkOK(rt, dp, h)'
      BY <1>4 DEF WalkOK
    <3> QED
      BY <1>1, <1>2, <1>4, <3>4, <3>5, SamePlaces
  <2> QED
    BY <2>3, <2>5, <2>6, <2>7 DEF Inv
<1> QED
  BY <1>5, <1>6
-----------------------------------------------------------------------------
LEMMA InitInv == Init => Inv
<1> SUFFICES ASSUME Init PROVE Inv
  OBVIOUS
<1>1. TypeOK
  BY VMemAssumption DEF Init, TypeOK
<1>2. Control
  BY RootsApart DEF Init, Control, ControlOf
<1>3. HasPlaces
  <2> DEFINE rt == [t \in Tables |-> t]
             dp == [t \in Tables |-> 0]
  <2>1. Placed(rt, dp)
    BY RootsApart DEF Init, Placed, WalkOK
  <2> QED
    BY <2>1 DEF HasPlaces
<1> QED
  BY <1>1, <1>2, <1>3 DEF Inv

LEMMA InvStep == Inv /\ [Next]_vars => Inv' /\ Stays
<1> SUFFICES ASSUME Inv, [Next]_vars PROVE Inv' /\ Stays
  OBVIOUS
<1>1. ASSUME NEW h \in Harts, out_of_memory(h) PROVE Inv' /\ Stays
  BY <1>1, OutOfMemoryStep
<1>2. ASSUME NEW h \in Harts, ~ out_of_memory(h),
             \/ init_vmem(h) \/ init_hs_pgtable(h) \/ map_pages(h)
             \/ map_pages_end(h) \/ walk(h) \/ map_page(h)
      PROVE  Inv' /\ Stays
  BY <1>2, InitVmemStep, HsPgtableStep, MapPagesStep, MapPagesEndStep, WalkStep, MapPageStep
<1>3. CASE UNCHANGED vars
  <2>1. TypeOK' /\ Control' /\ Stays
    BY <1>3 DEF vars, Inv, TypeOK, Control, ControlOf, Stays
  <2>2. HasPlaces'
    <3>1. PICK rt \in [Tables -> Tables], dp \in [Tables -> Nat] : Placed(rt, dp)
      BY DEF Inv, HasPlaces
    <3>2. Placed(rt, dp)'
      BY <1>3, <3>1 DEF vars, Placed, WalkOK, EntryOK, Leaf, Child, Configured
    <3> QED
      BY <3>2 DEF HasPlaces
  <2> QED
    BY <2>1, <2>2 DEF Inv
<1> QED
  BY <1>1, <1>2, <1>3 DEF Next

LEMMA AlwaysInv == Spec => []Inv
<1>1. Inv /\ [Next]_vars => Inv'
  BY InvStep
<1> QED
  BY <1>1, InitInv, PTL DEF Spec

(***************************************************************************)
(* Every entry is in a table the allocator gave out or in a static root,   *)
(* at an index the table has: va2idx never leaves it, whatever the number  *)
(* of levels and entries.                                                  *)
(***************************************************************************)
THEOREM VMemTypes == Spec => []TypeOK
<1>1. Inv => TypeOK
  BY DEF Inv
<1> QED
  BY <1>1, AlwaysInv, PTL

(***************************************************************************)
(* However the harts interleave while they build their tables, for every   *)
(* number of VMs, levels and pages: no two page tables share a table, no   *)
(* guest reaches a table or a free page, and two guests reach a page in    *)
(* common only if both were configured with it.                            *)
(***************************************************************************)
THEOREM VMemIsolated == Spec => []Isolated
BY PlacedIsolated, AlwaysInv, PTL

(***************************************************************************)
(* No step changes or removes an entry: neither the clearing of a root nor *)
(* a walk or a map_page of another hart.                                   *)
(***************************************************************************)
THEOREM VMemEntriesStay == Spec => EntriesStay
<1>1. Inv /\ [Next]_vars =>
        [\A x \in DOMAIN pte : x \in DOMAIN pte' /\ pte'[x] = pte[x]]_vars
  BY InvStep DEF Stays
<1> QED
  BY <1>1, AlwaysInv, PTL DEF Spec, EntriesStay
-----------------------------------------------------------------------------
\* The weights of the bit fields of an address.
LEMMA PowerStep ==
    ASSUME NEW b \in Nat \ {0}, NEW n \in Nat
    PROVE  Power(b, 0) = 1 /\ Power(b, n + 1) = b * Power(b, n)
<1>1. Power(b, 0) = 1
  <2>1. 0 \in Nat
    OBVIOUS
  <2> QED
    BY <2>1, PowerFunction
<1>2. n + 1 \in Nat
  OBVIOUS
<1>3. PICK t \in [0 .. n + 1 -> Nat \ {0}] :
        /\ t[0] = 1 /\ (\A k \in 1 .. n + 1 : t[k] = b * t[k - 1])
        /\ Power(b, n + 1) = t[n + 1]
  BY <1>2, PowerFunction
<1>4. PICK u \in [0 .. n -> Nat \ {0}] :
        u[0] = 1 /\ (\A k \in 1 .. n : u[k] = b * u[k - 1]) /\ Power(b, n) = u[n]
  BY PowerFunction
<1> DEFINE T == {k \in 0 .. n : t[k] # u[k]}
<1>5. T = {}
  <2> SUFFICES ASSUME T # {} PROVE FALSE
    OBVIOUS
  <2>1. PICK m \in T : \A k \in T : m <= k
    <3>1. T \in SUBSET Nat
      OBVIOUS
    <3> HIDE DEF T
    <3> QED
      BY <3>1, LeastNumber
  <2>2. m # 0
    BY <1>3, <1>4, <2>1
  <2>3. m \in 1 .. n /\ m \in 1 .. n + 1 /\ m - 1 \in 0 .. n /\ m - 1 \notin T
    BY <2>1, <2>2
  <2>4. t[m] = b * t[m - 1] /\ u[m] = b * u[m - 1] /\ t[m - 1] = u[m - 1]
    BY <1>3, <1>4, <2>3
  <2> QED
    BY <2>1, <2>4
<1>6. t[n] = u[n] /\ t[n + 1] = b * t[n]
  <2>1. n \in 0 .. n /\ n + 1 \in 1 .. n + 1 /\ (n + 1) - 1 = n
    OBVIOUS
  <2> QED
    BY <1>3, <1>5, <2>1
<1> QED
  BY <1>1, <1>3, <1>4, <1>6
-----------------------------------------------------------------------------
(***************************************************************************)
(* Quotients and remainders.                                               *)
(***************************************************************************)
LEMMA Divides ==
    ASSUME NEW a \in Int, NEW d \in Nat \ {0}
    PROVE  /\ a \div d \in Int /\ a % d \in 0 .. d - 1
           /\ a = d * (a \div d) + (a % d)
OBVIOUS

\* The quotient is the only number of whole parts.
LEMMA Quotient ==
    ASSUME NEW a \in Int, NEW d \in Nat \ {0}, NEW q \in Int, NEW r \in 0 .. d - 1,
           a = d * q + r
    PROVE  a \div d = q /\ a % d = r
<1>1. /\ a \div d \in Int /\ a % d \in 0 .. d - 1
      /\ a = d * (a \div d) + (a % d)
  BY Divides
<1>2. PICK s, u : s = a \div d /\ u = a % d
  OBVIOUS
<1>3. s \in Int /\ u \in 0 .. d - 1 /\ a = d * s + u
  BY <1>1, <1>2
<1>4. s = q
  <2>1. CASE s >= q + 1
    <3>1. s - q - 1 \in Nat
      BY <1>3, <2>1
    <3>2. d * (s - q - 1) >= 0
      BY <3>1
    <3>3. d * (s - q - 1) = d * s - d * q - d
      BY <1>3
    <3> QED
      BY <1>3, <3>2, <3>3
  <2>2. CASE s <= q - 1
    <3>1. q - s - 1 \in Nat
      BY <1>3, <2>2
    <3>2. d * (q - s - 1) >= 0
      BY <3>1
    <3>3. d * (q - s - 1) = d * q - d * s - d
      BY <1>3
    <3> QED
      BY <1>3, <3>2, <3>3
  <2> QED
    BY <1>3, <2>1, <2>2
<1> QED
  BY <1>2, <1>3, <1>4
\* Dividing twice.
LEMMA DivDiv ==
    ASSUME NEW a \in Int, NEW d \in Nat \ {0}, NEW m \in Nat \ {0}
    PROVE  a \div (m * d) = (a \div d) \div m
<1>0. m * d \in Nat \ {0}
  OBVIOUS
<1>1. PICK q, r : q = a \div d /\ r = a % d
  OBVIOUS
<1>2. q \in Int /\ r \in 0 .. d - 1 /\ a = d * q + r
  BY <1>1, Divides
<1>3. PICK s, u : s = q \div m /\ u = q % m
  OBVIOUS
<1>4. s \in Int /\ u \in 0 .. m - 1 /\ q = m * s + u
  BY <1>2, <1>3, Divides
<1>5. d * u + r \in 0 .. m * d - 1
  <2>1. d * u \in Nat /\ r \in Nat /\ d * u + r \in Nat
    BY <1>2, <1>4
  <2>2. m - 1 - u \in Nat
    BY <1>4
  <2>3. d * (m - 1 - u) \in Nat
    BY <2>2
  <2>4. d * (m - 1 - u) = m * d - d - d * u
    BY <1>4
  <2> QED
    BY <1>0, <1>2, <2>1, <2>3, <2>4
<1>6. a = (m * d) * s + (d * u + r)
  <2>1. d * q = d * (m * s) + d * u
    BY <1>2, <1>4
  <2>2. d * (m * s) = (m * d) * s
    BY <1>4
  <2> QED
    BY <1>2, <1>4, <2>1, <2>2
<1>7. a \div (m * d) = s
  <2>1. PICK c, e : c = m * d /\ e = d * u + r
    OBVIOUS
  <2>2. c \in Nat \ {0} /\ e \in 0 .. c - 1 /\ a = c * s + e
    BY <1>0, <1>5, <1>6, <2>1
  <2> QED
    BY <1>4, <2>1, <2>2, Quotient
<1> QED
  BY <1>0, <1>1, <1>3, <1>7

\* A multiple of what is counted drops out of a remainder.
LEMMA ModMultiple ==
    ASSUME NEW a \in Int, NEW d \in Nat \ {0}, NEW k \in Int
    PROVE  /\ d * k \in Int
           /\ (a + d * k) % d = a % d
           /\ (a + d * k) \div d = (a \div d) + k
<1>1. PICK q, r : q = a \div d /\ r = a % d
  OBVIOUS
<1>2. q \in Int /\ r \in 0 .. d - 1 /\ a = d * q + r
  BY <1>1, Divides
<1>3. d * k \in Int /\ a + d * k \in Int /\ q + k \in Int
  BY <1>2
<1>4. a + d * k = d * (q + k) + r
  BY <1>2
<1> QED
  BY <1>1, <1>2, <1>3, <1>4, Quotient
-----------------------------------------------------------------------------
(***************************************************************************)
(* The index of an address at a level is a digit of its page number.       *)
(***************************************************************************)
Weight(l) == PAGE_SIZE * Power(W, l)
Width(l, x) == IF l = LEVELS - 1 /\ x THEN 4 * W ELSE W

LEMMA WeightType ==
    ASSUME NEW l \in Nat
    PROVE  /\ Weight(l) \in Nat \ {0} /\ Weight(0) = PAGE_SIZE
           /\ Weight(l + 1) = W * Weight(l)
<1>1. Power(W, l) \in Nat \ {0} /\ Power(W, 0) = 1 /\ Power(W, l + 1) = W * Power(W, l)
  BY PowerType, PowerStep, VMemAssumption
<1>2. PICK p : p = Power(W, l)
  OBVIOUS
<1>3. p \in Nat \ {0} /\ PAGE_SIZE \in Nat \ {0} /\ W \in Nat \ {0}
  BY <1>1, <1>2, VMemAssumption
<1>4. PAGE_SIZE * (W * p) = W * (PAGE_SIZE * p) /\ PAGE_SIZE * p \in Nat \ {0}
  BY <1>3
<1> QED
  BY <1>1, <1>2, <1>3, <1>4 DEF Weight

\* A table has at least one entry.
LEMMA WidthType ==
    ASSUME NEW l \in Nat, NEW x \in BOOLEAN
    PROVE  Width(l, x) \in Nat \ {0} /\ (l # LEVELS - 1 => Width(l, x) = W)
BY VMemAssumption DEF Width

\* An index is a digit of the address.
LEMMA IndexDigit ==
    ASSUME NEW a \in Nat, NEW l \in Nat, NEW x \in BOOLEAN
    PROVE  /\ va2idx(a, l, x) = (a \div Weight(l)) % Width(l, x)
           /\ a \div Weight(l) \in Nat
<1>1. va2idx(a, l, x) = (a \div Weight(l)) % Width(l, x)
  BY DEF va2idx, Weight, Width
<1>2. Weight(l) \in Nat \ {0}
  BY WeightType
<1> QED
  BY <1>1, <1>2

\* The span of a page table is the span of its root.
LEMMA SpanWeight ==
    ASSUME NEW x \in BOOLEAN
    PROVE  /\ Span(x) = Weight(LEVELS - 1) * Width(LEVELS - 1, x)
           /\ Span(x) \in Nat \ {0} /\ LEVELS - 1 \in Nat
<1>1. LEVELS - 1 \in Nat /\ (LEVELS - 1) + 1 = LEVELS
  BY VMemAssumption
<1>2. PICK w : w = Weight(LEVELS - 1)
  OBVIOUS
<1>3. w \in Nat \ {0} /\ PAGE_SIZE * Power(W, LEVELS) = W * w
  <2>1. Weight(LEVELS) = W * w /\ w \in Nat \ {0}
    BY <1>1, <1>2, WeightType
  <2> QED
    BY <2>1 DEF Weight
<1>4. Span(x) = (IF x THEN 4 ELSE 1) * (W * w)
  BY <1>3 DEF Span
<1>5. Width(LEVELS - 1, x) = (IF x THEN 4 ELSE 1) * W
  BY VMemAssumption DEF Width
<1>6. CASE x = TRUE
  <2>1. Span(x) = 4 * (W * w) /\ Width(LEVELS - 1, x) = 4 * W
    BY <1>4, <1>5, <1>6
  <2>2. 4 * (W * w) = w * (4 * W) /\ w * (4 * W) \in Nat \ {0}
    BY <1>3, VMemAssumption
  <2> QED
    BY <1>1, <1>2, <2>1, <2>2
<1>7. CASE x = FALSE
  <2>1. Span(x) = 1 * (W * w) /\ Width(LEVELS - 1, x) = 1 * W
    BY <1>4, <1>5, <1>7
  <2>2. 1 * (W * w) = w * (1 * W) /\ w * (1 * W) \in Nat \ {0}
    BY <1>3, VMemAssumption
  <2> QED
    BY <1>1, <1>2, <2>1, <2>2
<1> QED
  BY <1>6, <1>7

\* The span is made of whole entries of every level.
LEMMA SpanMultiple ==
    ASSUME NEW x \in BOOLEAN, NEW l \in 0 .. LEVELS - 1
    PROVE  \E e \in Nat : Span(x) = Weight(l) * (Width(l, x) * e)
<1> DEFINE Has(i) == \E e \in Nat : Span(x) = Weight(i) * (Width(i, x) * e)
           T == {k \in 0 .. LEVELS - 1 : ~ Has(LEVELS - 1 - k)}
<1>0. LEVELS - 1 \in Nat
  BY VMemAssumption
<1>1. T = {}
  <2> SUFFICES ASSUME T # {} PROVE FALSE
    OBVIOUS
  <2>1. PICK m \in T : \A k \in T : m <= k
    <3>1. T \in SUBSET Nat
      BY <1>0
    <3> HIDE DEF T
    <3> QED
      BY <3>1, LeastNumber
  <2>2. m \in 0 .. LEVELS - 1 /\ ~ Has(LEVELS - 1 - m)
    BY <2>1
  <2>3. Has(LEVELS - 1)
    <3>1. Width(LEVELS - 1, x) \in Nat /\ Width(LEVELS - 1, x) * 1 = Width(LEVELS - 1, x)
      BY <1>0, WidthType
    <3> QED
      BY <3>1, SpanWeight
  <2>4. m # 0
    <3>1. LEVELS - 1 - 0 = LEVELS - 1
      BY <1>0
    <3> HIDE DEF Has
    <3> QED
      BY <2>2, <2>3, <3>1
  <2>5. m - 1 \in 0 .. LEVELS - 1 /\ m - 1 \notin T
    BY <1>0, <2>1, <2>2, <2>4
  <2>6. PICK i \in Nat : i = LEVELS - 1 - m
    BY <1>0, <2>2
  <2>7. i + 1 = LEVELS - 1 - (m - 1) /\ i # LEVELS - 1
    BY <1>0, <2>2, <2>4, <2>6
  <2>8. Has(i + 1)
    BY <2>5, <2>7
  <2>9. PICK e \in Nat : Span(x) = Weight(i + 1) * (Width(i + 1, x) * e)
    BY <2>8
  <2>10. PICK w, v : w = Weight(i) /\ v = Width(i + 1, x)
    OBVIOUS
  <2>11. /\ w \in Nat \ {0} /\ v \in Nat \ {0} /\ Weight(i + 1) = W * w /\ Width(i, x) = W
         /\ W \in Nat \ {0}
    BY <2>6, <2>7, <2>10, WeightType, WidthType, VMemAssumption
  <2>12. v * e \in Nat /\ (W * w) * (v * e) = w * (W * (v * e))
    <3>1. PICK y \in Nat : y = v * e
      BY <2>11
    <3>2. (W * w) * y = w * (W * y)
      BY <2>11, <3>1
    <3> QED
      BY <3>1, <3>2
  <2>13. Has(i)
    BY <2>9, <2>10, <2>11, <2>12
  <2> QED
    BY <2>2, <2>6, <2>13
<1>2. LEVELS - 1 - l \in 0 .. LEVELS - 1 /\ LEVELS - 1 - (LEVELS - 1 - l) = l
  BY <1>0
<1>3. Has(l)
  <2> HIDE DEF Has
  <2> QED
    BY <1>1, <1>2
<1> QED
  BY <1>3

\* Addresses a multiple of the span apart have the same indices.
LEMMA IndexPeriodic ==
    ASSUME NEW a \in Nat, NEW k \in Int, NEW x \in BOOLEAN, NEW l \in 0 .. LEVELS - 1,
           NEW b \in Nat, b = a + Span(x) * k
    PROVE  va2idx(b, l, x) = va2idx(a, l, x)
<1>0. l \in Nat
  BY VMemAssumption
<1>1. PICK e \in Nat : Span(x) = Weight(l) * (Width(l, x) * e)
  BY SpanMultiple
<1>2. PICK w, v : w = Weight(l) /\ v = Width(l, x)
  OBVIOUS
<1>3. w \in Nat \ {0} /\ v \in Nat \ {0}
  BY <1>0, <1>2, WeightType, WidthType
<1>4. PICK f \in Int : f = e * k
  OBVIOUS
<1>5. v * f \in Int /\ Span(x) * k = w * (v * f)
  <2>1. (v * e) * k = v * (e * k) /\ v * e \in Int
    BY <1>3
  <2>2. (w * (v * e)) * k = w * ((v * e) * k)
    BY <1>3, <2>1
  <2> QED
    BY <1>1, <1>2, <1>3, <1>4, <2>1, <2>2
<1>6. b \div w = (a \div w) + v * f
  <2>1. PICK g \in Int : g = v * f
    BY <1>5
  <2>2. (a + w * g) \div w = (a \div w) + g
    <3>1. a \in Int
      OBVIOUS
    <3> QED
      BY <1>3, <3>1, ModMultiple, Zenon
  <2> QED
    BY <1>5, <2>1, <2>2
<1>7. ((a \div w) + v * f) % v = (a \div w) % v
  <2>1. a \div w \in Int
    BY <1>3
  <2> QED
    BY <1>3, <1>4, <2>1, ModMultiple, ZenonT(60)
<1> QED
  BY <1>0, <1>2, <1>6, <1>7, IndexDigit

\* The indices are those of the page.
LEMMA IndexPage ==
    ASSUME NEW a \in Nat, NEW b \in Nat, a \div PAGE_SIZE = b \div PAGE_SIZE,
           NEW x \in BOOLEAN, NEW l \in Nat
    PROVE  va2idx(a, l, x) = va2idx(b, l, x)
<1>1. PICK p : p = Power(W, l)
  OBVIOUS
<1>2. p \in Nat \ {0} /\ PAGE_SIZE \in Nat \ {0}
  BY <1>1, PowerType, VMemAssumption
<1>3. /\ a \div (p * PAGE_SIZE) = (a \div PAGE_SIZE) \div p
      /\ b \div (p * PAGE_SIZE) = (b \div PAGE_SIZE) \div p
  <2>1. a \in Int /\ b \in Int
    OBVIOUS
  <2> QED
    BY ONLY <1>2, <2>1, DivDiv
<1>4. Weight(l) = p * PAGE_SIZE
  BY <1>1, <1>2 DEF Weight
<1>5. a \div Weight(l) = b \div Weight(l)
  BY <1>3, <1>4
<1> QED
  BY <1>5, IndexDigit

\* Below the span, the indices tell the pages apart.
LEMMA IndicesDetermine ==
    ASSUME NEW x \in BOOLEAN, NEW a \in 0 .. Span(x) - 1, NEW b \in 0 .. Span(x) - 1,
           \A l \in 0 .. LEVELS - 1 : va2idx(a, l, x) = va2idx(b, l, x)
    PROVE  a \div PAGE_SIZE = b \div PAGE_SIZE
<1> DEFINE Same(i) == a \div Weight(i) = b \div Weight(i)
           T == {k \in 0 .. LEVELS - 1 : ~ Same(LEVELS - 1 - k)}
<1>0. LEVELS - 1 \in Nat /\ a \in Nat /\ b \in Nat /\ Span(x) \in Nat \ {0}
  BY SpanWeight, VMemAssumption
<1>1. Same(LEVELS - 1)
  <2>1. PICK w, v : w = Weight(LEVELS - 1) /\ v = Width(LEVELS - 1, x)
    OBVIOUS
  <2>2. w \in Nat \ {0} /\ v \in Nat \ {0} /\ Span(x) = w * v
    BY <1>0, <2>1, WeightType, WidthType, SpanWeight
  <2>3. ASSUME NEW c \in 0 .. Span(x) - 1
        PROVE  c \div w = va2idx(c, LEVELS - 1, x)
    <3>1. PICK q, r : q = c \div w /\ r = c % w
      OBVIOUS
    <3>2. q \in Nat /\ r \in 0 .. w - 1 /\ c = w * q + r
      <4>1. c \in Nat
        BY <1>0
      <4>2. q \in Int /\ r \in 0 .. w - 1 /\ c = w * q + r
        BY <2>2, <3>1, <4>1, Divides, SMTT(40)
      <4>3. c \div w \in Nat
        BY <2>2, <4>1
      <4> QED
        BY <3>1, <4>2, <4>3
    <3>3. q < v
      <4> SUFFICES ASSUME q >= v PROVE FALSE
        BY <2>2, <3>2
      <4>1. q - v \in Nat /\ w * (q - v) >= 0
        BY <2>2, <3>2
      <4>2. w * (q - v) = w * q - w * v
        BY <2>2, <3>2
      <4> QED
        BY <1>0, <2>2, <3>2, <4>1, <4>2
    <3>4. q % v = q
      BY <2>2, <3>2, <3>3
    <3>5. c \in Nat
      BY <1>0
    <3> QED
      BY <1>0, <2>1, <3>1, <3>4, <3>5, IndexDigit
  <2>4. LEVELS - 1 \in 0 .. LEVELS - 1
    BY <1>0
  <2> QED
    BY <2>1, <2>3, <2>4
<1>2. T = {}
  <2> SUFFICES ASSUME T # {} PROVE FALSE
    OBVIOUS
  <2>1. PICK m \in T : \A k \in T : m <= k
    <3>1. T \in SUBSET Nat
      BY <1>0
    <3> HIDE DEF T
    <3> QED
      BY <3>1, LeastNumber
  <2>2. m \in 0 .. LEVELS - 1 /\ ~ Same(LEVELS - 1 - m)
    BY <2>1
  <2>3. m # 0
    <3>1. LEVELS - 1 - 0 = LEVELS - 1
      BY <1>0
    <3> HIDE DEF Same
    <3> QED
      BY <1>1, <2>2, <3>1
  <2>4. m - 1 \in 0 .. LEVELS - 1 /\ m - 1 \notin T
    BY <1>0, <2>1, <2>2, <2>3
  <2>5. PICK i \in Nat : i = LEVELS - 1 - m
    BY <1>0, <2>2
  <2>6. i + 1 = LEVELS - 1 - (m - 1) /\ i # LEVELS - 1 /\ i \in 0 .. LEVELS - 1
    BY <1>0, <2>2, <2>3, <2>5
  <2>7. Same(i + 1)
    BY <2>4, <2>6
  <2>8. PICK w : w = Weight(i)
    OBVIOUS
  <2>9. w \in Nat \ {0} /\ Weight(i + 1) = W * w /\ Width(i, x) = W /\ W \in Nat \ {0}
    BY <2>5, <2>6, <2>8, WeightType, WidthType, VMemAssumption
  <2>10. ASSUME NEW c \in Nat
         PROVE  c \div w = W * (c \div Weight(i + 1)) + va2idx(c, i, x)
    <3>1. c \div (W * w) = (c \div w) \div W
      <4>1. c \in Int
        OBVIOUS
      <4> QED
        BY ONLY <2>9, <4>1, DivDiv
    <3>2. c \div w \in Nat /\ va2idx(c, i, x) = (c \div w) % W
      BY <2>5, <2>8, <2>9, IndexDigit
    <3>3. c \div w = W * ((c \div w) \div W) + ((c \div w) % W)
      BY <2>9, <3>2, Divides
    <3> QED
      BY <2>9, <3>1, <3>2, <3>3
  <2>11. va2idx(a, i, x) = va2idx(b, i, x)
    BY <2>6
  <2>12. a \div w = b \div w
    BY <1>0, <2>7, <2>10, <2>11
  <2> QED
    BY <2>2, <2>5, <2>8, <2>12
<1>3. Same(0)
  <2>1. LEVELS - 1 \in 0 .. LEVELS - 1 /\ LEVELS - 1 - (LEVELS - 1) = 0
    BY <1>0
  <2> HIDE DEF Same
  <2> QED
    BY <1>2, <2>1
<1>4. Weight(0) = PAGE_SIZE
  BY <1>0, WeightType
<1> QED
  BY <1>3, <1>4
-----------------------------------------------------------------------------
(***************************************************************************)
(* Addresses that are whole pages, and those the MMU translates.           *)
(***************************************************************************)
\* A number of whole pages.
LEMMA Multiple ==
    ASSUME NEW d \in Nat \ {0}, NEW a \in Int, a % d = 0
    PROVE  \E k \in Int : a = d * k
<1>1. PICK k, r : k = a \div d /\ r = a % d
  OBVIOUS
<1>2. k \in Int /\ a = d * k + r /\ r = 0
  BY <1>1, Divides
<1>3. a = d * k
  BY <1>2
<1> QED
  BY <1>2, <1>3

\* Whole pages are a page apart.
LEMMA MultipleGap ==
    ASSUME NEW d \in Nat \ {0}, NEW a \in Int, NEW b \in Int, a % d = 0, b % d = 0
    PROVE  /\ a < b => a + d <= b
           /\ (a + b) % d = 0 /\ (a - b) % d = 0
           /\ a \div d = b \div d => a = b
<1>1. PICK q, r : q = a \div d /\ r = b \div d
  OBVIOUS
<1>2. q \in Int /\ r \in Int /\ a = d * q /\ b = d * r
  <2>1. /\ a \div d \in Int /\ a = d * (a \div d) + (a % d)
        /\ b \div d \in Int /\ b = d * (b \div d) + (b % d)
    BY Divides
  <2> QED
    BY <1>1, <2>1
<1>3. a < b => a + d <= b
  <2> SUFFICES ASSUME a < b PROVE a + d <= b
    OBVIOUS
  <2>1. q < r
    <3> SUFFICES ASSUME q >= r PROVE FALSE
      BY <1>2
    <3>1. q - r \in Nat /\ d * (q - r) >= 0 /\ d * (q - r) = d * q - d * r
      BY <1>2
    <3> QED
      BY <1>2, <3>1
  <2>2. r - q - 1 \in Nat /\ d * (r - q - 1) >= 0 /\ d * (r - q - 1) = d * r - d * q - d
    BY <1>2, <2>1
  <2> QED
    BY <1>2, <2>2
<1>4. (a + b) % d = 0
  <2>1. a + b = d * (q + r) + 0 /\ q + r \in Int /\ 0 \in 0 .. d - 1 /\ a + b \in Int
    BY <1>2
  <2> QED
    BY <2>1, Quotient
<1>5. (a - b) % d = 0
  <2>1. a - b = d * (q - r) + 0 /\ q - r \in Int /\ 0 \in 0 .. d - 1 /\ a - b \in Int
    BY <1>2
  <2> QED
    BY <2>1, Quotient
<1> QED
  BY <1>1, <1>2, <1>3, <1>4, <1>5

\* The quotient of whole parts.
LEMMA ZeroMod ==
    ASSUME NEW d \in Nat \ {0}, NEW k \in Int
    PROVE  (d * k) % d = 0
<1>1. d * k = d * k + 0 /\ 0 \in 0 .. d - 1 /\ d * k \in Int
  OBVIOUS
<1> QED
  BY <1>1, Quotient

\* The addresses are whole spans, so a sign extension drops out of the indices.
LEMMA SpanDivides ==
    ASSUME NEW x \in BOOLEAN
    PROVE  /\ \E k \in Nat \ {0} : ADDRESSES = Span(x) * k
           /\ Span(x) % PAGE_SIZE = 0 /\ Span(x) <= ADDRESSES
<1>1. PICK s : s = PAGE_SIZE * Power(W, LEVELS)
  OBVIOUS
<1>2. s \in Nat \ {0} /\ s % PAGE_SIZE = 0
  <2>1. PICK p : p = Power(W, LEVELS)
    OBVIOUS
  <2>2. p \in Nat \ {0} /\ PAGE_SIZE \in Nat \ {0}
    BY <2>1, PowerType, VMemAssumption
  <2> QED
    BY <1>1, <2>1, <2>2, ZeroMod
<1>3. Span(TRUE) = 4 * s /\ Span(FALSE) = s
  BY <1>1, <1>2 DEF Span
<1>m. PICK m : m = Span(TRUE)
  OBVIOUS
<1>n. m = 4 * s /\ ADDRESSES % m = 0
  BY <1>3, <1>m, RangeAssumption, Zenon
<1>4. PICK n : n = ADDRESSES \div m
  OBVIOUS
<1>5. n \in Nat /\ ADDRESSES = (4 * s) * n
  <2>1. m \in Nat \ {0} /\ ADDRESSES \in Nat /\ ADDRESSES \in Int
    BY <1>2, <1>n, VMemAssumption
  <2>2. ADDRESSES = m * (ADDRESSES \div m) + (ADDRESSES % m)
    BY <2>1, Divides
  <2>3. n \in Nat
    BY <1>4, <2>1
  <2> QED
    BY <1>4, <1>n, <2>1, <2>2, <2>3
<1>6. n # 0
  BY <1>2, <1>5, VMemAssumption
<1>7. n \in Nat \ {0} /\ 4 * n \in Nat \ {0} /\ ADDRESSES = s * (4 * n)
  BY <1>2, <1>5, <1>6
<1>8. s <= ADDRESSES /\ 4 * s <= ADDRESSES
  <2>1. n - 1 \in Nat
    BY <1>7
  <2>2. (4 * s) * (n - 1) >= 0
    BY <1>2, <2>1
  <2>3. (4 * s) * (n - 1) = (4 * s) * n - 4 * s
    BY <1>2, <1>7
  <2> QED
    BY <1>2, <1>5, <2>2, <2>3
<1>9. (4 * s) % PAGE_SIZE = 0
  <2>1. PAGE_SIZE \in Nat \ {0} /\ s \in Int /\ s + s \in Int
    BY <1>2, VMemAssumption
  <2>2. (s + s) % PAGE_SIZE = 0
    BY <1>2, <2>1, MultipleGap
  <2>3. ((s + s) + (s + s)) % PAGE_SIZE = 0
    BY <2>1, <2>2, MultipleGap
  <2>4. (s + s) + (s + s) = 4 * s
    BY <1>2
  <2> QED
    BY <2>3, <2>4
<1>10. CASE x = TRUE
  BY <1>2, <1>3, <1>5, <1>7, <1>8, <1>9, <1>10
<1>11. CASE x = FALSE
  BY <1>2, <1>3, <1>7, <1>8, <1>11
<1> QED
  BY <1>10, <1>11

\* The address of offset o of a region.
Va(r, o) == (r.va + o) % ADDRESSES

\* A region longer than the span comes back to the indices it began with.
LEMMA Wraps ==
    ASSUME NEW x \in BOOLEAN, NEW r \in Regions, NEW l \in 0 .. LEVELS - 1
    PROVE  va2idx(Va(r, Span(x)), l, x) = va2idx(Va(r, 0), l, x)
<1>1. PICK k \in Nat \ {0} : ADDRESSES = Span(x) * k
  BY SpanDivides
<1>2. PICK s, v : s = Span(x) /\ v = r.va
  OBVIOUS
<1>3. s \in Nat \ {0} /\ v \in Nat /\ v + 0 = v /\ v + s \in Nat
  BY <1>2, SpanWeight DEF Regions
<1>4. PICK c, d : c = v \div ADDRESSES /\ d = (v + s) \div ADDRESSES
  OBVIOUS
<1>5. /\ c \in Int /\ d \in Int
      /\ v = ADDRESSES * c + (v % ADDRESSES) /\ v % ADDRESSES \in Nat
      /\ v + s = ADDRESSES * d + ((v + s) % ADDRESSES) /\ (v + s) % ADDRESSES \in Nat
  <2>1. ADDRESSES \in Nat \ {0} /\ v \in Int /\ v + s \in Int
    BY <1>3, VMemAssumption
  <2>2. /\ c \in Int /\ v = ADDRESSES * c + (v % ADDRESSES)
        /\ v % ADDRESSES \in 0 .. ADDRESSES - 1
    BY <1>4, <2>1, Divides
  <2>3. /\ d \in Int /\ v + s = ADDRESSES * d + ((v + s) % ADDRESSES)
        /\ (v + s) % ADDRESSES \in 0 .. ADDRESSES - 1
    BY <1>4, <2>1, Divides
  <2> QED
    BY <2>1, <2>2, <2>3
<1>6. PICK a, b : a = v % ADDRESSES /\ b = (v + s) % ADDRESSES
  OBVIOUS
<1>7. a \in Nat /\ b \in Nat
  BY <1>5, <1>6
<1>8. PICK j \in Int : j = 1 + k * (c - d)
  BY <1>5
<1>9. b = a + s * j
  <2>1. b = a + s + ADDRESSES * c - ADDRESSES * d
    BY <1>3, <1>5, <1>6, <1>7, VMemAssumption, SMTT(40)
  <2>2. ADDRESSES * c = s * (k * c) /\ ADDRESSES * d = s * (k * d)
    BY <1>1, <1>2, <1>3, <1>5
  <2>3. s * j = s + s * (k * c) - s * (k * d)
    BY <1>3, <1>5, <1>8
  <2> QED
    BY <1>3, <1>5, <1>7, <1>8, <2>1, <2>2, <2>3
<1>10. va2idx(b, l, x) = va2idx(a, l, x)
  BY <1>2, <1>7, <1>9, IndexPeriodic
<1> QED
  BY <1>2, <1>3, <1>6, <1>10 DEF Va

\* An address moved into the span.
LEMMA Reduced ==
    ASSUME NEW x \in BOOLEAN, NEW a \in Nat, Canonical(x, a, a + PAGE_SIZE)
    PROVE  \E k \in Int, b \in 0 .. Span(x) - 1 :
              /\ a = b + Span(x) * k
              /\ \/ k = 0 /\ (~ x => b + PAGE_SIZE <= Span(x) \div 2)
                 \/ ~ x /\ b >= Span(x) - (Span(x) \div 2) /\ ADDRESSES = Span(x) * (k + 1)
<1>1. PICK n \in Nat \ {0} : ADDRESSES = Span(x) * n
  BY SpanDivides
<1>2. PICK s : s = Span(x)
  OBVIOUS
<1>3. s \in Nat \ {0} /\ PAGE_SIZE \in Nat \ {0} /\ s \div 2 \in Nat /\ s \div 2 <= s
  BY <1>2, SpanWeight, VMemAssumption
<1>4. CASE a + PAGE_SIZE <= (IF x THEN s ELSE s \div 2)
  <2>1. a \in 0 .. s - 1 /\ a = a + s * 0 /\ 0 \in Int
    BY <1>3, <1>4
  <2>2. ~ x => a + PAGE_SIZE <= s \div 2
    BY <1>4
  <2> QED
    BY <1>2, <2>1, <2>2
<1>5. CASE ~ x /\ ADDRESSES - (s \div 2) <= a /\ a + PAGE_SIZE <= ADDRESSES
  <2>1. PICK b : b = a - s * (n - 1)
    OBVIOUS
  <2>2. s * (n - 1) = ADDRESSES - s /\ n - 1 \in Int /\ s * (n - 1) \in Int
    BY <1>1, <1>2, <1>3
  <2>3. b \in 0 .. s - 1 /\ b >= s - (s \div 2) /\ a = b + s * (n - 1)
    BY <1>3, <1>5, <2>1, <2>2, VMemAssumption
  <2>4. ADDRESSES = s * ((n - 1) + 1)
    BY <1>1, <1>2, <1>3
  <2> QED
    BY <1>2, <1>5, <2>2, <2>3, <2>4
<1> QED
  BY <1>2, <1>4, <1>5 DEF Canonical

\* The MMU is never asked for two pages with the same indices.
LEMMA CanonicalApart ==
    ASSUME NEW x \in BOOLEAN, NEW a \in Nat, NEW b \in Nat,
           a % PAGE_SIZE = 0, b % PAGE_SIZE = 0,
           Canonical(x, a, a + PAGE_SIZE), Canonical(x, b, b + PAGE_SIZE),
           \A l \in 0 .. LEVELS - 1 : va2idx(a, l, x) = va2idx(b, l, x)
    PROVE  a = b
<1>1. PICK s : s = Span(x)
  OBVIOUS
<1>2. s \in Nat \ {0} /\ PAGE_SIZE \in Nat \ {0} /\ s % PAGE_SIZE = 0
  BY <1>1, SpanWeight, SpanDivides, VMemAssumption
<1>3. PICK k \in Int, c \in 0 .. s - 1 :
              /\ a = c + s * k
              /\ \/ k = 0 /\ (~ x => c + PAGE_SIZE <= s \div 2)
                 \/ ~ x /\ c >= s - (s \div 2) /\ ADDRESSES = s * (k + 1)
  BY <1>1, Reduced
<1>4. PICK m \in Int, d \in 0 .. s - 1 :
              /\ b = d + s * m
              /\ \/ m = 0 /\ (~ x => d + PAGE_SIZE <= s \div 2)
                 \/ ~ x /\ d >= s - (s \div 2) /\ ADDRESSES = s * (m + 1)
  BY <1>1, Reduced
<1>5. c \div PAGE_SIZE = d \div PAGE_SIZE
  <2>1. ASSUME NEW l \in 0 .. LEVELS - 1 PROVE va2idx(c, l, x) = va2idx(d, l, x)
    <3>1. c \in Nat /\ d \in Nat
      BY <1>2
    <3>2. va2idx(a, l, x) = va2idx(c, l, x)
      BY <1>1, <1>3, <3>1, IndexPeriodic
    <3>3. va2idx(b, l, x) = va2idx(d, l, x)
      BY <1>1, <1>4, <3>1, IndexPeriodic
    <3> QED
      BY <3>2, <3>3
  <2> QED
    BY <1>1, <2>1, IndicesDetermine
<1>6. c % PAGE_SIZE = 0 /\ d % PAGE_SIZE = 0
  <2>1. ASSUME NEW e \in Int, NEW j \in Int, NEW f \in Int, f = e + s * j, f % PAGE_SIZE = 0
        PROVE  e % PAGE_SIZE = 0
    <3>1. PICK q \in Int : s = PAGE_SIZE * q
      <4>1. s \in Int
        BY <1>2
      <4> QED
        BY <1>2, <4>1, Multiple
    <3>2. q * j \in Int /\ s * j = PAGE_SIZE * (q * j)
      BY <1>2, <3>1
    <3>3. PICK i \in Int : i = q * j
      BY <3>2
    <3>4. (e + PAGE_SIZE * i) % PAGE_SIZE = e % PAGE_SIZE
      BY <1>2, ModMultiple, ZenonT(60)
    <3> QED
      BY <2>1, <3>2, <3>3, <3>4
  <2>2. a \in Int /\ b \in Int /\ c \in Int /\ d \in Int
    BY <1>2
  <2> QED
    BY <1>3, <1>4, <2>1, <2>2
<1>7. c = d
  <2>1. c \in Int /\ d \in Int
    BY <1>2
  <2> QED
    BY ONLY <1>2, <1>5, <1>6, <2>1, MultipleGap
<1>8. s \div 2 \in Nat /\ s - (s \div 2) >= s \div 2
  BY <1>2
<1>9. k = m
  <2>1. CASE k = 0 /\ m = 0
    BY <2>1
  <2>2. CASE ADDRESSES = s * (k + 1) /\ ADDRESSES = s * (m + 1)
    <3>1. s * (k + 1) = s * (m + 1)
      BY <2>2
    <3>2. s * (k + 1) = s * k + s /\ s * (m + 1) = s * m + s /\ s * (k - m) = s * k - s * m
      BY <1>2
    <3>3. s * (k - m) = 0 /\ k - m \in Int
      BY <1>2, <3>1, <3>2
    <3>4. k - m = 0
      BY <1>2, <3>3
    <3> QED
      BY <3>4
  <2> QED
    BY <1>2, <1>3, <1>4, <1>7, <1>8, <2>1, <2>2
<1> QED
  BY <1>3, <1>4, <1>7, <1>9

\* PGROUNDUP is the least number of whole pages.
LEMMA RoundUp ==
    ASSUME NEW n \in Nat
    PROVE  PGROUNDUP(n) \in Nat /\ PGROUNDUP(n) % PAGE_SIZE = 0
<1>0. PAGE_SIZE \in Nat \ {0} /\ ADDRESSES \in Nat \ {0} /\ ADDRESSES % PAGE_SIZE = 0
  BY VMemAssumption
<1>1. PICK q : q = (n + PAGE_SIZE - 1) \div PAGE_SIZE
  OBVIOUS
<1>2. q \in Nat
  BY <1>0, <1>1
<1>3. PICK m \in Nat : m = q * PAGE_SIZE
  BY <1>0, <1>2
<1>4. PGROUNDUP(n) = m % ADDRESSES
  BY <1>1, <1>3 DEF PGROUNDUP
<1>5. m % PAGE_SIZE = 0
  <2>1. m = PAGE_SIZE * q
    BY <1>0, <1>2, <1>3
  <2> QED
    BY <1>0, <1>2, <2>1, ZeroMod
<1>6. PICK j, r : j = m \div ADDRESSES /\ r = m % ADDRESSES
  OBVIOUS
<1>7. j \in Int /\ r \in Nat /\ m = ADDRESSES * j + r
  <2>1. m \in Int
    OBVIOUS
  <2>2. j \in Int /\ r \in 0 .. ADDRESSES - 1 /\ m = ADDRESSES * j + r
    BY <1>0, <1>6, <2>1, Divides
  <2> QED
    BY <1>0, <2>2
<1>8. PICK k \in Int : ADDRESSES = PAGE_SIZE * k
  <2>1. ADDRESSES \in Int
    BY <1>0
  <2> QED
    BY <1>0, <2>1, Multiple
<1>9. PICK i \in Int : i = k * j
  BY <1>7, <1>8
<1>10. r % PAGE_SIZE = 0
  <2>1. ADDRESSES * j = PAGE_SIZE * i
    BY <1>0, <1>7, <1>8, <1>9
  <2>2. (r + PAGE_SIZE * i) % PAGE_SIZE = r % PAGE_SIZE
    <3>1. r \in Int
      BY <1>7
    <3> QED
      BY <1>0, <3>1, ModMultiple
  <2>3. m = r + PAGE_SIZE * i
    BY <1>0, <1>7, <1>9, <2>1
  <2> QED
    BY <1>5, <2>2, <2>3
<1> QED
  BY <1>4, <1>6, <1>7, <1>10

\* The pages of a region with canonical addresses.
LEMMA RegionAddress ==
    ASSUME NEW x \in BOOLEAN, NEW r \in Regions, Aligned(r),
           Canonical(x, r.va, r.va + PGROUNDUP(r.size)),
           NEW o \in Nat, o % PAGE_SIZE = 0, o < PGROUNDUP(r.size)
    PROVE  /\ Va(r, o) = r.va + o /\ r.va + o \in Nat /\ (r.va + o) % PAGE_SIZE = 0
           /\ Canonical(x, r.va + o, r.va + o + PAGE_SIZE)
<1>1. PICK v, z : v = r.va /\ z = PGROUNDUP(r.size)
  OBVIOUS
<1>2. v \in Nat /\ z \in Nat /\ z % PAGE_SIZE = 0 /\ v % PAGE_SIZE = 0
  BY <1>1, RoundUp DEF Regions, Aligned
<1>3. PAGE_SIZE \in Nat \ {0} /\ ADDRESSES \in Nat \ {0} /\ Span(x) <= ADDRESSES
      /\ Span(x) \in Nat \ {0}
  BY VMemAssumption, SpanDivides, SpanWeight
<1>4. o + PAGE_SIZE <= z
  <2>1. o \in Int /\ z \in Int
    BY <1>2
  <2> QED
    BY <1>1, <1>2, <1>3, <2>1, MultipleGap
<1>5. (v + o) % PAGE_SIZE = 0
  <2>1. v \in Int /\ o \in Int
    BY <1>2
  <2> QED
    BY <1>2, <1>3, <2>1, MultipleGap
<1>6. v + z <= ADDRESSES
  <2>1. Canonical(x, v, v + z)
    BY <1>1
  <2>2. PICK s : s = Span(x)
    OBVIOUS
  <2>3. s \div 2 <= s
    BY <1>3, <2>2
  <2> QED
    BY <1>2, <1>3, <2>1, <2>2, <2>3 DEF Canonical
<1>7. v + o \in Nat /\ (v + o) % ADDRESSES = v + o
  BY <1>2, <1>3, <1>4, <1>6
<1>8. Canonical(x, v + o, v + o + PAGE_SIZE)
  <2>1. Canonical(x, v, v + z)
    BY <1>1
  <2>2. PICK s : s = Span(x) \div 2
    OBVIOUS
  <2>3. s \in Nat /\ v <= v + o /\ v + o + PAGE_SIZE <= v + z
    BY <1>2, <1>3, <1>4, <2>2
  <2> QED
    BY <1>2, <1>3, <2>1, <2>2, <2>3 DEF Canonical
<1> QED
  BY <1>1, <1>5, <1>7, <1>8 DEF Va
-----------------------------------------------------------------------------
(***************************************************************************)
(* What a hart has mapped so far.  The regions it has still to map are the *)
(* end of the list it was given, and off is how far it is in the next one. *)
(***************************************************************************)
Suffix(s, R) ==
    /\ Len(s) <= Len(R)
    /\ \A i \in 1 .. Len(s) : s[i] = R[Len(R) - Len(s) + i]

\* The span of the table with root r, and the index of address a at level l.
Limit(r) == Span(r \in Roots)
Index(r, a, l) == va2idx(a, l, r \in Roots)

\* The physical page that offset o of region s gets.
PageOf(s, o, p) == IF s.pa = 0 THEN p \in Pool ELSE p = (s.pa + o) \div PAGE_SIZE

ProgressOf(h) ==
    /\ root[h] \in {0, kroot[h], VmRoot[h]} /\ (root[h] = 0 <=> kroot[h] = 0)
    /\ pc[h] = "init_vmem" => root[h] = 0
    /\ root[h] = 0 => off[h] = 0
    /\ root[h] # 0 =>
         /\ off[h] % PAGE_SIZE = 0 /\ off[h] <= Limit(root[h])
         /\ root[h] = kroot[h] => Suffix(todo[h], KernelRegions[h])
         /\ root[h] = VmRoot[h] => Suffix(todo[h], VmRegions(conf[h]))
    /\ pc[h] \in {"init_hs_pgtable", "done"} => root[h] # 0 /\ todo[h] = <<>> /\ off[h] = 0
    /\ pc[h] = "init_hs_pgtable" => root[h] = kroot[h]
    /\ pc[h] = "done" /\ conf[h] # NONE => root[h] = VmRoot[h]
    /\ pc[h] = "walk" =>
         /\ off[h] < PGROUNDUP(Head(todo[h]).size)
         /\ PageOf(Head(todo[h]), off[h], pa[h] \div PAGE_SIZE)

Progress ==
    /\ \A h \in Harts : ProgressOf(h)
    /\ \A g, h \in Harts : kroot[g] = kroot[h] => g = h \/ kroot[g] = 0
-----------------------------------------------------------------------------
(***************************************************************************)
(* The inductive invariant for MappedExactly.  A table has an address too: *)
(* pl[t].va is the address whose mapping made it, and it has every address *)
(* with the same indices above it.                                         *)
(***************************************************************************)
Places == [root : Tables, depth : Nat, va : Nat]

\* The n highest indices of a and b are the same.
Agree(r, a, b, n) ==
    \A k \in 0 .. n - 1 : Index(r, a, LEVELS - 1 - k) = Index(r, b, LEVELS - 1 - k)

\* A walk from r for a that has followed n entries is in table t.
On(pl, t, r, n, a) ==
    t \in Tables \ free /\ pl[t].root = r /\ pl[t].depth = n /\ Agree(r, a, pl[t].va, n)

\* Entry i of table u leads to table t.
Linked(pl, u, i, t) ==
    /\ t \in Tables \ free
    /\ pl[t].root = pl[u].root /\ pl[t].depth = pl[u].depth + 1
    /\ Agree(pl[u].root, pl[t].va, pl[u].va, pl[u].depth)
    /\ Index(pl[u].root, pl[t].va, LEVELS - 1 - pl[u].depth) = i

\* A table that is no root was linked by an entry.
PlaceOK(pl, t) ==
    /\ pl[t].root \in Tables \ free
    /\ pl[t].depth = 0 => pl[t].root = t
    /\ pl[t].depth \in 1 .. LEVELS - 1 =>
         \E u \in Tables \ free, i \in Nat :
            <<u, i>> \in DOMAIN pte /\ pte[<<u, i>>].ppn = t /\ Linked(pl, u, i, t)

Below(pl, x) ==
    /\ x[1] \in Tables \ free /\ pl[x[1]].depth < LEVELS
    /\ pl[x[1]].depth < LEVELS - 1 => Linked(pl, x[1], x[2], pte[x].ppn)

WalkOn(pl, h) ==
    pc[h] = "walk" => On(pl, tbl[h], root[h], LEVELS - 1 - level[h], va(h))

Links(pl) ==
    /\ pl \in [Tables -> Places]
    /\ \A t \in Tables \ free : PlaceOK(pl, t)
    /\ \A r \in Roots : pl[r].depth = 0
    /\ \A h \in Harts : kroot[h] # 0 => kroot[h] \notin free /\ pl[kroot[h]].depth = 0
    /\ \A x \in DOMAIN pte : Below(pl, x)
    /\ \A h \in Harts : WalkOn(pl, h)

\* Agree is an equivalence, and grows by one index at a time.
LEMMA AgreeFacts ==
    ASSUME NEW r, NEW a, NEW b, NEW n \in Nat
    PROVE  /\ Agree(r, a, b, n) => Agree(r, b, a, n)
           /\ \A c : Agree(r, a, b, n) /\ Agree(r, b, c, n) => Agree(r, a, c, n)
           /\ Agree(r, a, b, n + 1) <=>
                Agree(r, a, b, n) /\ Index(r, a, LEVELS - 1 - n) = Index(r, b, LEVELS - 1 - n)
           /\ Agree(r, a, b, 0) /\ Agree(r, a, a, n)
<1>1. 0 .. (n + 1) - 1 = (0 .. n - 1) \cup {n} /\ 0 .. 0 - 1 = {}
  OBVIOUS
<1> QED
  BY <1>1 DEF Agree

\* The entry that walk follows.
Follow(u, i) == IF valid(u, i) THEN pte[<<u, i>>].ppn ELSE 0

\* The function leaf_table is computed with.
LEMMA LeafTable ==
    ASSUME NEW r, NEW a, NEW x
    PROVE  \E t : /\ t[0] = r
                  /\ \A n \in 1 .. LEVELS - 1 : t[n] = Follow(t[n - 1], va2idx(a, LEVELS - n, x))
                  /\ leaf_table(r, a, x) = t[LEVELS - 1]
<1> DEFINE D == {r, 0} \cup {pte[y].ppn : y \in DOMAIN pte}
           next(n, u) == Follow(u, va2idx(a, LEVELS - n, x))
           step == [y \in Nat \X D |-> next(y[1], y[2])]
           F(f) == [n \in 0 .. LEVELS - 1 |-> IF n = 0 THEN r ELSE next(n, f[n - 1])]
           t == CHOOSE f : f = F(f)
<1>0. LEVELS - 1 \in Nat
  BY VMemAssumption
<1>1. step \in [Nat \X D -> D]
  <2>1. ASSUME NEW n, NEW u PROVE next(n, u) \in D
    BY DEF Follow, valid
  <2> HIDE DEF next, D
  <2> QED
    BY <2>1
<1>2. PICK f \in [0 .. LEVELS - 1 -> D] : Recursive(f, r, step, LEVELS - 1)
  <2>1. r \in D
    OBVIOUS
  <2> HIDE DEF D, step
  <2> QED
    BY <1>0, <1>1, <2>1, RecursiveExists
<1>3. f = F(f)
  <2>1. ASSUME NEW n \in 0 .. LEVELS - 1 PROVE f[n] = F(f)[n]
    <3>1. CASE n = 0
      BY <1>2, <3>1 DEF Recursive
    <3>2. CASE n # 0
      <4>1. n \in 1 .. LEVELS - 1 /\ n \in Nat /\ n - 1 \in 0 .. LEVELS - 1 /\ f[n - 1] \in D
        <5> HIDE DEF D
        <5> QED
          BY <1>0, <3>2
      <4>2. f[n] = step[<<n, f[n - 1]>>]
        <5> HIDE DEF step
        <5> QED
          BY <1>2, <4>1 DEF Recursive
      <4>3. step[<<n, f[n - 1]>>] = next(n, f[n - 1])
        <5> HIDE DEF next, D
        <5> QED
          BY <4>1
      <4> HIDE DEF next, step, D
      <4> QED
        BY <3>2, <4>2, <4>3
    <3> QED
      BY <3>1, <3>2
  <2> HIDE DEF next, D
  <2> QED
    BY <2>1
<1>4. leaf_table(r, a, x) = t[LEVELS - 1]
  BY DEF leaf_table, Follow
<1>5. t = F(t)
  <2> HIDE DEF next
  <2> QED
    BY <1>3
<1> HIDE DEF t
<1>6. t[0] = r /\ \A n \in 1 .. LEVELS - 1 : t[n] = next(n, t[n - 1])
  <2> HIDE DEF next
  <2> QED
    BY <1>0, <1>5
<1> QED
  BY <1>4, <1>6

\* The tables of a walk from r for a.
Steps(t, r, a) ==
    t[0] = r /\ \A n \in 1 .. LEVELS - 1 : t[n] = Follow(t[n - 1], Index(r, a, LEVELS - n))

\* A walk is in the only table that has its address.
LEMMA Route ==
    ASSUME TypeOK, NEW pl, Links(pl), NEW r \in Tables \ free, pl[r].depth = 0, NEW a,
           NEW t, Steps(t, r, a), NEW n \in 0 .. LEVELS - 1
    PROVE  /\ t[n] # 0 => On(pl, t[n], r, n, a)
           /\ \A u : On(pl, u, r, n, a) => t[n] = u
<1> DEFINE Good(m) == /\ t[m] # 0 => On(pl, t[m], r, m, a)
                      /\ \A u : On(pl, u, r, m, a) => t[m] = u
           T == {m \in 0 .. LEVELS - 1 : ~ Good(m)}
<1>0. LEVELS - 1 \in Nat
  BY VMemAssumption
<1>p. \A u \in Tables \ free : PlaceOK(pl, u)
  BY DEF Links
<1>1. Good(0)
  <2>1. pl[r].root = r
    BY <1>p DEF PlaceOK
  <2>2. Agree(r, a, pl[r].va, 0)
    BY AgreeFacts
  <2>3. ASSUME NEW u, On(pl, u, r, 0, a) PROVE u = r
    BY <1>p, <2>3 DEF On, PlaceOK
  <2> QED
    BY <2>1, <2>2, <2>3 DEF On, Steps
<1>2. T = {}
  <2> SUFFICES ASSUME T # {} PROVE FALSE
    OBVIOUS
  <2>1. PICK m \in T : \A k \in T : m <= k
    <3>1. T \in SUBSET Nat
      BY <1>0
    <3> HIDE DEF T
    <3> QED
      BY <3>1, LeastNumber
  <2>2. m \in 0 .. LEVELS - 1 /\ ~ Good(m)
    BY <2>1
  <2>3. m # 0
    <3> HIDE DEF Good
    <3> QED
      BY <1>1, <2>2
  <2>4. PICK l \in Nat : l = m - 1
    BY <1>0, <2>2, <2>3
  <2>5. l \in 0 .. LEVELS - 1 /\ l \notin T /\ m \in 1 .. LEVELS - 1 /\ m = l + 1
        /\ LEVELS - m = LEVELS - 1 - l /\ l < LEVELS - 1
    <3>1. LEVELS \in Nat /\ m \in 0 .. LEVELS - 1
      BY <2>2, VMemAssumption
    <3> HIDE DEF T
    <3> QED
      BY <2>1, <2>3, <2>4, <3>1
  <2>6. Good(l)
    BY <2>5
  <2>7. PICK v, i : v = t[l] /\ i = Index(r, a, LEVELS - 1 - l)
    OBVIOUS
  <2>8. t[m] = Follow(v, i)
    BY <2>4, <2>5, <2>7 DEF Steps
  <2>9. t[m] # 0 => On(pl, t[m], r, m, a)
    <3> SUFFICES ASSUME t[m] # 0 PROVE On(pl, t[m], r, m, a)
      OBVIOUS
    <3>1. <<v, i>> \in DOMAIN pte /\ t[m] = pte[<<v, i>>].ppn
      BY <2>8 DEF Follow, valid
    <3>2. v # 0
      <4>1. v \in Tables
        BY <3>1 DEF TypeOK
      <4> QED
        BY <4>1, RootsApart, LayoutAssumption, VMemAssumption DEF Tables
    <3>3. On(pl, v, r, l, a)
      BY <2>6, <2>7, <3>2
    <3>4. Linked(pl, v, i, t[m])
      <4>1. Below(pl, <<v, i>>)
        BY <3>1 DEF Links
      <4> QED
        BY <2>5, <3>1, <3>3, <4>1 DEF Below, On
    <3>5. PICK w, b, c : w = t[m] /\ b = pl[v].va /\ c = pl[w].va
      OBVIOUS
    <3>6. /\ w \in Tables \ free /\ pl[w].root = r /\ pl[w].depth = m
          /\ Agree(r, c, b, l) /\ Index(r, c, LEVELS - 1 - l) = i /\ Agree(r, a, b, l)
      BY <2>5, <3>3, <3>4, <3>5 DEF Linked, On
    <3>7. Agree(r, a, c, l)
      BY <3>6, AgreeFacts
    <3>8. Agree(r, a, c, m)
      BY <2>5, <2>7, <3>6, <3>7, AgreeFacts
    <3> QED
      BY <3>5, <3>6, <3>8 DEF On
  <2>10. ASSUME NEW u, On(pl, u, r, m, a) PROVE t[m] = u
    <3>1. u \in Tables \ free /\ pl[u].root = r /\ pl[u].depth = m /\ Agree(r, a, pl[u].va, m)
      BY <2>10 DEF On
    <3>2. PICK w \in Tables \ free, j \in Nat :
            <<w, j>> \in DOMAIN pte /\ pte[<<w, j>>].ppn = u /\ Linked(pl, w, j, u)
      BY <1>p, <2>5, <3>1 DEF PlaceOK
    <3>3. Below(pl, <<w, j>>) /\ pl \in [Tables -> Places]
      BY <3>2 DEF Links
    <3>4. pl[w].root = r /\ pl[w].depth = l
      <4>1. pl[w].root = r /\ m = pl[w].depth + 1 /\ pl[w].depth \in Nat
        BY <3>1, <3>2, <3>3 DEF Linked, Places
      <4> QED
        BY <2>5, <4>1
    <3>5. PICK b, c : b = pl[w].va /\ c = pl[u].va
      OBVIOUS
    <3>6. Agree(r, c, b, l) /\ Index(r, c, LEVELS - 1 - l) = j
      BY <3>2, <3>4, <3>5 DEF Linked
    <3>7. Agree(r, a, c, l) /\ Index(r, a, LEVELS - 1 - l) = Index(r, c, LEVELS - 1 - l)
      BY <2>5, <3>1, <3>5, AgreeFacts
    <3>8. Agree(r, a, b, l)
      BY <3>6, <3>7, AgreeFacts
    <3>9. On(pl, w, r, l, a)
      BY <3>2, <3>4, <3>5, <3>8 DEF On
    <3>10. v = w /\ i = j
      BY <2>6, <2>7, <3>6, <3>7, <3>9
    <3> QED
      BY <2>8, <3>2, <3>10 DEF Follow, valid
  <2> QED
    BY <2>2, <2>9, <2>10
<1> QED
  BY <1>2
-----------------------------------------------------------------------------
(***************************************************************************)
(* Of the regions R the first f are mapped, and of the next o bytes: the   *)
(* tables of root r have an entry for each of these pages, and no other.   *)
(***************************************************************************)
Asked(R, f, o, i, e) ==
    /\ i \in DOMAIN R /\ e \in Nat /\ e % PAGE_SIZE = 0 /\ e < PGROUNDUP(R[i].size)
    /\ i <= f \/ (i = f + 1 /\ e < o)

\* Entry x is the one for address a.
EntryOf(pl, x, r, a) == On(pl, x[1], r, LEVELS - 1, a) /\ x[2] = Index(r, a, 0)

Built(pl, r, R, f, o) ==
    /\ \A x \in DOMAIN pte : pl[x[1]].root = r /\ pl[x[1]].depth = LEVELS - 1 =>
         \E i, e \in Nat : Asked(R, f, o, i, e) /\ EntryOf(pl, x, r, Va(R[i], e))
    /\ \A i, e \in Nat : Asked(R, f, o, i, e) =>
         \E t \in Tables : LET x == <<t, Index(r, Va(R[i], e), 0)>>
                           IN  /\ x \in DOMAIN pte /\ EntryOf(pl, x, r, Va(R[i], e))
                               /\ pte[x].perm = R[i].perm /\ PageOf(R[i], e, pte[x].ppn)
    /\ \A i \in 1 .. f : PGROUNDUP(R[i].size) <= Limit(r)

\* Addresses with the same table and entry have the same indices.
LEMMA SameEntry ==
    ASSUME NEW r, NEW a, NEW b, NEW c, Agree(r, a, c, LEVELS - 1), Agree(r, b, c, LEVELS - 1),
           Index(r, a, 0) = Index(r, b, 0), NEW l \in 0 .. LEVELS - 1
    PROVE  Index(r, a, l) = Index(r, b, l)
<1>0. LEVELS - 1 \in Nat
  BY VMemAssumption
<1>1. CASE l = 0
  BY <1>1
<1>2. CASE l # 0
  <2>1. PICK k \in 0 .. (LEVELS - 1) - 1 : l = LEVELS - 1 - k
    <3>1. LEVELS - 1 - l \in 0 .. (LEVELS - 1) - 1 /\ l = LEVELS - 1 - (LEVELS - 1 - l)
      BY <1>0, <1>2
    <3> QED
      BY <3>1
  <2> QED
    BY <2>1 DEF Agree
<1> QED
  BY <1>1, <1>2

\* A table with all its regions mapped says what they say.
LEMMA BuiltSays ==
    ASSUME TypeOK, NEW pl, Links(pl), NEW r \in Tables \ free, pl[r].depth = 0,
           NEW x \in BOOLEAN, x = (r \in Roots), NEW R \in Seq(Regions),
           \A i \in DOMAIN R : Aligned(R[i]) /\ InRange(R[i], x),
           NEW o, Built(pl, r, R, Len(R), o)
    PROVE  Says(r, R, x)
<1>0. LEVELS - 1 \in Nat /\ PAGE_SIZE \in Nat \ {0} /\ ADDRESSES \in Nat \ {0}
  BY VMemAssumption
<1>x. /\ \A a, l : Index(r, a, l) = va2idx(a, l, x)
      /\ Limit(r) = Span(x)
  BY DEF Index, Limit
<1>d. DOMAIN R = 1 .. Len(R) /\ Len(R) \in Nat /\ \A i \in DOMAIN R : R[i] \in Regions
  OBVIOUS
<1>r. ASSUME NEW i \in DOMAIN R, NEW e \in Nat, e % PAGE_SIZE = 0, e < PGROUNDUP(R[i].size)
      PROVE  /\ Va(R[i], e) = R[i].va + e /\ R[i].va + e \in Nat
             /\ (R[i].va + e) % PAGE_SIZE = 0
             /\ Canonical(x, R[i].va + e, R[i].va + e + PAGE_SIZE)
  <2>1. PGROUNDUP(R[i].size) <= Span(x)
    BY <1>d, <1>x DEF Built
  <2>2. Canonical(x, R[i].va, R[i].va + PGROUNDUP(R[i].size))
    <3>1. PGROUNDUP(R[i].size) \in Nat /\ Span(x) \in Nat
      BY <1>d, RoundUp, SpanWeight DEF Regions
    <3> QED
      BY <2>1, <3>1 DEF InRange
  <2> QED
    BY <1>d, <1>r, <2>2, RegionAddress
<1> SUFFICES ASSUME NEW k \in 0 .. ADDRESSES \div PAGE_SIZE - 1,
                    NEW a, a = k * PAGE_SIZE, Canonical(x, a, a + PAGE_SIZE)
             PROVE  /\ Covers(R, a) = {} => ~ mapped(r, a, x)
                    /\ Covers(R, a) # {} => mapped(r, a, x)
                    /\ \A i \in Covers(R, a) :
                         /\ leaf(r, a, x).perm = R[i].perm
                         /\ IF R[i].pa = 0 THEN leaf(r, a, x).ppn \in Pool
                            ELSE leaf(r, a, x).ppn = (R[i].pa + a - R[i].va) \div PAGE_SIZE
  BY DEF Says
<1>a. a \in Nat /\ a % PAGE_SIZE = 0
  <2>1. k \in Int /\ k \in Nat /\ a = PAGE_SIZE * k
    BY <1>0
  <2>2. (PAGE_SIZE * k) % PAGE_SIZE = 0
    BY <1>0, <2>1, ZeroMod
  <2> QED
    BY <1>0, <2>1, <2>2
<1>1. PICK t : /\ t[0] = r
               /\ \A n \in 1 .. LEVELS - 1 : t[n] = Follow(t[n - 1], va2idx(a, LEVELS - n, x))
               /\ leaf_table(r, a, x) = t[LEVELS - 1]
  BY LeafTable
<1>2. PICK u, j : u = leaf_table(r, a, x) /\ j = va2idx(a, 0, x)
  OBVIOUS
<1>3. /\ u # 0 => On(pl, u, r, LEVELS - 1, a)
      /\ \A v : On(pl, v, r, LEVELS - 1, a) => u = v
  <2>1. Steps(t, r, a)
    BY <1>1, <1>x DEF Steps
  <2>2. LEVELS - 1 \in 0 .. LEVELS - 1
    BY <1>0
  <2> QED
    BY <1>1, <1>2, <2>1, <2>2, Route
<1>4. j = Index(r, a, 0)
  BY <1>2, <1>x
<1>5. mapped(r, a, x) <=> <<u, j>> \in DOMAIN pte
  BY <1>2 DEF mapped, valid
<1>6. leaf(r, a, x) = pte[<<u, j>>]
  BY <1>2 DEF leaf
<1>7. mapped(r, a, x) => Covers(R, a) # {}
  <2> SUFFICES ASSUME mapped(r, a, x) PROVE Covers(R, a) # {}
    OBVIOUS
  <2>1. <<u, j>> \in DOMAIN pte
    BY <1>5
  <2>2. u \in Tables /\ u # 0
    <3>1. u \in Tables
      BY <2>1 DEF TypeOK
    <3> QED
      BY <3>1, LayoutAssumption, VMemAssumption DEF Tables
  <2>3. On(pl, u, r, LEVELS - 1, a)
    BY <1>3, <2>2
  <2>4. PICK i, e \in Nat :
          Asked(R, Len(R), o, i, e) /\ EntryOf(pl, <<u, j>>, r, Va(R[i], e))
    BY <2>1, <2>3 DEF Built, On
  <2>5. i \in DOMAIN R /\ e % PAGE_SIZE = 0 /\ e < PGROUNDUP(R[i].size)
    BY <2>4 DEF Asked
  <2>6. PICK b : b = Va(R[i], e)
    OBVIOUS
  <2>7. b = R[i].va + e /\ b \in Nat /\ b % PAGE_SIZE = 0 /\ Canonical(x, b, b + PAGE_SIZE)
    BY <1>r, <2>5, <2>6
  <2>8. ASSUME NEW l \in 0 .. LEVELS - 1 PROVE va2idx(a, l, x) = va2idx(b, l, x)
    <3>1. Agree(r, a, pl[u].va, LEVELS - 1) /\ Agree(r, b, pl[u].va, LEVELS - 1)
      BY <2>3, <2>4, <2>6 DEF On, EntryOf
    <3>2. Index(r, a, 0) = Index(r, b, 0)
      BY <1>4, <2>4, <2>6 DEF EntryOf
    <3>3. Index(r, a, l) = Index(r, b, l)
      BY <3>1, <3>2, SameEntry
    <3> QED
      BY <1>x, <3>3
  <2>9. a = b
    BY <1>a, <2>7, <2>8, CanonicalApart
  <2>10. R[i].va <= a /\ a < R[i].va + PGROUNDUP(R[i].size)
    <3>1. R[i].va \in Nat /\ PGROUNDUP(R[i].size) \in Nat
      BY <1>d, <2>5, RoundUp DEF Regions
    <3> QED
      BY <2>5, <2>7, <2>9, <3>1
  <2> QED
    BY <2>5, <2>10 DEF Covers
<1>8. ASSUME NEW i \in Covers(R, a)
      PROVE  /\ <<u, j>> \in DOMAIN pte
             /\ pte[<<u, j>>].perm = R[i].perm
             /\ IF R[i].pa = 0 THEN pte[<<u, j>>].ppn \in Pool
                ELSE pte[<<u, j>>].ppn = (R[i].pa + a - R[i].va) \div PAGE_SIZE
  <2>1. i \in DOMAIN R /\ i \in Nat /\ i <= Len(R) /\ R[i] \in Regions /\ Aligned(R[i])
        /\ R[i].va <= a /\ a < R[i].va + PGROUNDUP(R[i].size)
    BY <1>d, <1>8 DEF Covers
  <2>2. PICK e : e = a - R[i].va
    OBVIOUS
  <2>3. e \in Nat /\ e < PGROUNDUP(R[i].size) /\ R[i].va + e = a /\ R[i].va \in Nat
        /\ R[i].pa \in Nat /\ R[i].pa + e = R[i].pa + a - R[i].va
    <3>1. R[i].va \in Nat /\ R[i].pa \in Nat /\ PGROUNDUP(R[i].size) \in Nat
      BY <2>1, RoundUp DEF Regions
    <3> QED
      BY <1>a, <2>1, <2>2, <3>1
  <2>4. e % PAGE_SIZE = 0
    <3>1. R[i].va % PAGE_SIZE = 0 /\ a \in Int /\ R[i].va \in Int
      BY <1>a, <2>1, <2>3 DEF Aligned
    <3> QED
      BY <1>0, <1>a, <2>2, <3>1, MultipleGap
  <2>5. Va(R[i], e) = a
    BY <1>r, <2>1, <2>3, <2>4
  <2>6. Asked(R, Len(R), o, i, e)
    BY <2>1, <2>3, <2>4 DEF Asked
  <2>7. PICK v \in Tables :
          /\ <<v, Index(r, a, 0)>> \in DOMAIN pte /\ EntryOf(pl, <<v, Index(r, a, 0)>>, r, a)
          /\ pte[<<v, Index(r, a, 0)>>].perm = R[i].perm
          /\ PageOf(R[i], e, pte[<<v, Index(r, a, 0)>>].ppn)
    BY <2>1, <2>3, <2>5, <2>6, ZenonT(60) DEF Built
  <2>8. u = v
    BY <1>3, <2>7 DEF EntryOf
  <2> QED
    BY <1>4, <2>3, <2>7, <2>8 DEF PageOf
<1> QED
  BY <1>5, <1>6, <1>7, <1>8

\* A walk depends on the indices only.
LEMMA LeafTableSame ==
    ASSUME NEW r, NEW x, NEW a, NEW b,
           \A l \in Nat : va2idx(a, l, x) = va2idx(b, l, x)
    PROVE  leaf_table(r, a, x) = leaf_table(r, b, x)
<1>0. LEVELS \in Nat /\ LEVELS - 1 \in Nat
  BY VMemAssumption
<1>1. PICK t : /\ t[0] = r
               /\ \A n \in 1 .. LEVELS - 1 : t[n] = Follow(t[n - 1], va2idx(a, LEVELS - n, x))
               /\ leaf_table(r, a, x) = t[LEVELS - 1]
  BY LeafTable
<1>2. PICK u : /\ u[0] = r
               /\ \A n \in 1 .. LEVELS - 1 : u[n] = Follow(u[n - 1], va2idx(b, LEVELS - n, x))
               /\ leaf_table(r, b, x) = u[LEVELS - 1]
  BY LeafTable
<1> DEFINE T == {n \in 0 .. LEVELS - 1 : t[n] # u[n]}
<1>3. T = {}
  <2> SUFFICES ASSUME T # {} PROVE FALSE
    OBVIOUS
  <2>1. PICK m \in T : \A k \in T : m <= k
    <3>1. T \in SUBSET Nat
      BY <1>0
    <3> HIDE DEF T
    <3> QED
      BY <3>1, LeastNumber
  <2>2. m \in 0 .. LEVELS - 1 /\ t[m] # u[m]
    BY <2>1
  <2>3. m \in 1 .. LEVELS - 1 /\ m - 1 \in 0 .. LEVELS - 1 /\ LEVELS - m \in Nat
    BY <1>0, <1>1, <1>2, <2>2
  <2>4. t[m - 1] = u[m - 1]
    BY <1>0, <2>1, <2>3
  <2>5. va2idx(a, LEVELS - m, x) = va2idx(b, LEVELS - m, x)
    BY <2>3
  <2> QED
    BY <1>1, <1>2, <2>2, <2>3, <2>4, <2>5
<1>4. LEVELS - 1 \in 0 .. LEVELS - 1
  BY <1>0
<1> QED
  BY <1>1, <1>2, <1>3, <1>4

\* The software walk finds the byte of a region that is mapped as it should be.
LEMMA SaysConvert ==
    ASSUME NEW r, NEW x \in BOOLEAN, NEW R \in Seq(Regions), Says(r, R, x),
           NEW i \in DOMAIN R, Aligned(R[i]), InRange(R[i], x),
           PGROUNDUP(R[i].size) <= Span(x), R[i].pa # 0, NEW o \in 0 .. R[i].size - 1
    PROVE  convert_va_to_pa(r, R[i].va + o, x) = R[i].pa + o
<1>0. LEVELS - 1 \in Nat /\ PAGE_SIZE \in Nat \ {0} /\ ADDRESSES \in Nat \ {0}
  BY VMemAssumption
<1>1. PICK s \in Regions : s = R[i]
  OBVIOUS
<1>2. s.va \in Nat /\ s.pa \in Nat /\ s.size \in Nat /\ o \in Nat /\ PGROUNDUP(s.size) \in Nat
      /\ s.va % PAGE_SIZE = 0 /\ s.pa % PAGE_SIZE = 0 /\ Span(x) \in Nat
  BY <1>1, RoundUp, SpanWeight DEF Regions, Aligned
<1>3. PICK q, m : q = o \div PAGE_SIZE /\ m = o % PAGE_SIZE
  OBVIOUS
<1>4. PICK e : e = PAGE_SIZE * q
  OBVIOUS
<1>5. e \in Nat /\ m \in 0 .. PAGE_SIZE - 1 /\ o = e + m /\ e % PAGE_SIZE = 0 /\ q \in Nat
  <2>1. q \in Nat
    BY <1>0, <1>2, <1>3, SMTT(40)
  <2>2. o \in Int /\ q \in Int /\ e \in Nat
    BY <1>0, <1>2, <1>4, <2>1
  <2>3. o = e + m /\ m \in 0 .. PAGE_SIZE - 1
    BY <1>0, <1>3, <1>4, <2>2, Divides
  <2>4. e % PAGE_SIZE = 0
    BY <1>0, <1>4, <2>2, ZeroMod
  <2> QED
    BY <2>1, <2>2, <2>3, <2>4
<1>6. e < PGROUNDUP(s.size) /\ Canonical(x, s.va, s.va + PGROUNDUP(s.size))
  <2>1. s.size <= PGROUNDUP(s.size)
    BY <1>1 DEF InRange
  <2>2. e < PGROUNDUP(s.size)
    BY <1>0, <1>1, <1>2, <1>5, <2>1
  <2>3. Canonical(x, s.va, s.va + PGROUNDUP(s.size))
    BY <1>1, <1>2 DEF InRange
  <2> QED
    BY <2>2, <2>3
<1>7. PICK a, b : a = s.va + o /\ b = s.va + e
  OBVIOUS
<1>8. /\ Va(s, e) = b /\ b \in Nat /\ b % PAGE_SIZE = 0 /\ Canonical(x, b, b + PAGE_SIZE)
      /\ a \in Nat /\ a = b + m
  <2>1. Aligned(s)
    BY <1>1
  <2>2. /\ Va(s, e) = b /\ b \in Nat /\ b % PAGE_SIZE = 0
        /\ Canonical(x, b, b + PAGE_SIZE)
    BY <1>5, <1>6, <1>7, <2>1, RegionAddress
  <2>3. PICK v : v = s.va
    OBVIOUS
  <2>4. v \in Nat /\ o = e + m /\ e \in Nat /\ m \in Nat /\ a = v + o /\ b = v + e
    BY <1>0, <1>2, <1>5, <1>7, <2>3
  <2>5. a \in Nat /\ a = b + m
    BY ONLY <2>4
  <2> QED
    BY <2>2, <2>5
<1>9. PICK k \in Nat : b = k * PAGE_SIZE
  <2>1. b \in Int
    BY <1>8
  <2>2. PICK k \in Int : b = PAGE_SIZE * k
    BY <1>0, <1>8, <2>1, Multiple
  <2>3. k \in Nat /\ b = k * PAGE_SIZE
    BY <1>0, <1>8, <2>2
  <2> QED
    BY <2>3
<1>10. a \div PAGE_SIZE = k /\ a % PAGE_SIZE = m /\ b \div PAGE_SIZE = k
  <2>1. /\ a = PAGE_SIZE * k + m /\ b = PAGE_SIZE * k + 0 /\ 0 \in 0 .. PAGE_SIZE - 1
        /\ k \in Int /\ a \in Int /\ b \in Int
    BY <1>0, <1>8, <1>9
  <2>2. a \div PAGE_SIZE = k /\ a % PAGE_SIZE = m
    BY <1>0, <1>5, <2>1, Quotient
  <2>3. b \div PAGE_SIZE = k
    BY <1>0, <2>1, Quotient
  <2> QED
    BY <2>2, <2>3
<1>11. k \in 0 .. ADDRESSES \div PAGE_SIZE - 1
  <2>1. b + PAGE_SIZE <= ADDRESSES
    <3>1. PICK z : z = Span(x)
      OBVIOUS
    <3>2. z \in Nat \ {0} /\ z <= ADDRESSES
      BY <3>1, SpanWeight, SpanDivides
    <3>3. z \div 2 <= z
      BY <3>2
    <3> QED
      BY <1>0, <1>8, <3>1, <3>2, <3>3 DEF Canonical
  <2>2. PICK n, d : n = ADDRESSES \div PAGE_SIZE /\ d = ADDRESSES % PAGE_SIZE
    OBVIOUS
  <2>3. n \in Int /\ ADDRESSES = PAGE_SIZE * n
    <3>1. ADDRESSES \in Int /\ d = 0
      BY <1>0, <2>2, VMemAssumption
    <3>2. n \in Int /\ ADDRESSES = PAGE_SIZE * n + d
      BY <1>0, <2>2, <3>1, Divides
    <3> QED
      BY <1>0, <3>1, <3>2
  <2>4. k < n
    <3> SUFFICES ASSUME k >= n PROVE FALSE
      BY <2>3
    <3>1. k - n \in Nat /\ PAGE_SIZE * (k - n) >= 0
      BY <1>0, <2>3
    <3>2. PAGE_SIZE * (k - n) = b - ADDRESSES
      BY <1>0, <1>9, <2>3
    <3> QED
      BY <1>0, <1>8, <2>1, <3>1, <3>2
  <2> QED
    BY <2>2, <2>3, <2>4
<1>12. i \in Covers(R, b)
  BY <1>1, <1>2, <1>5, <1>6, <1>7, SMTT(40) DEF Covers
<1>13. mapped(r, b, x) /\ leaf(r, b, x).ppn = (s.pa + b - s.va) \div PAGE_SIZE
  <2>1. b \in {j * PAGE_SIZE : j \in 0 .. ADDRESSES \div PAGE_SIZE - 1}
    BY <1>9, <1>11
  <2> QED
    BY <1>1, <1>8, <1>12, <2>1 DEF Says
<1>14. mapped(r, a, x) = mapped(r, b, x) /\ leaf(r, a, x) = leaf(r, b, x)
  <2>1. \A l \in Nat : va2idx(a, l, x) = va2idx(b, l, x)
    BY <1>8, <1>10, IndexPage
  <2>2. leaf_table(r, a, x) = leaf_table(r, b, x)
    BY <2>1, LeafTableSame
  <2>3. va2idx(a, 0, x) = va2idx(b, 0, x)
    BY <2>1
  <2> QED
    BY <2>2, <2>3 DEF mapped, leaf
<1>15. PICK p \in Int : s.pa = PAGE_SIZE * p
  <2>1. s.pa \in Int
    BY <1>2
  <2> QED
    BY <1>0, <1>2, <2>1, Multiple
<1>16. (s.pa + b - s.va) \div PAGE_SIZE = p + q
  <2>1. PICK c : c = s.pa + b - s.va
    OBVIOUS
  <2>2. c = PAGE_SIZE * (p + q) + 0 /\ c \in Int /\ p + q \in Int /\ 0 \in 0 .. PAGE_SIZE - 1
    <3>1. PICK v, u : v = s.va /\ u = s.pa
      OBVIOUS
    <3>2. /\ v \in Nat /\ u \in Nat /\ e \in Nat /\ b = v + e /\ c = u + b - v
          /\ u = PAGE_SIZE * p /\ e = PAGE_SIZE * q /\ q \in Nat /\ p \in Int
          /\ PAGE_SIZE \in Nat \ {0}
      BY <1>0, <1>2, <1>4, <1>5, <1>7, <1>15, <2>1, <3>1
    <3>3. c = u + e
      BY ONLY <3>2
    <3>4. PAGE_SIZE * (p + q) = PAGE_SIZE * p + PAGE_SIZE * q
      BY ONLY <3>2
    <3> QED
      BY ONLY <3>2, <3>3, <3>4
  <2> QED
    BY <1>0, <2>1, <2>2, Quotient
<1>17. convert_va_to_pa(r, a, x) = (p + q) * PAGE_SIZE + m
  BY <1>10, <1>13, <1>14, <1>16 DEF convert_va_to_pa
<1>18. (p + q) * PAGE_SIZE = s.pa + e
  BY <1>0, <1>2, <1>4, <1>5, <1>15, SMTT(40)
<1> QED
  BY <1>1, <1>2, <1>5, <1>7, <1>17, <1>18
-----------------------------------------------------------------------------
\* The roots hart h maps regions below, the regions it was given for each, how
\* many of them are mapped, and how much of the next one.
Jobs(h) == {r \in {kroot[h], VmRoot[h]} : r # 0 /\ (r = VmRoot[h] => conf[h] # NONE)}

Given(h, r) == IF r = VmRoot[h] THEN VmRegions(conf[h]) ELSE KernelRegions[h]

Finished(h, r) ==
    IF root[h] = r THEN Len(Given(h, r)) - Len(todo[h])
    ELSE IF r \in Roots THEN 0 ELSE Len(Given(h, r))

Offset(h, r) == IF root[h] = r THEN off[h] ELSE 0

JobOK(pl, h, r) == Built(pl, r, Given(h, r), Finished(h, r), Offset(h, r))

HasRoutes ==
    \E pl : Links(pl) /\ \A h \in Harts : \A r \in Jobs(h) : JobOK(pl, h, r)

MapInv == Inv /\ Progress /\ HasRoutes
-----------------------------------------------------------------------------
\* Pages leave the free list; a page that is not on it keeps its place.
Extends(pl, pl2) ==
    /\ pl2 \in [Tables -> Places] /\ free' \subseteq free
    /\ \A t \in Tables \ free : pl2[t] = pl[t]

\* A place that stays is still the place of its addresses.
LEMMA ExtendsOn ==
    ASSUME NEW pl, NEW pl2, Extends(pl, pl2), NEW t, NEW r, NEW n, NEW a, On(pl, t, r, n, a)
    PROVE  On(pl2, t, r, n, a)'
BY DEF Extends, On

LEMMA ExtendsLinked ==
    ASSUME NEW pl, NEW pl2, Extends(pl, pl2), NEW u \in Tables \ free, NEW i, NEW t,
           Linked(pl, u, i, t)
    PROVE  Linked(pl2, u, i, t)'
BY DEF Extends, Linked

LEMMA ExtendsPlace ==
    ASSUME NEW pl, NEW pl2, Extends(pl, pl2), Stays, NEW t \in Tables \ free, PlaceOK(pl, t)
    PROVE  PlaceOK(pl2, t)'
<1>1. pl2[t] = pl[t] /\ free' \subseteq free
  BY DEF Extends
<1>2. pl2[t].root \in Tables \ free' /\ (pl2[t].depth = 0 => pl2[t].root = t)
  BY <1>1 DEF PlaceOK
<1>3. ASSUME pl2[t].depth \in 1 .. LEVELS - 1
      PROVE  \E u \in Tables \ free', i \in Nat :
               <<u, i>> \in DOMAIN pte' /\ pte'[<<u, i>>].ppn = t /\ Linked(pl2, u, i, t)'
  <2>1. PICK u \in Tables \ free, i \in Nat :
          <<u, i>> \in DOMAIN pte /\ pte[<<u, i>>].ppn = t /\ Linked(pl, u, i, t)
    BY <1>1, <1>3 DEF PlaceOK
  <2>2. Linked(pl2, u, i, t)'
    BY <2>1, ExtendsLinked
  <2>3. u \in Tables \ free' /\ <<u, i>> \in DOMAIN pte' /\ pte'[<<u, i>>].ppn = t
    BY <1>1, <2>1 DEF Stays
  <2> QED
    BY <2>2, <2>3
<1> QED
  BY <1>2, <1>3 DEF PlaceOK

\* The entries that are there still lead to the tables they led to.
LEMMA ExtendsBelow ==
    ASSUME NEW pl, NEW pl2, Extends(pl, pl2), Stays, NEW x \in DOMAIN pte, Below(pl, x)
    PROVE  Below(pl2, x)'
<1>1. x[1] \in Tables \ free /\ pl2[x[1]] = pl[x[1]] /\ free' \subseteq free /\ pte'[x] = pte[x]
  BY DEF Extends, Below, Stays
<1>2. PICK q : q = pte[x].ppn /\ q = pte'[x].ppn
  BY <1>1
<1>3. pl[x[1]].depth < LEVELS - 1 => Linked(pl2, x[1], x[2], q)'
  BY <1>1, <1>2, ExtendsLinked DEF Below
<1> QED
  BY <1>1, <1>2, <1>3 DEF Below, Linked

\* What the other harts have stays; for the rest it is shown step by step.
LEMMA LinksStep ==
    ASSUME TypeOK, NEW pl, Links(pl), NEW pl2, Extends(pl, pl2), Stays,
           NEW h \in Harts, OthersStay(h), WalkOn(pl2, h)',
           \A t \in free \ free' : PlaceOK(pl2, t)',
           \A x \in DOMAIN pte' : x \in DOMAIN pte \/ Below(pl2, x)',
           \A g \in Harts : kroot'[g] = kroot[g]
                            \/ (kroot'[g] \in Tables \ free' /\ pl2[kroot'[g]].depth = 0)
    PROVE  Links(pl2)'
<1>1. pl2 \in [Tables -> Places] /\ free' \subseteq free /\ \A t \in Tables \ free : pl2[t] = pl[t]
  BY DEF Extends
<1>2. ASSUME NEW t \in Tables \ free' PROVE PlaceOK(pl2, t)'
  <2>1. CASE t \in free
    BY <2>1
  <2>2. CASE t \notin free
    BY <2>2, ExtendsPlace DEF Links
  <2> QED
    BY <2>1, <2>2
<1>3. \A r \in Roots : pl2[r].depth = 0
  BY <1>1, RootsApart DEF Links, TypeOK
<1>4. ASSUME NEW g \in Harts, kroot'[g] # 0 PROVE kroot'[g] \notin free' /\ pl2[kroot'[g]].depth = 0
  <2>1. CASE kroot'[g] = kroot[g]
    <3>1. kroot[g] \in Tables
      BY <1>4, <2>1, RootsApart DEF TypeOK
    <3> QED
      BY <1>1, <1>4, <2>1, <3>1 DEF Links
  <2> QED
    BY <2>1
<1>5. ASSUME NEW x \in DOMAIN pte' PROVE Below(pl2, x)'
  <2>1. CASE x \in DOMAIN pte
    BY <2>1, ExtendsBelow DEF Links
  <2> QED
    BY <2>1
<1>6. ASSUME NEW g \in Harts PROVE WalkOn(pl2, g)'
  <2>1. CASE g = h
    BY <2>1
  <2>2. CASE g # h
    <3> SUFFICES ASSUME pc'[g] = "walk" PROVE On(pl2, tbl[g], root[g], LEVELS - 1 - level[g], va(g))'
      BY DEF WalkOn
    <3>1. PICK t, r, n, a : t = tbl[g] /\ r = root[g] /\ n = LEVELS - 1 - level[g] /\ a = va(g)
      OBVIOUS
    <3>2. t = tbl'[g] /\ r = root'[g] /\ n = LEVELS - 1 - level'[g] /\ a = va(g)' /\ pc[g] = "walk"
      BY <2>2, <3>1 DEF OthersStay, va
    <3>3. On(pl, t, r, n, a)
      BY <3>1, <3>2 DEF Links, WalkOn
    <3>4. On(pl2, t, r, n, a)'
      BY <3>3, ExtendsOn
    <3> QED
      BY <3>2, <3>4 DEF On
  <2> QED
    BY <2>1, <2>2
<1> QED
  BY <1>1, <1>2, <1>3, <1>4, <1>5, <1>6 DEF Links
-----------------------------------------------------------------------------
\* No entry is added to the last level below r, and no page is asked for.
LEMMA BuiltStays ==
    ASSUME NEW pl, Links(pl), NEW pl2, Extends(pl, pl2), Stays, NEW r, NEW R,
           NEW f, NEW o, Built(pl, r, R, f, o), NEW f2, NEW o2,
           \A i, e \in Nat : Asked(R, f2, o2, i, e) <=> Asked(R, f, o, i, e),
           \A i \in 1 .. f2 : PGROUNDUP(R[i].size) <= Limit(r),
           \A x \in DOMAIN pte' : \/ x \in DOMAIN pte
                                  \/ pl2[x[1]].root # r \/ pl2[x[1]].depth # LEVELS - 1
    PROVE  Built(pl2, r, R, f2, o2)'
<1>1. ASSUME NEW x, NEW a, EntryOf(pl, x, r, a) PROVE EntryOf(pl2, x, r, a)'
  BY <1>1, ExtendsOn DEF EntryOf
<1>2. ASSUME NEW x \in DOMAIN pte', pl2[x[1]].root = r, pl2[x[1]].depth = LEVELS - 1
      PROVE  \E i, e \in Nat : Asked(R, f2, o2, i, e) /\ EntryOf(pl2, x, r, Va(R[i], e))'
  <2>1. x \in DOMAIN pte
    BY <1>2
  <2>2. pl[x[1]].root = r /\ pl[x[1]].depth = LEVELS - 1
    BY <1>2, <2>1 DEF Links, Below, Extends
  <2>3. PICK i, e \in Nat : Asked(R, f, o, i, e) /\ EntryOf(pl, x, r, Va(R[i], e))
    BY <2>1, <2>2 DEF Built
  <2>4. EntryOf(pl2, x, r, Va(R[i], e))'
    BY <1>1, <2>3
  <2> QED
    BY <2>3, <2>4
<1>3. ASSUME NEW i \in Nat, NEW e \in Nat, Asked(R, f2, o2, i, e)
      PROVE  \E t \in Tables : LET x == <<t, Index(r, Va(R[i], e), 0)>>
                               IN  /\ x \in DOMAIN pte' /\ EntryOf(pl2, x, r, Va(R[i], e))'
                                   /\ pte'[x].perm = R[i].perm /\ PageOf(R[i], e, pte'[x].ppn)
  <2>1. PICK a : a = Va(R[i], e)
    OBVIOUS
  <2>2. PICK t \in Tables :
          /\ <<t, Index(r, a, 0)>> \in DOMAIN pte /\ EntryOf(pl, <<t, Index(r, a, 0)>>, r, a)
          /\ pte[<<t, Index(r, a, 0)>>].perm = R[i].perm
          /\ PageOf(R[i], e, pte[<<t, Index(r, a, 0)>>].ppn)
    BY <1>3, <2>1 DEF Built
  <2>3. EntryOf(pl2, <<t, Index(r, a, 0)>>, r, a)'
    BY <1>1, <2>2
  <2>4. <<t, Index(r, a, 0)>> \in DOMAIN pte' /\ pte'[<<t, Index(r, a, 0)>>] = pte[<<t, Index(r, a, 0)>>]
    BY <2>2 DEF Stays
  <2> QED
    BY <2>1, <2>2, <2>3, <2>4
<1> QED
  BY <1>2, <1>3 DEF Built

\* What a hart has mapped, in the next state.
LEMMA JobNext ==
    ASSUME NEW pl, NEW h, NEW r, NEW R, NEW f, NEW o, R = Given(h, r)', f = Finished(h, r)',
           o = Offset(h, r)', Built(pl, r, R, f, o)'
    PROVE  JobOK(pl, h, r)'
BY SMTT(40) DEF JobOK, Built, EntryOf, On

\* A job nobody works on, or whose hart does something else.
LEMMA JobStays ==
    ASSUME NEW pl, Links(pl), NEW pl2, Extends(pl, pl2), Stays, NEW g, NEW r, JobOK(pl, g, r),
           Given(g, r)' = Given(g, r), Finished(g, r)' = Finished(g, r),
           Offset(g, r)' = Offset(g, r),
           \A x \in DOMAIN pte' : \/ x \in DOMAIN pte
                                  \/ pl2[x[1]].root # r \/ pl2[x[1]].depth # LEVELS - 1
    PROVE  JobOK(pl2, g, r)'
<1>1. PICK R, f, o : R = Given(g, r) /\ f = Finished(g, r) /\ o = Offset(g, r)
  OBVIOUS
<1>2. Built(pl, r, R, f, o)
  BY <1>1 DEF JobOK
<1>3. \A i \in 1 .. f : PGROUNDUP(R[i].size) <= Limit(r)
  BY <1>2 DEF Built
<1>4. Built(pl2, r, R, f, o)'
  BY <1>2, <1>3, BuiltStays
<1> QED
  BY <1>1, <1>4, JobNext

\* No two harts map below the same root.
LEMMA JobsApart ==
    ASSUME TypeOK, Progress, NEW g \in Harts, NEW h \in Harts, g # h, NEW r \in Jobs(g),
           NEW s \in {kroot[h], VmRoot[h]}
    PROVE  r # s
<1>1. VmRoot[g] # VmRoot[h]
  BY LayoutAssumption
<1>2. \A i, j \in Harts : kroot[i] # VmRoot[j]
  BY RootsApart DEF TypeOK
<1>3. kroot[g] = kroot[h] => kroot[g] = 0
  BY DEF Progress
<1> QED
  BY <1>1, <1>2, <1>3 DEF Jobs

\* The work of the harts that take no step is as it was.
LEMMA JobsStep ==
    ASSUME TypeOK, Progress, NEW pl, Links(pl), \A g \in Harts : \A r \in Jobs(g) : JobOK(pl, g, r),
           NEW pl2, Extends(pl, pl2), Stays, NEW h \in Harts, OthersStay(h),
           UNCHANGED <<conf, kroot, root>>,
           \A x \in DOMAIN pte' : \/ x \in DOMAIN pte \/ pl2[x[1]].root = root[h]
                                  \/ pl2[x[1]].depth # LEVELS - 1,
           \A r \in Jobs(h) : r = root[h] => JobOK(pl2, h, r)'
    PROVE  \A g \in Harts : \A r \in Jobs(g)' : JobOK(pl2, g, r)'
<1> SUFFICES ASSUME NEW g \in Harts, NEW r \in Jobs(g)' PROVE JobOK(pl2, g, r)'
  OBVIOUS
<1>1. r \in Jobs(g) /\ JobOK(pl, g, r)
  BY DEF Jobs
<1>2. CASE g = h /\ r = root[h]
  BY <1>1, <1>2
<1>3. CASE ~ (g = h /\ r = root[h])
  <2>1. g # h => r # root[h]
    <3>1. root[h] = 0 \/ root[h] \in {kroot[h], VmRoot[h]}
      BY DEF Progress, ProgressOf
    <3>2. r # 0
      BY <1>1 DEF Jobs
    <3> QED
      BY <1>1, <3>1, <3>2, JobsApart
  <2>2. r # root[h]
    BY <1>3, <2>1
  <2>3. Given(g, r)' = Given(g, r)
    BY DEF Given
  <2>4. Finished(g, r)' = Finished(g, r) /\ Offset(g, r)' = Offset(g, r)
    BY <2>2, <2>3 DEF Finished, Offset, OthersStay
  <2>5. \A x \in DOMAIN pte' : \/ x \in DOMAIN pte
                               \/ pl2[x[1]].root # r \/ pl2[x[1]].depth # LEVELS - 1
    BY <2>2
  <2> QED
    BY <1>1, <2>3, <2>4, <2>5, JobStays
<1> QED
  BY <1>2, <1>3

\* The control of the harts that take no step is as it was.
LEMMA ProgressOthers ==
    ASSUME Progress, NEW h \in Harts, OthersStay(h), UNCHANGED conf, NEW g \in Harts, g # h,
           kroot'[g] = kroot[g]
    PROVE  ProgressOf(g)'
<1>1. ProgressOf(g)
  BY DEF Progress
<1>2. /\ pc'[g] = pc[g] /\ root'[g] = root[g] /\ todo'[g] = todo[g] /\ off'[g] = off[g]
      /\ pa'[g] = pa[g]
  BY DEF OthersStay
<1> QED
  BY <1>1, <1>2 DEF ProgressOf

LEMMA ProgressStep ==
    ASSUME Progress, NEW h \in Harts, OthersStay(h), UNCHANGED <<conf, kroot>>, ProgressOf(h)'
    PROVE  Progress'
BY ProgressOthers DEF Progress

\* A step of hart h that changes neither its root nor what the others have.
LEMMA MapStep ==
    ASSUME TypeOK, Progress, NEW pl, Links(pl), \A g \in Harts : \A r \in Jobs(g) : JobOK(pl, g, r),
           NEW pl2, Extends(pl, pl2), Stays, NEW h \in Harts, OthersStay(h),
           UNCHANGED <<conf, kroot, root>>,
           \A t \in free \ free' : PlaceOK(pl2, t)',
           \A x \in DOMAIN pte' : x \in DOMAIN pte \/ Below(pl2, x)',
           \A x \in DOMAIN pte' : \/ x \in DOMAIN pte \/ pl2[x[1]].root = root[h]
                                  \/ pl2[x[1]].depth # LEVELS - 1,
           WalkOn(pl2, h)', ProgressOf(h)', \A r \in Jobs(h) : r = root[h] => JobOK(pl2, h, r)'
    PROVE  Progress' /\ HasRoutes'
<1>1. Progress'
  BY ProgressStep
<1>2. Links(pl2)'
  BY LinksStep
<1>3. \A g \in Harts : \A r \in Jobs(g)' : JobOK(pl2, g, r)'
  BY JobsStep
<1> QED
  BY <1>1, <1>2, <1>3 DEF HasRoutes
-----------------------------------------------------------------------------
\* What hart h maps below its root.
LEMMA JobFacts ==
    ASSUME Inv, Progress, NEW h \in Harts, root[h] # 0
    PROVE  \E R \in Seq(Regions), f \in Nat :
              /\ R = Given(h, root[h]) /\ f = Finished(h, root[h])
              /\ off[h] = Offset(h, root[h]) /\ root[h] \in Jobs(h)
              /\ f = Len(R) - Len(todo[h]) /\ todo[h] \in Seq(Regions)
              /\ \A i \in DOMAIN R : Aligned(R[i]) /\ InRange(R[i], root[h] \in Roots)
              /\ todo[h] # <<>> => f + 1 \in DOMAIN R /\ R[f + 1] = Head(todo[h])
              /\ off[h] \in Nat /\ off[h] % PAGE_SIZE = 0 /\ off[h] <= Limit(root[h])
<1>1. PICK r, R : r = root[h] /\ R = Given(h, r)
  OBVIOUS
<1>2. r \in {kroot[h], VmRoot[h]} /\ kroot[h] # VmRoot[h] /\ VmRoot[h] \in Roots
      /\ kroot[h] \notin Roots
  BY <1>1, RootsApart DEF Progress, ProgressOf, Inv, TypeOK
<1>3. r = VmRoot[h] => conf[h] # NONE
  BY <1>1 DEF Inv, Control, ControlOf
<1>4. r \in Jobs(h)
  BY <1>1, <1>2, <1>3 DEF Jobs
<1>5. R \in Seq(Regions) /\ \A i \in DOMAIN R : Aligned(R[i]) /\ InRange(R[i], r \in Roots)
  <2>1. CASE r = VmRoot[h]
    <3>1. R = VmRegions(conf[h]) /\ conf \in Configs /\ conf[h] # NONE /\ (r \in Roots) = TRUE
      BY <1>1, <1>2, <1>3, <2>1 DEF Given, Inv, TypeOK
    <3>2. R \in Seq(Regions) /\ \A i \in DOMAIN R : Aligned(R[i])
      BY <3>1, VMemAssumption
    <3>3. \A i \in DOMAIN R : InRange(R[i], TRUE)
      BY <3>1, RangeAssumption, Zenon
    <3> QED
      BY <3>1, <3>2, <3>3, Zenon
  <2>2. CASE r # VmRoot[h]
    <3>1. R = KernelRegions[h] /\ (r \in Roots) = FALSE
      BY <1>1, <1>2, <2>2 DEF Given
    <3>2. R \in Seq(Regions) /\ \A i \in DOMAIN R : Aligned(R[i])
      BY <3>1, VMemAssumption
    <3>3. \A i \in DOMAIN R : InRange(R[i], FALSE)
      BY <3>1, RangeAssumption, Zenon
    <3> QED
      BY <3>1, <3>2, <3>3, Zenon
  <2> QED
    BY <2>1, <2>2
<1>6. Suffix(todo[h], R)
  BY <1>1, <1>2 DEF Given, Progress, ProgressOf
<1>7. todo[h] \in Seq(Regions)
  BY DEF Inv, Control
<1>8. PICK f : f = Len(R) - Len(todo[h])
  OBVIOUS
<1>9. f \in Nat /\ f = Finished(h, r) /\ off[h] = Offset(h, r)
  <2>1. Len(R) \in Nat /\ Len(todo[h]) \in Nat /\ Len(todo[h]) <= Len(R)
    BY <1>5, <1>6, <1>7 DEF Suffix
  <2> QED
    BY <1>1, <1>8, <2>1 DEF Finished, Offset
<1>10. todo[h] # <<>> => f + 1 \in DOMAIN R /\ R[f + 1] = Head(todo[h])
  <2> SUFFICES ASSUME todo[h] # <<>> PROVE f + 1 \in DOMAIN R /\ R[f + 1] = Head(todo[h])
    OBVIOUS
  <2>1. 1 \in 1 .. Len(todo[h]) /\ Head(todo[h]) = todo[h][1] /\ Len(todo[h]) >= 1
    BY <1>7
  <2>2. DOMAIN R = 1 .. Len(R) /\ Len(R) \in Nat /\ Len(todo[h]) \in Nat
    BY <1>5, <1>7
  <2>3. PICK n, m, T : n = Len(R) /\ m = Len(todo[h]) /\ T = todo[h]
    OBVIOUS
  <2>4. /\ n \in Nat /\ m \in Nat /\ m >= 1 /\ m <= n /\ f = n - m /\ DOMAIN R = 1 .. n
        /\ Head(todo[h]) = T[1] /\ \A i \in 1 .. m : T[i] = R[n - m + i]
    BY <1>6, <1>8, <2>1, <2>2, <2>3 DEF Suffix
  <2>5. 1 \in 1 .. m /\ n - m + 1 = f + 1 /\ f + 1 \in 1 .. n
    BY ONLY <2>4
  <2> QED
    BY ONLY <2>4, <2>5
<1>11. off[h] \in Nat /\ off[h] % PAGE_SIZE = 0 /\ off[h] <= Limit(r)
  BY <1>1 DEF Progress, ProgressOf, Inv, TypeOK
<1> QED
  BY <1>1, <1>4, <1>5, <1>7, <1>8, <1>9, <1>10, <1>11

\* A step that adds no entry and leaves the work of hart h as it is.
LEMMA JobSame ==
    ASSUME TypeOK, NEW pl, Links(pl), \A g \in Harts : \A r \in Jobs(g) : JobOK(pl, g, r),
           NEW pl2, Extends(pl, pl2), Stays, NEW h \in Harts, UNCHANGED <<conf, root>>,
           todo'[h] = todo[h], off'[h] = off[h],
           \A x \in DOMAIN pte' : x \in DOMAIN pte \/ pl2[x[1]].depth # LEVELS - 1
    PROVE  \A r \in Jobs(h) : r = root[h] => JobOK(pl2, h, r)'
<1> SUFFICES ASSUME NEW r \in Jobs(h), r = root[h] PROVE JobOK(pl2, h, r)'
  OBVIOUS
<1>1. Given(h, r)' = Given(h, r)
  BY DEF Given
<1>2. Finished(h, r)' = Finished(h, r) /\ Offset(h, r)' = Offset(h, r)
  BY <1>1 DEF Finished, Offset
<1> QED
  BY <1>1, <1>2, JobStays

\* A hart that panics changes no table.
LEMMA OutOfMemoryMap ==
    ASSUME MapInv, NEW h \in Harts, out_of_memory(h)
    PROVE  Progress' /\ HasRoutes'
<1>1. PICK pl : Links(pl) /\ \A g \in Harts : \A r \in Jobs(g) : JobOK(pl, g, r)
  BY DEF MapInv, HasRoutes
<1>2. TypeOK /\ Progress /\ Stays /\ OthersStay(h) /\ pc'[h] = "fault"
      /\ UNCHANGED <<conf, kroot, root, free, pte, todo, off>>
  BY DEF MapInv, out_of_memory, Inv, TypeOK, Stays, OthersStay
<1>3. Extends(pl, pl)
  BY <1>1, <1>2 DEF Extends, Links
<1>4. WalkOn(pl, h)'
  BY <1>2 DEF WalkOn
<1>5. ProgressOf(h)'
  BY <1>2 DEF Progress, ProgressOf
<1>6. \A r \in Jobs(h) : r = root[h] => JobOK(pl, h, r)'
  BY <1>1, <1>2, <1>3, JobSame
<1> QED
  BY <1>1, <1>2, <1>3, <1>4, <1>5, <1>6, MapStep

LEMMA LimitType ==
    ASSUME NEW r
    PROVE  Limit(r) \in Nat \ {0} /\ Limit(r) \in Nat
<1>1. (r \in Roots) \in BOOLEAN
  OBVIOUS
<1>2. Limit(r) \in Nat \ {0}
  BY <1>1, SpanWeight, Zenon DEF Limit
<1> QED
  BY <1>2

\* The regions left after one more is done.
LEMMA SuffixTail ==
    ASSUME NEW s \in Seq(Regions), NEW R \in Seq(Regions), s # <<>>, Suffix(s, R)
    PROVE  Suffix(Tail(s), R) /\ Len(Tail(s)) = Len(s) - 1
<1>1. PICK n, m, T : n = Len(R) /\ m = Len(s) /\ T = Tail(s)
  OBVIOUS
<1>2. /\ n \in Nat /\ m \in Nat /\ m >= 1 /\ m <= n /\ Len(T) = m - 1
      /\ (\A i \in 1 .. m : s[i] = R[n - m + i]) /\ (\A i \in 1 .. m - 1 : T[i] = s[i + 1])
  BY <1>1 DEF Suffix
<1>3. ASSUME NEW i \in 1 .. m - 1 PROVE T[i] = R[n - (m - 1) + i]
  <2>1. i + 1 \in 1 .. m /\ n - m + (i + 1) = n - (m - 1) + i /\ T[i] = s[i + 1]
    BY <1>2
  <2> QED
    BY <1>2, <2>1
<1> QED
  BY <1>1, <1>2, <1>3 DEF Suffix

\* The loop of map_pages ends: one more region is done (vmem.c:65-75).
LEMMA MapPagesEndMap ==
    ASSUME MapInv, NEW h \in Harts, map_pages_end(h)
    PROVE  Progress' /\ HasRoutes'
<1>1. PICK pl : Links(pl) /\ \A g \in Harts : \A r \in Jobs(g) : JobOK(pl, g, r)
  BY DEF MapInv, HasRoutes
<1>2. Inv /\ TypeOK /\ Progress /\ Inv' /\ Stays
  BY MapPagesEndStep DEF MapInv, Inv
<1>3. /\ pc[h] = "map_pages" /\ off' = [off EXCEPT ![h] = 0]
      /\ UNCHANGED <<conf, free, pte, kroot, root, pa, level, tbl>>
  BY DEF map_pages_end
<1>4. OthersStay(h) /\ off'[h] = 0 /\ pc'[h] # "walk"
  BY <1>2 DEF map_pages_end, OthersStay, Inv, TypeOK, Control
<1>5. Extends(pl, pl)
  BY <1>1, <1>3 DEF Extends, Links
<1>6. WalkOn(pl, h)'
  BY <1>4 DEF WalkOn
<1>7. root[h] # 0
  BY <1>2, <1>3 DEF Inv, Control, ControlOf
<1>8. PICK r, R, f, o : r = root[h] /\ R = Given(h, r) /\ f = Finished(h, r) /\ o = off[h]
  OBVIOUS
<1>9. /\ R \in Seq(Regions) /\ f \in Nat /\ o = Offset(h, r) /\ r \in Jobs(h)
      /\ f = Len(R) - Len(todo[h]) /\ todo[h] \in Seq(Regions)
      /\ todo[h] # <<>> => f + 1 \in DOMAIN R /\ R[f + 1] = Head(todo[h])
      /\ o \in Nat /\ o % PAGE_SIZE = 0 /\ o <= Limit(r)
  BY <1>2, <1>7, <1>8, JobFacts
<1>10. Built(pl, r, R, f, o)
  BY <1>1, <1>8, <1>9 DEF JobOK
<1>11. Given(h, r)' = R /\ Offset(h, r)' = 0 /\ Finished(h, r)' = Len(R) - Len(todo'[h])
  <2>1. Given(h, r)' = R
    BY <1>3, <1>8 DEF Given
  <2> QED
    BY <1>3, <1>4, <1>8, <2>1 DEF Offset, Finished
<1>12. 0 % PAGE_SIZE = 0 /\ 0 <= Limit(r) /\ Limit(r) \in Nat
  BY LimitType, VMemAssumption
<1>13. /\ root[h] = kroot[h] => Suffix(todo[h], KernelRegions[h])
       /\ root[h] = VmRoot[h] => Suffix(todo[h], VmRegions(conf[h]))
       /\ root[h] \in {0, kroot[h], VmRoot[h]} /\ (root[h] = 0 <=> kroot[h] = 0)
  BY <1>2, <1>7 DEF Progress, ProgressOf
<1>14. CASE todo[h] = <<>>
  <2>1. UNCHANGED todo /\ pc'[h] = IF root[h] = kroot[h] THEN "init_hs_pgtable" ELSE "done"
    BY <1>2, <1>14 DEF map_pages_end, Inv, TypeOK
  <2>2. ProgressOf(h)'
    BY <1>3, <1>4, <1>7, <1>8, <1>12, <1>13, <1>14, <2>1 DEF ProgressOf
  <2>3. f = Len(R) /\ DOMAIN R = 1 .. Len(R) /\ Len(R) \in Nat
    BY <1>9, <1>14
  <2>4. \A i, e \in Nat : Asked(R, f, 0, i, e) <=> Asked(R, f, o, i, e)
    BY <2>3 DEF Asked
  <2>5. \A i \in 1 .. f : PGROUNDUP(R[i].size) <= Limit(r)
    BY <1>10 DEF Built
  <2>6. Built(pl, r, R, f, 0)'
    BY <1>1, <1>2, <1>3, <1>5, <1>10, <2>4, <2>5, BuiltStays
  <2>7. JobOK(pl, h, r)'
    BY <1>9, <1>11, <2>1, <2>6, JobNext
  <2> QED
    BY <1>1, <1>2, <1>3, <1>4, <1>5, <1>6, <1>8, <2>2, <2>7, MapStep
<1>15. CASE todo[h] # <<>>
  <2>1. ~ more(h) /\ todo'[h] = Tail(todo[h]) /\ pc'[h] = "map_pages"
    BY <1>2, <1>3, <1>15 DEF map_pages_end, Inv, Control
  <2>2. /\ root[h] = kroot[h] => Suffix(todo'[h], KernelRegions[h])
        /\ root[h] = VmRoot[h] => Suffix(todo'[h], VmRegions(conf[h]))
        /\ Len(todo'[h]) = Len(todo[h]) - 1
    <3>1. Suffix(todo[h], R)
      <4>1. kroot[h] # VmRoot[h]
        BY <1>2, RootsApart DEF TypeOK
      <4> QED
        BY <1>7, <1>8, <1>13, <4>1 DEF Given
    <3>2. Suffix(Tail(todo[h]), R) /\ Len(Tail(todo[h])) = Len(todo[h]) - 1
      BY <1>9, <1>15, <3>1, SuffixTail
    <3>3. kroot[h] # VmRoot[h]
      BY <1>2, RootsApart DEF TypeOK
    <3> QED
      BY <1>8, <2>1, <3>2, <3>3 DEF Given
  <2>3. ProgressOf(h)'
    BY <1>3, <1>4, <1>7, <1>8, <1>12, <1>13, <2>1, <2>2 DEF ProgressOf
  <2>4. PICK j, z : j = f + 1 /\ z = PGROUNDUP(Head(todo[h]).size)
    OBVIOUS
  <2>5. /\ j \in Nat /\ z \in Nat /\ z <= o /\ PGROUNDUP(R[j].size) = z
        /\ Len(R) \in Nat /\ Len(todo[h]) \in Nat
    <3>1. R[j] = Head(todo[h]) /\ Head(todo[h]) \in Regions
      <4>1. R[j] = Head(todo[h])
        BY <1>9, <1>15, <2>4, Zenon
      <4>2. todo[h] \in Seq(Regions)
        BY <1>9
      <4>3. Head(todo[h]) \in Regions
        BY ONLY <1>15, <4>2
      <4> QED
        BY <4>1, <4>3
    <3>2. z \in Nat
      BY <2>4, <3>1, RoundUp DEF Regions
    <3>3. z <= o
      BY <1>8, <1>9, <2>1, <2>4, <3>2 DEF more
    <3> QED
      BY <1>9, <2>4, <3>1, <3>2, <3>3
  <2>6. ASSUME NEW i \in Nat, NEW e \in Nat
        PROVE  Asked(R, j, 0, i, e) <=> Asked(R, f, o, i, e)
    <3>1. i = j /\ e < PGROUNDUP(R[i].size) => e < o
      BY <1>9, <2>5
    <3>2. (i <= j \/ (i = j + 1 /\ e < 0)) <=> (i <= f \/ i = f + 1)
      BY <1>9, <2>4
    <3>3. f + 1 = j
      BY <2>4
    <3> QED
      BY <3>1, <3>2, <3>3 DEF Asked
  <2>10. \A i \in 1 .. j : PGROUNDUP(R[i].size) <= Limit(r)
    <3>1. z <= Limit(r)
      BY <1>9, <1>12, <2>5
    <3>2. \A i \in 1 .. j : i \in 1 .. f \/ i = j
      BY <1>9, <2>4
    <3>3. \A i \in 1 .. f : PGROUNDUP(R[i].size) <= Limit(r)
      BY <1>10 DEF Built
    <3> QED
      BY <2>5, <3>1, <3>2, <3>3
  <2>7. Built(pl, r, R, j, 0)'
    BY <1>1, <1>2, <1>3, <1>5, <1>10, <2>6, <2>10, BuiltStays
  <2>8. Finished(h, r)' = j
    BY <1>9, <1>11, <2>2, <2>4, <2>5
  <2>9. JobOK(pl, h, r)'
    BY <1>11, <2>7, <2>8, JobNext
  <2> QED
    BY <1>1, <1>2, <1>3, <1>4, <1>5, <1>6, <1>8, <2>3, <2>9, MapStep
<1> QED
  BY <1>14, <1>15

\* A page that leaves the free list gets place q.
LEMMA TakePage ==
    ASSUME TypeOK, NEW pl, Links(pl), NEW p \in free, free' = free \ {p}, NEW q \in Places
    PROVE  \E pl2 : Extends(pl, pl2) /\ pl2[p] = q /\ p \in Tables
<1>1. p \in Tables /\ pl \in [Tables -> Places]
  BY RootsApart DEF TypeOK, Links
<1> DEFINE pl2 == [pl EXCEPT ![p] = q]
<1>2. pl2 \in [Tables -> Places] /\ pl2[p] = q /\ \A t \in Tables \ free : pl2[t] = pl[t]
  BY <1>1
<1> HIDE DEF pl2
<1>3. Extends(pl, pl2)
  BY <1>2 DEF Extends
<1> QED
  BY <1>1, <1>2, <1>3

\* The root of a hart is a root.
LEMMA RootOn ==
    ASSUME Inv, Progress, NEW pl, Links(pl), NEW h \in Harts, root[h] # 0
    PROVE  /\ root[h] \in Tables \ free /\ pl[root[h]].depth = 0 /\ pl[root[h]].root = root[h]
           /\ \A a : On(pl, root[h], root[h], 0, a)
<1>1. root[h] \in {kroot[h], VmRoot[h]} /\ root[h] \in Tables
  BY DEF Progress, ProgressOf, Inv, TypeOK
<1>2. root[h] \notin free /\ pl[root[h]].depth = 0
  BY <1>1, RootsApart DEF Links, Inv, TypeOK
<1>3. pl[root[h]].root = root[h]
  BY <1>1, <1>2 DEF Links, PlaceOK
<1>4. \A a : Agree(root[h], a, pl[root[h]].va, 0)
  BY AgreeFacts
<1> QED
  BY <1>1, <1>2, <1>3, <1>4 DEF On

\* map_pages begins the next page of a region (vmem.c:66-71).
LEMMA MapPagesMap ==
    ASSUME MapInv, NEW h \in Harts, map_pages(h), ~ out_of_memory(h)
    PROVE  Progress' /\ HasRoutes'
<1>1. PICK pl : Links(pl) /\ \A g \in Harts : \A r \in Jobs(g) : JobOK(pl, g, r)
  BY DEF MapInv, HasRoutes
<1>2. Inv /\ TypeOK /\ Progress /\ TypeOK' /\ Stays
  BY MapPagesStep DEF MapInv, Inv
<1>3. /\ pc[h] = "map_pages" /\ todo[h] # <<>> /\ more(h)
      /\ IF Head(todo[h]).pa # 0
         THEN pa' = [pa EXCEPT ![h] = Head(todo[h]).pa + off[h]] /\ UNCHANGED free
         ELSE \E p \in Pool : kmalloc(p) /\ pa' = [pa EXCEPT ![h] = p * PAGE_SIZE]
      /\ pc' = [pc EXCEPT ![h] = "walk"]
      /\ level' = [level EXCEPT ![h] = LEVELS - 1]
      /\ tbl' = [tbl EXCEPT ![h] = root[h]]
      /\ UNCHANGED <<conf, pte, kroot, root, todo, off>>
  BY DEF map_pages
<1>4. /\ pc'[h] = "walk" /\ level'[h] = LEVELS - 1 /\ tbl'[h] = root[h]
      /\ LEVELS - 1 - level'[h] = 0
  BY <1>2, <1>3, VMemAssumption DEF TypeOK
<1>5. OthersStay(h)
  <2>1. \E a : pa' = [pa EXCEPT ![h] = a]
    BY <1>3
  <2> QED
    BY <1>2, <1>3, <2>1 DEF OthersStay, TypeOK
<1>6. root[h] # 0 /\ Head(todo[h]) \in Regions
  BY <1>2, <1>3 DEF Inv, Control, ControlOf
<1>7. /\ root[h] \in Tables \ free /\ pl[root[h]].depth = 0 /\ pl[root[h]].root = root[h]
      /\ \A a : On(pl, root[h], root[h], 0, a)
  BY <1>1, <1>2, <1>6, RootOn
<1>8. PICK s : s = Head(todo[h])
  OBVIOUS
<1>9. ASSUME PageOf(s, off[h], pa'[h] \div PAGE_SIZE) PROVE ProgressOf(h)'
  <2>1. off[h] < PGROUNDUP(s.size)
    BY <1>3, <1>8 DEF more
  <2> QED
    BY <1>2, <1>3, <1>4, <1>6, <1>8, <1>9, <2>1 DEF Progress, ProgressOf
<1>10. ASSUME NEW pl2, Extends(pl, pl2) PROVE WalkOn(pl2, h)'
  <2>1. PICK r, a : r = root[h] /\ a = va(h)
    OBVIOUS
  <2>2. r = root'[h] /\ a = va(h)' /\ r = tbl'[h]
    BY <1>3, <1>4, <2>1 DEF va
  <2>3. On(pl, r, r, 0, a)
    BY <1>7, <2>1
  <2>4. On(pl2, r, r, 0, a)'
    BY <1>10, <2>3, ExtendsOn
  <2> QED
    BY <1>4, <2>2, <2>4 DEF WalkOn, On
<1>11. CASE s.pa # 0
  <2>1. UNCHANGED free /\ pa'[h] = s.pa + off[h]
    BY <1>2, <1>3, <1>8, <1>11 DEF TypeOK
  <2>2. Extends(pl, pl)
    BY <1>1, <2>1 DEF Extends, Links
  <2>3. ProgressOf(h)'
    BY <1>9, <1>11, <2>1 DEF PageOf
  <2>4. WalkOn(pl, h)'
    BY <1>10, <2>2
  <2>5. \A r \in Jobs(h) : r = root[h] => JobOK(pl, h, r)'
    BY <1>1, <1>2, <1>3, <2>2, JobSame
  <2> QED
    BY <1>1, <1>2, <1>3, <1>5, <2>1, <2>2, <2>3, <2>4, <2>5, MapStep
<1>12. CASE s.pa = 0
  <2>1. PICK p \in Pool : kmalloc(p) /\ pa' = [pa EXCEPT ![h] = p * PAGE_SIZE]
    BY <1>3, <1>8, <1>12
  <2>2. p \in free /\ free' = free \ {p} /\ pa'[h] = p * PAGE_SIZE
    BY <1>2, <2>1 DEF kmalloc, TypeOK
  <2>3. pa'[h] \div PAGE_SIZE = p
    BY <2>2, VMemAssumption
  <2>4. ProgressOf(h)'
    BY <1>9, <1>12, <2>3 DEF PageOf
  <2>5. PICK q \in Places : q = [root |-> root[h], depth |-> LEVELS, va |-> 0]
    BY <1>7, VMemAssumption DEF Places
  <2>6. PICK pl2 : Extends(pl, pl2) /\ pl2[p] = q /\ p \in Tables
    BY <1>1, <1>2, <2>2, TakePage
  <2>7. \A t \in free \ free' : PlaceOK(pl2, t)'
    <3>1. pl2[p].root = root[h] /\ pl2[p].depth = LEVELS
      BY <2>5, <2>6
    <3>2. LEVELS # 0 /\ LEVELS \notin 1 .. LEVELS - 1
      BY VMemAssumption
    <3>3. PlaceOK(pl2, p)'
      BY <1>7, <2>2, <3>1, <3>2 DEF PlaceOK
    <3> QED
      BY <2>2, <3>3
  <2>8. WalkOn(pl2, h)'
    BY <1>10, <2>6
  <2>9. \A r \in Jobs(h) : r = root[h] => JobOK(pl2, h, r)'
    BY <1>1, <1>2, <1>3, <2>6, JobSame
  <2> QED
    BY <1>1, <1>2, <1>3, <1>5, <2>4, <2>6, <2>7, <2>8, <2>9, MapStep
<1> QED
  BY <1>11, <1>12

\* init_hs_pgtable begins with the regions of the VM (vm_run.c:20-28).
LEMMA HsPgtableMap ==
    ASSUME MapInv, NEW h \in Harts, init_hs_pgtable(h)
    PROVE  Progress' /\ HasRoutes'
<1>1. PICK pl : Links(pl) /\ \A g \in Harts : \A r \in Jobs(g) : JobOK(pl, g, r)
  BY DEF MapInv, HasRoutes
<1>2. Inv /\ TypeOK /\ Progress /\ TypeOK' /\ Stays
  BY HsPgtableStep DEF MapInv, Inv
<1>3. pc[h] = "init_hs_pgtable" /\ UNCHANGED <<conf, free, kroot, off, pa, level, tbl>>
  BY DEF init_hs_pgtable
<1>4. OthersStay(h) /\ pc'[h] # "walk" /\ DOMAIN pte' = DOMAIN pte
  <2>1. DOMAIN pte' = DOMAIN pte
    <3>1. \A x \in DOMAIN pte : x[1] # VmRoot[h]
      BY <1>2, <1>3 DEF Inv, Control, ControlOf
    <3> QED
      BY <3>1, ClearEmpty DEF init_hs_pgtable
  <2> QED
    BY <1>2, <2>1 DEF init_hs_pgtable, OthersStay, TypeOK, Inv, Control
<1>5. Extends(pl, pl)
  BY <1>1, <1>3 DEF Extends, Links
<1>6. WalkOn(pl, h)'
  BY <1>4 DEF WalkOn
<1>7. /\ root[h] # 0 /\ root[h] = kroot[h] /\ todo[h] = <<>> /\ off[h] = 0 /\ kroot[h] # 0
      /\ Suffix(todo[h], KernelRegions[h])
  BY <1>2, <1>3 DEF Progress, ProgressOf
<1>8. kroot[h] # VmRoot[h] /\ VmRoot[h] \in Roots /\ kroot[h] \notin Roots /\ VmRoot[h] # 0
  BY <1>2, <1>7, RootsApart DEF TypeOK
<1>9. CASE conf[h] = NONE
  <2>1. pc'[h] = "done" /\ UNCHANGED <<pte, root, todo>>
    BY <1>2, <1>3, <1>9 DEF init_hs_pgtable, TypeOK
  <2>2. ProgressOf(h)'
    BY <1>2, <1>3, <1>7, <1>9, <2>1 DEF Progress, ProgressOf
  <2>3. \A r \in Jobs(h) : r = root[h] => JobOK(pl, h, r)'
    BY <1>1, <1>2, <1>3, <1>5, <2>1, JobSame
  <2> QED
    BY <1>1, <1>2, <1>3, <1>4, <1>5, <1>6, <2>1, <2>2, <2>3, MapStep
<1>10. CASE conf[h] # NONE
  <2>1. /\ root'[h] = VmRoot[h] /\ todo'[h] = VmRegions(conf[h]) /\ pc'[h] = "map_pages"
    BY <1>2, <1>3, <1>10 DEF init_hs_pgtable, TypeOK, Inv, Control
  <2>2. VmRegions(conf[h]) \in Seq(Regions) /\ conf'[h] # NONE
    BY <1>2, <1>3, <1>10, VMemAssumption DEF TypeOK
  <2>3. Len(VmRegions(conf[h])) \in Nat /\ Suffix(VmRegions(conf[h]), VmRegions(conf[h]))
    <3>1. PICK R, n : R = VmRegions(conf[h]) /\ n = Len(R)
      OBVIOUS
    <3>2. n \in Nat
      BY <2>2, <3>1
    <3>3. \A i \in 1 .. n : n - n + i = i
      BY <3>2
    <3>4. n <= n
      BY <3>2
    <3> QED
      BY <3>1, <3>2, <3>3, <3>4 DEF Suffix
  <2>4. ProgressOf(h)'
    <3>1. 0 % PAGE_SIZE = 0 /\ 0 <= Limit(VmRoot[h])
      BY LimitType, VMemAssumption
    <3> QED
      BY <1>3, <1>7, <1>8, <2>1, <2>3, <3>1 DEF ProgressOf
  <2>5. Progress'
    BY <1>2, <1>3, <1>4, <2>4, ProgressStep
  <2>6. Links(pl)'
    BY <1>1, <1>2, <1>3, <1>4, <1>5, <1>6, LinksStep
  <2>7. ASSUME NEW g \in Harts, NEW r \in Jobs(g)' PROVE JobOK(pl, g, r)'
    <3>1. JobOK(pl, g, r)
      BY <1>1, <1>3, <2>7 DEF Jobs
    <3>2. Given(g, r)' = Given(g, r)
      BY <1>3 DEF Given
    <3>3. Finished(g, r)' = Finished(g, r) /\ Offset(g, r)' = Offset(g, r)
      <4>1. CASE g # h
        BY <1>4, <3>2, <4>1 DEF Finished, Offset, OthersStay
      <4>2. CASE g = h /\ r = VmRoot[h]
        <5>1. Given(g, r) = VmRegions(conf[h])
          BY <4>2 DEF Given
        <5>2. Finished(g, r) = 0 /\ Offset(g, r) = 0
          BY <1>7, <1>8, <4>2 DEF Finished, Offset
        <5>3. Finished(g, r)' = 0 /\ Offset(g, r)' = 0
          BY <1>3, <1>7, <2>1, <2>3, <3>2, <4>2, <5>1 DEF Finished, Offset
        <5> QED
          BY <5>2, <5>3
      <4>3. CASE g = h /\ r = kroot[h]
        <5>1. Given(g, r) = KernelRegions[h] /\ KernelRegions[h] \in Seq(Regions)
          BY <1>8, <4>3, VMemAssumption DEF Given
        <5>2. Len(KernelRegions[h]) \in Nat /\ Len(todo[h]) = 0
          BY <1>7, <5>1
        <5>3. Finished(g, r) = Len(KernelRegions[h]) /\ Offset(g, r) = 0
          <6>1. Finished(g, r) = Len(KernelRegions[h]) - Len(todo[h]) /\ Offset(g, r) = off[h]
            BY <1>7, <4>3, <5>1, Zenon DEF Finished, Offset
          <6>2. Len(KernelRegions[h]) - 0 = Len(KernelRegions[h])
            BY <5>2
          <6> QED
            BY <1>7, <5>2, <6>1, <6>2, Zenon
        <5>4. Finished(g, r)' = Len(KernelRegions[h]) /\ Offset(g, r)' = 0
          BY <1>8, <2>1, <3>2, <4>3, <5>1 DEF Finished, Offset
        <5> QED
          BY <5>3, <5>4
      <4>4. g = h => r \in {kroot[h], VmRoot[h]}
        BY <1>3, <2>7 DEF Jobs
      <4> QED
        BY <4>1, <4>2, <4>3, <4>4
    <3> QED
      BY <1>1, <1>2, <1>4, <1>5, <3>1, <3>2, <3>3, JobStays
  <2> QED
    BY <2>5, <2>6, <2>7 DEF HasRoutes
<1> QED
  BY <1>9, <1>10

\* init_vmem begins with the regions of the kernel (vmem.c:85-87).
LEMMA InitVmemMap ==
    ASSUME MapInv, NEW h \in Harts, init_vmem(h), ~ out_of_memory(h)
    PROVE  Progress' /\ HasRoutes'
<1>1. PICK pl : Links(pl) /\ \A g \in Harts : \A r \in Jobs(g) : JobOK(pl, g, r)
  BY DEF MapInv, HasRoutes
<1>2. Inv /\ TypeOK /\ Progress /\ TypeOK' /\ Stays
  BY InitVmemStep DEF MapInv, Inv
<1>3. PICK p \in Pool :
        /\ pc[h] = "init_vmem" /\ kmalloc(p) /\ clear(p)
        /\ kroot' = [kroot EXCEPT ![h] = p] /\ root' = [root EXCEPT ![h] = p]
        /\ todo' = [todo EXCEPT ![h] = KernelRegions[h]]
        /\ pc' = [pc EXCEPT ![h] = "map_pages"]
        /\ UNCHANGED <<conf, off, pa, level, tbl>>
  BY DEF init_vmem
<1>4. p \in free /\ free' = free \ {p} /\ p # 0 /\ p # VmRoot[h] /\ p \notin Roots
  BY <1>2, <1>3, RootsApart DEF kmalloc, TypeOK
<1>5. /\ kroot'[h] = p /\ root'[h] = p /\ todo'[h] = KernelRegions[h] /\ pc'[h] = "map_pages"
      /\ OthersStay(h) /\ \A g \in Harts : g # h => kroot'[g] = kroot[g]
  BY <1>2, <1>3 DEF OthersStay, TypeOK, Inv, Control
<1>6. DOMAIN pte' = DOMAIN pte
  <2>1. \A x \in DOMAIN pte : x[1] # p
    BY <1>1, <1>4 DEF Links, Below
  <2> QED
    BY <1>3, <2>1, ClearEmpty
<1>7. root[h] = 0 /\ off[h] = 0
  BY <1>2, <1>3 DEF Progress, ProgressOf
<1>8. PICK q \in Places : q = [root |-> p, depth |-> 0, va |-> 0]
  <2>1. p \in Tables
    BY RootsApart
  <2> QED
    BY <2>1 DEF Places
<1>9. PICK pl2 : Extends(pl, pl2) /\ pl2[p] = q /\ p \in Tables
  BY <1>1, <1>2, <1>4, TakePage
<1>10. pl2[p].root = p /\ pl2[p].depth = 0
  BY <1>8, <1>9
<1>11. Links(pl2)'
  <2>1. PlaceOK(pl2, p)'
    <3>1. 0 \notin 1 .. LEVELS - 1
      BY VMemAssumption
    <3> QED
      BY <1>4, <1>9, <1>10, <3>1 DEF PlaceOK
  <2>2. \A t \in free \ free' : PlaceOK(pl2, t)'
    BY <1>4, <2>1
  <2>3. WalkOn(pl2, h)'
    BY <1>5 DEF WalkOn
  <2>4. \A g \in Harts : kroot'[g] = kroot[g]
                         \/ (kroot'[g] \in Tables \ free' /\ pl2[kroot'[g]].depth = 0)
    BY <1>4, <1>5, <1>9, <1>10
  <2> QED
    BY <1>1, <1>2, <1>5, <1>6, <1>9, <2>2, <2>3, <2>4, LinksStep
<1>12. Progress'
  <2>1. ProgressOf(h)'
    <3>1. 0 % PAGE_SIZE = 0 /\ 0 <= Limit(p)
      BY LimitType, VMemAssumption
    <3>2. Suffix(KernelRegions[h], KernelRegions[h])
      <4>1. PICK R, n : R = KernelRegions[h] /\ n = Len(R)
        OBVIOUS
      <4>2. n \in Nat
        BY <4>1, VMemAssumption
      <4>3. n <= n /\ \A i \in 1 .. n : n - n + i = i
        BY <4>2
      <4> QED
        BY <4>1, <4>3 DEF Suffix
    <3> QED
      BY <1>3, <1>4, <1>5, <1>7, <3>1, <3>2 DEF ProgressOf
  <2>2. ASSUME NEW g \in Harts, g # h PROVE ProgressOf(g)' /\ kroot'[g] # p
    <3>1. ProgressOf(g)'
      BY <1>2, <1>3, <1>5, <2>2, ProgressOthers
    <3>2. kroot'[g] # p
      BY <1>1, <1>4, <1>5, <2>2 DEF Links
    <3> QED
      BY <3>1, <3>2
  <2>3. \A i, j \in Harts : kroot'[i] = kroot'[j] => i = j \/ kroot'[i] = 0
    BY <1>2, <1>5, <2>2 DEF Progress
  <2> QED
    BY <2>1, <2>2, <2>3 DEF Progress
<1>13. ASSUME NEW g \in Harts, NEW r \in Jobs(g)' PROVE JobOK(pl2, g, r)'
  <2>0. Given(g, r)' = Given(g, r)
    BY <1>3 DEF Given
  <2>1. CASE g # h \/ r = VmRoot[h]
    <3>1. r \in Jobs(g)
      BY <1>3, <1>4, <1>5, <1>13, <2>1 DEF Jobs
    <3>2. Finished(g, r)' = Finished(g, r) /\ Offset(g, r)' = Offset(g, r)
      <4>1. CASE g # h
        BY <1>5, <2>0, <4>1 DEF Finished, Offset, OthersStay
      <4>2. CASE g = h
        <5>1. r = VmRoot[h] /\ r # root[h] /\ r # root'[h] /\ r \in Roots
          BY <1>4, <1>5, <1>7, <2>1, <4>2, RootsApart
        <5> QED
          BY <4>2, <5>1 DEF Finished, Offset
      <4> QED
        BY <4>1, <4>2
    <3> QED
      BY <1>1, <1>2, <1>6, <1>9, <2>0, <3>1, <3>2, JobStays
  <2>2. CASE g = h /\ r = p
    <3>1. PICK R : R = KernelRegions[h]
      OBVIOUS
    <3>2. R \in Seq(Regions) /\ R = Given(g, r)'
      BY <1>4, <2>0, <2>2, <3>1, VMemAssumption DEF Given
    <3>3. Finished(g, r)' = 0 /\ Offset(g, r)' = 0
      <4>1. Len(R) \in Nat
        BY <3>2
      <4>2. Finished(g, r)' = Len(R) - Len(R)
        BY <1>5, <2>2, <3>1, <3>2 DEF Finished
      <4>3. Offset(g, r)' = 0
        BY <1>3, <1>5, <1>7, <2>2 DEF Offset
      <4> QED
        BY <4>1, <4>2, <4>3
    <3>4. \A i, e \in Nat : ~ Asked(R, 0, 0, i, e)
      <4>1. DOMAIN R = 1 .. Len(R)
        BY <3>2
      <4> QED
        BY <4>1 DEF Asked
    <3>5. \A x \in DOMAIN pte' : pl2[x[1]].root # p
      <4> TAKE x \in DOMAIN pte'
      <4>1. x[1] \in Tables \ free
        BY <1>1, <1>6 DEF Links, Below
      <4>2. pl2[x[1]] = pl[x[1]] /\ pl[x[1]].root \notin free
        BY <1>1, <1>9, <4>1 DEF Extends, Links, PlaceOK
      <4> QED
        BY <1>4, <4>2
    <3>6. \A i \in 1 .. 0 : FALSE
      OBVIOUS
    <3>7. Built(pl2, r, R, 0, 0)'
      BY <2>2, <3>4, <3>5, <3>6 DEF Built
    <3> QED
      BY <3>2, <3>3, <3>7, JobNext
  <2>3. g = h => r \in {p, VmRoot[h]}
    BY <1>5, <1>13 DEF Jobs
  <2> QED
    BY <2>1, <2>2, <2>3
<1> QED
  BY <1>11, <1>12, <1>13 DEF HasRoutes

\* The entry for an address leads to the next table for it.
LEMMA OnNext ==
    ASSUME NEW pl, NEW t, NEW r, NEW n \in Nat, NEW a, On(pl, t, r, n, a), NEW q,
           Linked(pl, t, Index(r, a, LEVELS - 1 - n), q)
    PROVE  On(pl, q, r, n + 1, a)
<1>1. PICK b, c : b = pl[t].va /\ c = pl[q].va
  OBVIOUS
<1>2. /\ q \in Tables \ free /\ pl[q].root = r /\ pl[q].depth = n + 1
      /\ Agree(r, a, b, n) /\ Agree(r, c, b, n)
      /\ Index(r, c, LEVELS - 1 - n) = Index(r, a, LEVELS - 1 - n)
  BY <1>1 DEF On, Linked
<1>3. Agree(r, b, c, n)
  BY <1>2, AgreeFacts
<1>4. Agree(r, a, c, n)
  BY <1>2, <1>3, AgreeFacts
<1>5. Agree(r, a, c, n + 1)
  BY <1>2, <1>4, AgreeFacts
<1> QED
  BY <1>1, <1>2, <1>5 DEF On

\* A hart in walk, the table it is in and the address it is for.
LEMMA WalkFacts ==
    ASSUME Inv, Progress, NEW pl, Links(pl), NEW h \in Harts, pc[h] = "walk"
    PROVE  \E t \in Tables \ free, r \in Tables \ free, d \in Nat, a \in Nat :
              /\ t = tbl[h] /\ r = root[h] /\ d = LEVELS - 1 - level[h] /\ a = va(h)
              /\ level[h] = LEVELS - 1 - d /\ level[h] \in Nat /\ d <= LEVELS - 1 /\ r # 0
              /\ On(pl, t, r, d, a) /\ idx(h) = Index(r, a, LEVELS - 1 - d) /\ idx(h) \in Nat
<1>1. On(pl, tbl[h], root[h], LEVELS - 1 - level[h], va(h))
  BY DEF Links, WalkOn
<1>2. level[h] \in 0 .. LEVELS - 1 /\ LEVELS \in Nat \ {0}
  BY VMemAssumption DEF Inv, TypeOK
<1>3. PICK d : d = LEVELS - 1 - level[h]
  OBVIOUS
<1>4. d \in Nat /\ level[h] = LEVELS - 1 - d /\ level[h] \in Nat /\ d <= LEVELS - 1
  BY <1>2, <1>3
<1>5. root[h] # 0
  BY DEF Inv, Control, ControlOf
<1>6. tbl[h] \in Tables \ free /\ root[h] \in Tables \ free
  BY <1>1, <1>5, RootOn DEF On
<1>7. va(h) \in Nat
  BY IdxType, VMemAssumption, SMTT(40) DEF va, Regions, Inv, TypeOK
<1>8. idx(h) = Index(root[h], va(h), LEVELS - 1 - d) /\ idx(h) \in Nat
  <2>1. idx(h) \in Nat
    BY IdxType, VMemAssumption
  <2> QED
    BY <1>4, <2>1 DEF idx, Index
<1> QED
  BY <1>1, <1>3, <1>4, <1>5, <1>6, <1>7, <1>8

\* An iteration of walk: an entry is followed, or a table linked (vmem.c:31-41).
LEMMA WalkMap ==
    ASSUME MapInv, NEW h \in Harts, walk(h), ~ out_of_memory(h)
    PROVE  Progress' /\ HasRoutes'
<1>1. PICK pl : Links(pl) /\ \A g \in Harts : \A r \in Jobs(g) : JobOK(pl, g, r)
  BY DEF MapInv, HasRoutes
<1>2. Inv /\ TypeOK /\ Progress /\ TypeOK' /\ Stays
  BY WalkStep DEF MapInv, Inv
<1>3. /\ pc[h] = "walk" /\ level[h] > 0
      /\ \/ /\ valid(tbl[h], idx(h))
            /\ tbl' = [tbl EXCEPT ![h] = pte[<<tbl[h], idx(h)>>].ppn]
            /\ UNCHANGED <<free, pte>>
         \/ /\ ~ valid(tbl[h], idx(h))
            /\ \E p \in Pool :
                 /\ kmalloc(p)
                 /\ set_pte(tbl[h], idx(h), [ppn |-> p, perm |-> {}])
                 /\ tbl' = [tbl EXCEPT ![h] = p]
      /\ level' = [level EXCEPT ![h] = level[h] - 1]
      /\ UNCHANGED <<conf, kroot, root, pc, todo, off, pa>>
  BY DEF walk
<1>4. PICK t \in Tables \ free, r \in Tables \ free, d \in Nat, a \in Nat :
              /\ t = tbl[h] /\ r = root[h] /\ d = LEVELS - 1 - level[h] /\ a = va(h)
              /\ level[h] = LEVELS - 1 - d /\ level[h] \in Nat /\ d <= LEVELS - 1 /\ r # 0
              /\ On(pl, t, r, d, a) /\ idx(h) = Index(r, a, LEVELS - 1 - d) /\ idx(h) \in Nat
  BY <1>1, <1>2, <1>3, WalkFacts
<1>5. PICK i, x : i = Index(r, a, LEVELS - 1 - d) /\ x = <<t, i>>
  OBVIOUS
<1>6. /\ d < LEVELS - 1 /\ level'[h] = level[h] - 1 /\ LEVELS - 1 - level'[h] = d + 1
      /\ d + 1 \in Nat /\ d + 1 \in 1 .. LEVELS - 1
  <2>1. level'[h] = level[h] - 1
    BY <1>2, <1>3 DEF TypeOK
  <2>2. PICK l, m : l = level[h] /\ m = level'[h]
    OBVIOUS
  <2>3. l \in Nat /\ l > 0 /\ l = LEVELS - 1 - d /\ m = l - 1 /\ LEVELS \in Nat
    BY <1>3, <1>4, <2>1, <2>2, VMemAssumption
  <2>4. d < LEVELS - 1 /\ LEVELS - 1 - m = d + 1 /\ d + 1 \in Nat /\ d + 1 \in 1 .. LEVELS - 1
    BY ONLY <2>3, d \in Nat
  <2> QED
    BY <2>1, <2>2, <2>4
<1>7. pl[t].root = r /\ pl[t].depth = d /\ Agree(r, a, pl[t].va, d)
  BY <1>4 DEF On
<1>8. va(h)' = a /\ root'[h] = r
  BY <1>3, <1>4 DEF va
<1>9. ProgressOf(h)'
  BY <1>2, <1>3 DEF Progress, ProgressOf
<1>10. OthersStay(h)
  <2>1. \E q : tbl' = [tbl EXCEPT ![h] = q]
    BY <1>3
  <2> QED
    BY <1>2, <1>3, <2>1 DEF OthersStay, TypeOK
<1>11. ASSUME NEW pl2, NEW q, tbl'[h] = q, On(pl2, q, r, d + 1, a)' PROVE WalkOn(pl2, h)'
  BY <1>6, <1>8, <1>11 DEF WalkOn, On
<1>12. CASE valid(tbl[h], idx(h))
  <2>1. x \in DOMAIN pte /\ tbl'[h] = pte[x].ppn /\ UNCHANGED <<free, pte>>
    BY <1>2, <1>3, <1>4, <1>5, <1>12 DEF valid, TypeOK
  <2>2. PICK q : q = pte[x].ppn
    OBVIOUS
  <2>3. x[1] = t /\ x[2] = i
    BY <1>5
  <2>4. Linked(pl, t, i, q)
    BY <1>1, <1>6, <1>7, <2>1, <2>2, <2>3 DEF Links, Below
  <2>5. On(pl, q, r, d + 1, a)
    BY <1>4, <1>5, <2>4, OnNext
  <2>6. Extends(pl, pl)
    BY <1>1, <2>1 DEF Extends, Links
  <2>7. On(pl, q, r, d + 1, a)'
    BY <2>5, <2>6, ExtendsOn
  <2>8. WalkOn(pl, h)'
    BY <1>11, <2>1, <2>2, <2>7
  <2>9. \A s \in Jobs(h) : s = root[h] => JobOK(pl, h, s)'
    BY <1>1, <1>2, <1>3, <2>1, <2>6, JobSame
  <2> QED
    BY <1>1, <1>2, <1>3, <1>9, <1>10, <2>1, <2>6, <2>8, <2>9, MapStep
<1>13. CASE ~ valid(tbl[h], idx(h))
  <2>1. PICK p \in Pool :
          /\ kmalloc(p)
          /\ set_pte(tbl[h], idx(h), [ppn |-> p, perm |-> {}])
          /\ tbl' = [tbl EXCEPT ![h] = p]
    BY <1>3, <1>13
  <2>2. p \in free /\ free' = free \ {p} /\ tbl'[h] = p
    BY <1>2, <2>1 DEF kmalloc, TypeOK
  <2>3. DOMAIN pte' = DOMAIN pte \cup {x} /\ pte'[x].ppn = p
    BY <1>4, <1>5, <1>13, <2>1, SetPte
  <2>4. PICK q \in Places : q = [root |-> r, depth |-> d + 1, va |-> a]
    BY <1>4, <1>6 DEF Places
  <2>5. PICK pl2 : Extends(pl, pl2) /\ pl2[p] = q /\ p \in Tables
    BY <1>1, <1>2, <2>2, <2>4, TakePage
  <2>6. /\ pl2[p].root = r /\ pl2[p].depth = d + 1 /\ pl2[p].va = a
        /\ pl2[t] = pl[t] /\ pl2[t].root = r /\ pl2[t].depth = d /\ Agree(r, a, pl2[t].va, d)
        /\ p \in Tables \ free' /\ t \in Tables \ free' /\ r \in Tables \ free'
    BY <1>7, <2>2, <2>4, <2>5 DEF Extends
  <2>7. Linked(pl2, t, i, p)'
    BY <1>5, <2>6 DEF Linked
  <2>8. i \in Nat /\ x[1] = t /\ x[2] = i
    BY <1>4, <1>5
  <2>9. Below(pl2, x)'
    <3>1. d < LEVELS
      BY <1>6, VMemAssumption
    <3> QED
      BY <2>3, <2>6, <2>7, <2>8, <3>1 DEF Below, Linked
  <2>10. PlaceOK(pl2, p)'
    <3>1. d + 1 # 0
      BY <1>6
    <3>2. <<t, i>> \in DOMAIN pte' /\ pte'[<<t, i>>].ppn = p
      BY <1>5, <2>3
    <3> QED
      BY <2>6, <2>7, <2>8, <3>1, <3>2 DEF PlaceOK
  <2>11. On(pl2, p, r, d + 1, a)'
    BY <1>6, <2>6, AgreeFacts DEF On
  <2>12. WalkOn(pl2, h)'
    BY <1>11, <2>2, <2>11
  <2>13. \A y \in DOMAIN pte' : y \in DOMAIN pte \/ Below(pl2, y)'
    BY <2>3, <2>9
  <2>14. \A y \in DOMAIN pte' : y \in DOMAIN pte \/ pl2[y[1]].depth # LEVELS - 1
    BY <1>6, <2>3, <2>6, <2>8
  <2>15. \A s \in Jobs(h) : s = root[h] => JobOK(pl2, h, s)'
    BY <1>1, <1>2, <1>3, <2>5, <2>14, JobSame
  <2>16. \A u \in free \ free' : PlaceOK(pl2, u)'
    BY <2>2, <2>10
  <2> QED
    BY <1>1, <1>2, <1>3, <1>9, <1>10, <2>5, <2>12, <2>13, <2>14, <2>15, <2>16, MapStep
<1> QED
  BY <1>12, <1>13

\* No two tables have the same address.
LEMMA OnUnique ==
    ASSUME TypeOK, NEW pl, Links(pl), NEW r \in Tables \ free, pl[r].depth = 0, NEW a,
           NEW n \in 0 .. LEVELS - 1, NEW u, NEW v, On(pl, u, r, n, a), On(pl, v, r, n, a)
    PROVE  u = v
<1>1. PICK x : x = (r \in Roots)
  OBVIOUS
<1>2. PICK t : /\ t[0] = r
               /\ \A k \in 1 .. LEVELS - 1 : t[k] = Follow(t[k - 1], va2idx(a, LEVELS - k, x))
               /\ leaf_table(r, a, x) = t[LEVELS - 1]
  BY LeafTable
<1>3. Steps(t, r, a)
  BY <1>1, <1>2 DEF Steps, Index
<1> QED
  BY <1>3, Route

\* A region that goes round its table finds its own first entry there.
LEMMA NoRound ==
    ASSUME TypeOK, NEW pl, Links(pl), NEW r \in Tables \ free, pl[r].depth = 0,
           NEW R \in Seq(Regions), NEW f \in Nat, NEW o \in Nat, Built(pl, r, R, f, o),
           o % PAGE_SIZE = 0, o <= Limit(r), NEW s \in Regions, f + 1 \in DOMAIN R,
           s = R[f + 1], o < PGROUNDUP(s.size), NEW t, On(pl, t, r, LEVELS - 1, Va(s, o)),
           <<t, Index(r, Va(s, o), 0)>> \notin DOMAIN pte
    PROVE  o + PAGE_SIZE <= Limit(r) /\ (o + PAGE_SIZE) % PAGE_SIZE = 0
<1>0. LEVELS - 1 \in Nat /\ PAGE_SIZE \in Nat \ {0} /\ Limit(r) \in Nat \ {0}
  BY LimitType, VMemAssumption
<1>1. o # Limit(r)
  <2> SUFFICES ASSUME o = Limit(r) PROVE FALSE
    OBVIOUS
  <2>1. ASSUME NEW l \in 0 .. LEVELS - 1 PROVE Index(r, Va(s, o), l) = Index(r, Va(s, 0), l)
    <3>1. (r \in Roots) \in BOOLEAN
      OBVIOUS
    <3> QED
      BY <3>1, Wraps, Zenon DEF Index, Limit
  <2>2. Asked(R, f, o, f + 1, 0)
    <3>1. 0 % PAGE_SIZE = 0 /\ 0 < o
      BY <1>0
    <3>2. PGROUNDUP(s.size) \in Nat
      BY RoundUp DEF Regions
    <3>3. 0 < PGROUNDUP(s.size)
      BY <3>1, <3>2
    <3> QED
      BY <3>1, <3>3 DEF Asked
  <2>3. PICK j, b, c : j \in Nat /\ j = f + 1 /\ b = Va(s, 0) /\ c = Va(s, o)
    OBVIOUS
  <2>4. PICK u : <<u, Index(r, b, 0)>> \in DOMAIN pte /\ EntryOf(pl, <<u, Index(r, b, 0)>>, r, b)
    <3>1. Asked(R, f, o, j, 0) /\ s = R[j] /\ 0 \in Nat
      BY <2>2, <2>3
    <3> QED
      BY <2>3, <3>1 DEF Built
  <2>5. On(pl, u, r, LEVELS - 1, b)
    BY <2>4 DEF EntryOf
  <2>6. Agree(r, c, b, LEVELS - 1)
    <3>1. ASSUME NEW k \in 0 .. (LEVELS - 1) - 1
          PROVE  Index(r, c, LEVELS - 1 - k) = Index(r, b, LEVELS - 1 - k)
      <4>1. LEVELS - 1 - k \in 0 .. LEVELS - 1
        BY <1>0
      <4> QED
        BY <2>1, <2>3, <4>1
    <3> QED
      BY <3>1 DEF Agree
  <2>7. Agree(r, c, pl[u].va, LEVELS - 1)
    BY <1>0, <2>5, <2>6, AgreeFacts DEF On
  <2>8. On(pl, u, r, LEVELS - 1, c)
    BY <2>5, <2>7 DEF On
  <2>9. LEVELS - 1 \in 0 .. LEVELS - 1 /\ 0 \in 0 .. LEVELS - 1
    BY <1>0
  <2>10. u = t
    BY <2>3, <2>8, <2>9, OnUnique
  <2>11. Index(r, c, 0) = Index(r, b, 0)
    BY <2>1, <2>3, <2>9
  <2> QED
    BY <2>3, <2>4, <2>10, <2>11
<1>2. Limit(r) % PAGE_SIZE = 0
  <2>1. (r \in Roots) \in BOOLEAN
    OBVIOUS
  <2> QED
    BY <2>1, SpanDivides, Zenon DEF Limit
<1>3. PICK m : m = Limit(r)
  OBVIOUS
<1>4. m \in Int /\ o \in Int /\ o < m /\ m % PAGE_SIZE = 0 /\ PAGE_SIZE \in Int
  BY <1>0, <1>1, <1>2, <1>3
<1>5. o + PAGE_SIZE <= m
  BY ONLY <1>0, <1>4, o % PAGE_SIZE = 0, MultipleGap
<1>6. PAGE_SIZE % PAGE_SIZE = 0
  BY <1>0
<1>7. (o + PAGE_SIZE) % PAGE_SIZE = 0
  BY ONLY <1>0, <1>4, <1>6, o % PAGE_SIZE = 0, MultipleGap
<1> QED
  BY <1>3, <1>5, <1>7

\* Table t has entry x for address b, page o of region s, the next to be mapped.
NextPage(pl, r, R, f, o, s, t, b, x) ==
    /\ f + 1 \in DOMAIN R /\ s = R[f + 1] /\ s \in Regions
    /\ o \in Nat /\ o % PAGE_SIZE = 0 /\ o < PGROUNDUP(s.size)
    /\ t \in Tables /\ b = Va(s, o) /\ On(pl, t, r, LEVELS - 1, b) /\ x = <<t, Index(r, b, 0)>>

Written(x, s, o) ==
    DOMAIN pte' = DOMAIN pte \cup {x} /\ pte'[x].perm = s.perm /\ PageOf(s, o, pte'[x].ppn)

\* One more page of the region is mapped.
LEMMA BuiltMore ==
    ASSUME NEW pl, Links(pl), Extends(pl, pl), Stays, NEW r, NEW R, NEW f \in Nat,
           NEW o, Built(pl, r, R, f, o), NEW s, NEW t, NEW b, NEW x,
           NextPage(pl, r, R, f, o, s, t, b, x), Written(x, s, o), NEW c, c = o + PAGE_SIZE
    PROVE  Built(pl, r, R, f, c)'
<1> USE DEF NextPage, Written
<1>0. PAGE_SIZE \in Nat \ {0}
  BY VMemAssumption
<1>1. PICK j \in Nat : j = f + 1 /\ c \in Nat
  BY <1>0
<1>2. ASSUME NEW y, NEW a, EntryOf(pl, y, r, a) PROVE EntryOf(pl, y, r, a)'
  BY <1>2, ExtendsOn DEF EntryOf
<1>3. EntryOf(pl, x, r, b)'
  <2>1. EntryOf(pl, x, r, b)
    BY <1>1 DEF EntryOf
  <2> QED
    BY <1>2, <2>1
<1>4. ASSUME NEW i \in Nat, NEW e \in Nat
      PROVE  Asked(R, f, c, i, e) <=> Asked(R, f, o, i, e) \/ (i = j /\ e = o)
  <2>1. ASSUME e % PAGE_SIZE = 0, e < c PROVE e < o \/ e = o
    <3> SUFFICES ASSUME o < e PROVE FALSE
      OBVIOUS
    <3>1. o \in Int /\ e \in Int
      OBVIOUS
    <3>2. o + PAGE_SIZE <= e
      BY ONLY <1>0, <2>1, <3>1, o < e, o % PAGE_SIZE = 0, MultipleGap
    <3> QED
      BY <1>0, <1>1, <2>1, <3>2
  <2>2. o < c /\ (e < o => e < c)
    BY <1>0, <1>1
  <2>3. i = j => R[i] = s /\ i \in DOMAIN R
    BY <1>1
  <2>4. j = f + 1
    BY <1>1
  <2> QED
    BY <2>1, <2>2, <2>3, <2>4 DEF Asked
<1>5. ASSUME NEW y \in DOMAIN pte', pl[y[1]].root = r, pl[y[1]].depth = LEVELS - 1
      PROVE  \E i, e \in Nat : Asked(R, f, c, i, e) /\ EntryOf(pl, y, r, Va(R[i], e))'
  <2>1. CASE y = x
    <3>1. Asked(R, f, c, j, o) /\ R[j] = s
      BY <1>1, <1>4
    <3>2. EntryOf(pl, y, r, Va(R[j], o))'
      BY <1>1, <1>3, <2>1, <3>1
    <3> QED
      BY <3>1, <3>2
  <2>2. CASE y # x
    <3>1. PICK i, e \in Nat : Asked(R, f, o, i, e) /\ EntryOf(pl, y, r, Va(R[i], e))
      BY <1>5, <2>2 DEF Built
    <3>2. Asked(R, f, c, i, e) /\ EntryOf(pl, y, r, Va(R[i], e))'
      BY <1>2, <1>4, <3>1
    <3> QED
      BY <3>2
  <2> QED
    BY <2>1, <2>2
<1>6. ASSUME NEW i \in Nat, NEW e \in Nat, Asked(R, f, c, i, e)
      PROVE  \E u \in Tables : LET y == <<u, Index(r, Va(R[i], e), 0)>>
                               IN  /\ y \in DOMAIN pte' /\ EntryOf(pl, y, r, Va(R[i], e))'
                                   /\ pte'[y].perm = R[i].perm /\ PageOf(R[i], e, pte'[y].ppn)
  <2>1. CASE i = j /\ e = o
    <3>1. R[i] = s /\ Va(R[i], e) = b
      BY <1>1, <2>1
    <3>2. x = <<t, Index(r, b, 0)>> /\ x \in DOMAIN pte'
      BY <1>1
    <3> QED
      BY <1>3, <2>1, <3>1, <3>2
  <2>2. CASE Asked(R, f, o, i, e)
    <3>1. PICK a : a = Va(R[i], e)
      OBVIOUS
    <3>2. PICK u \in Tables :
            /\ <<u, Index(r, a, 0)>> \in DOMAIN pte /\ EntryOf(pl, <<u, Index(r, a, 0)>>, r, a)
            /\ pte[<<u, Index(r, a, 0)>>].perm = R[i].perm
            /\ PageOf(R[i], e, pte[<<u, Index(r, a, 0)>>].ppn)
      BY <2>2, <3>1 DEF Built
    <3>3. EntryOf(pl, <<u, Index(r, a, 0)>>, r, a)'
      BY <1>2, <3>2
    <3>4. /\ <<u, Index(r, a, 0)>> \in DOMAIN pte'
          /\ pte'[<<u, Index(r, a, 0)>>] = pte[<<u, Index(r, a, 0)>>]
      BY <3>2 DEF Stays
    <3> QED
      BY <3>1, <3>2, <3>3, <3>4
  <2> QED
    BY <1>4, <1>6, <2>1, <2>2
<1>7. \A i \in 1 .. f : PGROUNDUP(R[i].size) <= Limit(r)
  BY DEF Built
<1> QED
  BY <1>5, <1>6, <1>7 DEF Built

\* map_page writes a leaf that was not in use (vmem.c:51-56).
LEMMA MapPageMap ==
    ASSUME MapInv, NEW h \in Harts, map_page(h)
    PROVE  Progress' /\ HasRoutes'
<1>1. PICK pl : Links(pl) /\ \A g \in Harts : \A r \in Jobs(g) : JobOK(pl, g, r)
  BY DEF MapInv, HasRoutes
<1>2. Inv /\ TypeOK /\ Progress /\ TypeOK' /\ Stays
  BY MapPageStep DEF MapInv, Inv
<1>3. /\ pc[h] = "walk" /\ level[h] = 0
      /\ IF valid(tbl[h], idx(h))
         THEN pc' = [pc EXCEPT ![h] = "panic"] /\ UNCHANGED <<pte, off>>
         ELSE /\ pc' = [pc EXCEPT ![h] = "map_pages"]
              /\ off' = [off EXCEPT ![h] = off[h] + PAGE_SIZE]
              /\ set_pte(tbl[h], idx(h),
                         [ppn |-> pa[h] \div PAGE_SIZE, perm |-> Head(todo[h]).perm])
      /\ UNCHANGED <<conf, free, kroot, root, todo, pa, level, tbl>>
  BY DEF map_page
<1>4. OthersStay(h) /\ pc'[h] # "walk"
  BY <1>2, <1>3 DEF OthersStay, TypeOK
<1>5. Extends(pl, pl) /\ WalkOn(pl, h)'
  BY <1>1, <1>3, <1>4 DEF Extends, Links, WalkOn
<1>6. CASE valid(tbl[h], idx(h))
  <2>1. pc'[h] = "panic" /\ UNCHANGED <<pte, off>>
    BY <1>2, <1>3, <1>6 DEF TypeOK
  <2>2. ProgressOf(h)'
    BY <1>2, <1>3, <2>1 DEF Progress, ProgressOf
  <2>3. \A r \in Jobs(h) : r = root[h] => JobOK(pl, h, r)'
    BY <1>1, <1>2, <1>3, <1>5, <2>1, JobSame
  <2> QED
    BY <1>1, <1>2, <1>3, <1>4, <1>5, <2>1, <2>2, <2>3, MapStep
<1>7. CASE ~ valid(tbl[h], idx(h))
  <2>1. PICK t \in Tables \ free, r \in Tables \ free, d \in Nat, a \in Nat :
              /\ t = tbl[h] /\ r = root[h] /\ d = LEVELS - 1 - level[h] /\ a = va(h)
              /\ level[h] = LEVELS - 1 - d /\ r # 0
              /\ On(pl, t, r, d, a) /\ idx(h) = Index(r, a, LEVELS - 1 - d)
    BY <1>1, <1>2, <1>3, WalkFacts
  <2>2. On(pl, t, r, LEVELS - 1, a) /\ idx(h) = Index(r, a, 0)
    <3>1. d = LEVELS - 1 /\ LEVELS - 1 - d = 0
      BY <1>3, <2>1, VMemAssumption
    <3> QED
      BY <2>1, <3>1
  <2>3. PICK R, f, o, s : /\ R = Given(h, r) /\ f = Finished(h, r) /\ o = off[h]
                          /\ s = Head(todo[h])
    OBVIOUS
  <2>4. /\ R \in Seq(Regions) /\ f \in Nat /\ o = Offset(h, r) /\ r \in Jobs(h)
        /\ f = Len(R) - Len(todo[h])
        /\ todo[h] # <<>> => f + 1 \in DOMAIN R /\ R[f + 1] = s
        /\ o \in Nat /\ o % PAGE_SIZE = 0 /\ o <= Limit(r)
    BY <1>2, <2>1, <2>3, JobFacts
  <2>5. f + 1 \in DOMAIN R /\ s = R[f + 1] /\ s \in Regions
    BY <1>2, <1>3, <2>3, <2>4, IdxType DEF Inv, Control, ControlOf
  <2>6. Built(pl, r, R, f, o)
    BY <1>1, <2>3, <2>4 DEF JobOK
  <2>7. o < PGROUNDUP(s.size) /\ PageOf(s, o, pa[h] \div PAGE_SIZE) /\ a = Va(s, o)
    BY <1>2, <1>3, <2>1, <2>3 DEF Progress, ProgressOf, va, Va
  <2>8. PICK x, e : /\ x = <<t, Index(r, a, 0)>>
                    /\ e = [ppn |-> pa[h] \div PAGE_SIZE, perm |-> s.perm]
    OBVIOUS
  <2>9. x \notin DOMAIN pte
    BY <1>7, <2>1, <2>2, <2>8 DEF valid
  <2>10. DOMAIN pte' = DOMAIN pte \cup {x} /\ pte'[x] = e
    <3>1. set_pte(tbl[h], idx(h), e)
      BY <1>3, <1>7, <2>3, <2>8
    <3> QED
      BY <1>7, <2>1, <2>2, <2>8, <3>1, SetPte
  <2>11. pte'[x].perm = s.perm /\ PageOf(s, o, pte'[x].ppn)
    BY <2>7, <2>8, <2>10
  <2>12. pl[r].depth = 0
    BY <1>1, <1>2, <2>1, RootOn
  <2>13. o + PAGE_SIZE <= Limit(r) /\ (o + PAGE_SIZE) % PAGE_SIZE = 0
    BY <1>1, <1>2, <2>2, <2>4, <2>5, <2>6, <2>7, <2>8, <2>9, <2>12, NoRound
  <2>14. pc'[h] = "map_pages" /\ off'[h] = o + PAGE_SIZE
    BY <1>2, <1>3, <1>7, <2>3 DEF TypeOK
  <2>15. ProgressOf(h)'
    BY <1>2, <1>3, <2>1, <2>13, <2>14 DEF Progress, ProgressOf
  <2>0. PICK c : c = o + PAGE_SIZE
    OBVIOUS
  <2>16. Built(pl, r, R, f, c)'
    <3>1. Links(pl) /\ Extends(pl, pl) /\ Stays /\ R \in Seq(Regions)
      BY <1>1, <1>2, <1>5, <2>4
    <3>2. f \in Nat /\ o \in Nat /\ o % PAGE_SIZE = 0 /\ s \in Regions /\ o < PGROUNDUP(s.size)
      BY <2>4, <2>5, <2>7
    <3>3. t \in Tables /\ a = Va(s, o) /\ On(pl, t, r, LEVELS - 1, a) /\ x = <<t, Index(r, a, 0)>>
      BY <2>2, <2>7, <2>8
    <3>4. f + 1 \in DOMAIN R /\ s = R[f + 1]
      BY <2>5
    <3>5. DOMAIN pte' = DOMAIN pte \cup {x}
      BY <2>10
    <3>6. NextPage(pl, r, R, f, o, s, t, a, x) /\ Written(x, s, o) /\ f \in Nat
      BY <2>11, <3>2, <3>3, <3>4, <3>5 DEF NextPage, Written
    <3> QED
      BY ONLY <2>0, <2>6, <3>1, <3>6, BuiltMore, Zenon
  <2>17. JobOK(pl, h, r)'
    <3>1. Given(h, r)' = R
      BY <1>3, <2>3 DEF Given
    <3>2. Finished(h, r)' = f /\ Offset(h, r)' = o + PAGE_SIZE
      BY <1>3, <2>1, <2>3, <2>14, <3>1 DEF Finished, Offset
    <3> QED
      BY <2>0, <2>16, <3>1, <3>2, JobNext
  <2>18. x[1] = t /\ pl[t].root = r /\ pl[t].depth = LEVELS - 1
    BY <2>2, <2>8 DEF On
  <2>19. Below(pl, x)'
    BY <1>3, <2>18, VMemAssumption DEF Below
  <2>20. \A y \in DOMAIN pte' : y \in DOMAIN pte \/ Below(pl, y)'
    BY <2>10, <2>19
  <2>21. \A y \in DOMAIN pte' : \/ y \in DOMAIN pte \/ pl[y[1]].root = root[h]
                                \/ pl[y[1]].depth # LEVELS - 1
    BY <2>1, <2>10, <2>18
  <2>22. \A q \in Jobs(h) : q = root[h] => JobOK(pl, h, q)'
    BY <2>1, <2>17
  <2> QED
    BY <1>1, <1>2, <1>3, <1>4, <1>5, <2>15, <2>20, <2>21, <2>22, MapStep
<1> QED
  BY <1>6, <1>7
-----------------------------------------------------------------------------
\* Nothing is mapped below the roots at the start.
LEMMA InitMap == Init => MapInv
<1> SUFFICES ASSUME Init PROVE MapInv
  OBVIOUS
<1>1. Inv /\ TypeOK
  BY InitInv DEF Inv
<1>2. Progress
  <2> SUFFICES ASSUME NEW h \in Harts PROVE ProgressOf(h)
    BY DEF Init, Progress
  <2> QED
    BY DEF Init, ProgressOf
<1> DEFINE pl == [t \in Tables |-> [root |-> t, depth |-> 0, va |-> 0]]
<1>3. /\ pl \in [Tables -> Places]
      /\ \A t \in Tables : pl[t].root = t /\ pl[t].depth = 0
  BY DEF Places
<1> HIDE DEF pl
<1>4. Links(pl)
  <2>1. \A t \in Tables \ free : PlaceOK(pl, t)
    <3>1. 0 \notin 1 .. LEVELS - 1
      BY VMemAssumption
    <3> QED
      BY <1>3, <3>1 DEF PlaceOK
  <2>2. \A r \in Roots : pl[r].depth = 0
    BY <1>3, RootsApart
  <2> QED
    BY <1>3, <2>1, <2>2 DEF Init, Links, WalkOn
<1>5. ASSUME NEW h \in Harts, NEW r \in Jobs(h) PROVE JobOK(pl, h, r)
  <2>1. r = VmRoot[h] /\ conf[h] # NONE /\ r \in Roots /\ r # 0 /\ root[h] = 0
    BY <1>5, RootsApart DEF Jobs, Init
  <2>2. PICK R : R = Given(h, r)
    OBVIOUS
  <2>3. R \in Seq(Regions)
    BY <1>1, <2>1, <2>2, VMemAssumption DEF Given, TypeOK
  <2>4. Finished(h, r) = 0 /\ Offset(h, r) = 0
    BY <2>1 DEF Finished, Offset
  <2>5. \A i, e \in Nat : ~ Asked(R, 0, 0, i, e)
    <3>1. DOMAIN R = 1 .. Len(R)
      BY <2>3
    <3> QED
      BY <3>1 DEF Asked
  <2>6. DOMAIN pte = {} /\ \A i \in 1 .. 0 : FALSE
    BY DEF Init
  <2>7. Built(pl, r, R, 0, 0)
    BY <2>5, <2>6 DEF Built
  <2> QED
    BY <2>2, <2>4, <2>7 DEF JobOK
<1> QED
  BY <1>1, <1>2, <1>4, <1>5 DEF MapInv, HasRoutes

\* One step per action.
LEMMA MapInvStep == MapInv /\ [Next]_vars => MapInv'
<1> SUFFICES ASSUME MapInv, [Next]_vars PROVE MapInv'
  OBVIOUS
<1>1. Inv' /\ Stays
  BY InvStep DEF MapInv
<1>2. ASSUME NEW h \in Harts, out_of_memory(h) PROVE Progress' /\ HasRoutes'
  BY <1>2, OutOfMemoryMap
<1>3. ASSUME NEW h \in Harts, ~ out_of_memory(h),
             \/ init_vmem(h) \/ init_hs_pgtable(h) \/ map_pages(h)
             \/ map_pages_end(h) \/ walk(h) \/ map_page(h)
      PROVE  Progress' /\ HasRoutes'
  BY <1>3, InitVmemMap, HsPgtableMap, MapPagesMap, MapPagesEndMap, WalkMap, MapPageMap
<1>4. ASSUME UNCHANGED vars PROVE Progress' /\ HasRoutes'
  <2>1. Progress'
    BY <1>4 DEF vars, MapInv, Progress, ProgressOf
  <2>2. PICK pl : Links(pl) /\ \A g \in Harts : \A r \in Jobs(g) : JobOK(pl, g, r)
    BY DEF MapInv, HasRoutes
  <2>3. Links(pl)'
    BY <1>4, <2>2 DEF vars, Links, PlaceOK, Linked, Below, WalkOn, On, va
  <2>4. ASSUME NEW g \in Harts, NEW r \in Jobs(g)' PROVE JobOK(pl, g, r)'
    <3>1. r \in Jobs(g) /\ Given(g, r)' = Given(g, r)
      BY <1>4, <2>4 DEF vars, Jobs, Given
    <3>2. Finished(g, r)' = Finished(g, r) /\ Offset(g, r)' = Offset(g, r)
      BY <1>4, <3>1 DEF vars, Finished, Offset
    <3>3. Extends(pl, pl) /\ DOMAIN pte' = DOMAIN pte
      BY <1>4, <2>2 DEF vars, Extends, Links
    <3> QED
      BY <1>1, <2>2, <3>1, <3>2, <3>3, JobStays
  <2> QED
    BY <2>1, <2>3, <2>4 DEF HasRoutes
<1>5. Progress' /\ HasRoutes'
  BY <1>2, <1>3, <1>4 DEF Next
<1> QED
  BY <1>1, <1>5 DEF MapInv

\* The work of every hart, in every state.
LEMMA AlwaysMapInv == Spec => []MapInv
BY InitMap, MapInvStep, PTL DEF Spec

\* The work of a hart that is done.
LEMMA JobDone ==
    ASSUME MapInv, NEW h \in Harts, pc[h] = "done", NEW r \in Jobs(h)
    PROVE  /\ Says(r, Given(h, r), r \in Roots)
           /\ Given(h, r) \in Seq(Regions)
           /\ \A i \in DOMAIN Given(h, r) : /\ Aligned(Given(h, r)[i])
                                            /\ InRange(Given(h, r)[i], r \in Roots)
                                            /\ PGROUNDUP(Given(h, r)[i].size) <= Limit(r)
<1>1. PICK pl : Links(pl) /\ \A g \in Harts : \A q \in Jobs(g) : JobOK(pl, g, q)
  BY DEF MapInv, HasRoutes
<1>2. Inv /\ TypeOK /\ Progress
  BY DEF MapInv, Inv
<1>3. PICK R, x : R = Given(h, r) /\ x = (r \in Roots) /\ x \in BOOLEAN
  <2>1. (r \in Roots) \in BOOLEAN
    OBVIOUS
  <2> QED
    BY <2>1, Zenon
<1>4. /\ root[h] # 0 /\ todo[h] = <<>> /\ root[h] \in {kroot[h], VmRoot[h]}
      /\ conf[h] # NONE => root[h] = VmRoot[h]
  BY <1>2 DEF Progress, ProgressOf
<1>5. /\ r # 0 /\ (r = VmRoot[h] => conf[h] # NONE) /\ r \in {kroot[h], VmRoot[h]}
      /\ VmRoot[h] \in Roots
  BY RootsApart DEF Jobs
<1>6. r # VmRoot[h] => r \notin Roots
  BY <1>2, <1>5, RootsApart DEF TypeOK
<1>7. /\ R \in Seq(Regions)
      /\ \A i \in DOMAIN R : Aligned(R[i]) /\ InRange(R[i], x)
  <2>1. CASE r = VmRoot[h]
    <3>1. R = VmRegions(conf[h]) /\ conf \in Configs /\ conf[h] # NONE /\ x = TRUE
      BY <1>2, <1>3, <1>5, <2>1 DEF Given, TypeOK
    <3>2. R \in Seq(Regions) /\ \A i \in DOMAIN R : Aligned(R[i])
      BY <3>1, VMemAssumption
    <3>3. \A i \in DOMAIN R : InRange(R[i], TRUE)
      BY <3>1, RangeAssumption, Zenon
    <3> QED
      BY <3>1, <3>2, <3>3, Zenon
  <2>2. CASE r # VmRoot[h]
    <3>1. R = KernelRegions[h] /\ x = FALSE
      <4>1. R = KernelRegions[h]
        BY <1>3, <2>2 DEF Given
      <4>2. (r \in Roots) = FALSE
        BY <1>6, <2>2
      <4> QED
        BY <1>3, <4>1, <4>2, Zenon
    <3>2. R \in Seq(Regions) /\ \A i \in DOMAIN R : Aligned(R[i])
      BY <3>1, VMemAssumption
    <3>3. \A i \in DOMAIN R : InRange(R[i], FALSE)
      BY <3>1, RangeAssumption, Zenon
    <3> QED
      BY <3>1, <3>2, <3>3, Zenon
  <2> QED
    BY <2>1, <2>2
<1>8. Finished(h, r) = Len(R)
  <2>1. CASE root[h] = r
    <3>1. Len(todo[h]) = 0 /\ Len(R) \in Nat
      BY <1>4, <1>7
    <3>2. Len(R) - 0 = Len(R)
      BY <3>1
    <3>3. Finished(h, r) = Len(R) - Len(todo[h])
      BY <1>3, <2>1, Zenon DEF Finished
    <3> QED
      BY <3>1, <3>2, <3>3, Zenon
  <2>2. CASE root[h] # r
    BY <1>3, <1>4, <1>5, <1>6, <2>2 DEF Finished
  <2> QED
    BY <2>1, <2>2
<1>9. PICK o : Built(pl, r, R, Len(R), o)
  BY <1>1, <1>3, <1>8 DEF JobOK
<1>10. r \in Tables \ free /\ pl[r].depth = 0
  BY <1>1, <1>2, <1>5, RootsApart DEF Links, TypeOK
<1>11. Says(r, R, x)
  BY <1>1, <1>2, <1>3, <1>7, <1>9, <1>10, BuiltSays
<1>12. \A i \in DOMAIN R : PGROUNDUP(R[i].size) <= Limit(r)
  BY <1>7, <1>9 DEF Built
<1> QED
  BY <1>3, <1>7, <1>11, <1>12, Zenon

LEMMA MapInvExact == MapInv => MappedExactly
<1> SUFFICES ASSUME MapInv, NEW h \in Harts, pc[h] = "done"
             PROVE  /\ Says(kroot[h], KernelRegions[h], FALSE)
                    /\ conf[h] # NONE => Says(VmRoot[h], VmRegions(conf[h]), TRUE)
  BY Zenon DEF MappedExactly
<1>1. TypeOK /\ Progress
  BY DEF MapInv, Inv
<1>2. kroot[h] # 0 /\ kroot[h] # VmRoot[h] /\ VmRoot[h] # 0 /\ VmRoot[h] \in Roots
      /\ kroot[h] \notin Roots
  BY <1>1, RootsApart DEF Progress, ProgressOf, TypeOK
<1>3. Says(kroot[h], KernelRegions[h], FALSE)
  <2>1. kroot[h] \in Jobs(h) /\ Given(h, kroot[h]) = KernelRegions[h]
        /\ (kroot[h] \in Roots) = FALSE
    BY <1>2 DEF Jobs, Given
  <2>2. Says(kroot[h], Given(h, kroot[h]), kroot[h] \in Roots)
    BY <2>1, JobDone, Zenon
  <2> QED
    BY <2>1, <2>2, Zenon
<1>4. conf[h] # NONE => Says(VmRoot[h], VmRegions(conf[h]), TRUE)
  <2> SUFFICES ASSUME conf[h] # NONE PROVE Says(VmRoot[h], VmRegions(conf[h]), TRUE)
    BY Zenon
  <2>1. VmRoot[h] \in Jobs(h) /\ Given(h, VmRoot[h]) = VmRegions(conf[h])
        /\ (VmRoot[h] \in Roots) = TRUE
    BY <1>2 DEF Jobs, Given
  <2>2. Says(VmRoot[h], Given(h, VmRoot[h]), VmRoot[h] \in Roots)
    BY <2>1, JobDone, Zenon
  <2> QED
    BY <2>1, <2>2, Zenon
<1> QED
  BY <1>3, <1>4, Zenon

LEMMA MapInvConvert == MapInv => ConvertFinds
<1> SUFFICES ASSUME MapInv, NEW h \in Harts, pc[h] = "done", conf[h] # NONE,
                    NEW i \in DOMAIN VmRegions(conf[h]), VmRegions(conf[h])[i].pa # 0,
                    NEW o \in 0 .. VmRegions(conf[h])[i].size - 1
             PROVE  convert_va_to_pa(VmRoot[h], VmRegions(conf[h])[i].va + o, TRUE)
                        = VmRegions(conf[h])[i].pa + o
  BY Zenon DEF ConvertFinds
<1>1. PICK R, r, x : R = VmRegions(conf[h]) /\ r = VmRoot[h] /\ x = (r \in Roots)
  OBVIOUS
<1>2. r \in Jobs(h) /\ Given(h, r) = R /\ x = TRUE
  BY <1>1, RootsApart DEF Jobs, Given
<1>3. /\ Says(r, R, x) /\ R \in Seq(Regions)
      /\ Aligned(R[i]) /\ InRange(R[i], x) /\ PGROUNDUP(R[i].size) <= Limit(r)
  BY <1>1, <1>2, JobDone, Zenon
<1>4. x \in BOOLEAN /\ Limit(r) = Span(x)
  BY <1>1, <1>2, Zenon DEF Limit
<1>5. convert_va_to_pa(r, R[i].va + o, x) = R[i].pa + o
  <2>1. PGROUNDUP(R[i].size) <= Span(x)
    BY <1>3, <1>4, Zenon
  <2>2. i \in DOMAIN R /\ R[i].pa # 0 /\ o \in 0 .. R[i].size - 1
    BY <1>1, Zenon
  <2> QED
    BY ONLY <1>3, <1>4, <2>1, <2>2, SaysConvert, ZenonT(60)
<1> QED
  BY <1>1, <1>2, <1>5, Zenon

(***************************************************************************)
(* For every number of harts, levels, entries and pages, and regions of    *)
(* any size: when init_vmem and init_hs_pgtable return, every page of the  *)
(* regions of a hart is mapped as they say, in the kernel's table and in   *)
(* the guest's, and no other address the MMU takes is (vmem.c:61-135,      *)
(* vm_run.c:20-68), however the harts that share the allocator interleave. *)
(***************************************************************************)
THEOREM VMemMappedExactly == Spec => []MappedExactly
BY MapInvExact, AlwaysMapInv, PTL

(***************************************************************************)
(* convert_va_to_pa (vmem.c:137-146) finds the byte a guest meant, for     *)
(* every address of every region of its VM that names physical memory and  *)
(* every number of levels and entries.                                     *)
(***************************************************************************)
THEOREM VMemConvertFinds == Spec => []ConvertFinds
BY MapInvConvert, AlwaysMapInv, PTL
=============================================================================
