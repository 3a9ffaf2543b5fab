------------------------------ MODULE KMemProofs -----------------------------
(***************************************************************************)
(* The free list of kmem.c, for every number of harts and pages: what the  *)
(* links of a list say about the set of its pages, and from that, that no  *)
(* page is shared, lost or returned dirty, and that kmalloc and kfree      *)
(* implement an allocator in which pages change hands in one step.         *)
(***************************************************************************)
EXTENDS KMem, Integers, Sequences, FiniteSetTheorems, Induction, TLAPS

N == Cardinality(Pages)

LEMMA PagesFinite == IsFiniteSet(Pages) /\ N \in Nat
<1>1. IsFiniteSet(0 .. DTB_MEMORY_END)
  BY KMemAssumption, FS_Interval
<1>2. Pages \in SUBSET (0 .. DTB_MEMORY_END)
  BY DEF Pages
<1>3. IsFiniteSet(Pages)
  BY <1>1, <1>2, FS_Subset
<1> QED
  BY <1>3, FS_CardinalityType DEF N

LEMMA NullNoPage == NULL \notin Pages
BY KMemAssumption DEF Pages, valid_address, NULL

-----------------------------------------------------------------------------
(***************************************************************************)
(* s is the list that starts at first: its pages, each once, in the order  *)
(* of the links, which end with NULL behind the last.                      *)
(***************************************************************************)
IsList(s, first, next) ==
    /\ s \in Seq(Pages)
    /\ \A i, j \in 1 .. Len(s) : s[i] = s[j] => i = j
    /\ first = IF Len(s) = 0 THEN NULL ELSE s[1]
    /\ \A i \in 1 .. Len(s) : next[s[i]] = IF i = Len(s) THEN NULL ELSE s[i + 1]

HasList(first, next) == \E s \in Seq(Pages) : IsList(s, first, next)

\* No list is longer than the loop that follows it.
LEMMA ListLength ==
    ASSUME NEW s \in Seq(Pages), \A i, j \in 1 .. Len(s) : s[i] = s[j] => i = j
    PROVE  Len(s) <= N
<1>1. s \in Injection(1 .. Len(s), Pages)
  BY DEF Injection, IsInjective
<1>2. Cardinality(1 .. Len(s)) <= N
  BY <1>1, PagesFinite, FS_Injection DEF N
<1> QED
  BY <1>2, FS_Interval

\* What the recursion of links computes for a list.
LEMMA LinksOfList ==
    ASSUME NEW first, NEW next, NEW s, IsList(s, first, next)
    PROVE  \A n \in 0 .. N : links(first, next)[n] = IF n < Len(s) THEN s[n + 1] ELSE NULL
<1> DEFINE F(f) == [n \in 0 .. N |->
                      IF n = 0 THEN first
                      ELSE IF f[n - 1] \in Pages THEN next[f[n - 1]] ELSE NULL]
           g == [n \in 0 .. N |-> IF n < Len(s) THEN s[n + 1] ELSE NULL]
           f == links(first, next)
<1>1. N \in Nat /\ Len(s) \in Nat
  BY PagesFinite DEF IsList
<1>2. g = F(g)
  <2>1. ASSUME NEW n \in 0 .. N PROVE g[n] = F(g)[n]
    <3>1. CASE n = 0
      BY <1>1, <3>1 DEF IsList
    <3>2. CASE n # 0 /\ n - 1 < Len(s)
      <4>1. n - 1 \in 0 .. N /\ g[n - 1] = s[n] /\ n \in 1 .. Len(s)
        BY <1>1, <3>2
      <4>2. s[n] \in Pages /\ next[s[n]] = IF n = Len(s) THEN NULL ELSE s[n + 1]
        BY <4>1 DEF IsList
      <4> QED
        BY <1>1, <3>2, <4>1, <4>2
    <3>3. CASE n # 0 /\ ~ (n - 1 < Len(s))
      BY <1>1, <3>3, NullNoPage
    <3> QED
      BY <3>1, <3>2, <3>3
  <2> QED
    BY <2>1
<1>3. f = F(f)
  <2>1. f = CHOOSE e : e = F(e)
    BY DEF links, N
  <2> QED
    BY <1>2, <2>1
<1>4. \A n \in 0 .. N : f[n] = g[n]
  <2> DEFINE T == {n \in 0 .. N : f[n] # g[n]}
  <2> SUFFICES ASSUME T # {} PROVE FALSE
    OBVIOUS
  <2>1. PICK m \in T : \A n \in T : m <= n
    <3>1. T \in SUBSET Nat
      BY <1>1
    <3> QED
      BY <3>1, LeastNumber
  <2>2. m # 0
    BY <1>2, <1>3, <2>1
  <2>3. m - 1 \in 0 .. N /\ f[m - 1] = g[m - 1]
    BY <1>1, <2>1, <2>2, SMTT(40)
  <2>4. F(f)[m] = F(g)[m]
    BY <2>1, <2>3
  <2> QED
    BY <1>2, <1>3, <2>1, <2>4
<1> QED
  BY <1>4

\* The pages of a list, and its end.
LEMMA LinkedOfList ==
    ASSUME NEW first, NEW next, NEW s, IsList(s, first, next)
    PROVE  /\ Linked(first, next) = {s[i] : i \in 1 .. Len(s)}
           /\ links(first, next)[N] = NULL
<1>1. N \in Nat /\ Len(s) \in Nat /\ Len(s) <= N
  BY PagesFinite, ListLength DEF IsList
<1>2. \A n \in 0 .. N : links(first, next)[n] = IF n < Len(s) THEN s[n + 1] ELSE NULL
  BY LinksOfList
<1>3. \A i \in 1 .. Len(s) : s[i] \in Pages
  BY DEF IsList
<1>4. ASSUME NEW p \in Linked(first, next) PROVE p \in {s[i] : i \in 1 .. Len(s)}
  <2>1. p \in Pages /\ \E n \in 0 .. N : p = links(first, next)[n]
    BY <1>4 DEF Linked, N
  <2>2. PICK n \in 0 .. N : p = links(first, next)[n]
    BY <2>1
  <2>3. n < Len(s) /\ p = s[n + 1]
    BY <1>2, <2>1, <2>2, NullNoPage
  <2> QED
    BY <1>1, <2>3
<1>5. ASSUME NEW i \in 1 .. Len(s) PROVE s[i] \in Linked(first, next)
  <2>1. i - 1 \in 0 .. N /\ links(first, next)[i - 1] = s[i]
    BY <1>1, <1>2
  <2> QED
    BY <1>3, <2>1 DEF Linked, N
<1> QED
  BY <1>1, <1>2, <1>4, <1>5

(***************************************************************************)
(* The list of a program step: nothing of it was written, its first page   *)
(* was taken off, or a page that is not on it was put in front.            *)
(***************************************************************************)
LEMMA EmptyList ==
    ASSUME NEW next
    PROVE  HasList(NULL, next) /\ Linked(NULL, next) = {}
<1>1. IsList(<<>>, NULL, next)
  BY DEF IsList
<1>2. Linked(NULL, next) = {<<>>[i] : i \in 1 .. Len(<<>>)}
  BY <1>1, LinkedOfList
<1>3. 1 .. Len(<<>>) = {}
  OBVIOUS
<1>4. <<>> \in Seq(Pages)
  OBVIOUS
<1>5. HasList(NULL, next)
  BY <1>1, <1>4, Zenon DEF HasList
<1> QED
  BY <1>2, <1>3, <1>5

LEMMA ListEnds ==
    ASSUME NEW first, NEW next, HasList(first, next)
    PROVE  /\ links(first, next)[N] = NULL
           /\ first = NULL <=> Linked(first, next) = {}
           /\ first # NULL => first \in Linked(first, next)
           /\ Linked(first, next) \subseteq Pages
<1>1. PICK s \in Seq(Pages) : IsList(s, first, next)
  BY DEF HasList
<1>2. Len(s) \in Nat /\ \A i \in 1 .. Len(s) : s[i] \in Pages
  OBVIOUS
<1>3. first = NULL => Len(s) = 0
  BY <1>1, <1>2, NullNoPage DEF IsList
<1>4. first # NULL => first = s[1] /\ 1 \in 1 .. Len(s)
  BY <1>1, <1>2 DEF IsList
<1>5. Linked(first, next) = {s[i] : i \in 1 .. Len(s)} /\ links(first, next)[N] = NULL
  BY <1>1, LinkedOfList
<1>6. CASE first = NULL
  <2>1. 1 .. Len(s) = {}
    BY <1>3, <1>6
  <2> QED
    BY <1>2, <1>5, <1>6, <2>1
<1>7. CASE first # NULL
  BY <1>2, <1>4, <1>5, <1>7
<1> QED
  BY <1>6, <1>7

LEMMA ListKept ==
    ASSUME NEW first, NEW next, NEW next2, HasList(first, next),
           \A p \in Linked(first, next) : next2[p] = next[p]
    PROVE  HasList(first, next2) /\ Linked(first, next2) = Linked(first, next)
<1>1. PICK s \in Seq(Pages) : IsList(s, first, next)
  BY DEF HasList
<1>2. Linked(first, next) = {s[i] : i \in 1 .. Len(s)}
  BY <1>1, LinkedOfList
<1>3. IsList(s, first, next2)
  BY <1>1, <1>2 DEF IsList
<1> QED
  BY <1>2, <1>3, LinkedOfList DEF HasList

LEMMA ListPopped ==
    ASSUME NEW first, NEW next, HasList(first, next), first # NULL
    PROVE  /\ next[first] \in Pages \cup {NULL}
           /\ HasList(next[first], next)
           /\ Linked(next[first], next) = Linked(first, next) \ {first}
<1>1. PICK s \in Seq(Pages) : IsList(s, first, next)
  BY DEF HasList
<1> DEFINE t == Tail(s)
<1>2. Len(s) \in Nat /\ Len(s) > 0 /\ first = s[1] /\ s # <<>>
  BY <1>1 DEF IsList
<1>3. /\ t \in Seq(Pages) /\ Len(t) = Len(s) - 1
      /\ \A i \in 1 .. Len(t) : t[i] = s[i + 1]
  BY <1>2
<1> HIDE DEF t
<1>4. next[first] = IF Len(t) = 0 THEN NULL ELSE t[1]
  BY <1>1, <1>2, <1>3 DEF IsList
<1>5. IsList(t, next[first], next)
  <2>1. \A i, j \in 1 .. Len(t) : t[i] = t[j] => i = j
    BY <1>1, <1>2, <1>3 DEF IsList
  <2>2. ASSUME NEW i \in 1 .. Len(t)
        PROVE  next[t[i]] = IF i = Len(t) THEN NULL ELSE t[i + 1]
    <3>1. i + 1 \in 1 .. Len(s) /\ t[i] = s[i + 1]
      BY <1>2, <1>3
    <3>2. next[s[i + 1]] = IF i + 1 = Len(s) THEN NULL ELSE s[i + 1 + 1]
      BY <1>1, <3>1 DEF IsList
    <3> QED
      BY <1>2, <1>3, <3>1, <3>2
  <2> QED
    BY <1>3, <1>4, <2>1, <2>2 DEF IsList
<1>6. Linked(first, next) = {s[i] : i \in 1 .. Len(s)}
      /\ Linked(next[first], next) = {t[i] : i \in 1 .. Len(t)}
  BY <1>1, <1>5, LinkedOfList
<1>7. ASSUME NEW i \in 1 .. Len(t) PROVE t[i] \in {s[j] : j \in 1 .. Len(s)} \ {first}
  <2>1. i + 1 \in 1 .. Len(s) /\ 1 \in 1 .. Len(s) /\ i + 1 # 1 /\ t[i] = s[i + 1]
    BY <1>2, <1>3
  <2>2. s[i + 1] # s[1]
    BY <1>1, <2>1 DEF IsList
  <2> QED
    BY <1>2, <2>1, <2>2
<1>8. ASSUME NEW j \in 1 .. Len(s), s[j] # first PROVE s[j] \in {t[i] : i \in 1 .. Len(t)}
  <2>1. j - 1 \in 1 .. Len(t) /\ t[j - 1] = s[j]
    BY <1>2, <1>3, <1>8
  <2> QED
    BY <2>1
<1>9. next[first] \in Pages \cup {NULL}
  <2>1. CASE Len(t) = 0
    BY <1>4, <2>1
  <2>2. CASE Len(t) # 0
    BY <1>3, <1>4, <2>2
  <2> QED
    BY <2>1, <2>2
<1> QED
  BY <1>3, <1>5, <1>6, <1>7, <1>8, <1>9, ZenonT(60) DEF HasList

LEMMA ListPushed ==
    ASSUME NEW first, NEW next, HasList(first, next),
           NEW p \in Pages, p \notin Linked(first, next), next[p] = first
    PROVE  /\ HasList(p, next)
           /\ Linked(p, next) = Linked(first, next) \cup {p}
<1>1. PICK s \in Seq(Pages) : IsList(s, first, next)
  BY DEF HasList
<1> DEFINE t == <<p>> \o s
<1>2. Len(s) \in Nat /\ \A i \in 1 .. Len(s) : s[i] \in Pages
  OBVIOUS
<1>3. /\ t \in Seq(Pages) /\ Len(t) = Len(s) + 1 /\ t[1] = p
      /\ \A i \in 1 .. Len(s) : t[i + 1] = s[i]
  BY <1>2
<1> HIDE DEF t
<1>4. \A i \in 1 .. Len(t) : i # 1 => i - 1 \in 1 .. Len(s) /\ t[i] = s[i - 1]
  BY <1>2, <1>3
<1>5. Linked(first, next) = {s[i] : i \in 1 .. Len(s)}
  BY <1>1, LinkedOfList
<1>6. \A i, j \in 1 .. Len(t) : t[i] = t[j] => i = j
  <2> SUFFICES ASSUME NEW i \in 1 .. Len(t), NEW j \in 1 .. Len(t), t[i] = t[j]
               PROVE  i = j
    OBVIOUS
  <2>1. CASE i = 1 \/ j = 1
    BY <1>3, <1>4, <1>5, <2>1
  <2>2. CASE i # 1 /\ j # 1
    <3>1. i - 1 \in 1 .. Len(s) /\ j - 1 \in 1 .. Len(s) /\ s[i - 1] = s[j - 1]
      BY <1>4, <2>2
    <3>2. i - 1 = j - 1
      BY <1>1, <3>1 DEF IsList
    <3> QED
      BY <1>2, <1>3, <3>2
  <2> QED
    BY <2>1, <2>2
<1>7. ASSUME NEW i \in 1 .. Len(t)
      PROVE  next[t[i]] = IF i = Len(t) THEN NULL ELSE t[i + 1]
  <2>1. CASE i = 1 /\ Len(s) = 0
    BY <1>1, <1>3, <2>1 DEF IsList
  <2>2. CASE i = 1 /\ Len(s) # 0
    <3>1. 1 \in 1 .. Len(s) /\ t[2] = s[1]
      BY <1>2, <1>3, <2>2
    <3> QED
      BY <1>1, <1>2, <1>3, <2>2, <3>1 DEF IsList
  <2>3. CASE i # 1
    <3>1. i - 1 \in 1 .. Len(s) /\ t[i] = s[i - 1]
      BY <1>4, <2>3
    <3>2. next[s[i - 1]] = IF i - 1 = Len(s) THEN NULL ELSE s[i - 1 + 1]
      BY <1>1, <3>1 DEF IsList
    <3>3. i # Len(t) => i \in 1 .. Len(s) /\ t[i + 1] = s[i]
      BY <1>2, <1>3
    <3> QED
      BY <1>2, <1>3, <3>1, <3>2, <3>3
  <2> QED
    BY <2>1, <2>2, <2>3
<1>8. IsList(t, p, next)
  BY <1>2, <1>3, <1>6, <1>7 DEF IsList
<1>9. Linked(p, next) = {t[i] : i \in 1 .. Len(t)}
  BY <1>8, LinkedOfList
<1>10. \A i \in 1 .. Len(t) : t[i] \in {s[j] : j \in 1 .. Len(s)} \cup {p}
  BY <1>3, <1>4
<1>11. \A i \in 1 .. Len(s) : i + 1 \in 1 .. Len(t) /\ t[i + 1] = s[i]
  BY <1>2, <1>3
<1>12. p \in {t[i] : i \in 1 .. Len(t)}
  <2>1. 1 \in 1 .. Len(t)
    BY <1>2, <1>3
  <2> QED
    BY <1>3, <2>1
<1>13. Linked(p, next) \subseteq Linked(first, next) \cup {p}
  BY <1>5, <1>9, <1>10
<1>14. Linked(first, next) \cup {p} \subseteq Linked(p, next)
  BY <1>5, <1>9, <1>11, <1>12
<1> QED
  BY <1>3, <1>8, <1>13, <1>14 DEF HasList
-----------------------------------------------------------------------------
(***************************************************************************)
(* The inductive invariant.                                                *)
(***************************************************************************)
Locked == {"m_freelist", "m_next", "m_pop", "m_release", "f_link", "f_push", "f_release"}

LockInv ==
    /\ \A g, h \in Harts : pc[g] \in Locked /\ pc[h] \in Locked => g = h
    /\ \A h \in Harts : pc[h] \in Locked => locked = 1

\* What a hart in the middle of a pop or a push knows.
LocalInv ==
    \A h \in Harts :
        /\ pc[h] \in {"m_next", "m_pop"} => page[h] = freelist /\ freelist # NULL
        /\ pc[h] = "m_pop" => reg[h] = mem[page[h]]
        /\ pc[h] \in {"f_acquire", "f_link", "f_push"} =>
             page[h] \in Pages /\ page[h] \notin held[h]
        /\ pc[h] = "f_push" => mem[page[h]] = freelist
        /\ pc[h] = "return" => page[h] \in Pages

Apart ==
    /\ \A h \in Harts : PagesOf(h) \cap FreePages = {}
    /\ \A g, h \in Harts : g # h => PagesOf(g) \cap PagesOf(h) = {}

\* The pages init_kmem has been through are free or somebody's.
Accounted == {p \in Pages : p < kpa} = FreePages \cup UNION {PagesOf(h) : h \in Harts}

BootInv ==
    /\ kpa % PAGE_SIZE = 0 /\ dynamic <= kpa
    /\ ~ Booted => \A h \in Harts : pc[h] = "idle" /\ held[h] = {}

Inv ==
    /\ TypeOK /\ HasList(freelist, mem)
    /\ LockInv /\ LocalInv /\ Apart /\ Accounted /\ BootInv /\ ReturnedClean
-----------------------------------------------------------------------------
(***************************************************************************)
(* A step of hart h keeps every page where it is, takes the first page off *)
(* the list, or puts one of its own pages on it.                           *)
(***************************************************************************)
Keep(h) == FreePages' = FreePages /\ PagesOf(h)' = PagesOf(h)
Take(h) == \E p \in FreePages : /\ FreePages' = FreePages \ {p}
                                /\ PagesOf(h)' = PagesOf(h) \cup {p}
Give(h) == \E p \in PagesOf(h) : /\ FreePages' = FreePages \cup {p}
                                 /\ PagesOf(h)' = PagesOf(h) \ {p}

hart(h) == kmalloc(h) \/ kfree(h) \/ use(h)

LEMMA PageStep ==
    ASSUME Inv, NEW h \in Harts, hart(h)
    PROVE  /\ HasList(freelist, mem)'
           /\ Keep(h) \/ Take(h) \/ Give(h)
<1>0. /\ HasList(freelist, mem)' <=> HasList(freelist', mem')
      /\ FreePages = Linked(freelist, mem) /\ FreePages' = Linked(freelist', mem')
  BY DEF HasList, FreePages
<1>1. /\ FreePages \subseteq Pages
      /\ freelist # NULL => freelist \in FreePages
  BY <1>0, ListEnds DEF Inv
<1>2. PagesOf(h) \subseteq Pages
  BY DEF PagesOf, Inv, TypeOK
<1> USE NullNoPage
<1>3. ASSUME UNCHANGED <<freelist, mem>> PROVE HasList(freelist, mem)' /\ FreePages' = FreePages
  BY <1>0, <1>3 DEF Inv
<1>4. ASSUME NEW p \in PagesOf(h), NEW w, UNCHANGED freelist, mem' = [mem EXCEPT ![p] = w]
      PROVE  HasList(freelist, mem)' /\ FreePages' = FreePages
  <2>1. \A q \in FreePages : mem'[q] = mem[q]
    BY <1>1, <1>2, <1>4 DEF Inv, Apart, TypeOK
  <2> QED
    BY <1>0, <1>4, <2>1, ListKept DEF Inv
<1>5. CASE call_kmalloc(h) \/ acquire(h, "m_acquire", "m_freelist")
           \/ acquire(h, "f_acquire", "f_link") \/ release(h, "f_release", "idle")
           \/ release(h, "m_release", "memset")
  <2>1. UNCHANGED <<freelist, mem, page, held>>
    BY <1>5 DEF call_kmalloc, acquire, release
  <2>2. PagesOf(h)' = PagesOf(h)
    BY <1>5, <2>1 DEF call_kmalloc, acquire, release, goto, PagesOf, Inv, TypeOK
  <2> QED
    BY <1>3, <2>1, <2>2 DEF Keep
<1>6. CASE load_freelist(h)
  <2>1. UNCHANGED <<freelist, mem, held>> /\ PagesOf(h)' = PagesOf(h)
    BY <1>6 DEF load_freelist, goto, PagesOf, Inv, TypeOK
  <2> QED
    BY <1>3, <2>1 DEF Keep
<1>7. CASE load_next(h)
  <2>1. UNCHANGED <<freelist, mem, page, held>> /\ PagesOf(h)' = PagesOf(h)
    BY <1>7 DEF load_next, goto, PagesOf, Inv, TypeOK
  <2> QED
    BY <1>3, <2>1 DEF Keep
<1>8. CASE pop(h)
  <2>1. /\ freelist # NULL /\ page[h] = freelist
        /\ freelist' = mem[freelist] /\ UNCHANGED <<mem, page, held>>
    BY <1>8 DEF pop, Inv, LocalInv
  <2>2. /\ HasList(freelist', mem')
        /\ Linked(freelist', mem') = Linked(freelist, mem) \ {freelist}
    BY <2>1, ListPopped DEF Inv
  <2>3. PagesOf(h)' = PagesOf(h) \cup {freelist}
    BY <1>1, <1>8, <2>1 DEF pop, goto, PagesOf, Inv, TypeOK
  <2> QED
    BY <1>0, <1>1, <2>1, <2>2, <2>3 DEF Take
<1>9. CASE memset(h)
  <2>1. UNCHANGED <<freelist, page, held>> /\ PagesOf(h)' = PagesOf(h)
    BY <1>9 DEF memset, goto, PagesOf, Inv, TypeOK
  <2>2. CASE page[h] = NULL
    BY <1>3, <1>9, <2>1, <2>2 DEF memset, Keep
  <2>3. CASE page[h] # NULL
    <3>1. page[h] \in PagesOf(h)
      BY <1>9, <2>3 DEF memset, PagesOf, Inv, TypeOK
    <3> QED
      BY <1>4, <1>9, <2>1, <2>3, <3>1 DEF memset, Keep
  <2> QED
    BY <2>2, <2>3
<1>10. CASE return(h)
  <2>1. UNCHANGED <<freelist, mem>> /\ PagesOf(h)' = PagesOf(h)
    BY <1>10 DEF return, goto, PagesOf, Inv, TypeOK, LocalInv
  <2> QED
    BY <1>3, <2>1 DEF Keep
<1>11. CASE use(h)
  <2>1. UNCHANGED <<freelist, pc, page, held>> /\ PagesOf(h)' = PagesOf(h)
    BY <1>11 DEF use, PagesOf
  <2>2. PICK p \in held[h] : mem' = [mem EXCEPT ![p] = JUNK]
    BY <1>11 DEF use
  <2>3. p \in PagesOf(h)
    BY DEF PagesOf
  <2> QED
    BY <1>4, <2>1, <2>2, <2>3 DEF Keep
<1>12. CASE call_kfree(h)
  <2>1. UNCHANGED <<freelist, mem>>
    BY <1>12 DEF call_kfree
  <2>2. PagesOf(h)' = PagesOf(h)
    <3>1. PICK p \in held[h] \cup {NULL, DTB_MEMORY_END} :
                 IF valid_address(p)
                 THEN /\ page' = [page EXCEPT ![h] = p]
                      /\ held' = [held EXCEPT ![h] = @ \ {p}]
                      /\ goto(h, "f_acquire")
                 ELSE goto(h, "panic") /\ UNCHANGED <<page, held>>
      BY <1>12 DEF call_kfree
    <3>2. pc[h] = "idle"
      BY <1>12 DEF call_kfree
    <3>3. CASE valid_address(p)
      <4>1. p \in held[h] /\ p \in Pages
        <5>1. ~ valid_address(NULL) /\ ~ valid_address(DTB_MEMORY_END)
          BY KMemAssumption DEF valid_address, NULL
        <5> QED
          BY <3>1, <3>3, <5>1 DEF Inv, TypeOK
      <4> QED
        BY <3>1, <3>2, <3>3, <4>1 DEF goto, PagesOf, Inv, TypeOK
    <3>4. CASE ~ valid_address(p)
      BY <3>1, <3>2, <3>4 DEF goto, PagesOf, Inv, TypeOK
    <3> QED
      BY <3>3, <3>4
  <2> QED
    BY <1>3, <2>1, <2>2 DEF Keep
<1>13. CASE link(h)
  <2>1. UNCHANGED <<freelist, page, held>> /\ PagesOf(h)' = PagesOf(h)
    BY <1>13 DEF link, goto, PagesOf, Inv, TypeOK
  <2>2. page[h] \in PagesOf(h)
    BY <1>13 DEF link, PagesOf, Inv, LocalInv
  <2> QED
    BY <1>4, <1>13, <2>1, <2>2 DEF link, Keep
<1>14. CASE push(h)
  <2>1. /\ page[h] \in Pages /\ page[h] \notin held[h] /\ mem[page[h]] = freelist
        /\ freelist' = page[h] /\ UNCHANGED <<mem, held>>
    BY <1>14 DEF push, Inv, LocalInv
  <2>2. page[h] \in PagesOf(h) /\ PagesOf(h)' = PagesOf(h) \ {page[h]}
    BY <1>14, <2>1 DEF push, goto, PagesOf, Inv, TypeOK
  <2>3. page[h] \notin Linked(freelist, mem)
    BY <1>0, <2>2 DEF Inv, Apart
  <2>4. /\ HasList(freelist', mem')
        /\ Linked(freelist', mem') = Linked(freelist, mem) \cup {page[h]}
    BY <2>1, <2>3, ListPushed DEF Inv
  <2> QED
    BY <1>0, <2>2, <2>4 DEF Give
<1> QED
  BY <1>5, <1>6, <1>7, <1>8, <1>9, <1>10, <1>11, <1>12, <1>13, <1>14
     DEF hart, kmalloc, kfree

\* The other harts' pages stay theirs.
LEMMA OtherPages ==
    ASSUME TypeOK, NEW h \in Harts, hart(h), NEW g \in Harts, g # h
    PROVE  /\ PagesOf(g)' = PagesOf(g)
           /\ pc'[g] = pc[g] /\ page'[g] = page[g] /\ reg'[g] = reg[g] /\ held'[g] = held[g]
<1>1. pc'[g] = pc[g] /\ page'[g] = page[g] /\ reg'[g] = reg[g] /\ held'[g] = held[g]
  BY DEF hart, kmalloc, kfree, call_kmalloc, acquire, release, load_freelist, load_next,
         pop, memset, return, use, call_kfree, link, push, goto, TypeOK
<1> QED
  BY <1>1 DEF PagesOf

LEMMA ApartStep ==
    ASSUME Inv, NEW h \in Harts, hart(h)
    PROVE  Apart' /\ Accounted'
<1>1. Keep(h) \/ Take(h) \/ Give(h)
  BY PageStep
<1>2. \A g \in Harts : g # h => PagesOf(g)' = PagesOf(g)
  BY OtherPages DEF Inv
<1>3. UNCHANGED kpa
  BY DEF hart, kmalloc, kfree, call_kmalloc, acquire, release, load_freelist, load_next,
         pop, memset, return, use, call_kfree, link, push
<1> DEFINE All == UNION {PagesOf(g) : g \in Harts}
<1>4. Accounted' <=> {p \in Pages : p < kpa} = FreePages' \cup All'
  BY <1>3 DEF Accounted
<1>5. \A p : p \in All <=> \E g \in Harts : p \in PagesOf(g)
  OBVIOUS
<1>6. \A p : p \in All' <=> \E g \in Harts : p \in PagesOf(g)'
  OBVIOUS
<1> HIDE DEF All
<1>7. {p \in Pages : p < kpa} = FreePages \cup All
  BY DEF Inv, Accounted, All
<1>8. CASE Keep(h)
  <2>1. \A g \in Harts : PagesOf(g)' = PagesOf(g)
    BY <1>2, <1>8 DEF Keep
  <2>2. All' = All
    BY <1>5, <1>6, <2>1
  <2> QED
    BY <1>4, <1>7, <1>8, <2>1, <2>2 DEF Inv, Apart, Keep
<1>9. CASE Take(h)
  <2>1. PICK p \in FreePages : /\ FreePages' = FreePages \ {p}
                               /\ PagesOf(h)' = PagesOf(h) \cup {p}
    BY <1>9 DEF Take
  <2>2. All' = All \cup {p}
    BY <1>2, <1>5, <1>6, <2>1
  <2>3. FreePages' \cup All' = FreePages \cup All
    BY <2>1, <2>2
  <2>4. Apart'
    BY <1>2, <2>1 DEF Inv, Apart
  <2> QED
    BY <1>4, <1>7, <2>3, <2>4
<1>10. CASE Give(h)
  <2>1. PICK p \in PagesOf(h) : /\ FreePages' = FreePages \cup {p}
                                /\ PagesOf(h)' = PagesOf(h) \ {p}
    BY <1>10 DEF Give
  <2>2. All' \cup {p} = All
    BY <1>2, <1>5, <1>6, <2>1
  <2>3. FreePages' \cup All' = FreePages \cup All
    BY <2>1, <2>2
  <2>4. Apart'
    BY <1>2, <2>1 DEF Inv, Apart
  <2> QED
    BY <1>4, <1>7, <2>3, <2>4
<1> QED
  BY <1>1, <1>8, <1>9, <1>10

(***************************************************************************)
(* The other parts of the invariant, for a step of a hart.                 *)
(***************************************************************************)
LEMMA LocalStep ==
    ASSUME Inv, NEW h \in Harts, hart(h)
    PROVE  TypeOK' /\ LockInv' /\ LocalInv' /\ BootInv' /\ ReturnedClean'
<1> USE NullNoPage DEF Inv, TypeOK, InKmalloc, InKfree, Locked, goto
<1>0. \A g \in Harts : g # h => PagesOf(g) \cap PagesOf(h) = {} /\ freelist \notin PagesOf(g)
  <2>1. freelist = NULL \/ freelist \in FreePages
    BY ListEnds DEF FreePages
  <2>2. \A g \in Harts : NULL \notin PagesOf(g)
    BY DEF PagesOf
  <2> QED
    BY <2>1, <2>2 DEF Apart
<1>1. CASE call_kmalloc(h)
  BY <1>1 DEF call_kmalloc, LockInv, LocalInv, BootInv, ReturnedClean, Booted
<1>2. CASE acquire(h, "m_acquire", "m_freelist") \/ acquire(h, "f_acquire", "f_link")
  BY <1>2 DEF acquire, LockInv, LocalInv, BootInv, ReturnedClean, Booted
<1>3. CASE release(h, "m_release", "memset") \/ release(h, "f_release", "idle")
  BY <1>3 DEF release, LockInv, LocalInv, BootInv, ReturnedClean, Booted
<1>4. CASE load_freelist(h)
  BY <1>4 DEF load_freelist, LockInv, LocalInv, BootInv, ReturnedClean, Booted
<1>5. CASE load_next(h)
  <2>1. mem[page[h]] \in Pages \cup {NULL}
    BY <1>5, ListPopped DEF load_next, LocalInv
  <2> QED
    BY <1>5, <2>1 DEF load_next, LockInv, LocalInv, BootInv, ReturnedClean, Booted
<1>6. CASE pop(h)
  BY <1>6 DEF pop, LockInv, LocalInv, BootInv, ReturnedClean, Booted
<1>7. CASE memset(h)
  <2>1. TypeOK' /\ LockInv' /\ BootInv'
    BY <1>7 DEF memset, LockInv, BootInv, Booted
  <2>2. page[h] \in Pages => page[h] \in PagesOf(h)
    BY <1>7 DEF memset, PagesOf
  <2>3. \A g \in Harts : /\ pc[g] = "f_push" => page[g] \in PagesOf(g)
                         /\ pc[g] = "return" => page[g] \in PagesOf(g)
    BY DEF PagesOf, LocalInv
  <2>4. \A g \in Harts : pc[g] = "m_pop" => page[g] \in FreePages
    BY ListEnds DEF LocalInv, FreePages
  <2>5. LocalInv'
    BY <1>0, <1>7, <2>2, <2>3, <2>4 DEF memset, LocalInv, Apart
  <2>6. ReturnedClean'
    <3> SUFFICES ASSUME NEW g \in Harts, pc'[g] = "return" PROVE mem'[page'[g]] = NULL
      BY DEF ReturnedClean
    <3>1. CASE g = h
      BY <1>7, <3>1 DEF memset
    <3>2. CASE g # h
      <4>1. pc[g] = "return" /\ page[g] \in Pages /\ page'[g] = page[g]
        BY <1>7, <3>2 DEF memset, LocalInv
      <4>2. page[h] \in Pages => page[g] # page[h]
        BY <1>0, <2>2, <2>3, <3>2, <4>1
      <4> QED
        BY <1>7, <4>1, <4>2 DEF memset, ReturnedClean
    <3> QED
      BY <3>1, <3>2
  <2> QED
    BY <2>1, <2>5, <2>6
<1>8. CASE return(h)
  BY <1>8 DEF return, LockInv, LocalInv, BootInv, ReturnedClean, Booted
<1>9. CASE use(h)
  <2>0. PICK p \in held[h] : mem' = [mem EXCEPT ![p] = JUNK]
    BY <1>9 DEF use
  <2>1. pc[h] = "idle" /\ UNCHANGED <<kpa, freelist, locked, pc, page, reg, held>>
    BY <1>9 DEF use
  <2>2. p \in PagesOf(h)
    BY DEF PagesOf
  <2>3. \A g \in Harts : /\ pc[g] = "f_push" => page[g] \in PagesOf(g)
                         /\ pc[g] = "return" => page[g] \in PagesOf(g)
    BY DEF PagesOf, LocalInv
  <2>4. \A g \in Harts : pc[g] = "m_pop" => page[g] \in FreePages
    BY ListEnds DEF LocalInv, FreePages
  <2>5. TypeOK' /\ LockInv' /\ BootInv'
    BY <2>0, <2>1 DEF LockInv, BootInv, Booted
  <2>6. LocalInv'
    BY <1>0, <2>0, <2>1, <2>2, <2>3, <2>4 DEF LocalInv, Apart
  <2>7. ReturnedClean'
    BY <1>0, <2>0, <2>1, <2>2, <2>3 DEF ReturnedClean
  <2> QED
    BY <2>5, <2>6, <2>7
<1>10. CASE call_kfree(h)
  <2>1. PICK p \in held[h] \cup {NULL, DTB_MEMORY_END} :
                 IF valid_address(p)
                 THEN /\ page' = [page EXCEPT ![h] = p]
                      /\ held' = [held EXCEPT ![h] = @ \ {p}]
                      /\ goto(h, "f_acquire")
                 ELSE goto(h, "panic") /\ UNCHANGED <<page, held>>
    BY <1>10 DEF call_kfree
  <2>2. Booted /\ pc[h] = "idle" /\ UNCHANGED <<kpa, freelist, locked, mem, reg>>
    BY <1>10 DEF call_kfree
  <2>3. CASE valid_address(p)
    <3>1. p \in held[h] /\ p \in Pages
      <4>1. ~ valid_address(NULL) /\ ~ valid_address(DTB_MEMORY_END)
        BY KMemAssumption DEF valid_address, NULL
      <4> QED
        BY <2>1, <2>3, <4>1
    <3> QED
      BY <2>1, <2>2, <2>3, <3>1 DEF LockInv, LocalInv, BootInv, ReturnedClean, Booted
  <2>4. CASE ~ valid_address(p)
    BY <2>1, <2>2, <2>4 DEF LockInv, LocalInv, BootInv, ReturnedClean, Booted
  <2> QED
    BY <2>3, <2>4
<1>11. CASE link(h)
  <2>1. TypeOK' /\ LockInv' /\ BootInv'
    BY <1>11 DEF link, LockInv, LocalInv, BootInv, Booted
  <2>2. page[h] \in PagesOf(h)
    BY <1>11 DEF link, PagesOf, LocalInv
  <2>3. \A g \in Harts : pc[g] = "return" => page[g] \in PagesOf(g)
    BY DEF PagesOf, LocalInv
  <2>4. \A g \in Harts : g # h => pc[g] \notin Locked
    BY <1>11 DEF link, LockInv
  <2>5. LocalInv'
    BY <1>11, <2>4 DEF link, LocalInv
  <2>6. ReturnedClean'
    BY <1>0, <1>11, <2>2, <2>3 DEF link, ReturnedClean
  <2> QED
    BY <2>1, <2>5, <2>6
<1>12. CASE push(h)
  BY <1>12 DEF push, LockInv, LocalInv, BootInv, ReturnedClean, Booted
<1> QED
  BY <1>1, <1>2, <1>3, <1>4, <1>5, <1>6, <1>7, <1>8, <1>9, <1>10, <1>11, <1>12
     DEF hart, kmalloc, kfree
-----------------------------------------------------------------------------
(***************************************************************************)
(* init_kmem.  Multiples of the page size are a page apart, so the loop    *)
(* starts at the first page behind the image and leaves none out.          *)
(***************************************************************************)
LEMMA Multiple ==
    ASSUME NEW a \in Nat, a % PAGE_SIZE = 0
    PROVE  \E q \in Nat : a = PAGE_SIZE * q
<1>1. a = PAGE_SIZE * (a \div PAGE_SIZE) + (a % PAGE_SIZE) /\ a \div PAGE_SIZE \in Nat
  BY KMemAssumption
<1>2. a = PAGE_SIZE * (a \div PAGE_SIZE)
  BY <1>1, KMemAssumption
<1> QED
  BY <1>1, <1>2

LEMMA PageApart ==
    ASSUME NEW a \in Nat, NEW b \in Nat, a % PAGE_SIZE = 0, b % PAGE_SIZE = 0, a < b
    PROVE  a + PAGE_SIZE <= b
<1>1. PICK q \in Nat : a = PAGE_SIZE * q
  BY Multiple
<1>2. PICK r \in Nat : b = PAGE_SIZE * r
  BY Multiple
<1>3. q < r
  BY <1>1, <1>2, KMemAssumption
<1>4. PAGE_SIZE * (q + 1) <= PAGE_SIZE * r
  BY <1>3, KMemAssumption
<1> QED
  BY <1>1, <1>2, <1>4, KMemAssumption

LEMMA NextMultiple ==
    ASSUME NEW q \in Nat
    PROVE  /\ (PAGE_SIZE * q) % PAGE_SIZE = 0
           /\ (PAGE_SIZE * q + PAGE_SIZE) % PAGE_SIZE = 0
BY KMemAssumption

LEMMA RoundedUp ==
    /\ PGROUNDUP(dynamic) \in Nat
    /\ PGROUNDUP(dynamic) % PAGE_SIZE = 0
    /\ dynamic <= PGROUNDUP(dynamic) /\ PGROUNDUP(dynamic) < dynamic + PAGE_SIZE
<1> DEFINE a == dynamic + PAGE_SIZE - 1
           q == a \div PAGE_SIZE
<1>1. a \in Nat /\ q \in Nat /\ a = PAGE_SIZE * q + (a % PAGE_SIZE)
      /\ a % PAGE_SIZE \in 0 .. PAGE_SIZE - 1
  BY KMemAssumption
<1>2. PGROUNDUP(dynamic) = PAGE_SIZE * q
  BY <1>1, KMemAssumption DEF PGROUNDUP
<1> HIDE DEF q
<1>3. PAGE_SIZE * q \in Nat
  BY <1>1, KMemAssumption
<1> QED
  BY <1>1, <1>2, <1>3, NextMultiple, KMemAssumption

LEMMA InitInv == Init => Inv
<1> SUFFICES ASSUME Init PROVE Inv
  OBVIOUS
<1>1. FreePages = {} /\ HasList(freelist, mem)
  BY EmptyList DEF Init, FreePages
<1>2. \A h \in Harts : PagesOf(h) = {}
  BY NullNoPage DEF Init, PagesOf
<1>3. TypeOK /\ LockInv /\ LocalInv /\ Apart /\ ReturnedClean
  BY <1>1, <1>2, RoundedUp
     DEF Init, TypeOK, LockInv, Locked, LocalInv, Apart, ReturnedClean
<1>4. BootInv
  BY RoundedUp DEF Init, BootInv
<1>5. ASSUME NEW p \in Pages, p < kpa PROVE FALSE
  <2>1. p \in Nat /\ p % PAGE_SIZE = 0 /\ dynamic <= p
    BY KMemAssumption DEF Pages, valid_address
  <2>2. p + PAGE_SIZE <= kpa
    BY <1>5, <2>1, RoundedUp, PageApart DEF Init
  <2> QED
    BY <2>1, <2>2, RoundedUp, KMemAssumption DEF Init
<1>6. Accounted
  BY <1>1, <1>2, <1>5 DEF Accounted
<1> QED
  BY <1>1, <1>3, <1>4, <1>6 DEF Inv

LEMMA BootStep ==
    ASSUME Inv, bootstrap_kfree
    PROVE  /\ Inv'
           /\ kpa \in Pages /\ kpa \notin FreePages /\ \A h \in Harts : kpa \notin PagesOf(h)
           /\ FreePages' = FreePages \cup {kpa}
           /\ \A h \in Harts : PagesOf(h)' = PagesOf(h)
<1> USE DEF bootstrap_kfree
<1>1. kpa \in Pages /\ kpa % PAGE_SIZE = 0 /\ kpa \in Nat
  BY KMemAssumption DEF Pages, valid_address, Inv, TypeOK
<1>2. \A h \in Harts : PagesOf(h)' = PagesOf(h)
  BY DEF PagesOf
<1>3. kpa \notin FreePages /\ \A h \in Harts : kpa \notin PagesOf(h)
  <2>1. kpa \notin FreePages \cup UNION {PagesOf(h) : h \in Harts}
    BY <1>1 DEF Inv, Accounted
  <2> QED
    BY <2>1
<1>4. /\ HasList(freelist, mem)' <=> HasList(freelist', mem')
      /\ FreePages = Linked(freelist, mem) /\ FreePages' = Linked(freelist', mem')
  BY DEF HasList, FreePages
<1>5. HasList(freelist, mem') /\ Linked(freelist, mem') = Linked(freelist, mem)
  <2>1. \A p \in Linked(freelist, mem) : mem'[p] = mem[p]
    BY <1>3, <1>4, ListEnds DEF Inv, TypeOK
  <2> QED
    BY <2>1, ListKept DEF Inv
<1>6. mem'[kpa] = freelist
  BY <1>1 DEF Inv, TypeOK
<1>7. HasList(freelist', mem') /\ Linked(freelist', mem') = Linked(freelist, mem) \cup {kpa}
  <2>1. kpa \notin Linked(freelist, mem')
    BY <1>3, <1>4, <1>5
  <2>0. ASSUME NEW next, HasList(freelist, next),
               kpa \notin Linked(freelist, next), next[kpa] = freelist
        PROVE  HasList(kpa, next) /\ Linked(kpa, next) = Linked(freelist, next) \cup {kpa}
    BY ONLY <1>1, <2>0, ListPushed
  <2>2. HasList(kpa, mem') /\ Linked(kpa, mem') = Linked(freelist, mem') \cup {kpa}
    BY ONLY <1>5, <1>6, <2>0, <2>1, Zenon
  <2>3. freelist' = kpa
    OBVIOUS
  <2> QED
    BY ONLY <1>5, <2>2, <2>3, Zenon
<1>8. TypeOK' /\ LockInv' /\ ReturnedClean' /\ LocalInv' /\ Apart'
  <2>1. \A h \in Harts : pc[h] = "idle"
    BY DEF Inv, BootInv, Booted
  <2>2. TypeOK'
    BY <1>1, KMemAssumption DEF Inv, TypeOK
  <2>3. LockInv' /\ ReturnedClean' /\ LocalInv'
    BY <2>1 DEF LockInv, ReturnedClean, LocalInv, Locked
  <2>4. Apart'
    BY <1>2, <1>3, <1>4, <1>7 DEF Inv, Apart
  <2> QED
    BY <2>2, <2>3, <2>4
<1>9. BootInv'
  <2>1. kpa' % PAGE_SIZE = 0
    <3>1. PICK q \in Nat : kpa = PAGE_SIZE * q
      BY <1>1, Multiple
    <3> QED
      BY <3>1, NextMultiple
  <2>2. dynamic <= kpa'
    BY <1>1, KMemAssumption DEF Inv, BootInv
  <2>3. \A h \in Harts : pc'[h] = "idle" /\ held'[h] = {}
    BY DEF Inv, BootInv, Booted
  <2> QED
    BY <2>1, <2>2, <2>3 DEF BootInv
<1>10. Accounted'
  <2>1. ASSUME NEW p \in Pages PROVE p < kpa' <=> p < kpa \/ p = kpa
    <3>1. p \in Nat /\ p % PAGE_SIZE = 0
      BY KMemAssumption DEF Pages, valid_address
    <3>2. kpa < p => kpa + PAGE_SIZE <= p
      BY <1>1, <3>1, PageApart
    <3> QED
      BY <1>1, <3>1, <3>2, KMemAssumption
  <2>2. {p \in Pages : p < kpa'} = {p \in Pages : p < kpa} \cup {kpa}
    BY <1>1, <2>1
  <2>3. (UNION {PagesOf(h) : h \in Harts})' = UNION {PagesOf(h) : h \in Harts}
    BY <1>2
  <2> QED
    BY <1>4, <1>7, <2>2, <2>3 DEF Inv, Accounted
<1> QED
  BY <1>1, <1>2, <1>3, <1>4, <1>7, <1>8, <1>9, <1>10 DEF Inv
-----------------------------------------------------------------------------
LEMMA InvStep == Inv /\ [Next]_vars => Inv'
<1> SUFFICES ASSUME Inv, [Next]_vars PROVE Inv'
  OBVIOUS
<1>1. CASE bootstrap_kfree
  BY <1>1, BootStep
<1>2. ASSUME NEW h \in Harts, hart(h) PROVE Inv'
  BY <1>2, PageStep, ApartStep, LocalStep DEF Inv
<1>3. CASE UNCHANGED vars
  <2>1. /\ FreePages' = FreePages /\ HasList(freelist, mem)' <=> HasList(freelist, mem)
        /\ \A h \in Harts : PagesOf(h)' = PagesOf(h)
    BY <1>3 DEF vars, FreePages, HasList, PagesOf
  <2>2. TypeOK' /\ LockInv' /\ LocalInv' /\ BootInv' /\ ReturnedClean'
    BY <1>3 DEF vars, Inv, TypeOK, LockInv, LocalInv, BootInv, Booted, ReturnedClean
  <2>3. Apart'
    BY <2>1 DEF Inv, Apart
  <2>4. Accounted'
    BY <1>3, <2>1 DEF vars, Inv, Accounted
  <2> QED
    BY <2>1, <2>2, <2>3, <2>4 DEF Inv
<1> QED
  BY <1>1, <1>2, <1>3 DEF Next, hart

LEMMA AlwaysInv == Spec => []Inv
BY InitInv, InvStep, PTL DEF Spec

(***************************************************************************)
(* Type correctness: every word the allocator follows is a page of RAM     *)
(* behind the image or NULL, never an owner's data.                        *)
(***************************************************************************)
THEOREM KMemTypes == Spec => []TypeOK
<1>1. Inv => TypeOK
  BY DEF Inv
<1> QED
  BY <1>1, AlwaysInv, PTL

(***************************************************************************)
(* However kmalloc and kfree of any number of harts interleave, no page is *)
(* free and in use or in use twice, and the list ends.                     *)
(***************************************************************************)
THEOREM KMemNoSharing == Spec => []NoSharing
<1>1. Inv => NoSharing
  BY ListEnds DEF Inv, Apart, NoSharing, N
<1> QED
  BY <1>1, AlwaysInv, PTL

(***************************************************************************)
(* No page behind the kernel image is lost, from the loop of init_kmem on, *)
(* for every size of RAM, of pages and of the image.                       *)
(***************************************************************************)
THEOREM KMemNothingLost == Spec => []NothingLost
<1>1. ASSUME Inv, Booted PROVE Pages = FreePages \cup UNION {PagesOf(h) : h \in Harts}
  <2>1. DTB_MEMORY_END <= kpa
    BY <1>1, KMemAssumption DEF Inv, TypeOK, BootInv, Booted, valid_address
  <2>2. \A p \in Pages : p < kpa
    BY <1>1, <2>1, KMemAssumption DEF Pages, valid_address, Inv, TypeOK
  <2>3. Pages = {p \in Pages : p < kpa}
    BY <2>2
  <2> QED
    BY <1>1, <2>3 DEF Inv, Accounted
<1>2. Inv => NothingLost
  BY <1>1 DEF NothingLost
<1> QED
  BY <1>2, AlwaysInv, PTL

(***************************************************************************)
(* kmalloc returns cleared pages although it clears outside the lock.      *)
(***************************************************************************)
THEOREM KMemReturnedClean == Spec => []ReturnedClean
<1>1. Inv => ReturnedClean
  BY DEF Inv
<1> QED
  BY <1>1, AlwaysInv, PTL
-----------------------------------------------------------------------------
(***************************************************************************)
(* The refinement.  Pages that are apart have the owner their set says.    *)
(***************************************************************************)
Owned ==
    /\ owner = [p \in Pages |-> owner[p]]
    /\ \A p \in Pages :
         /\ p \in FreePages => owner[p] = "free"
         /\ \A h \in Harts : p \in PagesOf(h) => owner[p] = h
         /\ p \notin FreePages /\ (\A h \in Harts : p \notin PagesOf(h))
              => owner[p] = "nobody"

LEMMA OwnerIs == Apart => Owned
<1> SUFFICES ASSUME Apart PROVE Owned
  OBVIOUS
<1>1. \A p \in Pages, h \in Harts : p \in PagesOf(h) =>
         p \notin FreePages /\ (CHOOSE g \in Harts : p \in PagesOf(g)) = h
  BY DEF Apart
<1>2. \A p \in Pages : owner[p] =
         IF p \in FreePages THEN "free"
         ELSE IF \E h \in Harts : p \in PagesOf(h)
              THEN CHOOSE h \in Harts : p \in PagesOf(h)
              ELSE "nobody"
  BY DEF owner
<1>3. owner = [p \in Pages |-> owner[p]]
  BY DEF owner
<1> QED
  BY <1>1, <1>2, <1>3 DEF Owned

LEMMA OwnerIsNext == Apart' => Owned'
BY OwnerIs, PTL

\* A page that changes hands alone makes a step of the abstract allocator.
LEMMA MoveOne ==
    ASSUME Owned, Owned', NEW q \in Pages, NEW to,
           \A p \in Pages : p # q => owner'[p] = owner[p],
           owner'[q] = to
    PROVE  A!Move(q, owner[q], to)
<1>1. owner' = [p \in Pages |-> owner'[p]] /\ owner = [p \in Pages |-> owner[p]]
  BY DEF Owned
<1>2. [owner EXCEPT ![q] = to] = [p \in Pages |-> IF p = q THEN to ELSE owner[p]]
  BY <1>1
<1>3. owner' = [p \in Pages |-> IF p = q THEN to ELSE owner[p]]
  BY <1>1
<1> QED
  BY <1>2, <1>3 DEF A!Move

LEMMA StepMoves == Inv /\ Inv' /\ [Next]_vars => [A!Next]_owner
<1> SUFFICES ASSUME Inv, Inv', [Next]_vars PROVE [A!Next]_owner
  OBVIOUS
<1>1. Owned /\ Owned'
  BY OwnerIs, OwnerIsNext DEF Inv
<1>2. FreePages \subseteq Pages /\ \A h \in Harts : PagesOf(h) \subseteq Pages
  BY ListEnds DEF Inv, FreePages, TypeOK, PagesOf
<1>3. ASSUME FreePages' = FreePages, \A h \in Harts : PagesOf(h)' = PagesOf(h)
      PROVE  UNCHANGED owner
  <2>1. \A p \in Pages : owner'[p] = owner[p]
    BY <1>1, <1>3 DEF Owned
  <2> QED
    BY <1>1, <2>1 DEF Owned
<1>4. CASE bootstrap_kfree
  <2>1. /\ kpa \in Pages /\ kpa \notin FreePages /\ \A h \in Harts : kpa \notin PagesOf(h)
        /\ FreePages' = FreePages \cup {kpa}
        /\ \A h \in Harts : PagesOf(h)' = PagesOf(h)
    BY <1>4, BootStep
  <2>2. owner[kpa] = "nobody" /\ owner'[kpa] = "free"
        /\ \A p \in Pages : p # kpa => owner'[p] = owner[p]
    BY <1>1, <2>1 DEF Owned
  <2>3. A!Move(kpa, "nobody", "free")
    BY <1>1, <2>1, <2>2, MoveOne
  <2> QED
    BY <2>1, <2>3 DEF A!Next
<1>5. ASSUME NEW h \in Harts, hart(h) PROVE [A!Next]_owner
  <2>1. Keep(h) \/ Take(h) \/ Give(h)
    BY <1>5, PageStep
  <2>2. \A g \in Harts : g # h => PagesOf(g)' = PagesOf(g)
    BY <1>5, OtherPages DEF Inv
  <2>3. CASE Keep(h)
    BY <1>3, <2>2, <2>3 DEF Keep
  <2>4. CASE Take(h)
    <3>1. PICK p \in FreePages : /\ FreePages' = FreePages \ {p}
                                 /\ PagesOf(h)' = PagesOf(h) \cup {p}
      BY <2>4 DEF Take
    <3>2. p \in Pages /\ owner[p] = "free" /\ owner'[p] = h
      BY <1>1, <1>2, <3>1 DEF Owned
    <3>3. \A q \in Pages : q # p => owner'[q] = owner[q]
      BY <1>1, <2>2, <3>1 DEF Owned
    <3>4. A!Move(p, "free", h)
      BY <1>1, <3>2, <3>3, MoveOne
    <3> QED
      BY <3>2, <3>4 DEF A!Next
  <2>5. CASE Give(h)
    <3>1. PICK p \in PagesOf(h) : /\ FreePages' = FreePages \cup {p}
                                  /\ PagesOf(h)' = PagesOf(h) \ {p}
      BY <2>5 DEF Give
    <3>2. p \in Pages /\ owner[p] = h /\ owner'[p] = "free"
      BY <1>1, <1>2, <3>1 DEF Owned
    <3>3. \A q \in Pages : q # p => owner'[q] = owner[q]
      BY <1>1, <2>2, <3>1 DEF Owned
    <3>4. A!Move(p, h, "free")
      BY <1>1, <3>2, <3>3, MoveOne
    <3> QED
      BY <3>2, <3>4 DEF A!Next
  <2> QED
    BY <2>1, <2>3, <2>4, <2>5
<1>6. CASE UNCHANGED vars
  <2>1. FreePages' = FreePages /\ \A h \in Harts : PagesOf(h)' = PagesOf(h)
    BY <1>6 DEF vars, FreePages, PagesOf
  <2> QED
    BY <1>3, <2>1
<1> QED
  BY <1>4, <1>5, <1>6 DEF Next, hart

(***************************************************************************)
(* The linked list, its lock and the loop of init_kmem implement Allocator *)
(* for every number of harts and pages: a page has one owner, and passes   *)
(* from one to the next in the one step that stores kmem.freelist.         *)
(***************************************************************************)
THEOREM KMemRefines == Spec => ImplementsAllocator
<1>1. Init => A!Init
  <2> SUFFICES ASSUME Init PROVE A!Init
    OBVIOUS
  <2>1. FreePages = {}
    BY EmptyList DEF Init, FreePages
  <2>2. \A h \in Harts : PagesOf(h) = {}
    BY NullNoPage DEF Init, PagesOf
  <2>3. Owned
    BY InitInv, OwnerIs DEF Inv
  <2>4. \A p \in Pages : owner[p] = "nobody"
    BY <2>1, <2>2, <2>3 DEF Owned
  <2> QED
    BY <2>3, <2>4 DEF Owned, A!Init
<1>2. Inv /\ Inv' /\ [Next]_vars => [A!Next]_owner
  BY StepMoves
<1> QED
  BY <1>1, <1>2, AlwaysInv, PTL DEF Spec, ImplementsAllocator, A!Spec
=============================================================================
