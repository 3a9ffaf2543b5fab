-------------------------------- MODULE VMem ---------------------------------
(***************************************************************************)
(* The page tables of mem/vmem.c: every hart builds its own table for the  *)
(* hypervisor (init_vmem) and the first hart of a VM builds the VM's       *)
(* stage-2 table (init_hs_pgtable), all at once and from one allocator.    *)
(*                                                                         *)
(* A table holds W entries, the root of a stage-2 table 4 * W (sv39x4).    *)
(* Physical pages and tables are both named by page number.  kmalloc is    *)
(* one step: KMem shows that it implements such an allocator.              *)
(***************************************************************************)
EXTENDS Naturals, Sequences, FiniteSets

CONSTANTS
    Harts,
    PAGE_SIZE, LEVELS,
    W,                  \* entries of a table, 512 in the code
    ADDRESSES,          \* the values of a uint64, 2^64 in the code
    Pool,               \* the page numbers kmalloc can return
    VmRoot,             \* VmRoot[h]: the page of the vm_pgtable hart h builds
    KernelRegions,      \* KernelRegions[h]: what init_vmem maps on hart h
    Configs             \* the choices of config: which VM each hart builds

\* What a hart that is not the first of its VM builds.
NONE == [none |-> TRUE]

PGROUNDUP(a) == (((a + PAGE_SIZE - 1) \div PAGE_SIZE) * PAGE_SIZE) % ADDRESSES

Region(va, pa, size, perm) == [va |-> va, pa |-> pa, size |-> size, perm |-> perm]

\* What init_hs_pgtable maps: the image, the rest of the RAM and the devices.
\* With an image larger than the memory the rest is almost all addresses.
VmRegions(vm) ==
    LET image_size == PGROUNDUP(vm.image_end - vm.image_base)
        dev(d) == Region(d.virt_base, d.phys_base, d.size, d.perm \cup {"U"})
    IN  <<Region(vm.memory_base, vm.image_base, image_size, {"U", "R", "W", "X"}),
          Region(vm.memory_base + image_size, 0,
                 (ADDRESSES + vm.memory_size - image_size) % ADDRESSES,
                 {"U", "R", "W", "X"})>>
          \o [i \in DOMAIN vm.devices |-> dev(vm.devices[i])]

Roots == {VmRoot[h] : h \in Harts}
Tables == Pool \cup Roots
Perms == SUBSET {"U", "R", "W", "X"}
Regions == [va : Nat, pa : Nat, size : Nat, perm : Perms]

\* Regions start on page boundaries; their sizes are arbitrary.
Aligned(r) == r.va % PAGE_SIZE = 0 /\ r.pa % PAGE_SIZE = 0

\* The physical pages the regions R name.
PhysicalPages(R) ==
    UNION {{(R[i].pa + o) \div PAGE_SIZE : o \in 0 .. PGROUNDUP(R[i].size) - 1}
             : i \in {k \in DOMAIN R : R[k].pa # 0}}

ASSUME VMemAssumption ==
    /\ PAGE_SIZE \in Nat \ {0} /\ LEVELS \in Nat \ {0} /\ W \in Nat \ {0}
    /\ ADDRESSES \in Nat \ {0} /\ ADDRESSES % PAGE_SIZE = 0
    /\ Pool \subseteq Nat \ {0}
    /\ \A h \in Harts : /\ KernelRegions[h] \in Seq(Regions)
                        /\ \A i \in DOMAIN KernelRegions[h] :
                             Aligned(KernelRegions[h][i]) /\ KernelRegions[h][i].pa # 0
    /\ \A c \in Configs, h \in Harts : c[h] # NONE =>
         /\ VmRegions(c[h]) \in Seq(Regions)
         /\ \A i \in DOMAIN VmRegions(c[h]) : Aligned(VmRegions(c[h])[i])

\* The linker gives each VM its own root and image, below the RAM kmalloc has,
\* and config names devices for the rest: no region is memory of the hypervisor.
ASSUME LayoutAssumption ==
    /\ Roots \subseteq Nat \ {0} /\ Roots \cap Pool = {}
    /\ \A g, h \in Harts : VmRoot[g] = VmRoot[h] => g = h
    /\ \A c \in Configs, h \in Harts : c[h] # NONE =>
         PhysicalPages(VmRegions(c[h])) \cap Tables = {}

VARIABLES
    conf,       \* the configuration the hypervisor was built with
    free,       \* the pages on the free list
    pte,        \* pte[<<t, i>>]: entry i of table t, if it has PTE_V
    kroot,      \* kroot[h]: the root of hart h's own table, 0 before
    root,       \* root[h]: the pgtable argument of map_pages
    pc,         \* pc[h]: the function hart h is in
    todo,       \* todo[h]: the regions hart h has still to map
    off,        \* off[h]: i of map_pages
    pa,         \* pa[h]: pa of map_page
    level,      \* level[h]: level of walk
    tbl         \* tbl[h]: kpa of walk

vars == <<conf, free, pte, kroot, root, pc, todo, off, pa, level, tbl>>

TypeOK ==
    /\ conf \in Configs
    /\ free \subseteq Pool
    /\ \A x \in DOMAIN pte : x[1] \in Tables /\ x[2] \in 0 .. 4 * W - 1
    /\ \A x \in DOMAIN pte : pte[x].ppn \in Nat /\ pte[x].perm \in Perms
    /\ kroot \in [Harts -> Pool \cup {0}]
    /\ root \in [Harts -> Tables \cup {0}]
    /\ pc \in [Harts -> {"init_vmem", "init_hs_pgtable", "map_pages", "walk",
                         "done", "fault", "panic"}]
    /\ off \in [Harts -> Nat] /\ pa \in [Harts -> Nat]
    /\ level \in [Harts -> 0 .. LEVELS - 1]
    /\ tbl \in [Harts -> Tables \cup {0}]

Init ==
    /\ conf \in Configs
    /\ free = Pool
    /\ pte = [x \in {} |-> 0]
    /\ kroot = [h \in Harts |-> 0]
    /\ root = [h \in Harts |-> 0]
    /\ pc = [h \in Harts |-> "init_vmem"]
    /\ todo = [h \in Harts |-> <<>>]
    /\ off = [h \in Harts |-> 0]
    /\ pa = [h \in Harts |-> 0]
    /\ level = [h \in Harts |-> 0]
    /\ tbl = [h \in Harts |-> 0]
-----------------------------------------------------------------------------
Power(b, n) == LET p[k \in 0 .. n] == IF k = 0 THEN 1 ELSE b * p[k - 1] IN p[n]

\* Faulty: the two extra bits of an sv39x4 root are ignored.
va2idx_sv39(va, l, x4) == (va \div (PAGE_SIZE * Power(W, l))) % W

\* Faulty: shifted but not masked.
va2idx_unmasked(va, l, x4) == va \div (PAGE_SIZE * Power(W, l))

\* get_value(va, level * 9 + PAGE_SHIFT, 9 or 11)
va2idx(va, l, x4) ==
    (va \div (PAGE_SIZE * Power(W, l))) % (IF l = LEVELS - 1 /\ x4 THEN 4 * W ELSE W)

\* The addresses a table can tell apart: va2idx drops the bits above.
Span(x4) == (IF x4 THEN 4 ELSE 1) * (PAGE_SIZE * Power(W, LEVELS))

\* What the MMU translates: sv39 wants the bits above an index to repeat its
\* highest bit, so VAS_KERNEL and VAS_RAM are at the end of the addresses;
\* sv39x4 wants zeros.
Canonical(x4, first, end) ==
    \/ end <= (IF x4 THEN Span(x4) ELSE Span(x4) \div 2)
    \/ ~ x4 /\ ADDRESSES - Span(x4) \div 2 <= first /\ end <= ADDRESSES

\* A region has such addresses, or is larger than all of them: the rest of the
\* RAM is when it wraps.  No image or device is so large that rounding wraps.
InRange(r, x4) ==
    /\ \/ Canonical(x4, r.va, r.va + PGROUNDUP(r.size))
       \/ PGROUNDUP(r.size) > Span(x4)
    /\ r.pa # 0 => r.size <= PGROUNDUP(r.size)

ASSUME RangeAssumption ==
    /\ ADDRESSES % Span(TRUE) = 0
    /\ \A h \in Harts : \A i \in DOMAIN KernelRegions[h] :
         InRange(KernelRegions[h][i], FALSE)
    /\ \A c \in Configs, h \in Harts : c[h] # NONE =>
         \A i \in DOMAIN VmRegions(c[h]) : InRange(VmRegions(c[h])[i], TRUE)

valid(t, i) == <<t, i>> \in DOMAIN pte

set_pte(t, i, e) ==
    pte' = [x \in DOMAIN pte \cup {<<t, i>>} |-> IF x = <<t, i>> THEN e ELSE pte[x]]

\* memset(t, 0, PAGE_SIZE)
clear(t) == pte' = [x \in {y \in DOMAIN pte : y[1] # t} |-> pte[x]]

\* The page kmalloc returns; the list was built upwards, so the highest is first.
head == CHOOSE p \in free : \A q \in free : q <= p

\* Faulty: the page stays on the list.
kmalloc_kept(p) == p \in free /\ p = head /\ UNCHANGED free

kmalloc(p) == p \in free /\ p = head /\ free' = free \ {p}

\* kmalloc clears page 0 when the list is empty, and faults.
out_of_memory(h) ==
    /\ free = {}
    /\ pc' = [pc EXCEPT ![h] = "fault"]
    /\ UNCHANGED <<conf, free, pte, kroot, root, todo, off, pa, level, tbl>>
-----------------------------------------------------------------------------
\* The root page of the hart's own table is allocated and cleared.
init_vmem(h) ==
    /\ pc[h] = "init_vmem"
    /\ \/ \E p \in Pool :
            /\ kmalloc(p)
            /\ clear(p)
            /\ kroot' = [kroot EXCEPT ![h] = p]
            /\ root' = [root EXCEPT ![h] = p]
            /\ todo' = [todo EXCEPT ![h] = KernelRegions[h]]
            /\ pc' = [pc EXCEPT ![h] = "map_pages"]
            /\ UNCHANGED <<conf, off, pa, level, tbl>>
       \/ out_of_memory(h)

\* vm_run: the first hart of a VM clears the static root and maps the guest.
init_hs_pgtable(h) ==
    /\ pc[h] = "init_hs_pgtable"
    /\ IF conf[h] = NONE
       THEN pc' = [pc EXCEPT ![h] = "done"] /\ UNCHANGED <<pte, root, todo>>
       ELSE /\ clear(VmRoot[h])
            /\ root' = [root EXCEPT ![h] = VmRoot[h]]
            /\ todo' = [todo EXCEPT ![h] = VmRegions(conf[h])]
            /\ pc' = [pc EXCEPT ![h] = "map_pages"]
    /\ UNCHANGED <<conf, free, kroot, off, pa, level, tbl>>

\* Faulty: the last page of a size that is no multiple of the page is left out.
more_rounded_down(h) == off[h] + PAGE_SIZE <= Head(todo[h]).size

\* i < PGROUNDUP(size)
more(h) == off[h] < PGROUNDUP(Head(todo[h]).size)

\* map_pages begins the next page: its own, or one of kmalloc if pa == 0.
map_pages(h) ==
    /\ pc[h] = "map_pages" /\ todo[h] # <<>> /\ more(h)
    /\ \/ /\ IF Head(todo[h]).pa # 0
             THEN pa' = [pa EXCEPT ![h] = Head(todo[h]).pa + off[h]] /\ UNCHANGED free
             ELSE \E p \in Pool : kmalloc(p) /\ pa' = [pa EXCEPT ![h] = p * PAGE_SIZE]
          /\ pc' = [pc EXCEPT ![h] = "walk"]
          /\ level' = [level EXCEPT ![h] = LEVELS - 1]
          /\ tbl' = [tbl EXCEPT ![h] = root[h]]
          /\ UNCHANGED <<conf, pte, kroot, root, todo, off>>
       \/ Head(todo[h]).pa = 0 /\ out_of_memory(h)

\* map_pages returns 0, and the caller makes the next call or is done.
map_pages_end(h) ==
    /\ pc[h] = "map_pages"
    /\ IF todo[h] = <<>>
       THEN /\ pc' = [pc EXCEPT ![h] =
                        IF root[h] = kroot[h] THEN "init_hs_pgtable" ELSE "done"]
            /\ UNCHANGED todo
       ELSE ~ more(h) /\ todo' = [todo EXCEPT ![h] = Tail(@)] /\ UNCHANGED pc
    /\ off' = [off EXCEPT ![h] = 0]
    /\ UNCHANGED <<conf, free, pte, kroot, root, pa, level, tbl>>

\* Only stage-2 roots are mapped with x4 = 1.
va(h) == (Head(todo[h]).va + off[h]) % ADDRESSES
idx(h) == va2idx(va(h), level[h], root[h] \in Roots)

\* An iteration of walk: follow the entry, or make a table for it.
walk(h) ==
    /\ pc[h] = "walk" /\ level[h] > 0
    /\ \/ /\ \/ /\ valid(tbl[h], idx(h))
                /\ tbl' = [tbl EXCEPT ![h] = pte[<<tbl[h], idx(h)>>].ppn]
                /\ UNCHANGED <<free, pte>>
             \/ /\ ~ valid(tbl[h], idx(h))
                /\ \E p \in Pool :
                     /\ kmalloc(p)
                     /\ set_pte(tbl[h], idx(h), [ppn |-> p, perm |-> {}])
                     /\ tbl' = [tbl EXCEPT ![h] = p]
          /\ level' = [level EXCEPT ![h] = level[h] - 1]
          /\ UNCHANGED <<conf, kroot, root, pc, todo, off, pa>>
       \/ ~ valid(tbl[h], idx(h)) /\ out_of_memory(h)

\* Faulty: no look at the leaf before it is written.
map_page_over(h) ==
    /\ pc[h] = "walk" /\ level[h] = 0
    /\ pc' = [pc EXCEPT ![h] = "map_pages"]
    /\ off' = [off EXCEPT ![h] = off[h] + PAGE_SIZE]
    /\ set_pte(tbl[h], idx(h), [ppn |-> pa[h] \div PAGE_SIZE, perm |-> Head(todo[h]).perm])
    /\ UNCHANGED <<conf, free, kroot, root, todo, pa, level, tbl>>

\* The leaf: panic("tried to remap page") if it is in use.
map_page(h) ==
    /\ pc[h] = "walk" /\ level[h] = 0
    /\ IF valid(tbl[h], idx(h))
       THEN pc' = [pc EXCEPT ![h] = "panic"] /\ UNCHANGED <<pte, off>>
       ELSE /\ pc' = [pc EXCEPT ![h] = "map_pages"]
            /\ off' = [off EXCEPT ![h] = off[h] + PAGE_SIZE]
            /\ set_pte(tbl[h], idx(h),
                       [ppn |-> pa[h] \div PAGE_SIZE, perm |-> Head(todo[h]).perm])
    /\ UNCHANGED <<conf, free, kroot, root, todo, pa, level, tbl>>

Next ==
    \E h \in Harts : \/ init_vmem(h) \/ init_hs_pgtable(h) \/ map_pages(h)
                     \/ map_pages_end(h) \/ walk(h) \/ map_page(h)

Spec == Init /\ [][Next]_vars
-----------------------------------------------------------------------------
\* walk(r, a, 0, x): the table of the last level, 0 if there is none.
leaf_table(r, a, x) ==
    LET t[n \in 0 .. LEVELS - 1] ==
          IF n = 0 THEN r
          ELSE LET i == va2idx(a, LEVELS - n, x)
                   above == t[n - 1]
               IN  IF valid(above, i) THEN pte[<<above, i>>].ppn ELSE 0
    IN  t[LEVELS - 1]

\* Is there a leaf entry for address a, and which.
mapped(r, a, x) == valid(leaf_table(r, a, x), va2idx(a, 0, x))
leaf(r, a, x) == pte[<<leaf_table(r, a, x), va2idx(a, 0, x)>>]

\* The panic for a walk that fails is left to the caller: leaf_table(...) = 0.
convert_va_to_pa(r, a, x) ==
    (IF mapped(r, a, x) THEN leaf(r, a, x).ppn * PAGE_SIZE ELSE 0) + (a % PAGE_SIZE)
-----------------------------------------------------------------------------
\* The tables of a root, level by level.
TablesAt(r) ==
    LET t[n \in 0 .. LEVELS - 1] ==
          IF n = 0 THEN {r}
          ELSE LET above == t[n - 1]
               IN  {pte[x].ppn : x \in {y \in DOMAIN pte : y[1] \in above}}
    IN  t
TablesOf(r) == UNION {TablesAt(r)[n] : n \in 0 .. LEVELS - 1}

\* The physical pages the VM of hart h can reach, and those it was configured with.
GuestPages(h) ==
    LET last == TablesAt(VmRoot[h])[LEVELS - 1]
    IN  {pte[x].ppn : x \in {y \in DOMAIN pte : y[1] \in last}}
Configured(h) ==
    IF conf[h] = NONE THEN {} ELSE PhysicalPages(VmRegions(conf[h]))

(***************************************************************************)
(* The isolation the hypervisor is for: a page one VM reaches is not       *)
(* reached by another unless both were configured with it, is no page of   *)
(* any page table, and is never handed out again; and no two page tables   *)
(* share a table, although the harts build them at once from one allocator *)
(* (vmem.c:21-76, vm_run.c:20-68).                                         *)
(***************************************************************************)
Isolated ==
    LET roots == (Roots \cup {kroot[h] : h \in Harts}) \ {0}
        all == UNION {TablesOf(r) : r \in roots}
    IN  /\ all \cap free = {}
        /\ \A q, r \in roots : q # r => TablesOf(q) \cap TablesOf(r) = {}
        /\ \A h \in Harts : GuestPages(h) \cap (all \cup free) = {}
        /\ \A g, h \in Harts : g # h =>
             GuestPages(g) \cap GuestPages(h) \subseteq Configured(g) \cap Configured(h)

\* The region of R that address a is in, rounded up to whole pages.
Covers(R, a) == {i \in DOMAIN R : R[i].va <= a /\ a < R[i].va + PGROUNDUP(R[i].size)}

(***************************************************************************)
(* The table with root r says what the regions R say: every address of a   *)
(* region is mapped to its physical address, or to a page of the allocator *)
(* if the region has none, and no other address is mapped.                 *)
(***************************************************************************)
Says(r, R, x) ==
    \A a \in {k * PAGE_SIZE : k \in 0 .. ADDRESSES \div PAGE_SIZE - 1} :
      Canonical(x, a, a + PAGE_SIZE) =>
        LET I == Covers(R, a)
        IN  IF I = {} THEN ~ mapped(r, a, x)
            ELSE /\ mapped(r, a, x)
                 /\ \A i \in I :
                      /\ leaf(r, a, x).perm = R[i].perm
                      /\ IF R[i].pa = 0 THEN leaf(r, a, x).ppn \in Pool
                         ELSE leaf(r, a, x).ppn = (R[i].pa + a - R[i].va) \div PAGE_SIZE

(***************************************************************************)
(* When a hart is done without a panic, its own table and the table of its *)
(* VM say exactly what they were asked to: walk confuses no two addresses, *)
(* in a three-level table or in one with the wide root, and the last       *)
(* partial page of a region is not forgotten (vmem.c:10-76).               *)
(***************************************************************************)
MappedExactly ==
    \A h \in Harts : pc[h] = "done" =>
        /\ Says(kroot[h], KernelRegions[h], FALSE)
        /\ conf[h] # NONE => Says(VmRoot[h], VmRegions(conf[h]), TRUE)

(***************************************************************************)
(* The software walk of a fault handler finds the byte a guest meant: for  *)
(* every guest address of a region with a physical address, mapped with or *)
(* without permissions, convert_va_to_pa returns that address (vmem.c:137, *)
(* trap.c:34-48).                                                          *)
(***************************************************************************)
ConvertFinds ==
    \A h \in Harts : pc[h] = "done" /\ conf[h] # NONE =>
        LET R == VmRegions(conf[h])
        IN  \A i \in {k \in DOMAIN R : R[k].pa # 0} : \A o \in 0 .. R[i].size - 1 :
              convert_va_to_pa(VmRoot[h], R[i].va + o, TRUE) = R[i].pa + o

(***************************************************************************)
(* No step changes an entry that is in use: a table is linked once, and a  *)
(* page that is mapped stays mapped.  vmem.c:54: "tried to remap page".    *)
(***************************************************************************)
EntriesStay ==
    [][\A x \in DOMAIN pte : x \in DOMAIN pte' /\ pte'[x] = pte[x]]_vars
=============================================================================
