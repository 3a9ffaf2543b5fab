-------------------------------- MODULE KMem ---------------------------------
(***************************************************************************)
(* The page allocator of mem/kmem.c: free pages linked through their own   *)
(* first word, one lock, and a page cleared after the lock was given back. *)
(*                                                                         *)
(* Addresses are counted from the start of RAM, so KVA2KPA and PA2KPA are  *)
(* the identity and 0, which is below `dynamic', is the null pointer.  The *)
(* word mem[p] stands for the contents of page p.  Harts call kmalloc only *)
(* after init_kmem has returned: Boot checks that main() sees to it.       *)
(***************************************************************************)
EXTENDS Naturals, FiniteSets

CONSTANTS
    Harts,
    PAGE_SIZE,
    dynamic,            \* the end of the kernel image
    DTB_MEMORY_END,
    JUNK                \* contents that are no pointer

NULL == 0

valid_address(kpa) ==
    /\ kpa % PAGE_SIZE = 0
    /\ dynamic <= kpa /\ kpa < DTB_MEMORY_END

Pages == {kpa \in 0 .. DTB_MEMORY_END : valid_address(kpa)}

ASSUME KMemAssumption ==
    /\ PAGE_SIZE \in Nat \ {0}
    /\ dynamic \in Nat \ {0} /\ DTB_MEMORY_END \in Nat
    /\ DTB_MEMORY_END % PAGE_SIZE = 0
    /\ JUNK \notin Nat
    /\ Harts \cap {"nobody", "free"} = {}

VARIABLES
    kpa,        \* the loop variable of init_kmem
    freelist,   \* kmem.freelist
    locked,     \* kmem.lk.locked
    mem,        \* mem[p]
    pc,         \* pc[h]: the next access of h
    page,       \* page[h]: the local variable of kmalloc and kfree, NULL when dead
    reg,        \* reg[h]: page->next, from its load to the store to freelist
    held        \* held[h]: the pages h was given and has not passed to kfree

vars == <<kpa, freelist, locked, mem, pc, page, reg, held>>

InKmalloc == {"m_acquire", "m_freelist", "m_next", "m_pop", "m_release", "memset", "return"}
InKfree == {"f_acquire", "f_link", "f_push", "f_release"}

TypeOK ==
    /\ kpa \in Nat
    /\ freelist \in Pages \cup {NULL}
    /\ locked \in {0, 1}
    /\ mem \in [Pages -> Pages \cup {NULL, JUNK}]
    /\ pc \in [Harts -> {"idle", "fault", "panic"} \cup InKmalloc \cup InKfree]
    /\ page \in [Harts -> Pages \cup {NULL}]
    /\ reg \in [Harts -> Pages \cup {NULL}]
    /\ held \in [Harts -> SUBSET Pages]

PGROUNDUP(a) == ((a + PAGE_SIZE - 1) \div PAGE_SIZE) * PAGE_SIZE

\* RAM holds anything when init_kmem is called.
Init ==
    /\ kpa = PGROUNDUP(dynamic)
    /\ freelist = NULL
    /\ locked = 0
    /\ mem = [p \in Pages |-> JUNK]
    /\ pc = [h \in Harts |-> "idle"]
    /\ page = [h \in Harts |-> NULL]
    /\ reg = [h \in Harts |-> NULL]
    /\ held = [h \in Harts |-> {}]

goto(h, l) == pc' = [pc EXCEPT ![h] = l]
-----------------------------------------------------------------------------
\* An iteration of init_kmem, on hart 0 while the others wait in main().
bootstrap_kfree ==
    /\ valid_address(kpa)
    /\ mem' = [mem EXCEPT ![kpa] = freelist]
    /\ freelist' = kpa
    /\ kpa' = kpa + PAGE_SIZE
    /\ UNCHANGED <<locked, pc, page, reg, held>>

\* init_kmem has returned.
Booted == ~ valid_address(kpa)
-----------------------------------------------------------------------------
\* Faulty: two harts can be inside.
acquire_unchecked(h, from, to) ==
    /\ pc[h] = from
    /\ locked' = 1
    /\ goto(h, to)
    /\ UNCHANGED <<kpa, freelist, mem, page, reg, held>>

acquire(h, from, to) ==
    /\ pc[h] = from
    /\ locked = 0
    /\ locked' = 1
    /\ goto(h, to)
    /\ UNCHANGED <<kpa, freelist, mem, page, reg, held>>

release(h, from, to) ==
    /\ pc[h] = from
    /\ locked' = 0
    /\ goto(h, to)
    /\ UNCHANGED <<kpa, freelist, mem, page, reg, held>>

\* kmalloc()
call_kmalloc(h) ==
    /\ Booted
    /\ pc[h] = "idle"
    /\ goto(h, "m_acquire")
    /\ UNCHANGED <<kpa, freelist, locked, mem, page, reg, held>>

\* page = kmem.freelist; if (page)
load_freelist(h) ==
    /\ pc[h] = "m_freelist"
    /\ page' = [page EXCEPT ![h] = freelist]
    /\ goto(h, IF freelist = NULL THEN "m_release" ELSE "m_next")
    /\ UNCHANGED <<kpa, freelist, locked, mem, reg, held>>

\* kmem.freelist = page->next, a load and a store
load_next(h) ==
    /\ pc[h] = "m_next"
    /\ reg' = [reg EXCEPT ![h] = mem[page[h]]]
    /\ goto(h, "m_pop")
    /\ UNCHANGED <<kpa, freelist, locked, mem, page, held>>

pop(h) ==
    /\ pc[h] = "m_pop"
    /\ freelist' = reg[h]
    /\ reg' = [reg EXCEPT ![h] = NULL]
    /\ goto(h, "m_release")
    /\ UNCHANGED <<kpa, locked, mem, page, held>>

\* Faulty: the page is cleared only when it is the last of the list.
memset_skipped(h) ==
    /\ pc[h] = "memset"
    /\ IF page[h] = NULL THEN goto(h, "fault") /\ UNCHANGED mem
       ELSE /\ goto(h, "return")
            /\ mem' = IF freelist = NULL THEN [mem EXCEPT ![page[h]] = NULL] ELSE mem
    /\ UNCHANGED <<kpa, freelist, locked, page, reg, held>>

\* memset(page, 0, PAGE_SIZE), page = 0 included: nothing is mapped there.
memset(h) ==
    /\ pc[h] = "memset"
    /\ IF page[h] = NULL THEN goto(h, "fault") /\ UNCHANGED mem
       ELSE goto(h, "return") /\ mem' = [mem EXCEPT ![page[h]] = NULL]
    /\ UNCHANGED <<kpa, freelist, locked, page, reg, held>>

return(h) ==
    /\ pc[h] = "return"
    /\ held' = [held EXCEPT ![h] = @ \cup {page[h]}]
    /\ page' = [page EXCEPT ![h] = NULL]
    /\ goto(h, "idle")
    /\ UNCHANGED <<kpa, freelist, locked, mem, reg>>

\* The owner of a page writes to it.
use(h) ==
    /\ pc[h] = "idle"
    /\ \E p \in held[h] : mem' = [mem EXCEPT ![p] = JUNK]
    /\ UNCHANGED <<kpa, freelist, locked, pc, page, reg, held>>
-----------------------------------------------------------------------------
\* kfree(p) of a page the hart has, or of an address that is no page.
call_kfree(h) ==
    /\ Booted
    /\ pc[h] = "idle"
    /\ \E p \in held[h] \cup {NULL, DTB_MEMORY_END} :
         IF valid_address(p)
         THEN /\ page' = [page EXCEPT ![h] = p]
              /\ held' = [held EXCEPT ![h] = @ \ {p}]
              /\ goto(h, "f_acquire")
         ELSE goto(h, "panic") /\ UNCHANGED <<page, held>>
    /\ UNCHANGED <<kpa, freelist, locked, mem, reg>>

\* Faulty: the links of the list are lost behind the freed page.
link_end(h) ==
    /\ pc[h] = "f_link"
    /\ mem' = [mem EXCEPT ![page[h]] = NULL]
    /\ goto(h, "f_push")
    /\ UNCHANGED <<kpa, freelist, locked, page, reg, held>>

link(h) ==
    /\ pc[h] = "f_link"
    /\ mem' = [mem EXCEPT ![page[h]] = freelist]
    /\ goto(h, "f_push")
    /\ UNCHANGED <<kpa, freelist, locked, page, reg, held>>

\* Faulty: the head of the list is not moved.
push_missing(h) ==
    /\ pc[h] = "f_push"
    /\ page' = [page EXCEPT ![h] = NULL]
    /\ goto(h, "f_release")
    /\ UNCHANGED <<kpa, freelist, locked, mem, reg, held>>

push(h) ==
    /\ pc[h] = "f_push"
    /\ freelist' = page[h]
    /\ page' = [page EXCEPT ![h] = NULL]
    /\ goto(h, "f_release")
    /\ UNCHANGED <<kpa, locked, mem, reg, held>>
-----------------------------------------------------------------------------
kmalloc(h) ==
    \/ call_kmalloc(h)
    \/ acquire(h, "m_acquire", "m_freelist")
    \/ load_freelist(h)
    \/ load_next(h)
    \/ pop(h)
    \/ release(h, "m_release", "memset")
    \/ memset(h)
    \/ return(h)

kfree(h) ==
    \/ call_kfree(h)
    \/ acquire(h, "f_acquire", "f_link")
    \/ link(h)
    \/ push(h)
    \/ release(h, "f_release", "idle")

Next == bootstrap_kfree \/ \E h \in Harts : kmalloc(h) \/ kfree(h) \/ use(h)

Spec == Init /\ [][Next]_vars
-----------------------------------------------------------------------------
\* The n-th word found by following the links, as many links as there are pages.
links(first, next) ==
    LET n_th[n \in 0 .. Cardinality(Pages)] ==
          IF n = 0 THEN first
          ELSE LET before == n_th[n - 1]
               IN  IF before \in Pages THEN next[before] ELSE NULL
    IN  n_th

Linked(first, next) == {links(first, next)[n] : n \in 0 .. Cardinality(Pages)} \cap Pages
FreePages == Linked(freelist, mem)

\* The pages that are hart h's: given to it, or on the way.
PagesOf(h) ==
    held[h] \cup
      IF pc[h] \in {"m_release", "memset", "return", "f_acquire", "f_link", "f_push"}
      THEN {page[h]} \cap Pages ELSE {}

(***************************************************************************)
(* No page is on the free list and in use, or in use by two harts, and the *)
(* list has an end: a page whose first word a hart may write is never one  *)
(* a kmalloc or kfree of another hart follows (kmem.c:41-47, 62-65).       *)
(***************************************************************************)
NoSharing ==
    /\ links(freelist, mem)[Cardinality(Pages)] = NULL
    /\ \A h \in Harts : PagesOf(h) \cap FreePages = {}
    /\ \A g, h \in Harts : g # h => PagesOf(g) \cap PagesOf(h) = {}

(***************************************************************************)
(* From the end of init_kmem on every page of RAM behind the kernel image  *)
(* is free or somebody's: neither the loop's bounds nor a pop or a push    *)
(* lose one (kmem.c:30, 44, 63-64, 85-89).                                 *)
(***************************************************************************)
NothingLost == Booted => Pages = FreePages \cup UNION {PagesOf(h) : h \in Harts}

(***************************************************************************)
(* kmalloc returns a page with nothing of its former owner, or of the free *)
(* list, in it, although the page is cleared outside the lock.  kmem.c:47: *)
(* "does slow down, but prevents leaks".                                   *)
(***************************************************************************)
ReturnedClean == \A h \in Harts : pc[h] = "return" => mem[page[h]] = NULL

owner ==
    LET F == FreePages
    IN  [p \in Pages |->
           IF p \in F THEN "free"
           ELSE IF \E h \in Harts : p \in PagesOf(h)
                THEN CHOOSE h \in Harts : p \in PagesOf(h)
                ELSE "nobody"]

A == INSTANCE Allocator WITH Harts <- Harts, Pages <- Pages, owner <- owner

(***************************************************************************)
(* The linked list and its lock implement an allocator in which each page  *)
(* changes hands in one step: kmalloc takes a free page and kfree gives a  *)
(* page back at the store to kmem.freelist (kmem.c:44, 64, 77).            *)
(***************************************************************************)
ImplementsAllocator == A!Spec
=============================================================================
