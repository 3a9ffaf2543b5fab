------------------------------ MODULE Allocator ------------------------------
(***************************************************************************)
(* What a page allocator promises: a page has one owner at a time.  Pages  *)
(* are handed to the allocator once, at boot, and then change hands.       *)
(***************************************************************************)
CONSTANTS Harts, Pages

VARIABLE owner      \* owner[p]: "nobody", "free" or a hart

Init == owner = [p \in Pages |-> "nobody"]

Move(p, from, to) ==
    /\ owner[p] = from
    /\ owner' = [owner EXCEPT ![p] = to]

Next ==
    \E p \in Pages :
        \/ Move(p, "nobody", "free")
        \/ \E h \in Harts : Move(p, "free", h) \/ Move(p, h, "free")

Spec == Init /\ [][Next]_owner
=============================================================================
