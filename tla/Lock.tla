-------------------------------- MODULE Lock ---------------------------------
(***************************************************************************)
(* What a lock promises its clients, with no word about how: a hart asks   *)
(* for it, some hart that asked gets it when nobody holds it, and gives it *)
(* back.  There is no queue, so a hart may be overtaken for ever.          *)
(***************************************************************************)
CONSTANT Harts

VARIABLE st     \* st[h]: where h stands with the lock

Init == st = [h \in Harts |-> "idle"]

Request(h) == st[h] = "idle" /\ st' = [st EXCEPT ![h] = "waiting"]

Acquire(h) ==
    /\ st[h] = "waiting"
    /\ \A g \in Harts : st[g] # "held"
    /\ st' = [st EXCEPT ![h] = "held"]

Release(h) == st[h] = "held" /\ st' = [st EXCEPT ![h] = "idle"]

AcquireAny == \E h \in Harts : Acquire(h)

Next == \E h \in Harts : Request(h) \/ Acquire(h) \/ Release(h)

\* A free lock that is wanted is taken by somebody, and holders let go.
Fairness ==
    /\ WF_st(AcquireAny)
    /\ \A h \in Harts : WF_st(Release(h))

Safety == Init /\ [][Next]_st

Spec == Safety /\ Fairness
=============================================================================
