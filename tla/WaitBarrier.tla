----------------------------- MODULE WaitBarrier -----------------------------
(***************************************************************************)
(* The self-resetting barrier of lib/lock.c, one action per access to      *)
(* shared memory.                                                          *)
(*                                                                         *)
(* This module has no client: an action wait_*(h, b) is what hart h does   *)
(* next inside wait_barrier(b), and the modules that extend this one say   *)
(* when a hart calls wait_barrier and on which barrier (Barrier, Boot).    *)
(*                                                                         *)
(* acquire() is a single step that waits for the lock to be free: Spinlock *)
(* shows that the test-and-test-and-set loop of lib/spinlock.S implements  *)
(* exactly that.  Memory is sequentially consistent.                       *)
(***************************************************************************)
EXTENDS Integers, FiniteSets

CONSTANTS
    Harts,      \* the physical harts
    Bars        \* the struct barrier objects of the program

VARIABLES
    initial,    \* initial[b]: b->initial
    tokens,     \* tokens[b]: b->tokens
    passed,     \* passed[b]: b->passed
    locked,     \* locked[b]: b->lk.locked
    at,         \* at[h]: the next access of h in wait_barrier, "out" outside
    reg         \* reg[h]: the register h does its read-modify-write in

bar_vars == <<initial, tokens, passed, locked>>
wb_vars == <<initial, tokens, passed, locked, at, reg>>

\* The accesses that only the hart that found tokens = 0 makes.
LastLabels == {"set_passed", "reset_tokens", "wait_passed"}

\* The accesses made with the barrier's lock held.
LockedLabels == {"load_tokens", "store_tokens", "release1",
                 "load_passed", "store_passed", "release2"}

Labels == {"out", "acquire1", "test_last", "wait_tokens", "acquire2"}
            \cup LastLabels \cup LockedLabels

goto(h, l) == at' = [at EXCEPT ![h] = l]

WB_TypeOK ==
    /\ initial \in [Bars -> Nat]
    /\ tokens \in [Bars -> Int]
    /\ passed \in [Bars -> Int]
    /\ locked \in [Bars -> {0, 1}]
    /\ at \in [Harts -> Labels]
    /\ reg \in [Harts -> Int]
-----------------------------------------------------------------------------
(***************************************************************************)
(* BARRIER_INITIALIZER(cnt) leaves passed to the zero of a static object.  *)
(***************************************************************************)
BARRIER_INITIALIZER(cnt) ==
    /\ initial = cnt
    /\ tokens = cnt
    /\ passed = [b \in Bars |-> 0]
    /\ locked = [b \in Bars |-> 0]

WB_Init ==
    /\ at = [h \in Harts |-> "out"]
    /\ reg = [h \in Harts |-> 0]

\* init_barrier at run time: passed keeps whatever value it had.
init_barrier(B, count) ==
    /\ tokens' = [b \in Bars |-> IF b \in B THEN count[b] ELSE tokens[b]]
    /\ initial' = [b \in Bars |-> IF b \in B THEN count[b] ELSE initial[b]]
    /\ locked' = [b \in Bars |-> IF b \in B THEN 0 ELSE locked[b]]
    /\ UNCHANGED passed
-----------------------------------------------------------------------------
\* A call of wait_barrier; the caller's module adds its own state.
call_wait_barrier(h) ==
    /\ at[h] = "out"
    /\ goto(h, "acquire1")
    /\ UNCHANGED <<initial, tokens, passed, locked, reg>>

\* Faulty acquire: adds to the lock word without looking at it.
acquire_unchecked(h, b, from, to) ==
    /\ at[h] = from
    /\ locked' = [locked EXCEPT ![b] = locked[b] + 1]
    /\ goto(h, to)
    /\ UNCHANGED <<initial, tokens, passed, reg>>

acquire(h, b, from, to) ==
    /\ at[h] = from
    /\ locked[b] = 0
    /\ locked' = [locked EXCEPT ![b] = 1]
    /\ goto(h, to)
    /\ UNCHANGED <<initial, tokens, passed, reg>>

release(h, b, from, to) ==
    /\ at[h] = from
    /\ locked' = [locked EXCEPT ![b] = 0]
    /\ goto(h, to)
    /\ UNCHANGED <<initial, tokens, passed, reg>>

\* tokens-- is a load and a store of a volatile int.
load_tokens(h, b) ==
    /\ at[h] = "load_tokens"
    /\ reg' = [reg EXCEPT ![h] = tokens[b]]
    /\ goto(h, "store_tokens")
    /\ UNCHANGED bar_vars

store_tokens(h, b) ==
    /\ at[h] = "store_tokens"
    /\ tokens' = [tokens EXCEPT ![b] = reg[h] - 1]
    /\ goto(h, "release1")
    /\ UNCHANGED <<initial, passed, locked, reg>>

\* if (LAST_HART): tokens is read again, after the lock was released.
LAST_HART(b) == tokens[b] = 0

test_last(h, b) ==
    /\ at[h] = "test_last"
    /\ goto(h, IF LAST_HART(b) THEN "set_passed" ELSE "wait_tokens")
    /\ UNCHANGED <<initial, tokens, passed, locked, reg>>

\* Faulty count: the last hart does not count itself.
set_passed_zero(h, b) ==
    /\ at[h] = "set_passed"
    /\ passed' = [passed EXCEPT ![b] = 0]
    /\ goto(h, "reset_tokens")
    /\ UNCHANGED <<initial, tokens, locked, reg>>

set_passed(h, b) ==
    /\ at[h] = "set_passed"
    /\ passed' = [passed EXCEPT ![b] = 1]
    /\ goto(h, "reset_tokens")
    /\ UNCHANGED <<initial, tokens, locked, reg>>

\* Faulty reset: gives the tokens back instead of storing initial.
reset_tokens_add(h, b) ==
    /\ at[h] = "reset_tokens"
    /\ tokens' = [tokens EXCEPT ![b] = tokens[b] + initial[b]]
    /\ goto(h, "wait_passed")
    /\ UNCHANGED <<initial, passed, locked, reg>>

reset_tokens(h, b) ==
    /\ at[h] = "reset_tokens"
    /\ tokens' = [tokens EXCEPT ![b] = initial[b]]
    /\ goto(h, "wait_passed")
    /\ UNCHANGED <<initial, passed, locked, reg>>

\* Faulty last hart: does not wait for the others to pass.
wait_passed_missing(h, b) ==
    /\ at[h] = "wait_passed"
    /\ goto(h, "out")
    /\ UNCHANGED <<initial, tokens, passed, locked, reg>>

\* The two spins: the step is the read that ends the loop.
wait_passed(h, b) ==
    /\ at[h] = "wait_passed"
    /\ passed[b] = initial[b]
    /\ goto(h, "out")
    /\ UNCHANGED <<initial, tokens, passed, locked, reg>>

\* Faulty wait: one look at tokens instead of a loop.
wait_tokens_missing(h, b) ==
    /\ at[h] = "wait_tokens"
    /\ goto(h, "acquire2")
    /\ UNCHANGED <<initial, tokens, passed, locked, reg>>

wait_tokens(h, b) ==
    /\ at[h] = "wait_tokens"
    /\ tokens[b] = initial[b]
    /\ goto(h, "acquire2")
    /\ UNCHANGED <<initial, tokens, passed, locked, reg>>

load_passed(h, b) ==
    /\ at[h] = "load_passed"
    /\ reg' = [reg EXCEPT ![h] = passed[b]]
    /\ goto(h, "store_passed")
    /\ UNCHANGED bar_vars

store_passed(h, b) ==
    /\ at[h] = "store_passed"
    /\ passed' = [passed EXCEPT ![b] = reg[h] + 1]
    /\ goto(h, "release2")
    /\ UNCHANGED <<initial, tokens, locked, reg>>

\* The next access of hart h inside wait_barrier(b).
wait_barrier(h, b) ==
    \/ acquire(h, b, "acquire1", "load_tokens")
    \/ load_tokens(h, b)
    \/ store_tokens(h, b)
    \/ release(h, b, "release1", "test_last")
    \/ test_last(h, b)
    \/ set_passed(h, b)
    \/ reset_tokens(h, b)
    \/ wait_passed(h, b)
    \/ wait_tokens(h, b)
    \/ acquire(h, b, "acquire2", "load_passed")
    \/ load_passed(h, b)
    \/ store_passed(h, b)
    \/ release(h, b, "release2", "out")
=============================================================================
