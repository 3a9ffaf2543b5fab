------------------------------ MODULE MCBarrier ------------------------------
(* Barrier for TLC: the harts are interchangeable. *)
EXTENDS Barrier, TLC

HartSymmetry == Permutations(Harts)
=============================================================================
