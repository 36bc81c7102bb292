----------------------------- MODULE MCResolver -----------------------------
(* Two processes that may be started on one state file.                    *)
EXTENDS Resolver, TLC

CONSTANTS p1, p2

Symmetric == Permutations(Procs)
=============================================================================
