---------------------------- MODULE MCMigration -----------------------------
(* Three images and two migrations that may be started together.           *)
EXTENDS Migration, TLC

CONSTANTS i1, i2, i3, p1, p2

Symmetric == Permutations(Images) \cup Permutations(Procs)
=============================================================================
