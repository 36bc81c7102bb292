----------------------------- MODULE MCIdentity -----------------------------
(* Instances of Identity: up to four tracks of two events, some of them    *)
(* seen in one frame.                                                      *)
EXTENDS Identity, TLC

CONSTANTS t1, t2, t3, t4, e1, e2

\* t1 and t2 are seen together; t3 comes later.
TwoEvents == [x \in Tracks |-> IF x = t3 THEN e2 ELSE e1]
OneFrame == {{t1, t2}}

\* The two tracks of the frame can be exchanged.
Exchange == Permutations({t1, t2})
=============================================================================
