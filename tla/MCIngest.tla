------------------------------ MODULE MCIngest ------------------------------
(* Instances of Ingest: two versions of files, with equal or different     *)
(* paths and bytes.                                                        *)
EXTENDS Ingest

CONSTANTS v1, v2, n1, n2, d1, d2

TwoPaths == [f \in Files |-> IF f = v1 THEN n1 ELSE n2]
OnePath == [f \in Files |-> n1]
TwoDigests == [f \in Files |-> IF f = v1 THEN d1 ELSE d2]
OneDigest == [f \in Files |-> d1]
=============================================================================
