---------------------------- MODULE MCDownloads -----------------------------
(* Two downloads.                                                          *)
EXTENDS Downloads

CONSTANTS k1, k2
=============================================================================
