----------------------------- MODULE MCTracking -----------------------------
(* Frames with up to two faces; every constant is a number or a set of     *)
(* numbers, given in the configuration.                                    *)
EXTENDS Tracking
=============================================================================
