-------------------------- MODULE MCOutputOwnership --------------------------
(* Two outputs, so that one may be late while the other is joined, a role   *)
(* with video and Standby, and epochs enough for a change that follows a    *)
(* failed one.                                                              *)
EXTENDS OutputOwnership, TLC

CONSTANTS w1, w2

Alike == Permutations({w1, w2})

=============================================================================
