----------------------------- MODULE MCTestApp ------------------------------
(* Values of constants for TLC. *)
EXTENDS TestApp, TLC

FingersAlike == Permutations(Fingers)
=============================================================================
