-------------------------------- MODULE MC_Jobs --------------------------------
(* Instances of Jobs for TLC.                                               *)
EXTENDS Jobs, TLC

JobSymmetry == Permutations(Jobs) \cup Permutations(Calls)
=============================================================================
