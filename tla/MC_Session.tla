----------------------------- MODULE MC_Session -----------------------------
(* Instance of Session for TLC: calls, links and loops are interchangeable. *)
EXTENDS Session, TLC

SessionSymmetry == Permutations(Calls) \cup Permutations(Links) \cup Permutations(Loops)
=============================================================================
