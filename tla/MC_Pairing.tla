----------------------------- MODULE MC_Pairing -----------------------------
(* Instance of Pairing for TLC: tokens, requests and window ids are        *)
(* interchangeable.                                                        *)
EXTENDS Pairing, TLC

PairingSymmetry == Permutations(Windows) \cup Permutations(Tokens) \cup Permutations(Requests)
=============================================================================
