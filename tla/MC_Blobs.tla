------------------------------ MODULE MC_Blobs ------------------------------
(* Instance of Blobs for TLC: blobs and layer ids are interchangeable.     *)
EXTENDS Blobs, TLC

BlobSymmetry == Permutations(Blobs) \cup Permutations(Fresh) \cup Permutations(Items)
=============================================================================
