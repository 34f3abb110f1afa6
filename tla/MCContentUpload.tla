-------------------------- MODULE MCContentUpload --------------------------
(* Instances of ContentUpload for TLC. *)
EXTENDS ContentUpload, TLC

CONSTANTS c1, c2, o1, o2, p1, p2

TwoChunks == [o \in Objects |-> 2]

Same == Permutations(Objects) \union Permutations(Parts)
=============================================================================
