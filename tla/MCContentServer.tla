-------------------------- MODULE MCContentServer --------------------------
(* Instances of ContentServer for TLC. *)
EXTENDS ContentServer, TLC

CONSTANTS c1, c2, o1, p1

TwoChunks == [o \in Objects |-> 2]
Symmetric == Permutations(Conversations)
=============================================================================
