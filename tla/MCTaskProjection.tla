-------------------------- MODULE MCTaskProjection --------------------------
(* Instances of TaskProjection for TLC: one process, one or two turns. *)
EXTENDS TaskProjection, TLC

CONSTANTS t1, t2, f1, f2, p1, r1, r2

OneProcessTasks == [t \in Tasks |-> p1]
OneProcessFlows == [f \in Flows |-> p1]
Symmetric == Permutations(Tasks) \union Permutations(Responses)
=============================================================================
