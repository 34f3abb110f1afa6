-------------------------- MODULE DeliveryContract --------------------------
(***************************************************************************)
(* What the summary path promises the rest of CodexWatch: every batch the  *)
(* client has committed is applied to the server's tables at most once, as *)
(* a whole, and nothing else ever changes those tables.  Nothing is said   *)
(* about the order in which batches are applied: the implementation        *)
(* (Delivery) does not keep one.                                           *)
(***************************************************************************)
EXTENDS Naturals, Sequences

CONSTANTS Tasks    \* task references

VARIABLES submitted,  \* bodies of the batches committed so far, by batch id
          done,       \* ids of the batches applied
          tasks,      \* server: sequence number of each stored snapshot
          events      \* server: stored transitions, <<task, sequence>>

vars == <<submitted, done, tasks, events>>

(* The snapshots of a body replace the stored ones (0: not in the body). *)
Overwrite(stored, snap) ==
  [t \in Tasks |-> IF snap[t] # 0 THEN snap[t] ELSE stored[t]]

Init ==
  /\ submitted = <<>>
  /\ done = {}
  /\ tasks = [t \in Tasks |-> 0]
  /\ events = {}

Submit ==
  /\ Len(submitted') = Len(submitted) + 1
  /\ submitted' = Append(submitted, submitted'[Len(submitted) + 1])
  /\ UNCHANGED <<done, tasks, events>>

Deliver(b) ==
  /\ b \in DOMAIN submitted \ done
  /\ done' = done \union {b}
  /\ tasks' = Overwrite(tasks, submitted[b].snap)
  /\ events' = events \union submitted[b].events
  /\ UNCHANGED submitted

Next == Submit \/ \E b \in DOMAIN submitted : Deliver(b)

Spec == Init /\ [][Next]_vars

=============================================================================
