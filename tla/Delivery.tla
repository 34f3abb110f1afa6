------------------------------ MODULE Delivery ------------------------------
(***************************************************************************)
(* The durable summary path: the client's SQLite outbox, the flush loop    *)
(* that posts one batch at a time, the HTTP requests in between, and the   *)
(* server's ingest handler with its receipts.                              *)
(*                                                                         *)
(* Every SQLite transaction is one action.  Both stores survive a restart; *)
(* the flush loop does not.  A batch body is reduced to what the server's  *)
(* tables take from it: the sequence number of each task snapshot and the  *)
(* transitions it carries.  Batch ids are numbered in creation order       *)
(* (UUIDv7; `created_at` ties are read in rowid order).                    *)
(***************************************************************************)
EXTENDS Integers, Sequences, FiniteSets, FiniteSetsExt

CONSTANTS
  Tasks,        \* task references
  MaxBatches,   \* bound: batches the client ever commits
  Sizes,        \* possible encoded sizes of a batch
  HardCap,      \* OUTBOX_HARD_CAP_BYTES
  Reserve,      \* OUTBOX_PRIORITY_RESERVE_BYTES
  Foreign       \* ids of batches written under another client_id than the
                \* one the bearer token is bound to; the server answers 403

ASSUME TasksAssumption == Tasks # {}
ASSUME BoundAssumption == MaxBatches \in Nat
ASSUME SizesAssumption ==
  /\ Sizes \subseteq Nat \ {0}
  /\ HardCap \in Nat
  /\ Reserve \in 0..HardCap

VARIABLES
  active,     \* client: active_tasks.sequence, 0 when the row is absent
  batches,    \* bodies of all batches ever committed to the outbox
  outbox,     \* client: ids of the rows in the outbox table
  due,        \* client: rows whose next_attempt_at has passed
  flush,      \* client: the flush loop, [pc, batch]
  late,       \* requests the client gave up on that may still reach the server
  receipts,   \* server: ingest_receipts as <<batch id, payload>> pairs
  tasks,      \* server: tasks.snapshot_json, its sequence, 0 when absent
  events,     \* server: task_events as <<task, sequence>> pairs
  applied     \* history: how often the effects of each batch were written

clientVars == <<active, batches, outbox, due>>
serverVars == <<receipts, tasks, events, applied>>
vars == <<active, batches, outbox, due, flush, late, receipts, tasks, events, applied>>

Ids == 1..MaxBatches
Transitions == Tasks \X (1..MaxBatches)

Batch == [snap : [Tasks -> 0..MaxBatches], events : SUBSET Transitions,
          size : Sizes, priority : BOOLEAN]

Flush == [pc : {"idle"}, batch : {0}]
           \union [pc : {"sent", "acked", "failed"}, batch : Ids]

Idle == [pc |-> "idle", batch |-> 0]

Init ==
  /\ active = [t \in Tasks |-> 0]
  /\ batches = <<>>
  /\ outbox = {}
  /\ due = {}
  /\ flush = Idle
  /\ late = {}
  /\ receipts = {}
  /\ tasks = [t \in Tasks |-> 0]
  /\ events = {}
  /\ applied = [b \in Ids |-> 0]

-----------------------------------------------------------------------------
(* Client: committing records to the outbox.                               *)

Bytes(rows) == MapThenSumSet(LAMBDA b : batches[b].size, rows)
PriorityRows == {b \in outbox : batches[b].priority}
TotalBytes == Bytes(outbox)
PriorityBytes == Bytes(PriorityRows)
RoutineBytes == TotalBytes - PriorityBytes

(* Fault: the reserve is not kept free of routine batches. *)
CapacityWithoutReserve(size, priority) == TotalBytes + size <= HardCap

(* ensure_outbox_capacity_tx: the hard cap binds everyone, the reserve     *)
(* only routine batches.                                                   *)
EnsureOutboxCapacity(size, priority) ==
  /\ TotalBytes + size <= HardCap
  /\ ~priority => RoutineBytes + size <= HardCap - Reserve

(* The tail of persist_ingress: encode one wire batch, check the capacity, *)
(* insert the row, due at once.  A failed check rolls everything back.     *)
EnqueueRecords(snap, carried, priority) ==
  /\ Len(batches) < MaxBatches
  /\ \E size \in Sizes :
       /\ EnsureOutboxCapacity(size, priority)
       /\ batches' = Append(batches, [snap |-> snap, events |-> carried,
                                      size |-> size, priority |-> priority])
  /\ outbox' = outbox \union {Len(batches) + 1}
  /\ due' = due \union {Len(batches) + 1}
  /\ UNCHANGED <<flush, late>>
  /\ UNCHANGED serverVars

(* persist_ingress of an exchange, a gap or a process exit: the task row   *)
(* moves to the next sequence number and the batch carries the transition  *)
(* together with the new snapshot.  Such records are always priority.      *)
PersistTransition(t) ==
  LET next == active[t] + 1 IN
  /\ active' = [active EXCEPT ![t] = next]
  /\ EnqueueRecords([u \in Tasks |-> IF u = t THEN next ELSE 0], {<<t, next>>}, TRUE)

(* persist_ingress of the Session records of a title change: the current   *)
(* snapshots of the session's tasks are sent again, at routine priority.   *)
PersistSession(S) ==
  /\ \A t \in S : active[t] # 0
  /\ EnqueueRecords([u \in Tasks |-> IF u \in S THEN active[u] ELSE 0], {}, FALSE)
  /\ UNCHANGED active

(* emit_heartbeat_once: a batch without task uploads. *)
PersistHeartbeat ==
  /\ EnqueueRecords([u \in Tasks |-> 0], {}, TRUE)
  /\ UNCHANGED active

-----------------------------------------------------------------------------
(* Client: the flush loop.                                                 *)

(* next_due_batch, then post_ingest puts the request on the wire. *)
FlushOutboxOnce(b) ==
  /\ flush = Idle
  /\ b \in due
  /\ \A c \in due : b <= c
  /\ flush' = [pc |-> "sent", batch |-> b]
  /\ UNCHANGED <<late>>
  /\ UNCHANGED clientVars
  /\ UNCHANGED serverVars

(* Fault: the row is deleted but stays scheduled. *)
MarkBatchAckedStillDue(b) ==
  /\ flush = [pc |-> "acked", batch |-> b]
  /\ outbox' = outbox \ {b}
  /\ flush' = Idle
  /\ UNCHANGED <<active, batches, due, late>>
  /\ UNCHANGED serverVars

(* mark_batch_acked: the acknowledgement deletes the row. *)
MarkBatchAcked(b) ==
  /\ flush = [pc |-> "acked", batch |-> b]
  /\ outbox' = outbox \ {b}
  /\ due' = due \ {b}
  /\ flush' = Idle
  /\ UNCHANGED <<active, batches, late>>
  /\ UNCHANGED serverVars

(* Fault: a failed post deletes the row. *)
MarkBatchRetryDrops(b) ==
  /\ flush = [pc |-> "failed", batch |-> b]
  /\ outbox' = outbox \ {b}
  /\ due' = due \ {b}
  /\ flush' = Idle
  /\ UNCHANGED <<active, batches, late>>
  /\ UNCHANGED serverVars

(* Fault: next_attempt_at is not moved, so the row stays first. *)
MarkBatchRetryNoBackoff(b) ==
  /\ flush = [pc |-> "failed", batch |-> b]
  /\ flush' = Idle
  /\ UNCHANGED <<late>>
  /\ UNCHANGED clientVars
  /\ UNCHANGED serverVars

(* mark_batch_retry: any error, of the connection or an HTTP status, only  *)
(* moves next_attempt_at; the row stays and other due rows go first.       *)
MarkBatchRetry(b) ==
  /\ flush = [pc |-> "failed", batch |-> b]
  /\ due' = due \ {b}
  /\ flush' = Idle
  /\ UNCHANGED <<active, batches, outbox, late>>
  /\ UNCHANGED serverVars

(* Wall-clock time reaches next_attempt_at. *)
BackoffElapsed(b) ==
  /\ b \in outbox \ due
  /\ due' = due \union {b}
  /\ UNCHANGED <<active, batches, outbox, flush, late>>
  /\ UNCHANGED serverVars

(* A crash, or a capture or title task that returns an error and ends      *)
(* run_daemon_with_components; systemd starts the client again.            *)
ClientRestart ==
  /\ flush # Idle
  /\ flush' = Idle
  /\ \/ /\ flush.pc = "sent"
        /\ late' = late \union {flush.batch}
     \/ late' = late
  /\ UNCHANGED clientVars
  /\ UNCHANGED serverVars

-----------------------------------------------------------------------------
(* Network: a connection error before or after the server has answered.    *)

ConnectionError ==
  /\ flush.pc \in {"sent", "acked"}
  /\ flush' = [flush EXCEPT !.pc = "failed"]
  /\ \/ /\ flush.pc = "sent"
        /\ late' = late \union {flush.batch}
     \/ late' = late
  /\ UNCHANGED clientVars
  /\ UNCHANGED serverVars

-----------------------------------------------------------------------------
(* Server: the ingest handler, one transaction.                            *)

Receipted == {r[1] : r \in receipts}

(* Fault: the receipt is not looked up. *)
KnownNever(b) == FALSE

Known(b) == b \in Receipted
SameHash(b) == <<b, batches[b]>> \in receipts

(* The HTTP status of a request: 403 for another client's batch, 409 for a *)
(* reused id with another payload, otherwise an acknowledgement.           *)
IngestAcks(b) == b \notin Foreign /\ (Known(b) => SameHash(b))

(* Fault: only the snapshots of an upload are written. *)
PersistSnapshotOnly(body) ==
  /\ tasks' = [t \in Tasks |-> IF body.snap[t] # 0 THEN body.snap[t] ELSE tasks[t]]
  /\ UNCHANGED events

(* persist_task_upload: snapshots replace the stored row whatever its      *)
(* sequence is; transitions are upserted by id.                            *)
PersistTaskUpload(body) ==
  /\ tasks' = [t \in Tasks |-> IF body.snap[t] # 0 THEN body.snap[t] ELSE tasks[t]]
  /\ events' = events \union body.events

(* The writes of ingest: none unless the batch is new and allowed. *)
Ingest(b) ==
  \/ /\ IngestAcks(b) /\ ~Known(b)
     /\ PersistTaskUpload(batches[b])
     /\ receipts' = receipts \union {<<b, batches[b]>>}
     /\ applied' = [applied EXCEPT ![b] = @ + 1]
  \/ /\ Known(b) \/ ~IngestAcks(b)
     /\ UNCHANGED serverVars

(* Fault: post_ingest does not look at the HTTP status. *)
IngestSentAnyStatus(b) ==
  /\ flush = [pc |-> "sent", batch |-> b]
  /\ Ingest(b)
  /\ flush' = [flush EXCEPT !.pc = "acked"]
  /\ UNCHANGED <<late>>
  /\ UNCHANGED clientVars

(* The request the flush loop is waiting for is handled and answered. *)
IngestSent(b) ==
  /\ flush = [pc |-> "sent", batch |-> b]
  /\ Ingest(b)
  /\ flush' = [flush EXCEPT !.pc = IF IngestAcks(b) THEN "acked" ELSE "failed"]
  /\ UNCHANGED <<late>>
  /\ UNCHANGED clientVars

(* A request the client has given up on is handled; its answer goes        *)
(* nowhere.  Several such requests of one batch are one element of late,   *)
(* so one more may be left.                                                *)
IngestLate(b) ==
  /\ b \in late
  /\ Ingest(b)
  /\ \/ late' = late \ {b}
     \/ late' = late
  /\ UNCHANGED <<flush>>
  /\ UNCHANGED clientVars

-----------------------------------------------------------------------------
Next ==
  \/ \E t \in Tasks : PersistTransition(t)
  \/ \E S \in SUBSET Tasks \ {{}} : PersistSession(S)
  \/ PersistHeartbeat
  \/ \E b \in Ids :
       \/ FlushOutboxOnce(b)
       \/ MarkBatchAcked(b)
       \/ MarkBatchRetry(b)
       \/ BackoffElapsed(b)
       \/ IngestSent(b)
       \/ IngestLate(b)
  \/ ConnectionError
  \/ ClientRestart

Spec == Init /\ [][Next]_vars

(* Back-off times pass (weak fairness).  The rest is strong fairness:      *)
(* restarts and connection errors may interrupt any step, but not every    *)
(* time, so a step that is possible again and again is taken.  That a row  *)
(* behind a refused one gets its turn rests on the numbers: a back-off is  *)
(* at least 5 s, the flush ticker's default period is 2 s.                 *)
Fairness ==
  \A b \in Ids :
    /\ SF_vars(FlushOutboxOnce(b))
    /\ SF_vars(IngestSent(b))
    /\ SF_vars(MarkBatchAcked(b))
    /\ SF_vars(MarkBatchRetry(b))
    /\ WF_vars(BackoffElapsed(b))

FairSpec == Spec /\ Fairness

-----------------------------------------------------------------------------
(* The tables of both sides; a row is due only while it is in the outbox,  *)
(* and the flush loop works on a row that was committed.                   *)
TypeOK ==
  /\ active \in [Tasks -> 0..Len(batches)]
  /\ batches \in Seq(Batch)
  /\ Len(batches) <= MaxBatches
  /\ outbox \subseteq DOMAIN batches
  /\ due \subseteq outbox
  /\ flush \in Flush
  /\ late \subseteq DOMAIN batches
  /\ receipts \subseteq (DOMAIN batches) \X Batch
  /\ tasks \in [Tasks -> 0..MaxBatches]
  /\ events \subseteq Transitions
  /\ applied \in [Ids -> Nat]

(* No transition committed by the client is ever lost: it is stored on the *)
(* server or still in the outbox (flush_outbox_once, mark_batch_acked).    *)
NoTransitionLost ==
  \A t \in Tasks : \A s \in 1..active[t] :
    \/ <<t, s>> \in events
    \/ \E b \in outbox : <<t, s>> \in batches[b].events

(* However often a batch is posted - retries after a lost answer, late     *)
(* requests, restarts - ingest writes its effects at most once.            *)
AppliedOnce == \A b \in Ids : applied[b] <= 1

(* The client deletes an outbox row only when the server has committed a   *)
(* receipt for exactly that payload.                                       *)
AckedIsDurable ==
  \A b \in DOMAIN batches : b \notin outbox => <<b, batches[b]>> \in receipts

(* The reserve is really available: while priority rows use less than it,  *)
(* ensure_outbox_capacity_tx accepts a terminal, error, gap or heartbeat   *)
(* batch however full of routine batches the outbox is.                    *)
ReserveUsable ==
  \A size \in Sizes :
    PriorityBytes + size <= Reserve => EnsureOutboxCapacity(size, TRUE)

(* A batch that the server can accept is delivered and leaves the outbox,  *)
(* through lost requests and answers, restarts, and a batch ahead of it    *)
(* that the server refuses for ever.                                       *)
EventuallyDelivered ==
  \A b \in Ids \ Foreign :
    b \in outbox ~> (b \in Receipted /\ b \notin outbox)

Contract == INSTANCE DeliveryContract WITH submitted <- batches, done <- Receipted

(* The summary path implements the exactly-once contract. *)
ImplementsContract == Contract!Spec

(* A stored snapshot is never replaced by an older one (persist_task_upload). *)
SequenceMonotonic == [][\A t \in Tasks : tasks'[t] >= tasks[t]]_vars
=============================================================================
