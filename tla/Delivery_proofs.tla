--------------------------- MODULE Delivery_proofs ---------------------------
(***************************************************************************)
(* Theorems about Delivery, for any number of tasks and batches, any sizes *)
(* and caps, and any set of batches the server refuses.                    *)
(***************************************************************************)
EXTENDS Delivery, FiniteSetTheorems, WellFoundedInduction, TLAPS

(* A receipt names the payload that the outbox row holds: the body is      *)
(* stored once and posted verbatim.                                        *)
ReceiptsBind == \A r \in receipts : r[2] = batches[r[1]]

(* What a receipt stands for: the transitions are in the server's table.   *)
ReceiptsStored == \A b \in DOMAIN batches : Known(b) => batches[b].events \subseteq events

(* The history counter agrees with the receipts. *)
AppliedMatches == \A b \in Ids : applied[b] = IF Known(b) THEN 1 ELSE 0

(* The flush loop holds a row of the outbox, and believes it acknowledged  *)
(* only when its receipt is there.                                         *)
FlushHonest ==
  /\ flush.pc # "idle" => flush.batch \in outbox
  /\ flush.pc = "acked" => SameHash(flush.batch)

(* Each sequence number the client has reached was put in some batch. *)
Carried ==
  \A t \in Tasks : \A s \in 1..active[t] :
    \E b \in DOMAIN batches : <<t, s>> \in batches[b].events

IndInv ==
  /\ TypeOK
  /\ ReceiptsBind
  /\ ReceiptsStored
  /\ AppliedMatches
  /\ AckedIsDurable
  /\ FlushHonest
  /\ Carried

-----------------------------------------------------------------------------
(* What Append does to the list of bodies (the INSERT of enqueue_records_tx). *)
LEMMA AppendBody ==
  ASSUME NEW s \in Seq(Batch), NEW x \in Batch
  PROVE  /\ Append(s, x) \in Seq(Batch)
         /\ Len(Append(s, x)) = Len(s) + 1
         /\ DOMAIN Append(s, x) = (DOMAIN s) \union {Len(s) + 1}
         /\ \A b \in DOMAIN s : Append(s, x)[b] = s[b]
         /\ Append(s, x)[Len(s) + 1] = x
  <1>1. DOMAIN s = 1..Len(s) /\ Len(s) \in Nat
    OBVIOUS
  <1>2. DOMAIN Append(s, x) = 1..(Len(s) + 1)
    OBVIOUS
  <1> QED
    BY <1>1, <1>2

(* Under the invariant, a batch has a receipt exactly when the receipt for *)
(* its own payload is there: the 409 branch of ingest is never taken.      *)
LEMMA KnownIsSameHash ==
  ASSUME TypeOK, ReceiptsBind, NEW b \in DOMAIN batches
  PROVE  /\ Known(b) <=> SameHash(b)
         /\ Known(b) <=> \E r \in receipts : r[1] = b
  <1>1. Known(b) <=> \E r \in receipts : r[1] = b
    BY DEF Known, Receipted
  <1>2. ASSUME NEW r \in receipts, r[1] = b
        PROVE  <<b, batches[b]>> \in receipts
    <2>1. r = <<r[1], r[2]>>
      BY DEF TypeOK
    <2> QED
      BY <2>1, <1>2 DEF ReceiptsBind
  <1>3. SameHash(b) => \E r \in receipts : r[1] = b
    <2>1. <<b, batches[b]>>[1] = b
      OBVIOUS
    <2> QED
      BY <2>1 DEF SameHash
  <1> QED
    BY <1>1, <1>2, <1>3 DEF SameHash

(* The bodies that the three persist actions build are well typed, and the *)
(* new row is the only change to the outbox.                               *)
LEMMA EnqueueEffect ==
  ASSUME TypeOK,
         NEW snap \in [Tasks -> 0..MaxBatches], NEW carried \in SUBSET Transitions,
         NEW priority \in BOOLEAN,
         EnqueueRecords(snap, carried, priority)
  PROVE  /\ batches' \in Seq(Batch)
         /\ Len(batches') = Len(batches) + 1
         /\ Len(batches') <= MaxBatches
         /\ DOMAIN batches' = (DOMAIN batches) \union {Len(batches) + 1}
         /\ Len(batches) + 1 \notin DOMAIN batches
         /\ \A b \in DOMAIN batches : batches'[b] = batches[b]
         /\ batches'[Len(batches) + 1].events = carried
         /\ outbox' = outbox \union {Len(batches) + 1}
         /\ due' = due \union {Len(batches) + 1}
         /\ UNCHANGED <<flush, late, receipts, tasks, events, applied>>
  <1>1. PICK size \in Sizes :
          batches' = Append(batches, [snap |-> snap, events |-> carried,
                                      size |-> size, priority |-> priority])
    BY DEF EnqueueRecords
  <1> DEFINE x == [snap |-> snap, events |-> carried, size |-> size, priority |-> priority]
  <1>2. x \in Batch /\ x.events = carried
    BY DEF Batch
  <1>3. batches \in Seq(Batch)
    BY DEF TypeOK
  <1>4. batches' = Append(batches, x)
    BY <1>1
  <1> HIDE DEF x
  <1>5. /\ batches' \in Seq(Batch)
        /\ Len(batches') = Len(batches) + 1
        /\ DOMAIN batches' = (DOMAIN batches) \union {Len(batches) + 1}
        /\ \A b \in DOMAIN batches : batches'[b] = batches[b]
        /\ batches'[Len(batches) + 1] = x
    BY <1>2, <1>3, <1>4, AppendBody
  <1>6. Len(batches) \in Nat /\ DOMAIN batches = 1..Len(batches)
    BY <1>3
  <1>7. Len(batches) + 1 \notin DOMAIN batches
    BY <1>6
  <1>8. Len(batches) + 1 <= MaxBatches
    BY <1>6, BoundAssumption DEF EnqueueRecords
  <1> QED
    BY <1>2, <1>5, <1>7, <1>8 DEF EnqueueRecords, serverVars

(* Facts about the writes of ingest that every invariant below uses. *)
LEMMA IngestEffect ==
  ASSUME TypeOK, ReceiptsBind, NEW b \in DOMAIN batches, Ingest(b)
  PROVE  \/ /\ ~Known(b)
            /\ receipts' = receipts \union {<<b, batches[b]>>}
            /\ tasks' = [t \in Tasks |-> IF batches[b].snap[t] # 0
                                          THEN batches[b].snap[t] ELSE tasks[t]]
            /\ events' = events \union batches[b].events
            /\ applied' = [applied EXCEPT ![b] = @ + 1]
            /\ b \notin Foreign
         \/ /\ Known(b) \/ ~IngestAcks(b)
            /\ UNCHANGED serverVars
  BY DEF Ingest, PersistTaskUpload, IngestAcks

(* Both databases start empty. *)
LEMMA InitIndInv == Init => IndInv
  <1> SUFFICES ASSUME Init PROVE IndInv
    OBVIOUS
  <1>1. batches \in Seq(Batch) /\ Len(batches) = 0 /\ DOMAIN batches = {}
    BY DEF Init
  <1>2. TypeOK
    BY <1>1, BoundAssumption DEF Init, TypeOK, Flush, Idle
  <1>3. Receipted = {}
    BY DEF Init, Receipted
  <1>4. AppliedMatches
    BY <1>3 DEF Init, AppliedMatches, Known
  <1>5. FlushHonest
    BY DEF Init, FlushHonest, Idle
  <1>6. Carried
    BY DEF Init, Carried
  <1> QED
    BY <1>1, <1>2, <1>3, <1>4, <1>5, <1>6
    DEF Init, IndInv, ReceiptsBind, ReceiptsStored, AckedIsDurable, Known

(* A new outbox row disturbs nothing: the three persist actions. *)
LEMMA EnqueueIndInv ==
  ASSUME IndInv,
         NEW snap \in [Tasks -> 0..MaxBatches], NEW carried \in SUBSET Transitions,
         NEW priority \in BOOLEAN,
         EnqueueRecords(snap, carried, priority),
         active' \in [Tasks -> 0..Len(batches')],
         \A t \in Tasks : \A s \in 1..active'[t] : s \in 1..active[t] \/ <<t, s>> \in carried
  PROVE  IndInv'
  <1>1. /\ batches' \in Seq(Batch)
        /\ Len(batches') = Len(batches) + 1
        /\ Len(batches') <= MaxBatches
        /\ DOMAIN batches' = (DOMAIN batches) \union {Len(batches) + 1}
        /\ Len(batches) + 1 \notin DOMAIN batches
        /\ \A b \in DOMAIN batches : batches'[b] = batches[b]
        /\ batches'[Len(batches) + 1].events = carried
        /\ outbox' = outbox \union {Len(batches) + 1}
        /\ due' = due \union {Len(batches) + 1}
        /\ UNCHANGED <<flush, late, receipts, tasks, events, applied>>
    BY EnqueueEffect DEF IndInv
  <1>2. TypeOK'
    BY <1>1 DEF IndInv, TypeOK
  <1>3. \A r \in receipts : r[1] \in DOMAIN batches
    BY DEF IndInv, TypeOK
  <1>4. ReceiptsBind'
    BY <1>1, <1>3 DEF IndInv, ReceiptsBind
  <1>5. Receipted' = Receipted /\ Receipted \subseteq DOMAIN batches
    BY <1>1, <1>3 DEF Receipted
  <1>6. ReceiptsStored'
    BY <1>1, <1>5 DEF IndInv, ReceiptsStored, Known
  <1>7. AppliedMatches'
    BY <1>1, <1>5 DEF IndInv, AppliedMatches, Known
  <1>8. AckedIsDurable'
    BY <1>1 DEF IndInv, AckedIsDurable
  <1>9. FlushHonest'
    BY <1>1 DEF IndInv, FlushHonest, SameHash, TypeOK, Flush
  <1>10. Carried'
    BY <1>1 DEF IndInv, Carried
  <1> QED
    BY <1>2, <1>4, <1>6, <1>7, <1>8, <1>9, <1>10 DEF IndInv

(* The writes of ingest keep every part that does not speak of the flush   *)
(* loop, whoever sent the request.                                         *)
LEMMA IngestIndInv ==
  ASSUME IndInv, NEW b \in DOMAIN batches, Ingest(b), UNCHANGED clientVars
  PROVE  /\ receipts' \subseteq (DOMAIN batches) \X Batch
         /\ tasks' \in [Tasks -> 0..MaxBatches]
         /\ events' \subseteq Transitions
         /\ applied' \in [Ids -> Nat]
         /\ ReceiptsBind' /\ ReceiptsStored' /\ AppliedMatches' /\ AckedIsDurable'
         /\ receipts \subseteq receipts'
         /\ IngestAcks(b) => <<b, batches[b]>> \in receipts'
  <1>1. TypeOK /\ ReceiptsBind /\ batches[b] \in Batch /\ b \in Ids
    BY BoundAssumption DEF IndInv, TypeOK, Ids
  <1>2. UNCHANGED <<active, batches, outbox, due>>
    BY DEF clientVars
  <1>3. CASE UNCHANGED serverVars /\ (Known(b) \/ ~IngestAcks(b))
    <2>1. UNCHANGED <<receipts, tasks, events, applied>> /\ Receipted' = Receipted
      BY <1>3 DEF serverVars, Receipted
    <2>2. IngestAcks(b) => <<b, batches[b]>> \in receipts'
      BY <1>3, <2>1 DEF IngestAcks, SameHash
    <2>3. ReceiptsBind' /\ ReceiptsStored' /\ AppliedMatches' /\ AckedIsDurable'
      BY <1>2, <2>1 DEF IndInv, ReceiptsBind, ReceiptsStored, AppliedMatches,
                        AckedIsDurable, Known
    <2> QED
      BY <1>1, <2>1, <2>2, <2>3 DEF TypeOK
  <1>4. CASE /\ ~Known(b)
             /\ receipts' = receipts \union {<<b, batches[b]>>}
             /\ tasks' = [t \in Tasks |-> IF batches[b].snap[t] # 0
                                           THEN batches[b].snap[t] ELSE tasks[t]]
             /\ events' = events \union batches[b].events
             /\ applied' = [applied EXCEPT ![b] = @ + 1]
             /\ b \notin Foreign
    <2>1. /\ receipts' \subseteq (DOMAIN batches) \X Batch
          /\ tasks' \in [Tasks -> 0..MaxBatches]
          /\ events' \subseteq Transitions
          /\ applied' \in [Ids -> Nat]
      BY <1>1, <1>4 DEF TypeOK, Batch
    <2>2. Receipted' = Receipted \union {b}
      <3>1. <<b, batches[b]>>[1] = b
        OBVIOUS
      <3> QED
        BY <1>4, <3>1 DEF Receipted
    <2>3. ReceiptsBind'
      BY <1>2, <1>4 DEF IndInv, ReceiptsBind
    <2>4. ReceiptsStored'
      BY <1>2, <1>4, <2>2 DEF IndInv, ReceiptsStored, Known
    <2>5. AppliedMatches'
      BY <1>1, <1>4, <2>2 DEF IndInv, AppliedMatches, Known, TypeOK
    <2>6. AckedIsDurable'
      BY <1>2, <1>4 DEF IndInv, AckedIsDurable
    <2> QED
      BY <1>4, <2>1, <2>3, <2>4, <2>5, <2>6
  <1> QED
    BY <1>1, <1>3, <1>4, IngestEffect

(* Every step of client, network and server keeps the invariant. *)
LEMMA NextIndInv == IndInv /\ [Next]_vars => IndInv'
  <1> SUFFICES ASSUME IndInv, [Next]_vars PROVE IndInv'
    OBVIOUS
  <1>0. /\ TypeOK
        /\ Len(batches) \in Nat
        /\ DOMAIN batches = 1..Len(batches)
        /\ MaxBatches \in Nat
        /\ outbox \subseteq DOMAIN batches
    BY BoundAssumption DEF IndInv, TypeOK
  <1>1. ASSUME NEW t \in Tasks, PersistTransition(t)
        PROVE  IndInv'
    <2> DEFINE next == active[t] + 1
               snap == [u \in Tasks |-> IF u = t THEN next ELSE 0]
    <2>1. active[t] \in 0..Len(batches) /\ active \in [Tasks -> 0..Len(batches)]
      BY <1>0 DEF TypeOK
    <2>2. /\ active' = [active EXCEPT ![t] = next]
          /\ EnqueueRecords(snap, {<<t, next>>}, TRUE)
      BY <1>1 DEF PersistTransition
    <2>3. Len(batches) < MaxBatches
      BY <2>2 DEF EnqueueRecords
    <2>4. next \in 1..MaxBatches
      BY <1>0, <2>1, <2>3
    <2>5. snap \in [Tasks -> 0..MaxBatches] /\ {<<t, next>>} \in SUBSET Transitions
      BY <1>0, <2>4 DEF Transitions
    <2>6. Len(batches') = Len(batches) + 1
      BY <1>0, <2>2, <2>5, EnqueueEffect
    <2>7. active' \in [Tasks -> 0..Len(batches')]
      BY <1>0, <2>1, <2>2, <2>6
    <2>8. \A u \in Tasks : \A s \in 1..active'[u] : s \in 1..active[u] \/ <<u, s>> \in {<<t, next>>}
      BY <2>1, <2>2
    <2> QED
      BY <2>2, <2>5, <2>7, <2>8, EnqueueIndInv
  <1>2. ASSUME NEW S \in SUBSET Tasks, PersistSession(S)
        PROVE  IndInv'
    <2> DEFINE snap == [u \in Tasks |-> IF u \in S THEN active[u] ELSE 0]
    <2>1. EnqueueRecords(snap, {}, FALSE) /\ active' = active
      BY <1>2 DEF PersistSession
    <2>2. snap \in [Tasks -> 0..MaxBatches]
      BY <1>0 DEF TypeOK
    <2>3. Len(batches') = Len(batches) + 1
      BY <1>0, <2>1, <2>2, EnqueueEffect
    <2>4. active' \in [Tasks -> 0..Len(batches')]
      BY <1>0, <2>1, <2>3 DEF TypeOK
    <2> QED
      BY <2>1, <2>2, <2>4, EnqueueIndInv
  <1>3. CASE PersistHeartbeat
    <2> DEFINE snap == [u \in Tasks |-> 0]
    <2>1. EnqueueRecords(snap, {}, TRUE) /\ active' = active
      BY <1>3 DEF PersistHeartbeat
    <2>2. snap \in [Tasks -> 0..MaxBatches]
      BY <1>0
    <2>3. Len(batches') = Len(batches) + 1
      BY <1>0, <2>1, <2>2, EnqueueEffect
    <2>4. active' \in [Tasks -> 0..Len(batches')]
      BY <1>0, <2>1, <2>3 DEF TypeOK
    <2> QED
      BY <2>1, <2>2, <2>4, EnqueueIndInv
  <1>4. ASSUME NEW b \in Ids, FlushOutboxOnce(b)
        PROVE  IndInv'
    <2>1. /\ flush' = [pc |-> "sent", batch |-> b] /\ b \in outbox
          /\ UNCHANGED <<active, batches, outbox, due, late, receipts, tasks, events, applied>>
      BY <1>4, <1>0 DEF FlushOutboxOnce, clientVars, serverVars, TypeOK
    <2>2. TypeOK'
      BY <1>0, <2>1 DEF TypeOK, Flush
    <2>3. FlushHonest'
      BY <2>1 DEF FlushHonest
    <2> QED
      BY <2>1, <2>2, <2>3 DEF IndInv, ReceiptsBind, ReceiptsStored, AppliedMatches,
                              AckedIsDurable, Carried, Known, Receipted
  <1>5. ASSUME NEW b \in Ids, MarkBatchAcked(b)
        PROVE  IndInv'
    <2>1. /\ flush = [pc |-> "acked", batch |-> b] /\ flush' = Idle
          /\ outbox' = outbox \ {b} /\ due' = due \ {b}
          /\ UNCHANGED <<active, batches, late, receipts, tasks, events, applied>>
      BY <1>5 DEF MarkBatchAcked, serverVars
    <2>2. TypeOK'
      BY <1>0, <2>1 DEF TypeOK, Flush, Idle
    <2>3. <<b, batches[b]>> \in receipts
      BY <2>1 DEF IndInv, FlushHonest, SameHash
    <2>4. AckedIsDurable'
      BY <2>1, <2>3 DEF IndInv, AckedIsDurable
    <2>5. FlushHonest'
      BY <2>1 DEF FlushHonest, Idle
    <2> QED
      BY <2>1, <2>2, <2>4, <2>5 DEF IndInv, ReceiptsBind, ReceiptsStored, AppliedMatches,
                                    Carried, Known, Receipted
  <1>6. ASSUME NEW b \in Ids, MarkBatchRetry(b)
        PROVE  IndInv'
    <2>1. /\ flush' = Idle /\ due' = due \ {b}
          /\ UNCHANGED <<active, batches, outbox, late, receipts, tasks, events, applied>>
      BY <1>6 DEF MarkBatchRetry, serverVars
    <2>2. TypeOK'
      BY <1>0, <2>1 DEF TypeOK, Flush, Idle
    <2>3. FlushHonest'
      BY <2>1 DEF FlushHonest, Idle
    <2> QED
      BY <2>1, <2>2, <2>3 DEF IndInv, ReceiptsBind, ReceiptsStored, AppliedMatches,
                              AckedIsDurable, Carried, Known, Receipted
  <1>7. ASSUME NEW b \in Ids, BackoffElapsed(b)
        PROVE  IndInv'
    <2>1. /\ b \in outbox /\ due' = due \union {b}
          /\ UNCHANGED <<active, batches, outbox, flush, late, receipts, tasks, events, applied>>
      BY <1>7 DEF BackoffElapsed, serverVars
    <2>2. TypeOK'
      BY <1>0, <2>1 DEF TypeOK
    <2> QED
      BY <2>1, <2>2 DEF IndInv, ReceiptsBind, ReceiptsStored, AppliedMatches,
                        AckedIsDurable, FlushHonest, Carried, Known, Receipted, SameHash
  <1>8. ASSUME NEW b \in Ids, IngestSent(b)
        PROVE  IndInv'
    <2>1. /\ flush = [pc |-> "sent", batch |-> b]
          /\ flush' = [flush EXCEPT !.pc = IF IngestAcks(b) THEN "acked" ELSE "failed"]
          /\ Ingest(b) /\ UNCHANGED clientVars /\ late' = late
      BY <1>8 DEF IngestSent
    <2>2. b \in outbox /\ b \in DOMAIN batches
      BY <1>0, <2>1 DEF IndInv, FlushHonest
    <2>3. UNCHANGED <<active, batches, outbox, due>>
      BY <2>1 DEF clientVars
    <2>4. /\ receipts' \subseteq (DOMAIN batches) \X Batch
          /\ tasks' \in [Tasks -> 0..MaxBatches]
          /\ events' \subseteq Transitions
          /\ applied' \in [Ids -> Nat]
          /\ ReceiptsBind' /\ ReceiptsStored' /\ AppliedMatches' /\ AckedIsDurable'
          /\ IngestAcks(b) => <<b, batches[b]>> \in receipts'
      BY <2>1, <2>2, IngestIndInv
    <2>5. flush' \in Flush /\ flush'.batch = b /\ flush'.pc # "idle"
          /\ (flush'.pc = "acked" => IngestAcks(b))
      BY <2>1 DEF Flush
    <2>6. TypeOK'
      BY <1>0, <2>1, <2>3, <2>4, <2>5 DEF TypeOK
    <2>7. FlushHonest'
      BY <2>2, <2>3, <2>4, <2>5 DEF FlushHonest, SameHash
    <2>8. Carried'
      BY <2>3 DEF IndInv, Carried
    <2> QED
      BY <2>4, <2>6, <2>7, <2>8 DEF IndInv
  <1>9. ASSUME NEW b \in Ids, IngestLate(b)
        PROVE  IndInv'
    <2>1. /\ b \in late /\ Ingest(b) /\ UNCHANGED clientVars
          /\ late' \subseteq late /\ flush' = flush
      BY <1>9 DEF IngestLate
    <2>2. b \in DOMAIN batches
      BY <1>0, <2>1 DEF TypeOK
    <2>3. UNCHANGED <<active, batches, outbox, due>>
      BY <2>1 DEF clientVars
    <2>4. /\ receipts' \subseteq (DOMAIN batches) \X Batch
          /\ tasks' \in [Tasks -> 0..MaxBatches]
          /\ events' \subseteq Transitions
          /\ applied' \in [Ids -> Nat]
          /\ ReceiptsBind' /\ ReceiptsStored' /\ AppliedMatches' /\ AckedIsDurable'
          /\ receipts \subseteq receipts'
      BY <2>1, <2>2, IngestIndInv
    <2>5. TypeOK'
      BY <1>0, <2>1, <2>3, <2>4 DEF TypeOK
    <2>6. FlushHonest'
      BY <2>1, <2>3, <2>4 DEF IndInv, FlushHonest, SameHash
    <2>7. Carried'
      BY <2>3 DEF IndInv, Carried
    <2> QED
      BY <2>4, <2>5, <2>6, <2>7 DEF IndInv
  <1>10. ASSUME ConnectionError \/ ClientRestart
         PROVE  IndInv'
    <2>1. /\ UNCHANGED <<active, batches, outbox, due, receipts, tasks, events, applied>>
          /\ flush.pc # "idle"
          /\ late' \subseteq late \union {flush.batch}
          /\ flush' = Idle \/ (flush' = [flush EXCEPT !.pc = "failed"])
      BY <1>0, <1>10 DEF ConnectionError, ClientRestart, clientVars, serverVars,
                         TypeOK, Flush, Idle
    <2>2. flush.batch \in outbox
      BY <2>1 DEF IndInv, FlushHonest
    <2>3. flush' \in Flush /\ (flush'.pc = "idle" \/ flush'.batch = flush.batch)
          /\ flush'.pc # "acked"
      BY <1>0, <2>1 DEF TypeOK, Flush, Idle
    <2>4. TypeOK'
      BY <1>0, <2>1, <2>2, <2>3 DEF TypeOK
    <2>5. FlushHonest'
      BY <2>1, <2>2, <2>3 DEF FlushHonest
    <2> QED
      BY <2>1, <2>4, <2>5 DEF IndInv, ReceiptsBind, ReceiptsStored, AppliedMatches,
                              AckedIsDurable, Carried, Known, Receipted
  <1>11. CASE UNCHANGED vars
    BY <1>11 DEF vars, IndInv, TypeOK, ReceiptsBind, ReceiptsStored, AppliedMatches,
                 AckedIsDurable, FlushHonest, Carried, Known, Receipted, SameHash
  <1> QED
    BY <1>1, <1>2, <1>3, <1>4, <1>5, <1>6, <1>7, <1>8, <1>9, <1>10, <1>11 DEF Next

(* The inductive invariant holds in every reachable state. *)
THEOREM Invariance == Spec => []IndInv
  BY InitIndInv, NextIndInv, PTL DEF Spec

(* Type correctness of both stores, the flush loop and the wire. *)
THEOREM TypeCorrect == Spec => []TypeOK
  <1>1. IndInv => TypeOK
    BY DEF IndInv
  <1> QED
    BY <1>1, Invariance, PTL

(* ingest writes the effects of a batch at most once, however often the    *)
(* batch is posted and in whatever order requests arrive.                  *)
THEOREM AtMostOnce == Spec => []AppliedOnce
  <1>1. IndInv => AppliedOnce
    BY DEF IndInv, AppliedMatches, AppliedOnce
  <1> QED
    BY <1>1, Invariance, PTL

(* mark_batch_acked deletes a row only when the server holds the receipt   *)
(* for its payload.                                                        *)
THEOREM AckedDurable == Spec => []AckedIsDurable
  <1>1. IndInv => AckedIsDurable
    BY DEF IndInv
  <1> QED
    BY <1>1, Invariance, PTL

(* No committed transition is lost between the client's outbox and the     *)
(* server's task_events.                                                   *)
THEOREM NothingLost == Spec => []NoTransitionLost
  <1>1. ASSUME IndInv PROVE NoTransitionLost
    <2> SUFFICES ASSUME NEW t \in Tasks, NEW s \in 1..active[t],
                        <<t, s>> \notin events
                 PROVE  \E b \in outbox : <<t, s>> \in batches[b].events
      BY DEF NoTransitionLost
    <2>1. PICK b \in DOMAIN batches : <<t, s>> \in batches[b].events
      BY <1>1 DEF IndInv, Carried
    <2>2. ~Known(b)
      BY <1>1, <2>1 DEF IndInv, ReceiptsStored
    <2>3. ~SameHash(b)
      BY <1>1, <2>2, KnownIsSameHash DEF IndInv
    <2>4. b \in outbox
      BY <1>1, <2>3 DEF IndInv, AckedIsDurable, SameHash
    <2> QED
      BY <2>1, <2>4
  <1> QED
    BY <1>1, Invariance, PTL

(* The initial states of both databases map to the contract's. *)
LEMMA InitRefines == Init => Contract!Init
  BY DEF Init, Contract!Init, Receipted

(* A new outbox row is a Submit of the contract. *)
LEMMA EnqueueRefines ==
  ASSUME IndInv,
         NEW snap \in [Tasks -> 0..MaxBatches], NEW carried \in SUBSET Transitions,
         NEW priority \in BOOLEAN,
         EnqueueRecords(snap, carried, priority)
  PROVE  Contract!Submit
  <1>1. PICK x : batches' = Append(batches, x)
    BY DEF EnqueueRecords
  <1>2. /\ Len(batches') = Len(batches) + 1
        /\ UNCHANGED <<receipts, tasks, events>>
    BY EnqueueEffect DEF IndInv
  <1>3. batches'[Len(batches) + 1] = x
    BY <1>1 DEF IndInv, TypeOK
  <1> QED
    BY <1>1, <1>2, <1>3 DEF Contract!Submit, Receipted

(* Handling a request is a Deliver of the contract, or changes nothing. *)
LEMMA IngestRefines ==
  ASSUME IndInv, NEW b \in DOMAIN batches, Ingest(b), UNCHANGED clientVars
  PROVE  Contract!Deliver(b) \/ UNCHANGED Contract!vars
  <1>1. UNCHANGED batches
    BY DEF clientVars
  <1>2. CASE UNCHANGED serverVars
    BY <1>1, <1>2 DEF serverVars, Contract!vars, Receipted
  <1>3. CASE /\ ~Known(b)
             /\ receipts' = receipts \union {<<b, batches[b]>>}
             /\ tasks' = [t \in Tasks |-> IF batches[b].snap[t] # 0
                                           THEN batches[b].snap[t] ELSE tasks[t]]
             /\ events' = events \union batches[b].events
    <2>1. <<b, batches[b]>>[1] = b
      OBVIOUS
    <2>2. Receipted' = Receipted \union {b}
      BY <1>3, <2>1 DEF Receipted
    <2>3. b \in (DOMAIN batches) \ Receipted
      BY <1>3 DEF Known
    <2> QED
      BY <1>1, <1>3, <2>2, <2>3 DEF Contract!Deliver, Contract!Overwrite
  <1> QED
    BY <1>2, <1>3, IngestEffect DEF IndInv

(* Each step of the summary path is a step of the contract or a stutter. *)
LEMMA StepRefines == IndInv /\ [Next]_vars => [Contract!Next]_(Contract!vars)
  <1> SUFFICES ASSUME IndInv, [Next]_vars PROVE [Contract!Next]_(Contract!vars)
    OBVIOUS
  <1>0. /\ TypeOK
        /\ Len(batches) \in Nat
        /\ DOMAIN batches = 1..Len(batches)
        /\ MaxBatches \in Nat
    BY BoundAssumption DEF IndInv, TypeOK
  <1>1. ASSUME NEW t \in Tasks, PersistTransition(t)
        PROVE  Contract!Submit
    <2> DEFINE next == active[t] + 1
               snap == [u \in Tasks |-> IF u = t THEN next ELSE 0]
    <2>1. EnqueueRecords(snap, {<<t, next>>}, TRUE)
      BY <1>1 DEF PersistTransition
    <2>2. active[t] \in 0..Len(batches) /\ Len(batches) < MaxBatches
      BY <1>0, <2>1 DEF EnqueueRecords, TypeOK
    <2>3. next \in 1..MaxBatches
      BY <1>0, <2>2
    <2>4. snap \in [Tasks -> 0..MaxBatches] /\ {<<t, next>>} \in SUBSET Transitions
      BY <1>0, <2>3 DEF Transitions
    <2> QED
      BY <2>1, <2>4, EnqueueRefines
  <1>2. ASSUME NEW S \in SUBSET Tasks, PersistSession(S)
        PROVE  Contract!Submit
    <2> DEFINE snap == [u \in Tasks |-> IF u \in S THEN active[u] ELSE 0]
    <2>1. EnqueueRecords(snap, {}, FALSE)
      BY <1>2 DEF PersistSession
    <2>2. snap \in [Tasks -> 0..MaxBatches]
      BY <1>0 DEF TypeOK
    <2> QED
      BY <2>1, <2>2, EnqueueRefines
  <1>3. ASSUME PersistHeartbeat
        PROVE  Contract!Submit
    <2>1. EnqueueRecords([u \in Tasks |-> 0], {}, TRUE)
      BY <1>3 DEF PersistHeartbeat
    <2>2. [u \in Tasks |-> 0] \in [Tasks -> 0..MaxBatches]
      BY <1>0
    <2> QED
      BY <2>1, <2>2, EnqueueRefines
  <1>4. ASSUME NEW b \in Ids,
               FlushOutboxOnce(b) \/ MarkBatchAcked(b) \/ MarkBatchRetry(b)
                 \/ BackoffElapsed(b)
        PROVE  UNCHANGED Contract!vars
    BY <1>4 DEF FlushOutboxOnce, MarkBatchAcked, MarkBatchRetry, BackoffElapsed,
                clientVars, serverVars, Contract!vars, Receipted
  <1>5. ASSUME NEW b \in Ids, IngestSent(b)
        PROVE  (\E c \in DOMAIN batches : Contract!Deliver(c)) \/ UNCHANGED Contract!vars
    <2>1. flush = [pc |-> "sent", batch |-> b] /\ Ingest(b) /\ UNCHANGED clientVars
      BY <1>5 DEF IngestSent
    <2>2. b \in DOMAIN batches
      BY <1>0, <2>1 DEF IndInv, FlushHonest, TypeOK
    <2> QED
      BY <2>1, <2>2, IngestRefines
  <1>6. ASSUME NEW b \in Ids, IngestLate(b)
        PROVE  (\E c \in DOMAIN batches : Contract!Deliver(c)) \/ UNCHANGED Contract!vars
    <2>1. Ingest(b) /\ UNCHANGED clientVars /\ b \in DOMAIN batches
      BY <1>0, <1>6 DEF IngestLate, TypeOK
    <2> QED
      BY <2>1, IngestRefines
  <1>7. ASSUME ConnectionError \/ ClientRestart
        PROVE  UNCHANGED Contract!vars
    BY <1>7 DEF ConnectionError, ClientRestart, clientVars, serverVars,
                Contract!vars, Receipted
  <1>8. CASE UNCHANGED vars
    BY <1>8 DEF vars, Contract!vars, Receipted
  <1> QED
    BY <1>1, <1>2, <1>3, <1>4, <1>5, <1>6, <1>7, <1>8 DEF Next, Contract!Next

(* Outbox, wire and receipts together implement exactly-once application:  *)
(* the server's tables change only by applying, once and as a whole, a     *)
(* batch the client has committed.                                         *)
THEOREM Refinement == Spec => ImplementsContract
  BY InitRefines, StepRefines, Invariance, PTL DEF Spec, ImplementsContract, Contract!Spec

-----------------------------------------------------------------------------
(* The bytes of the outbox: what Bytes, a recursion over sets, adds up to. *)

LEMMA LeastNumber ==
  ASSUME NEW D, D \subseteq Nat, D # {}
  PROVE  \E d \in D : \A m \in D : d <= m
  <1> DEFINE R == OpToRel(<, Nat)
  <1>1. IsWellFoundedOn(R, Nat)
    BY NatLessThanWellFounded
  <1>2. \A m, k \in Nat : m < k => <<m, k>> \in R
    BY DEF OpToRel
  <1> HIDE DEF R
  <1>3. PICK d \in D : \A m \in D : ~(<<m, d>> \in R)
    BY <1>1, WFMin
  <1>4. ASSUME NEW m \in D
        PROVE  d <= m
    <2>1. m \in Nat /\ d \in Nat /\ ~(<<m, d>> \in R)
      BY <1>3
    <2>2. ~(m < d)
      BY <1>2, <2>1
    <2> QED
      BY <2>1, <2>2
  <1> QED
    BY <1>4

(* Induction over the subsets of a finite set: all of them are in G when   *)
(* each is as soon as its proper subsets are.                              *)
LEMMA SubsetInduction ==
  ASSUME NEW U, IsFiniteSet(U), NEW G,
         \A S \in SUBSET U : (\A T \in SUBSET S : T # S => T \in G) => S \in G
  PROVE  \A S \in SUBSET U : S \in G
  <1> DEFINE D == {Cardinality(S) : S \in {S \in SUBSET U : S \notin G}}
  <1>1. \A S \in SUBSET U : IsFiniteSet(S) /\ Cardinality(S) \in Nat
    BY FS_Subset, FS_CardinalityType
  <1>2. ASSUME D # {}
        PROVE  FALSE
    <2>1. D \subseteq Nat
      BY <1>1
    <2>2. PICK d \in D : \A m \in D : d <= m
      <3> HIDE DEF D
      <3> QED
        BY <1>2, <2>1, LeastNumber
    <2>3. PICK S \in SUBSET U : S \notin G /\ d = Cardinality(S)
      OBVIOUS
    <2>4. ASSUME NEW T \in SUBSET S, T # S, T \notin G
          PROVE  FALSE
      <3>1. T \in SUBSET U /\ Cardinality(T) \in D
        BY <2>4
      <3>2. d <= Cardinality(T)
        BY <2>2, <3>1
      <3>3. Cardinality(T) < Cardinality(S)
        BY <1>1, <2>4, FS_Subset
      <3> QED
        BY <1>1, <2>3, <3>1, <3>2, <3>3
    <2> QED
      BY <2>3, <2>4
  <1> QED
    BY <1>2

BytesOf(bs, rows) == MapThenSumSet(LAMBDA b : bs[b].size, rows)
First(rows) == CHOOSE b \in rows : TRUE
Adds(bs, f, rows) == IF rows = {} THEN 0 ELSE bs[First(rows)].size + f[rows \ {First(rows)}]
Adding(bs, f, rows) == f = [s \in SUBSET rows |-> Adds(bs, f, s)]

LEMMA FirstIsRow == ASSUME NEW S, S # {} PROVE First(S) \in S
  BY DEF First

LEMMA BytesOfIs ==
  ASSUME NEW bs, NEW S
  PROVE  BytesOf(bs, S) = (CHOOSE f : Adding(bs, f, S))[S]
  BY DEF BytesOf, MapThenSumSet, MapThenFoldSet, Adding, Adds, First

(* The sum of a set is its first element and the sum of the others. *)
LEMMA BytesUnfold ==
  ASSUME NEW bs, NEW U, IsFiniteSet(U)
  PROVE  \A S \in SUBSET U :
           BytesOf(bs, S) = IF S = {} THEN 0
                            ELSE bs[First(S)].size + BytesOf(bs, S \ {First(S)})
  <1> DEFINE Unfolds(S) == BytesOf(bs, S) = IF S = {} THEN 0
                              ELSE bs[First(S)].size + BytesOf(bs, S \ {First(S)})
             Only(S) == \A f : Adding(bs, f, S) => f[S] = BytesOf(bs, S)
             G == {S \in SUBSET U : Unfolds(S) /\ Only(S)}
  <1>1. ASSUME NEW S \in SUBSET U, \A T \in SUBSET S : T # S => T \in G
        PROVE  S \in G
    <2>1. \A T \in SUBSET S : T # S => Unfolds(T) /\ Only(T)
      BY <1>1
    <2> HIDE DEF G
    <2>2. \E f : Adding(bs, f, S)
      <3> DEFINE f == [s \in SUBSET S |-> IF s # S THEN BytesOf(bs, s)
                        ELSE IF S = {} THEN 0
                        ELSE bs[First(S)].size + BytesOf(bs, S \ {First(S)})]
      <3>1. ASSUME NEW s \in SUBSET S
            PROVE  f[s] = Adds(bs, f, s)
        <4>1. CASE s = {}
          BY <2>1, <4>1 DEF Adds
        <4>2. CASE s # {}
          <5>1. s \ {First(s)} \in SUBSET S /\ s \ {First(s)} # S
            BY <4>2, FirstIsRow
          <5>2. f[s \ {First(s)}] = BytesOf(bs, s \ {First(s)})
            BY <5>1
          <5>3. f[s] = bs[First(s)].size + BytesOf(bs, s \ {First(s)})
            BY <2>1, <4>2
          <5> HIDE DEF f
          <5> QED
            BY <4>2, <5>2, <5>3 DEF Adds
        <4> QED
          BY <4>1, <4>2
      <3>2. f = [s \in SUBSET S |-> f[s]]
        OBVIOUS
      <3> HIDE DEF f
      <3>3. f = [s \in SUBSET S |-> Adds(bs, f, s)]
        BY <3>1, <3>2
      <3> QED
        BY <3>3 DEF Adding
    <2>3. ASSUME NEW f, Adding(bs, f, S)
          PROVE  f[S] = IF S = {} THEN 0
                        ELSE bs[First(S)].size + BytesOf(bs, S \ {First(S)})
      <3>1. \A s \in SUBSET S : f[s] = Adds(bs, f, s)
        BY <2>3 DEF Adding
      <3>2. CASE S = {}
        BY <3>1, <3>2 DEF Adds
      <3>3. CASE S # {}
        <4>1. PICK T : T = S \ {First(S)}
          OBVIOUS
        <4>2. T \in SUBSET S /\ T # S
          BY <3>3, <4>1, FirstIsRow
        <4>3. PICK h : h = [s \in SUBSET T |-> f[s]]
          OBVIOUS
        <4>4. ASSUME NEW s \in SUBSET T
              PROVE  h[s] = Adds(bs, h, s)
          <5>1. h[s] = Adds(bs, f, s) /\ s \ {First(s)} \in SUBSET T
            BY <3>1, <4>2, <4>3
          <5>2. h[s \ {First(s)}] = f[s \ {First(s)}]
            BY <4>3, <5>1
          <5> QED
            BY <5>1, <5>2 DEF Adds
        <4>5. Adding(bs, h, T)
          BY <4>3, <4>4 DEF Adding
        <4>6. h[T] = BytesOf(bs, T)
          BY <2>1, <4>2, <4>5
        <4>7. f[T] = BytesOf(bs, T)
          BY <4>3, <4>6
        <4> QED
          BY <3>1, <3>3, <4>1, <4>7 DEF Adds
      <3> QED
        BY <3>2, <3>3
    <2>4. PICK f : f = CHOOSE g : Adding(bs, g, S)
      OBVIOUS
    <2>5. Adding(bs, f, S)
      BY <2>2, <2>4
    <2>6. BytesOf(bs, S) = f[S]
      BY <2>4, BytesOfIs
    <2>7. Unfolds(S)
      BY <2>3, <2>5, <2>6
    <2>8. Only(S)
      BY <2>3, <2>7
    <2> QED
      BY <2>7, <2>8 DEF G
  <1>2. \A S \in SUBSET U : S \in G
    <2> HIDE DEF G
    <2> QED
      BY <1>1, SubsetInduction
  <1> QED
    BY <1>2

(* Bytes are numbers, and do not depend on the bodies of other rows. *)
LEMMA BytesTypes ==
  ASSUME NEW bs, NEW cs, NEW U, IsFiniteSet(U), \A b \in U : bs[b].size \in Nat /\ cs[b] = bs[b]
  PROVE  \A S \in SUBSET U : BytesOf(bs, S) \in Nat /\ BytesOf(cs, S) = BytesOf(bs, S)
  <1> DEFINE G == {S \in SUBSET U : BytesOf(bs, S) \in Nat /\ BytesOf(cs, S) = BytesOf(bs, S)}
  <1>1. ASSUME NEW S \in SUBSET U, \A T \in SUBSET S : T # S => T \in G
        PROVE  S \in G
    <2>1. /\ BytesOf(bs, S) = IF S = {} THEN 0
                              ELSE bs[First(S)].size + BytesOf(bs, S \ {First(S)})
          /\ BytesOf(cs, S) = IF S = {} THEN 0
                              ELSE cs[First(S)].size + BytesOf(cs, S \ {First(S)})
      BY BytesUnfold
    <2>2. CASE S = {}
      BY <2>1, <2>2
    <2>3. CASE S # {}
      <3>1. PICK T : T = S \ {First(S)}
        OBVIOUS
      <3>2. First(S) \in U /\ T \in SUBSET S /\ T # S
        BY <2>3, <3>1, FirstIsRow
      <3>3. BytesOf(bs, T) \in Nat /\ BytesOf(cs, T) = BytesOf(bs, T)
        BY <1>1, <3>2
      <3> QED
        BY <2>1, <2>3, <3>1, <3>2, <3>3
    <2> QED
      BY <2>2, <2>3
  <1>2. \A S \in SUBSET U : S \in G
    <2> HIDE DEF G
    <2> QED
      BY <1>1, SubsetInduction
  <1> QED
    BY <1>2

(* Any row can be counted first. *)
LEMMA BytesSplit ==
  ASSUME NEW bs, NEW U, IsFiniteSet(U), \A b \in U : bs[b].size \in Nat
  PROVE  \A S \in SUBSET U : \A b \in S :
           BytesOf(bs, S) = bs[b].size + BytesOf(bs, S \ {b})
  <1> DEFINE Splits(S) == \A b \in S : BytesOf(bs, S) = bs[b].size + BytesOf(bs, S \ {b})
             G == {S \in SUBSET U : Splits(S)}
  <1>0. \A S \in SUBSET U : BytesOf(bs, S) \in Nat
    BY BytesTypes
  <1>1. ASSUME NEW S \in SUBSET U, \A T \in SUBSET S : T # S => T \in G
        PROVE  S \in G
    <2>1. ASSUME NEW b \in S
          PROVE  BytesOf(bs, S) = bs[b].size + BytesOf(bs, S \ {b})
      <3>1. PICK c \in S : c = First(S)
        BY FirstIsRow
      <3>2. BytesOf(bs, S) = bs[c].size + BytesOf(bs, S \ {c})
        BY <3>1, BytesUnfold
      <3>3. CASE b = c
        BY <3>2, <3>3
      <3>4. CASE b # c
        <4>1. PICK A, B, R : A = S \ {b} /\ B = S \ {c} /\ R = (S \ {b}) \ {c}
          OBVIOUS
        <4>2. /\ A \in SUBSET S /\ A # S /\ c \in A /\ A \ {c} = R
              /\ B \in SUBSET S /\ B # S /\ b \in B /\ B \ {b} = R /\ R \in SUBSET S
          BY <3>4, <4>1
        <4>3. BytesOf(bs, A) = bs[c].size + BytesOf(bs, R)
          BY <1>1, <4>2
        <4>4. BytesOf(bs, B) = bs[b].size + BytesOf(bs, R)
          BY <1>1, <4>2
        <4>5. BytesOf(bs, R) \in Nat /\ bs[b].size \in Nat /\ bs[c].size \in Nat
          BY <1>0, <4>2
        <4> QED
          BY <3>2, <4>1, <4>3, <4>4, <4>5
      <3> QED
        BY <3>3, <3>4
    <2> QED
      BY <2>1
  <1>2. \A S \in SUBSET U : S \in G
    <2> HIDE DEF G
    <2> QED
      BY <1>1, SubsetInduction
  <1> QED
    BY <1>2

-----------------------------------------------------------------------------
(* The reserve.  What makes ReserveUsable inductive is that routine rows   *)
(* keep out of it.                                                         *)
PriorityOf(bs, rows) == {b \in rows : bs[b].priority}
ReserveKept == RoutineBytes <= HardCap - Reserve

(* The bytes of the outbox, of its priority rows and of its routine rows. *)
LEMMA RoutineIs ==
  /\ TotalBytes = BytesOf(batches, outbox)
  /\ PriorityBytes = BytesOf(batches, PriorityOf(batches, outbox))
  /\ RoutineBytes = BytesOf(batches, outbox) - BytesOf(batches, PriorityOf(batches, outbox))
  BY DEF TotalBytes, PriorityBytes, RoutineBytes, PriorityRows, PriorityOf, Bytes, BytesOf

LEMMA RoutineIsNext ==
  RoutineBytes' = BytesOf(batches', outbox') - BytesOf(batches', PriorityOf(batches', outbox'))
  <1>1. RoutineBytes = BytesOf(batches, outbox) - BytesOf(batches, PriorityOf(batches, outbox))
    BY RoutineIs
  <1>2. (RoutineBytes = BytesOf(batches, outbox) - BytesOf(batches, PriorityOf(batches, outbox)))'
    BY <1>1, PTL
  <1> QED
    BY <1>2

LEMMA BodySize == \A x \in Batch : x.size \in Nat /\ x.priority \in BOOLEAN
  <1>1. \A x \in Batch : x.size \in Sizes /\ x.priority \in BOOLEAN
    BY DEF Batch
  <1> QED
    BY <1>1, SizesAssumption

LEMMA BodyTypes ==
  ASSUME NEW bs \in Seq(Batch)
  PROVE  /\ IsFiniteSet(DOMAIN bs) /\ DOMAIN bs = 1..Len(bs) /\ Len(bs) \in Nat
         /\ \A b \in DOMAIN bs : bs[b].size \in Nat /\ bs[b].priority \in BOOLEAN
  <1>1. IsFiniteSet(1..Len(bs))
    BY FS_Interval
  <1>2. \A b \in DOMAIN bs : bs[b] \in Batch
    OBVIOUS
  <1>3. \A x \in Batch : x.size \in Nat /\ x.priority \in BOOLEAN
    BY BodySize
  <1> QED
    BY <1>1, <1>2, <1>3

(* A row that leaves takes its own bytes with it (mark_batch_acked). *)
LEMMA RowLeaves ==
  ASSUME TypeOK, NEW b \in outbox, outbox' = outbox \ {b}, UNCHANGED batches
  PROVE  RoutineBytes' <= RoutineBytes
  <1> DEFINE P == PriorityOf(batches, outbox)
  <1>1. /\ IsFiniteSet(DOMAIN batches) /\ outbox \in SUBSET DOMAIN batches
        /\ \A c \in DOMAIN batches : batches[c].size \in Nat
        /\ P \in SUBSET outbox /\ P \in SUBSET DOMAIN batches
    BY BodyTypes DEF TypeOK, PriorityOf
  <1>2. PriorityOf(batches', outbox') = P \ {b}
    BY DEF PriorityOf
  <1>3. BytesOf(batches, outbox) = batches[b].size + BytesOf(batches, outbox \ {b})
    BY <1>1, BytesSplit
  <1>4. \/ BytesOf(batches, P) = batches[b].size + BytesOf(batches, P \ {b})
        \/ P \ {b} = P
    BY <1>1, BytesSplit
  <1>5. /\ BytesOf(batches, outbox) \in Nat /\ BytesOf(batches, outbox \ {b}) \in Nat
        /\ BytesOf(batches, P) \in Nat /\ BytesOf(batches, P \ {b}) \in Nat
        /\ batches[b].size \in Nat
    <2>1. \A S \in SUBSET DOMAIN batches : BytesOf(batches, S) \in Nat
      BY <1>1, BytesTypes
    <2> QED
      BY <1>1, <2>1
  <1> HIDE DEF P
  <1>6. RoutineBytes' = BytesOf(batches, outbox \ {b}) - BytesOf(batches, P \ {b})
    BY <1>2, RoutineIsNext
  <1>7. RoutineBytes = BytesOf(batches, outbox) - BytesOf(batches, P)
    BY RoutineIs DEF P
  <1>8. CASE BytesOf(batches, P) = batches[b].size + BytesOf(batches, P \ {b})
    BY <1>3, <1>5, <1>6, <1>7, <1>8
  <1>9. CASE P \ {b} = P
    <2>1. BytesOf(batches, P \ {b}) = BytesOf(batches, P)
      BY <1>9
    <2> QED
      BY <1>3, <1>5, <1>6, <1>7, <2>1
  <1> QED
    BY <1>4, <1>8, <1>9

(* A row that is added counts as routine only if it is                     *)
(* (ensure_outbox_capacity_tx and the INSERT after it).                    *)
LEMMA RowAdded ==
  ASSUME TypeOK, NEW n, n = Len(batches) + 1, NEW x \in Batch,
         batches' = Append(batches, x), outbox' = outbox \union {n}
  PROVE  RoutineBytes' = RoutineBytes + (IF x.priority THEN 0 ELSE x.size)
  <1> DEFINE P == PriorityOf(batches, outbox)
             Q == PriorityOf(batches', outbox')
             U == DOMAIN batches'
  <1>1. batches \in Seq(Batch) /\ outbox \in SUBSET DOMAIN batches /\ P \in SUBSET DOMAIN batches
    BY DEF TypeOK, PriorityOf
  <1>2. /\ batches' \in Seq(Batch) /\ U = (DOMAIN batches) \union {n}
        /\ \A b \in DOMAIN batches : batches'[b] = batches[b]
        /\ batches'[n] = x
    BY <1>1, AppendBody
  <1>3. IsFiniteSet(U) /\ \A b \in U : batches'[b].size \in Nat
    BY <1>2, BodyTypes
  <1>4. IsFiniteSet(DOMAIN batches) /\ \A b \in DOMAIN batches : batches[b].size \in Nat
    BY <1>1, BodyTypes
  <1>5. n \notin DOMAIN batches /\ x.priority \in BOOLEAN /\ x.size \in Nat
    <2>1. DOMAIN batches = 1..Len(batches) /\ Len(batches) \in Nat
      BY <1>1
    <2> QED
      BY <2>1, BodySize
  <1>6. \A S \in SUBSET DOMAIN batches :
          BytesOf(batches, S) \in Nat /\ BytesOf(batches', S) = BytesOf(batches, S)
    <2>1. PICK cs : cs = batches'
      OBVIOUS
    <2>2. \A b \in DOMAIN batches : batches[b].size \in Nat /\ cs[b] = batches[b]
      BY <1>2, <1>4, <2>1
    <2>3. \A S \in SUBSET DOMAIN batches :
            BytesOf(batches, S) \in Nat /\ BytesOf(cs, S) = BytesOf(batches, S)
      BY <1>4, <2>2, BytesTypes
    <2> QED
      BY <2>1, <2>3
  <1>7. ASSUME NEW S \in SUBSET DOMAIN batches
        PROVE  BytesOf(batches', S \union {n}) = x.size + BytesOf(batches, S)
    <2>1. S \union {n} \in SUBSET U /\ (S \union {n}) \ {n} = S
      BY <1>2, <1>5
    <2>2. PICK cs, V, T : cs = batches' /\ V = U /\ T = S \union {n}
      OBVIOUS
    <2>3. BytesOf(cs, T) = cs[n].size + BytesOf(cs, T \ {n})
      <3>1. IsFiniteSet(V) /\ (\A b \in V : cs[b].size \in Nat) /\ T \in SUBSET V /\ n \in T
        BY <1>3, <2>1, <2>2
      <3>2. \A R \in SUBSET V : \A b \in R : BytesOf(cs, R) = cs[b].size + BytesOf(cs, R \ {b})
        BY <3>1, BytesSplit
      <3> QED
        BY <3>1, <3>2
    <2>4. BytesOf(batches', S \union {n}) = batches'[n].size + BytesOf(batches', S)
      BY <2>1, <2>2, <2>3
    <2> QED
      BY <1>2, <1>6, <2>4
  <1>8. Q = IF x.priority THEN P \union {n} ELSE P
    BY <1>1, <1>2, <1>5 DEF PriorityOf
  <1> HIDE DEF P, Q, U
  <1>9. RoutineBytes' = BytesOf(batches', outbox \union {n}) - BytesOf(batches', Q)
    BY RoutineIsNext DEF Q
  <1>10. RoutineBytes = BytesOf(batches, outbox) - BytesOf(batches, P)
    BY RoutineIs DEF P
  <1>11. BytesOf(batches', outbox \union {n}) = x.size + BytesOf(batches, outbox)
    BY <1>1, <1>7
  <1>12. BytesOf(batches', Q) = BytesOf(batches, P) + (IF x.priority THEN x.size ELSE 0)
    <2>1. CASE x.priority
      BY <1>1, <1>5, <1>6, <1>7, <1>8, <2>1
    <2>2. CASE ~x.priority
      BY <1>1, <1>6, <1>8, <2>2
    <2> QED
      BY <2>1, <2>2
  <1>13. BytesOf(batches, outbox) \in Nat /\ BytesOf(batches, P) \in Nat
    BY <1>1, <1>6
  <1> QED
    BY <1>5, <1>9, <1>10, <1>11, <1>12, <1>13

LEMMA EnqueueKeepsReserve ==
  ASSUME TypeOK, ReserveKept, NEW snap \in [Tasks -> 0..MaxBatches],
         NEW carried \in SUBSET Transitions, NEW priority \in BOOLEAN,
         EnqueueRecords(snap, carried, priority)
  PROVE  ReserveKept'
  <1>1. PICK size \in Sizes :
          /\ EnsureOutboxCapacity(size, priority)
          /\ batches' = Append(batches, [snap |-> snap, events |-> carried,
                                         size |-> size, priority |-> priority])
    BY DEF EnqueueRecords
  <1>2. PICK x : x = [snap |-> snap, events |-> carried, size |-> size, priority |-> priority]
    OBVIOUS
  <1>3. x \in Batch /\ x.size = size /\ x.priority = priority
    BY <1>2 DEF Batch
  <1>4. outbox' = outbox \union {Len(batches) + 1}
    BY DEF EnqueueRecords
  <1>5. RoutineBytes' = RoutineBytes + (IF priority THEN 0 ELSE size)
    BY <1>1, <1>2, <1>3, <1>4, RowAdded
  <1>6. RoutineBytes \in Int /\ HardCap \in Nat /\ Reserve \in Nat /\ size \in Nat
    <2>1. \A S \in SUBSET DOMAIN batches : BytesOf(batches, S) \in Nat
      BY BodyTypes, BytesTypes DEF TypeOK
    <2>2. outbox \in SUBSET DOMAIN batches /\ PriorityOf(batches, outbox) \in SUBSET DOMAIN batches
      BY DEF TypeOK, PriorityOf
    <2> QED
      BY <2>1, <2>2, RoutineIs, SizesAssumption
  <1>7. CASE priority
    BY <1>5, <1>6, <1>7 DEF ReserveKept
  <1>8. CASE ~priority
    BY <1>1, <1>5, <1>6, <1>8 DEF ReserveKept, EnsureOutboxCapacity
  <1> QED
    BY <1>7, <1>8

(* ensure_outbox_capacity_tx keeps the reserve free of routine batches,    *)
(* whatever is acknowledged, retried or refused: while the priority rows   *)
(* use less than it, a terminal, error, gap or heartbeat batch is          *)
(* accepted, for all sizes and caps.                                       *)
THEOREM ReserveAlwaysUsable == Spec => []ReserveUsable
  <1>1. Init => ReserveKept
    <2> SUFFICES ASSUME Init PROVE ReserveKept
      OBVIOUS
    <2>1. outbox = {} /\ PriorityOf(batches, outbox) = {}
      BY DEF Init, PriorityOf
    <2>2. BytesOf(batches, {}) = 0
      BY FS_EmptySet, BytesUnfold
    <2> QED
      BY <2>1, <2>2, RoutineIs, SizesAssumption DEF ReserveKept
  <1>2. ASSUME IndInv, ReserveKept, [Next]_vars
        PROVE  ReserveKept'
    <2>0. TypeOK
      BY <1>2 DEF IndInv
    <2>1. CASE UNCHANGED <<batches, outbox>>
      BY <1>2, <2>1, RoutineIs, RoutineIsNext DEF ReserveKept
    <2>2. ASSUME NEW b \in Ids, MarkBatchAcked(b)
          PROVE  ReserveKept'
      <3>1. outbox' = outbox \ {b} /\ UNCHANGED batches
        BY <2>2 DEF MarkBatchAcked
      <3>2. b \in outbox
        BY <1>2, <2>2 DEF IndInv, FlushHonest, MarkBatchAcked
      <3>3. RoutineBytes' <= RoutineBytes /\ RoutineBytes \in Int /\ RoutineBytes' \in Int
        <4>1. \A S \in SUBSET DOMAIN batches : BytesOf(batches, S) \in Nat
          BY <2>0, BodyTypes, BytesTypes DEF TypeOK
        <4>2. /\ outbox \in SUBSET DOMAIN batches /\ outbox' \in SUBSET DOMAIN batches
              /\ PriorityOf(batches, outbox) \in SUBSET DOMAIN batches
              /\ PriorityOf(batches', outbox') \in SUBSET DOMAIN batches
          BY <2>0, <3>1 DEF TypeOK, PriorityOf
        <4> QED
          BY <2>0, <3>1, <3>2, <4>1, <4>2, RowLeaves, RoutineIs, RoutineIsNext
      <3> QED
        BY <1>2, <3>3, SizesAssumption DEF ReserveKept
    <2>3. ASSUME NEW t \in Tasks, PersistTransition(t)
          PROVE  ReserveKept'
      <3> DEFINE next == active[t] + 1
                 snap == [u \in Tasks |-> IF u = t THEN next ELSE 0]
      <3>1. EnqueueRecords(snap, {<<t, next>>}, TRUE) /\ Len(batches) < MaxBatches
        BY <2>3 DEF PersistTransition, EnqueueRecords
      <3>2. next \in 1..MaxBatches
        <4>1. active[t] \in 0..Len(batches) /\ Len(batches) \in Nat
          BY <2>0 DEF TypeOK
        <4> QED
          BY <3>1, <4>1, BoundAssumption
      <3>3. snap \in [Tasks -> 0..MaxBatches] /\ {<<t, next>>} \in SUBSET Transitions
        BY <3>2, BoundAssumption DEF Transitions
      <3> HIDE DEF snap
      <3> QED
        BY <1>2, <2>0, <3>1, <3>3, EnqueueKeepsReserve
    <2>4. ASSUME NEW S \in SUBSET Tasks, PersistSession(S)
          PROVE  ReserveKept'
      <3> DEFINE snap == [u \in Tasks |-> IF u \in S THEN active[u] ELSE 0]
      <3>1. EnqueueRecords(snap, {}, FALSE)
        BY <2>4 DEF PersistSession
      <3>2. snap \in [Tasks -> 0..MaxBatches]
        <4>1. active \in [Tasks -> 0..Len(batches)] /\ Len(batches) \in Nat /\ Len(batches) <= MaxBatches
          BY <2>0 DEF TypeOK
        <4> QED
          BY <4>1, BoundAssumption
      <3> HIDE DEF snap
      <3> QED
        BY <1>2, <2>0, <3>1, <3>2, EnqueueKeepsReserve
    <2>5. ASSUME PersistHeartbeat
          PROVE  ReserveKept'
      <3> DEFINE snap == [u \in Tasks |-> 0]
      <3>1. EnqueueRecords(snap, {}, TRUE)
        BY <2>5 DEF PersistHeartbeat
      <3>2. snap \in [Tasks -> 0..MaxBatches]
        BY BoundAssumption
      <3> HIDE DEF snap
      <3> QED
        BY <1>2, <2>0, <3>1, <3>2, EnqueueKeepsReserve
    <2> QED
      BY <1>2, <2>1, <2>2, <2>3, <2>4, <2>5
      DEF Next, vars, clientVars, FlushOutboxOnce, MarkBatchRetry, BackoffElapsed, ClientRestart,
          ConnectionError, IngestSent, IngestLate
  <1>3. IndInv /\ ReserveKept => ReserveUsable
    <2> SUFFICES ASSUME IndInv, ReserveKept, NEW size \in Sizes, PriorityBytes + size <= Reserve
                 PROVE  EnsureOutboxCapacity(size, TRUE)
      BY DEF ReserveUsable
    <2>1. \A S \in SUBSET DOMAIN batches : BytesOf(batches, S) \in Nat
      BY BodyTypes, BytesTypes DEF IndInv, TypeOK
    <2>2. outbox \in SUBSET DOMAIN batches /\ PriorityOf(batches, outbox) \in SUBSET DOMAIN batches
      BY DEF IndInv, TypeOK, PriorityOf
    <2>3. TotalBytes \in Nat /\ PriorityBytes \in Nat /\ RoutineBytes = TotalBytes - PriorityBytes
      BY <2>1, <2>2, RoutineIs
    <2>4. HardCap \in Nat /\ Reserve \in Nat /\ size \in Nat
      BY SizesAssumption
    <2> QED
      BY <2>3, <2>4 DEF ReserveKept, EnsureOutboxCapacity
  <1> QED
    BY <1>1, <1>2, <1>3, Invariance, PTL DEF Spec
=============================================================================
