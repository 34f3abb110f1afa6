------------------------ MODULE CaptureIntake_proofs ------------------------
(***************************************************************************)
(* Proofs about the way into the capture lane, for any number of processes,*)
(* pids, connections and segments and any limits of the queues:            *)
(*                                                                         *)
(*   - a process that is reported as exited has ended, but for the four    *)
(*     mistakes of Mistaken (ExitsConfirmed);                              *)
(*   - the lane receives the segments of a connection in the order of      *)
(*     their capture, but for the two races of `raced' (SegmentsInOrder);  *)
(*   - the queues stay within their limits and the byte count of what      *)
(*     waits is exact (IntakeTyped).                                       *)
(***************************************************************************)
EXTENDS CaptureIntake, WellFoundedInduction, SequenceTheorems, TLAPS

-----------------------------------------------------------------------------
(* The types that both arguments need. *)

ProcessInput == [kind : {"observed", "exit"}, inst : Nat]
SegmentInput == [kind : {"segment"}, seg : Segment, inst : Nat]
Input == ProcessInput \union SegmentInput

MachineTypeOK ==
  /\ bound \in Bounds
  /\ procs \in Seq([pid : Pids, path : Paths \union {Deleted}])
  /\ alive \subseteq DOMAIN procs
  /\ threads \subseteq DOMAIN procs
  /\ captured \in [Flows -> 0..MaxSegments]
  /\ frames \in Seq(Segment)

DiscoveryTypeOK ==
  /\ index \in [Pids -> [inst : Nat, flows : SUBSET Flows]]
  /\ observed \in [Pids -> [inst : Nat, path : Paths \union {Deleted}]]
  /\ instances \in Seq(DOMAIN procs)
  /\ poll \in [pc : {"rest", "scan", "index", "send"}, todo : SUBSET Pids, pid : Pids \union {None},
               fresh : BOOLEAN, active : SUBSET Pids, events : Seq(ProcessInput)]
  /\ poll.pc = "index" => poll.pid \in poll.active
  /\ poll.pc = "send" => poll.events # <<>>

TapTypeOK ==
  /\ pending \in Seq(Segment)
  /\ tap \in [pc : {"rest", "find", "take", "read", "send"}, at : Nat,
              held : SegmentInput \union {NoInput}]
  /\ tap.pc \in {"find", "take"} => tap.at \in 1..Len(pending)
  /\ tap.pc = "send" => tap.held \in SegmentInput

LaneTypeOK ==
  /\ ring \in Seq([kind : {"exec", "exit"}, pid : Pids])
  /\ ebpf \in [pc : {"down", "up", "send"}, held : ProcessInput \union {NoInput}]
  /\ ebpf.pc = "send" => ebpf.held \in ProcessInput
  /\ chan \in Seq(Input)
  /\ last \in [Flows -> Nat]

IntakeTypes == MachineTypeOK /\ DiscoveryTypeOK /\ TapTypeOK /\ LaneTypeOK

-----------------------------------------------------------------------------
(* About sequences. *)

LEMMA SeqWider ==
  ASSUME NEW S, NEW T, S \subseteq T, NEW s \in Seq(S)
  PROVE  s \in Seq(T)
OBVIOUS

LEMMA TailOf ==
  ASSUME NEW S, NEW s \in Seq(S), s # <<>>
  PROVE  /\ Head(s) \in S /\ Head(s) = s[1] /\ 1 \in DOMAIN s
         /\ Tail(s) \in Seq(S)
         /\ \A k \in DOMAIN Tail(s) : k + 1 \in DOMAIN s /\ Tail(s)[k] = s[k + 1]
BY HeadTailProperties

LEMMA AppendOf ==
  ASSUME NEW S, NEW s \in Seq(S), NEW e \in S
  PROVE  /\ Append(s, e) \in Seq(S)
         /\ Append(s, e) # <<>>
         /\ DOMAIN s = 1..Len(s) /\ Len(s) \in Nat
         /\ DOMAIN Append(s, e) = 1..(Len(s) + 1)
         /\ \A k \in DOMAIN s : Append(s, e)[k] = s[k]
         /\ Append(s, e)[Len(s) + 1] = e
BY AppendProperties

(* A queue from which elements were taken out. *)
Thins(new, old) ==
  \E m \in [DOMAIN new -> DOMAIN old] :
    /\ \A k \in DOMAIN new : new[k] = old[m[k]]
    /\ \A j, k \in DOMAIN new : j < k => m[j] < m[k]

LEMMA SuffixThins ==
  ASSUME NEW S, NEW s \in Seq(S), NEW k \in 0..Len(s)
  PROVE  SubSeq(s, k + 1, Len(s)) \in Seq(S) /\ Thins(SubSeq(s, k + 1, Len(s)), s)
<1> DEFINE r == SubSeq(s, k + 1, Len(s))
<1>1. r \in Seq(S) /\ DOMAIN r = 1..(Len(s) - k) /\ \A j \in DOMAIN r : r[j] = s[k + j]
  BY SubSeqProperties
<1> DEFINE m == [j \in DOMAIN r |-> k + j]
<1>2. m \in [DOMAIN r -> DOMAIN s]
  BY <1>1
<1>3. \A i, j \in DOMAIN r : i < j => m[i] < m[j]
  BY <1>1
<1>4. \A j \in DOMAIN r : r[j] = s[m[j]]
  BY <1>1
<1> HIDE DEF m, r
<1>5. Thins(r, s)
  BY <1>2, <1>3, <1>4 DEF Thins
<1> QED
  BY <1>1, <1>5 DEF r

LEMMA RemoveAtThins ==
  ASSUME NEW S, NEW s \in Seq(S), NEW i \in 1..Len(s)
  PROVE  /\ RemoveAt(s, i) \in Seq(S) /\ Thins(RemoveAt(s, i), s)
         /\ \A k \in DOMAIN RemoveAt(s, i) :
              \/ k < i /\ k \in DOMAIN s /\ RemoveAt(s, i)[k] = s[k]
              \/ k + 1 > i /\ k + 1 \in DOMAIN s /\ RemoveAt(s, i)[k] = s[k + 1]
<1> DEFINE r == RemoveAt(s, i)
           a == SubSeq(s, 1, i - 1)
           b == SubSeq(s, i + 1, Len(s))
<1>1. /\ a \in Seq(S) /\ Len(a) = i - 1
      /\ \A k \in 1..(i - 1) : a[k] = s[k]
  BY SubSeqProperties
<1>2. /\ b \in Seq(S) /\ Len(b) = Len(s) - i
      /\ \A k \in 1..(Len(s) - i) : b[k] = s[i + k]
  BY SubSeqProperties
<1>3. /\ r \in Seq(S) /\ DOMAIN r = 1..(Len(s) - 1)
      /\ \A k \in DOMAIN r : r[k] = IF k < i THEN s[k] ELSE s[k + 1]
  <2>1. r = a \o b
    BY DEF RemoveAt
  <2> HIDE DEF r, a, b
  <2>2. /\ r \in Seq(S) /\ Len(r) = Len(a) + Len(b)
        /\ \A k \in 1..(Len(a) + Len(b)) : r[k] = IF k <= Len(a) THEN a[k] ELSE b[k - Len(a)]
    BY <1>1, <1>2, <2>1, ConcatProperties
  <2>3. /\ r \in Seq(S) /\ Len(r) = Len(s) - 1
        /\ \A k \in 1..Len(r) : r[k] = IF k <= i - 1 THEN a[k] ELSE b[k - (i - 1)]
    BY <1>1, <1>2, <2>2
  <2>4. ASSUME NEW k \in 1..Len(r)
        PROVE  r[k] = IF k < i THEN s[k] ELSE s[k + 1]
    <3>1. CASE k < i
      BY <1>1, <2>3, <3>1
    <3>2. CASE ~(k < i)
      <4>1. k - (i - 1) \in 1..(Len(s) - i) /\ i + (k - (i - 1)) = k + 1
        BY <2>3, <3>2
      <4> QED
        BY <1>2, <2>3, <3>2, <4>1
    <3> QED
      BY <3>1, <3>2
  <2> QED
    BY <2>3, <2>4
<1> HIDE DEF r
<1> DEFINE m == [k \in DOMAIN r |-> IF k < i THEN k ELSE k + 1]
<1>4. m \in [DOMAIN r -> DOMAIN s]
  BY <1>3
<1>5. \A j, k \in DOMAIN r : j < k => m[j] < m[k]
  BY <1>3
<1>6. \A k \in DOMAIN r : r[k] = s[m[k]]
  BY <1>3
<1> HIDE DEF m
<1>7. Thins(r, s)
  BY <1>4, <1>5, <1>6 DEF Thins
<1>8. ASSUME NEW k \in DOMAIN r
      PROVE  \/ k < i /\ k \in DOMAIN s /\ r[k] = s[k]
             \/ k + 1 > i /\ k + 1 \in DOMAIN s /\ r[k] = s[k + 1]
  <2>1. k \in 1..(Len(s) - 1) /\ DOMAIN s = 1..Len(s) /\ Len(s) \in Nat
    BY <1>3
  <2>2. r[k] = IF k < i THEN s[k] ELSE s[k + 1]
    BY <1>3
  <2>3. CASE k < i
    BY <2>1, <2>2, <2>3
  <2>4. CASE ~(k < i)
    BY <2>1, <2>2, <2>4
  <2> QED
    BY <2>3, <2>4
<1> QED
  BY <1>3, <1>7, <1>8 DEF r

(* A set of numbers has a least one. *)
LEMMA LeastNumber ==
  ASSUME NEW D, D \subseteq Nat, D # {}
  PROVE  \E d \in D : \A m \in D : d <= m
<1> DEFINE R == OpToRel(<, Nat)
<1>1. IsWellFoundedOn(R, Nat)
  BY NatLessThanWellFounded
<1>2. \A m, k \in Nat : m < k => <<m, k>> \in R
  BY DEF OpToRel
<1> HIDE DEF R
<1>3. PICK d \in D : \A m \in D : ~(<<m, d>> \in R)
  BY <1>1, WFMin
<1>4. ASSUME NEW m \in D
      PROVE  d <= m
  <2>1. m \in Nat /\ d \in Nat /\ ~(<<m, d>> \in R)
    BY <1>3
  <2>2. ~(m < d)
    BY <1>2, <2>1
  <2> QED
    BY <2>1, <2>2
<1> QED
  BY <1>4

(* push_pending drops from the front and adds at the end, if at all. *)
LEMMA PushedPending ==
  ASSUME pending \in Seq(Segment), NEW s \in Segment, PushPending(s)
  PROVE  \E k \in 0..Len(pending), added \in {<<>>, <<s>>} :
           pending' = SubSeq(pending, k + 1, Len(pending)) \o added
<1> DEFINE size == SegmentSize[s.flow]
           Good(k) == Fits(k, size) \/ k = Len(pending)
           D == {k \in 0..Len(pending) : Good(k)}
<1>1. D \subseteq Nat /\ Len(pending) \in D
  OBVIOUS
<1>2. PICK d \in D : \A m \in D : d <= m
  <2> HIDE DEF D
  <2> QED
    BY <1>1, LeastNumber
<1>3. \A j \in 0..(d - 1) : ~Fits(j, size)
  <2> SUFFICES ASSUME NEW j \in 0..(d - 1), Fits(j, size)
               PROVE  FALSE
    OBVIOUS
  <2>1. d \in 0..Len(pending) /\ j \in 0..Len(pending)
    OBVIOUS
  <2>2. j \in D
    BY <2>1
  <2>3. d <= j
    BY <1>2, <2>2
  <2> QED
    BY <2>1, <2>3
<1>4. \E k \in 0..Len(pending) : /\ Fits(k, size) \/ k = Len(pending)
                                /\ \A j \in 0..(k - 1) : ~Fits(j, size)
  BY <1>2, <1>3
<1> DEFINE c == CHOOSE k \in 0..Len(pending) : /\ Fits(k, size) \/ k = Len(pending)
                                              /\ \A j \in 0..(k - 1) : ~Fits(j, size)
<1>5. c \in 0..Len(pending)
  BY <1>4
<1>6. pending' = SubSeq(pending, c + 1, Len(pending))
                   \o (IF size <= MaxPendingBytes THEN <<s>> ELSE <<>>)
  BY DEF PushPending
<1> QED
  BY <1>5, <1>6

-----------------------------------------------------------------------------
(* The types are kept. *)

LEMMA ProcessTypes ==
  ASSUME IntakeTypes, NEW q \in DOMAIN procs
  PROVE  /\ procs[q] \in [pid : Pids, path : Paths \union {Deleted}]
         /\ procs[q].pid \in Pids /\ procs[q].path \in Paths \union {Deleted}
<1> DEFINE P == [pid : Pids, path : Paths \union {Deleted}]
<1>1. procs \in Seq(P)
  BY DEF IntakeTypes, MachineTypeOK
<1>2. procs[q] \in P
  <2> HIDE DEF P
  <2> QED
    BY <1>1
<1> QED
  BY <1>2

LEMMA MachineTypes ==
  ASSUME IntakeTypes, Machine
  PROVE  IntakeTypes'
<1> USE DEF IntakeTypes
<1> DEFINE P == [pid : Pids, path : Paths \union {Deleted}]
           Record == [kind : {"exec", "exit"}, pid : Pids]
<1>1. ASSUME NEW kind \in {"exec", "exit"}, NEW p \in Pids, Emit(kind, p)
      PROVE  ring' \in Seq(Record)
  <2>1. [kind |-> kind, pid |-> p] \in Record
    OBVIOUS
  <2>2. ring \in Seq(Record)
    BY DEF LaneTypeOK
  <2> HIDE DEF Record
  <2> QED
    BY <1>1, <2>1, <2>2, AppendOf DEF Emit
<1>2. ASSUME NEW q \in DOMAIN procs
      PROVE  procs[q].pid \in Pids /\ procs[q] \in P
  BY ProcessTypes
<1>3. ASSUME NEW p \in Pids, NEW path \in bound.paths, ProcessStarts(p, path)
      PROVE  IntakeTypes'
  <2>1. bound.paths \subseteq Paths
    BY IntakeAssumption DEF MachineTypeOK
  <2>2. [pid |-> p, path |-> path] \in P
    BY <2>1
  <2>3. procs \in Seq(P)
    BY DEF MachineTypeOK
  <2>4. procs' = Append(procs, [pid |-> p, path |-> path]) /\ alive' = alive \union {Len(procs) + 1}
    BY <1>3 DEF ProcessStarts
  <2> HIDE DEF P
  <2>5. /\ procs' \in Seq(P) /\ DOMAIN procs' = 1..(Len(procs) + 1)
        /\ DOMAIN procs \subseteq DOMAIN procs' /\ Len(procs) + 1 \in DOMAIN procs'
    BY <2>2, <2>3, <2>4, AppendOf
  <2> USE DEF P
  <2>6. MachineTypeOK'
    BY <1>3, <2>4, <2>5 DEF ProcessStarts, MachineTypeOK
  <2>7. instances' \in Seq(DOMAIN procs')
    BY <1>3, <2>5, SeqWider DEF ProcessStarts, discoveryVars, DiscoveryTypeOK
  <2>8. DiscoveryTypeOK' /\ TapTypeOK'
    BY <1>3, <2>7 DEF ProcessStarts, discoveryVars, tapVars, DiscoveryTypeOK, TapTypeOK
  <2>9. ring' \in Seq(Record)
    BY <1>1, <1>3 DEF ProcessStarts
  <2>10. LaneTypeOK'
    BY <1>3, <2>9 DEF ProcessStarts, laneVars, LaneTypeOK
  <2> QED
    BY <2>6, <2>8, <2>10
<1>4. ASSUME NEW q \in alive, ThreadExits(q) \/ ProcessDies(q)
      PROVE  IntakeTypes'
  <2>1. q \in DOMAIN procs
    BY DEF MachineTypeOK
  <2>2. ring' \in Seq(Record)
    BY <1>1, <1>2, <1>4, <2>1 DEF ThreadExits, ProcessDies
  <2>3. MachineTypeOK' /\ DiscoveryTypeOK' /\ TapTypeOK'
    BY <1>4, <2>1 DEF ThreadExits, ProcessDies, discoveryVars, tapVars, MachineTypeOK,
       DiscoveryTypeOK, TapTypeOK
  <2>4. LaneTypeOK'
    BY <1>4, <2>2 DEF ThreadExits, ProcessDies, laneVars, LaneTypeOK
  <2> QED
    BY <2>3, <2>4
<1>5. ASSUME NEW q \in alive, ExecutableReplaced(q)
      PROVE  IntakeTypes'
  <2>1. q \in DOMAIN procs /\ procs \in Seq(P)
    BY DEF MachineTypeOK
  <2>2. procs' = [procs EXCEPT ![q] = [@ EXCEPT !.path = Deleted]]
    BY <1>5 DEF ExecutableReplaced
  <2>3. [procs[q] EXCEPT !.path = Deleted] \in P
    BY <1>2, <2>1
  <2>4. procs' \in Seq(P) /\ DOMAIN procs' = DOMAIN procs
    <3> HIDE DEF P
    <3> QED
      BY <2>1, <2>2, <2>3
  <2>5. MachineTypeOK' /\ DiscoveryTypeOK' /\ TapTypeOK' /\ LaneTypeOK'
    BY <1>5, <2>4 DEF ExecutableReplaced, discoveryVars, tapVars, laneVars, MachineTypeOK,
       DiscoveryTypeOK, TapTypeOK, LaneTypeOK
  <2> QED
    BY <2>5
<1>6. ASSUME NEW f \in Flows, NEW q, Connect(f, q)
      PROVE  IntakeTypes'
  BY <1>6 DEF Connect, discoveryVars, tapVars, laneVars, MachineTypeOK, DiscoveryTypeOK,
     TapTypeOK, LaneTypeOK
<1>7. ASSUME NEW f \in Flows, PacketCaptured(f)
      PROVE  IntakeTypes'
  <2>1. captured[f] + 1 \in 1..MaxSegments
    BY <1>7, IntakeAssumption DEF PacketCaptured, MachineTypeOK
  <2>2. captured' \in [Flows -> 0..MaxSegments]
    <3>1. captured \in [Flows -> 0..MaxSegments] /\ captured' = [captured EXCEPT ![f] = @ + 1]
      BY <1>7 DEF PacketCaptured, MachineTypeOK
    <3>2. captured[f] + 1 \in 0..MaxSegments
      BY <2>1
    <3> QED
      BY <3>1, <3>2
  <2>3. [flow |-> f, n |-> captured[f] + 1] \in Segment
    BY <2>1 DEF Segment
  <2>4. frames' \in Seq(Segment)
    BY <1>7, <2>3, AppendOf DEF PacketCaptured, MachineTypeOK
  <2>5. MachineTypeOK' /\ DiscoveryTypeOK' /\ TapTypeOK' /\ LaneTypeOK'
    BY <1>7, <2>2, <2>4 DEF PacketCaptured, discoveryVars, tapVars, laneVars, MachineTypeOK,
       DiscoveryTypeOK, TapTypeOK, LaneTypeOK
  <2> QED
    BY <2>5
<1> QED
  BY <1>3, <1>4, <1>5, <1>6, <1>7 DEF Machine

(* What a step of discovery leaves alone. *)
LEMMA DiscoveryFrameTypes ==
  ASSUME IntakeTypes, UNCHANGED discoveryFrame
  PROVE  MachineTypeOK' /\ TapTypeOK'
BY DEF IntakeTypes, discoveryFrame, osVars, tapVars, MachineTypeOK, TapTypeOK

LEMMA DiscoveryTypes ==
  ASSUME IntakeTypes, Discovery
  PROVE  IntakeTypes'
<1> USE DEF IntakeTypes
<1> DEFINE PollType == [pc : {"rest", "scan", "index", "send"}, todo : SUBSET Pids,
                        pid : Pids \union {None}, fresh : BOOLEAN, active : SUBSET Pids,
                        events : Seq(ProcessInput)]
<1>1. UNCHANGED discoveryFrame
  BY DEF Discovery, PollStart, PollIndex, PollIndexFails, PollDone, PollSend, PollUnreadable,
     PollExisting, PollNew, PollStale
<1>2. MachineTypeOK' /\ TapTypeOK' /\ procs' = procs
  BY <1>1, DiscoveryFrameTypes DEF discoveryFrame, osVars
<1>3. ring' = ring /\ ebpf' = ebpf /\ last' = last
  BY <1>1 DEF discoveryFrame, laneVars
<1>4. ASSUME chan' = chan
      PROVE  LaneTypeOK'
  BY <1>3, <1>4 DEF LaneTypeOK
<1>5. poll \in PollType /\ poll.events \in Seq(ProcessInput) /\ Resting \in PollType
      /\ Resting.pc = "rest"
  BY DEF DiscoveryTypeOK, Resting
<1>6. CASE PollStart
  <2>1. {procs[q].pid : q \in alive} \in SUBSET Pids
    <3>1. alive \subseteq DOMAIN procs
      BY DEF MachineTypeOK
    <3>2. \A q \in alive : procs[q].pid \in Pids
      BY <3>1, ProcessTypes
    <3> QED
      BY <3>2
  <2>2. poll' \in PollType /\ poll'.pc = "scan"
    <3>1. PICK listed \in SUBSET {procs[q].pid : q \in alive} :
            poll' = [Resting EXCEPT !.pc = "scan", !.todo = listed]
      BY <1>6 DEF PollStart
    <3>2. listed \in SUBSET Pids
      BY <2>1
    <3> QED
      BY <1>5, <3>1, <3>2
  <2> QED
    BY <1>2, <1>4, <1>6, <2>2 DEF PollStart, DiscoveryTypeOK
<1>7. ASSUME NEW p \in Pids, PollUnreadable(p)
      PROVE  IntakeTypes'
  <2>1. poll' \in PollType /\ poll'.pc = "scan"
    BY <1>5, <1>7 DEF PollUnreadable
  <2> QED
    BY <1>2, <1>4, <1>7, <2>1 DEF PollUnreadable, DiscoveryTypeOK
<1>8. ASSUME NEW p \in Pids, PollExisting(p)
      PROVE  IntakeTypes'
  <2>1. poll' \in PollType /\ poll'.pc = "index" /\ poll'.pid = p /\ p \in poll'.active
    BY <1>5, <1>8 DEF PollExisting
  <2> QED
    BY <1>2, <1>4, <1>8, <2>1 DEF PollExisting, DiscoveryTypeOK
<1>9. ASSUME NEW p \in Pids, PollNew(p)
      PROVE  IntakeTypes'
  <2>1. poll' \in PollType /\ poll'.pc = "index" /\ poll'.pid = p /\ p \in poll'.active
    BY <1>5, <1>9 DEF PollNew
  <2>2. PICK q \in Running(p) :
          /\ instances' = Append(instances, q)
          /\ observed' = [observed EXCEPT ![p] = [inst |-> Len(instances) + 1, path |-> procs[q].path]]
    BY <1>9 DEF PollNew
  <2>3. q \in DOMAIN procs /\ procs[q].path \in Paths \union {Deleted}
    <3>1. q \in DOMAIN procs
      BY <2>2 DEF Running, MachineTypeOK
    <3> QED
      BY <3>1, ProcessTypes
  <2>4. instances' \in Seq(DOMAIN procs)
    BY <2>2, <2>3, AppendOf DEF DiscoveryTypeOK
  <2>5. observed' \in [Pids -> [inst : Nat, path : Paths \union {Deleted}]]
    BY <2>2, <2>3 DEF DiscoveryTypeOK
  <2> QED
    BY <1>2, <1>4, <1>9, <2>1, <2>4, <2>5 DEF PollNew, DiscoveryTypeOK
<1>10. CASE PollIndex
  <2>1. poll.pid \in Pids /\ observed[poll.pid].inst \in Nat
    BY <1>5, <1>10 DEF PollIndex, DiscoveryTypeOK
  <2>2. index' \in [Pids -> [inst : Nat, flows : SUBSET Flows]]
    BY <1>10, <2>1 DEF PollIndex, FlowsOf, DiscoveryTypeOK
  <2>3. ProcessObserved(observed[poll.pid].inst) \in ProcessInput
    BY <2>1 DEF ProcessObserved, ProcessInput
  <2>4. Append(poll.events, ProcessObserved(observed[poll.pid].inst)) \in Seq(ProcessInput)
    BY <1>5, <2>3, AppendOf
  <2>5. poll' \in PollType /\ poll'.pc = "scan"
    BY <1>5, <1>10, <2>4 DEF PollIndex
  <2> QED
    BY <1>2, <1>4, <1>10, <2>2, <2>5 DEF PollIndex, DiscoveryTypeOK
<1>11. CASE PollIndexFails
  <2>1. poll' \in PollType /\ poll'.pc = "scan"
    BY <1>5, <1>11 DEF PollIndexFails
  <2> QED
    BY <1>2, <1>4, <1>11, <2>1 DEF PollIndexFails, DiscoveryTypeOK
<1>12. ASSUME NEW p \in Pids, PollStale(p)
       PROVE  IntakeTypes'
  <2>1. observed[p].inst \in Nat /\ Unseen \in [inst : Nat, path : Paths \union {Deleted}]
        /\ Unknown \in [inst : Nat, flows : SUBSET Flows]
    BY DEF DiscoveryTypeOK, Unseen, Unknown, None
  <2>2. ProcessExit(observed[p].inst) \in ProcessInput
    BY <2>1 DEF ProcessExit, ProcessInput
  <2>3. Append(poll.events, ProcessExit(observed[p].inst)) \in Seq(ProcessInput)
    BY <1>5, <2>2, AppendOf
  <2>4. poll' \in PollType /\ poll'.pc = "scan"
    BY <1>5, <1>12, <2>3 DEF PollStale
  <2> QED
    BY <1>2, <1>4, <1>12, <2>1, <2>4 DEF PollStale, DiscoveryTypeOK
<1>13. CASE PollDone
  <2>1. poll' \in PollType /\ poll'.pc \in {"rest", "send"}
        /\ (poll'.pc = "send" => poll'.events # <<>>)
    BY <1>5, <1>13 DEF PollDone
  <2> QED
    BY <1>2, <1>4, <1>13, <2>1 DEF PollDone, DiscoveryTypeOK
<1>14. CASE PollSend
  <2>1. poll.events # <<>> /\ chan' = Append(chan, Head(poll.events))
    BY <1>14 DEF PollSend, Send, DiscoveryTypeOK
  <2>2. Head(poll.events) \in ProcessInput /\ Tail(poll.events) \in Seq(ProcessInput)
        /\ (Len(poll.events) # 1 => Tail(poll.events) # <<>>)
    <3>1. /\ Head(poll.events) \in ProcessInput /\ Tail(poll.events) \in Seq(ProcessInput)
          /\ Len(Tail(poll.events)) = Len(poll.events) - 1
      BY <1>5, <2>1, HeadTailProperties
    <3>2. Len(poll.events) # 1 => Len(Tail(poll.events)) # 0
      BY <1>5, <3>1
    <3>3. Len(<<>>) = 0
      OBVIOUS
    <3> QED
      BY <3>1, <3>2, <3>3
  <2>3. chan' \in Seq(Input)
    <3>1. Head(poll.events) \in Input /\ chan \in Seq(Input)
      BY <2>2 DEF Input, LaneTypeOK
    <3> QED
      BY <2>1, <3>1, AppendOf
  <2>4. poll' \in PollType /\ poll'.pc \in {"rest", "send"}
        /\ (poll'.pc = "send" => poll'.events # <<>>)
    BY <1>5, <1>14, <2>2 DEF PollSend
  <2>5. DiscoveryTypeOK'
    BY <1>2, <1>14, <2>4 DEF PollSend, DiscoveryTypeOK
  <2>6. LaneTypeOK'
    BY <1>3, <2>3 DEF LaneTypeOK
  <2> QED
    BY <1>2, <2>5, <2>6
<1> QED
  BY <1>6, <1>7, <1>8, <1>9, <1>10, <1>11, <1>12, <1>13, <1>14 DEF Discovery

(* What a step of the packet source leaves alone. *)
LEMMA TapFrameTypes ==
  ASSUME IntakeTypes, UNCHANGED tapFrame, frames' \in Seq(Segment), chan' \in Seq(Input)
  PROVE  MachineTypeOK' /\ DiscoveryTypeOK' /\ LaneTypeOK'
BY DEF IntakeTypes, tapFrame, discoveryVars, laneVars, MachineTypeOK, DiscoveryTypeOK, LaneTypeOK

(* A segment that matches is handed on with the instance it belongs to. *)
LEMMA HeldTypes ==
  ASSUME IntakeTypes, NEW s \in Segment, NEW i \in Matches(s)
  PROVE  Attributed(s, i) \in SegmentInput
<1>1. i \in Nat
  BY DEF Matches, IntakeTypes, DiscoveryTypeOK
<1> QED
  BY <1>1 DEF Attributed, SegmentInput

LEMMA LookAtTypes ==
  ASSUME IntakeTypes, NEW q \in Seq(Segment), NEW k \in Nat \ {0}
  PROVE  /\ LookAt(q, k) \in [pc : {"rest", "find", "take", "read", "send"}, at : Nat,
                              held : SegmentInput \union {NoInput}]
         /\ \/ LookAt(q, k).pc = "find" /\ LookAt(q, k).at = k /\ k \in 1..Len(q)
            \/ LookAt(q, k).pc = "read" /\ k \notin 1..Len(q)
<1> DEFINE TapType == [pc : {"rest", "find", "take", "read", "send"}, at : Nat,
                       held : SegmentInput \union {NoInput}]
<1>1. tap \in TapType /\ DOMAIN q = 1..Len(q)
  BY DEF IntakeTypes, TapTypeOK
<1>2. CASE k \in 1..Len(q)
  <2>1. LookAt(q, k) = [tap EXCEPT !.pc = "find", !.at = k]
    BY <1>1, <1>2 DEF LookAt
  <2> QED
    BY <1>1, <1>2, <2>1
<1>3. CASE k \notin 1..Len(q)
  <2>1. LookAt(q, k) = [tap EXCEPT !.pc = "read", !.at = 0]
    BY <1>1, <1>3 DEF LookAt
  <2>2. LookAt(q, k) \in TapType
    <3>1. LookAt(q, k) = [pc |-> "read", at |-> 0, held |-> tap.held]
      BY <1>1, <2>1
    <3> QED
      BY <1>1, <3>1
  <2>3. LookAt(q, k).pc = "read"
    BY <1>1, <2>1
  <2> QED
    BY <1>3, <2>2, <2>3
<1> QED
  BY <1>2, <1>3

LEMMA TapTypes ==
  ASSUME IntakeTypes, Tap
  PROVE  IntakeTypes'
<1> USE DEF IntakeTypes
<1> DEFINE TapType == [pc : {"rest", "find", "take", "read", "send"}, at : Nat,
                       held : SegmentInput \union {NoInput}]
<1>1. frames \in Seq(Segment) /\ pending \in Seq(Segment) /\ chan \in Seq(Input) /\ tap \in TapType
      /\ (tap.pc \in {"find", "take"} => tap.at \in DOMAIN pending /\ pending[tap.at] \in Segment)
  BY DEF MachineTypeOK, TapTypeOK, LaneTypeOK
<1>2. UNCHANGED tapFrame
  BY DEF Tap, ExpirePending, FindPending, TakePending, ReadFrame, RecvNothing, TapSend
<1>3. ASSUME NEW k \in 0..Len(pending), ExpirePending(k)
      PROVE  IntakeTypes'
  <2>1. pending' \in Seq(Segment)
    BY <1>1, <1>3, SuffixThins DEF ExpirePending
  <2>2. tap' = LookAt(pending', 1)
    BY <1>3 DEF ExpirePending
  <2>3. TapTypeOK'
    BY <2>1, <2>2, LookAtTypes DEF TapTypeOK
  <2> QED
    BY <1>1, <1>2, <1>3, <2>3, TapFrameTypes DEF ExpirePending
<1>4. CASE FindPending
  <2>1. TapTypeOK'
    <3>1. CASE tap' = LookAt(pending, tap.at + 1) /\ pending' = pending
      BY <1>1, <3>1, LookAtTypes DEF TapTypeOK
    <3>2. CASE tap' = [tap EXCEPT !.pc = "take"] /\ pending' = pending
      BY <1>4, <3>2 DEF FindPending, TapTypeOK
    <3> QED
      BY <1>4, <3>1, <3>2 DEF FindPending
  <2> QED
    BY <1>1, <1>2, <1>4, <2>1, TapFrameTypes DEF FindPending
<1>5. CASE TakePending
  <2>1. pending' \in Seq(Segment)
    BY <1>1, <1>5, RemoveAtThins DEF TakePending
  <2>2. CASE tap' = [tap EXCEPT !.pc = "read", !.at = 0]
    <3>1. tap' \in TapType /\ tap'.pc = "read"
      BY <1>1, <2>2
    <3>2. TapTypeOK'
      BY <2>1, <3>1 DEF TapTypeOK
    <3> QED
      BY <1>1, <1>2, <1>5, <3>2, TapFrameTypes DEF TakePending
  <2>3. ASSUME NEW i \in Matches(pending[tap.at]),
               tap' = [pc |-> "send", at |-> 0, held |-> Attributed(pending[tap.at], i)]
        PROVE  IntakeTypes'
    <3>1. Attributed(pending[tap.at], i) \in SegmentInput
      BY <1>1, <1>5, HeldTypes DEF TakePending
    <3>2. TapTypeOK'
      BY <2>1, <2>3, <3>1 DEF TapTypeOK
    <3> QED
      BY <1>1, <1>2, <1>5, <3>2, TapFrameTypes DEF TakePending
  <2> QED
    BY <1>5, <2>2, <2>3 DEF TakePending
<1>6. CASE ReadFrame
  <2>1. Head(frames) \in Segment /\ frames' \in Seq(Segment)
    BY <1>1, <1>6, TailOf DEF ReadFrame
  <2>2. ASSUME NEW i \in Matches(Head(frames)), UNCHANGED <<pending, pendingBytes>>,
               tap' = [pc |-> "send", at |-> 0, held |-> Attributed(Head(frames), i)]
        PROVE  TapTypeOK'
    <3>1. Attributed(Head(frames), i) \in SegmentInput
      BY <2>1, HeldTypes
    <3> QED
      BY <1>1, <2>2, <3>1 DEF TapTypeOK
  <2>3. ASSUME PushPending(Head(frames)), UNCHANGED tap
        PROVE  TapTypeOK'
    <3>1. PICK k \in 0..Len(pending), added \in {<<>>, <<Head(frames)>>} :
            pending' = SubSeq(pending, k + 1, Len(pending)) \o added
      BY <1>1, <2>1, <2>3, PushedPending
    <3>2. SubSeq(pending, k + 1, Len(pending)) \in Seq(Segment) /\ added \in Seq(Segment)
      <4>1. <<Head(frames)>> \in Seq(Segment)
        BY <2>1
      <4>2. SubSeq(pending, k + 1, Len(pending)) \in Seq(Segment)
        BY <1>1, SuffixThins
      <4>3. <<>> \in Seq(Segment)
        OBVIOUS
      <4>4. added \in Seq(Segment)
        BY <4>1, <4>3
      <4> QED
        BY <4>2, <4>4
    <3>3. pending' \in Seq(Segment)
      BY <3>1, <3>2, ConcatProperties
    <3> QED
      BY <1>6, <2>3, <3>3 DEF ReadFrame, TapTypeOK
  <2>4. TapTypeOK'
    BY <1>6, <2>2, <2>3 DEF ReadFrame
  <2> QED
    BY <1>1, <1>2, <1>6, <2>1, <2>4, TapFrameTypes DEF ReadFrame
<1>7. CASE RecvNothing
  <2>1. TapTypeOK'
    BY <1>7 DEF RecvNothing, TapTypeOK, AtRecv
  <2> QED
    BY <1>1, <1>2, <1>7, <2>1, TapFrameTypes DEF RecvNothing
<1>8. CASE TapSend
  <2>1. TapTypeOK'
    BY <1>8 DEF TapSend, TapTypeOK, AtRecv
  <2>2. tap.held \in Input
    BY <1>8 DEF TapSend, TapTypeOK, Input
  <2>3. chan' \in Seq(Input)
    BY <1>1, <1>8, <2>2, AppendOf DEF TapSend, Send
  <2> QED
    BY <1>1, <1>2, <1>8, <2>1, <2>3, TapFrameTypes DEF TapSend
<1> QED
  BY <1>3, <1>4, <1>5, <1>6, <1>7, <1>8 DEF Tap

LEMMA EbpfTypes ==
  ASSUME IntakeTypes, Ebpf
  PROVE  IntakeTypes'
<1> USE DEF IntakeTypes
<1> DEFINE Record == [kind : {"exec", "exit"}, pid : Pids]
<1>1. UNCHANGED ebpfFrame
  BY DEF Ebpf, EbpfStart, EbpfFails, EbpfNext, EbpfSend
<1>2. MachineTypeOK' /\ DiscoveryTypeOK' /\ TapTypeOK' /\ last' = last
  BY <1>1 DEF ebpfFrame, osVars, discoveryVars, tapVars, laneVars, MachineTypeOK,
     DiscoveryTypeOK, TapTypeOK
<1>3. CASE EbpfStart
  BY <1>2, <1>3 DEF EbpfStart, LaneTypeOK
<1>4. CASE EbpfFails
  BY <1>2, <1>4 DEF EbpfFails, Detached, LaneTypeOK
<1>5. CASE EbpfNext
  <2>1. ring \in Seq(Record) /\ ring # <<>> /\ ring' = Tail(ring) /\ chan' = chan
    BY <1>5 DEF EbpfNext, LaneTypeOK
  <2>2. Head(ring) \in Record /\ ring' \in Seq(Record)
    <3> HIDE DEF Record
    <3> QED
      BY <2>1, TailOf
  <2> DEFINE inst == index[Head(ring).pid].inst
             input == IF Head(ring).kind = "exec" THEN ProcessObserved(inst) ELSE ProcessExit(inst)
  <2>3. inst \in Nat
    BY <2>2 DEF DiscoveryTypeOK
  <2>4. input \in ProcessInput
    BY <2>3 DEF ProcessObserved, ProcessExit, ProcessInput
  <2>5. ebpf' = ebpf \/ ebpf' = [pc |-> "send", held |-> input]
    BY <1>5 DEF EbpfNext
  <2> HIDE DEF input
  <2>6. LaneTypeOK'
    BY <1>2, <2>1, <2>2, <2>4, <2>5 DEF LaneTypeOK
  <2> QED
    BY <1>2, <2>6
<1>6. CASE EbpfSend
  <2>1. ebpf.held \in Input
    BY <1>6 DEF EbpfSend, LaneTypeOK, Input
  <2>2. chan' \in Seq(Input)
    BY <1>6, <2>1, AppendOf DEF EbpfSend, Send, LaneTypeOK
  <2>3. LaneTypeOK'
    BY <1>2, <1>6, <2>2 DEF EbpfSend, LaneTypeOK
  <2> QED
    BY <1>2, <2>3
<1> QED
  BY <1>3, <1>4, <1>5, <1>6 DEF Ebpf

LEMMA LaneTypes ==
  ASSUME IntakeTypes, LaneReceives
  PROVE  IntakeTypes'
<1> USE DEF IntakeTypes
<1>1. MachineTypeOK' /\ DiscoveryTypeOK' /\ TapTypeOK'
  BY DEF LaneReceives, osVars, discoveryVars, tapVars, MachineTypeOK, DiscoveryTypeOK, TapTypeOK
<1>2. Head(chan) \in Input /\ chan' \in Seq(Input)
  BY TailOf DEF LaneReceives, LaneTypeOK
<1>3. last' \in [Flows -> Nat]
  <2>1. CASE Head(chan).kind = "segment" /\ last' = [last EXCEPT ![Head(chan).seg.flow] = Head(chan).seg.n]
    <3>1. Head(chan).seg \in Segment
      BY <1>2, <2>1 DEF Input, ProcessInput, SegmentInput
    <3>2. Head(chan).seg.n \in Nat
      BY <3>1, IntakeAssumption DEF Segment
    <3> QED
      BY <2>1, <3>2 DEF LaneTypeOK
  <2>2. CASE last' = last
    BY <2>2 DEF LaneTypeOK
  <2> QED
    BY <2>1, <2>2 DEF LaneReceives, laneVars
<1>4. LaneTypeOK'
  BY <1>2, <1>3 DEF LaneReceives, LaneTypeOK
<1> QED
  BY <1>1, <1>4

(* An input names an instance. *)
LEMMA InputTypes ==
  ASSUME IntakeTypes
  PROVE  /\ \A k \in DOMAIN poll.events : poll.events[k].inst \in Nat
         /\ ebpf.pc = "send" => ebpf.held.inst \in Nat
         /\ \A k \in DOMAIN chan : chan[k].inst \in Nat
<1>1. \A e \in Input : e.inst \in Nat
  BY DEF Input, ProcessInput, SegmentInput
<1>2. \A k \in DOMAIN poll.events : poll.events[k] \in ProcessInput
  BY DEF IntakeTypes, DiscoveryTypeOK
<1>3. \A k \in DOMAIN chan : chan[k] \in Input
  BY DEF IntakeTypes, LaneTypeOK
<1>4. ebpf.pc = "send" => ebpf.held \in ProcessInput
  BY DEF IntakeTypes, LaneTypeOK
<1> QED
  BY <1>1, <1>2, <1>3, <1>4 DEF Input

(* A record names a pid. *)
LEMMA RecordTypes ==
  ASSUME IntakeTypes
  PROVE  \A k \in DOMAIN ring : ring[k] \in [kind : {"exec", "exit"}, pid : Pids] /\ ring[k].pid \in Pids
<1> DEFINE Record == [kind : {"exec", "exit"}, pid : Pids]
<1>1. ring \in Seq(Record)
  BY DEF IntakeTypes, LaneTypeOK
<1>2. \A k \in DOMAIN ring : ring[k] \in Record
  <2> HIDE DEF Record
  <2> QED
    BY <1>1
<1> QED
  BY <1>2

LEMMA TypesKept ==
  ASSUME IntakeTypes, [Next]_vars
  PROVE  IntakeTypes'
<1>1. CASE UNCHANGED vars
  BY <1>1 DEF vars, osVars, discoveryVars, tapVars, laneVars, IntakeTypes, MachineTypeOK,
     DiscoveryTypeOK, TapTypeOK, LaneTypeOK
<1> QED
  BY <1>1, MachineTypes, DiscoveryTypes, TapTypes, EbpfTypes, LaneTypes DEF Next

LEMMA TypesInit == Init => IntakeTypes
<1> SUFFICES ASSUME Init
             PROVE  IntakeTypes
  OBVIOUS
<1>1. MachineTypeOK
  BY IntakeAssumption DEF Init, MachineTypeOK
<1>2. DiscoveryTypeOK
  BY DEF Init, DiscoveryTypeOK, Resting, Unknown, Unseen, None
<1>3. TapTypeOK
  BY DEF Init, TapTypeOK, AtRecv
<1>4. LaneTypeOK
  BY DEF Init, LaneTypeOK, Detached
<1> QED
  BY <1>1, <1>2, <1>3, <1>4 DEF IntakeTypes

-----------------------------------------------------------------------------
(* What makes a reported exit right. *)

(* The process of an instance has ended, or is mistaken for one that has. *)
EndedIn(i, ps, run, cut, unseen, insts) ==
  /\ i \in DOMAIN insts
  /\ insts[i] \in run =>
       \/ insts[i] \in cut
       \/ ps[insts[i]].path = Deleted
       \/ i \in unseen
       \/ \E r \in DOMAIN ps : r < insts[i] /\ ps[r].pid = ps[insts[i]].pid

Ended(i) == EndedIn(i, procs, alive, threads, unread, instances)

(* A pid belongs to the newest process that got it. *)
NewestRuns ==
  \A q \in alive, r \in DOMAIN procs : procs[r].pid = procs[q].pid => r <= q

(* Instance i is a process with pid p. *)
HasPidIn(i, p, ps, insts) == i \in DOMAIN insts /\ ps[insts[i]].pid = p

HasPid(i, p) == HasPidIn(i, p, procs, instances)

PidsMatch ==
  \A p \in Pids :
    /\ index[p].inst # None => HasPid(index[p].inst, p)
    /\ observed[p].inst # None => HasPid(observed[p].inst, p)

(* An exit record is of a process, or of one of its threads, that ended. *)
ExitIn(p, ps, run, cut) == \E q \in DOMAIN ps : ps[q].pid = p /\ (q \notin run \/ q \in cut)

ExitOf(p) == ExitIn(p, procs, alive, threads)

RecordsTrue == \A k \in DOMAIN ring : ring[k].kind = "exit" => ExitOf(ring[k].pid)

(* An observed pid that the poll has passed over has ended. *)
PassedOver ==
  poll.pc \in {"scan", "index"} =>
    \A p \in Pids :
      observed[p].inst # None /\ p \notin poll.active /\ p \notin poll.todo => Ended(observed[p].inst)

(* Every exit on its way to the lane. *)
ExitsTrue ==
  /\ \A k \in DOMAIN poll.events : poll.events[k].kind = "exit" => Ended(poll.events[k].inst)
  /\ ebpf.pc = "send" /\ ebpf.held.kind = "exit" => Ended(ebpf.held.inst)
  /\ \A k \in DOMAIN chan : chan[k].kind = "exit" => Ended(chan[k].inst)
  /\ \A i \in settled : Ended(i)

ExitInv == NewestRuns /\ PidsMatch /\ RecordsTrue /\ PassedOver /\ ExitsTrue

-----------------------------------------------------------------------------
(* What keeps segments in order. *)

(* Segments of flow f rise in a queue. *)
Rising(queue, f) ==
  \A j, k \in DOMAIN queue :
    j < k /\ queue[j].flow = f /\ queue[k].flow = f => queue[j].n < queue[k].n

(* What waits comes before what is still in the socket, and all of it was  *)
(* captured.                                                               *)
Ordered(f, queue, socket, count) ==
  /\ Rising(queue, f) /\ Rising(socket, f)
  /\ \A j \in DOMAIN queue, k \in DOMAIN socket :
       queue[j].flow = f /\ socket[k].flow = f => queue[j].n < socket[k].n
  /\ \A j \in DOMAIN queue : queue[j].flow = f => queue[j].n <= count[f]
  /\ \A k \in DOMAIN socket : socket[k].flow = f => socket[k].n <= count[f]

(* Segment n of flow f comes before everything that waits. *)
Ahead(f, n, queue, socket, count) ==
  /\ n <= count[f]
  /\ \A j \in DOMAIN queue : queue[j].flow = f => n < queue[j].n
  /\ \A k \in DOMAIN socket : socket[k].flow = f => n < socket[k].n

InFlow(input, f) == input.kind = "segment" /\ input.seg.flow = f

(* The channel has the segments of f in order, after the last received. *)
InOrder(f, inputs, seen) ==
  \A k \in DOMAIN inputs : InFlow(inputs[k], f) =>
    /\ seen[f] < inputs[k].seg.n
    /\ \A j \in DOMAIN inputs : j < k /\ InFlow(inputs[j], f) => inputs[j].seg.n < inputs[k].seg.n

Holds(f) == tap.pc = "send" /\ InFlow(tap.held, f)

(* Received, in the channel, held, waiting, in the socket: each comes      *)
(* before the next.                                                        *)
FlowInv(f) ==
  /\ Ordered(f, pending, frames, captured)
  /\ InOrder(f, chan, last)
  /\ Ahead(f, last[f], pending, frames, captured)
  /\ \A k \in DOMAIN chan : InFlow(chan[k], f) => Ahead(f, chan[k].seg.n, pending, frames, captured)
  /\ Holds(f) =>
       /\ Ahead(f, tap.held.seg.n, pending, frames, captured)
       /\ last[f] < tap.held.seg.n
       /\ \A k \in DOMAIN chan : InFlow(chan[k], f) => chan[k].seg.n < tap.held.seg.n

(* The segments that recv has passed in the queue, all of them once it     *)
(* reads, are of unknown connections.                                      *)
LookedUp ==
  tap.pc \in {"find", "take", "read"} =>
    \A j \in DOMAIN pending : tap.pc = "read" \/ j < tap.at =>
      \/ pending[j].flow \in raced
      \/ \A p \in Pids : pending[j].flow \notin index[p].flows

OrderInv ==
  /\ LookedUp
  /\ \A f \in Flows \ raced : FlowInv(f)
  /\ InOrderUnlessRaced

-----------------------------------------------------------------------------
(* Proof that exits are right. *)

(* Processes, their ends and instances are never forgotten: what was true  *)
(* of an exit, a pid or a record stays true.                               *)
Lasting ==
  /\ \A i \in Nat : EndedIn(i, procs, alive, threads, unread, instances)
                      => EndedIn(i, procs', alive', threads', unread', instances')
  /\ \A i \in Nat, p \in Pids : HasPidIn(i, p, procs, instances) => HasPidIn(i, p, procs', instances')
  /\ \A p \in Pids : ExitIn(p, procs, alive, threads) => ExitIn(p, procs', alive', threads')

LEMMA GrowthLasts ==
  ASSUME IntakeTypes,
         DOMAIN procs \subseteq DOMAIN procs',
         \A q \in DOMAIN procs : /\ procs'[q].pid = procs[q].pid
                                 /\ procs[q].path = Deleted => procs'[q].path = Deleted,
         alive' \cap DOMAIN procs \subseteq alive,
         threads \subseteq threads',
         unread \subseteq unread',
         DOMAIN instances \subseteq DOMAIN instances',
         \A i \in DOMAIN instances : instances'[i] = instances[i]
  PROVE  Lasting
<1>1. \A i \in DOMAIN instances : instances[i] \in DOMAIN procs
  BY DEF IntakeTypes, DiscoveryTypeOK
<1>2. ASSUME NEW i \in Nat, EndedIn(i, procs, alive, threads, unread, instances)
      PROVE  EndedIn(i, procs', alive', threads', unread', instances')
  <2>1. i \in DOMAIN instances /\ instances'[i] = instances[i] /\ instances[i] \in DOMAIN procs
    BY <1>1, <1>2 DEF EndedIn
  <2> QED
    BY <1>2, <2>1 DEF EndedIn
<1>3. \A i \in Nat, p \in Pids : HasPidIn(i, p, procs, instances) => HasPidIn(i, p, procs', instances')
  BY <1>1 DEF HasPidIn
<1>4. \A p \in Pids : ExitIn(p, procs, alive, threads) => ExitIn(p, procs', alive', threads')
  BY DEF ExitIn
<1> QED
  BY <1>2, <1>3, <1>4 DEF Lasting

(* Steps that leave the processes and the instances alone. *)
LEMMA QuietLasts ==
  ASSUME IntakeTypes, UNCHANGED <<procs, alive, threads, unread, instances>>
  PROVE  Lasting
BY DEF Lasting

LEMMA MachineExits ==
  ASSUME IntakeTypes, IntakeTypes', ExitInv, Machine
  PROVE  ExitInv'
<1> USE DEF ExitInv
<1>1. UNCHANGED <<index, observed, instances, poll, unread, ebpf, chan, settled>>
  BY DEF Machine, ProcessStarts, ThreadExits, ProcessDies, ExecutableReplaced, Connect,
     PacketCaptured, discoveryVars, failureVars, laneVars
<1>2. /\ DOMAIN procs = 1..Len(procs) /\ Len(procs) \in Nat
      /\ alive \subseteq DOMAIN procs
      /\ \A k \in DOMAIN ring : ring[k].pid \in Pids
  BY RecordTypes DEF IntakeTypes, MachineTypeOK
<1>3. ASSUME Lasting
      PROVE  PidsMatch' /\ PassedOver' /\ ExitsTrue'
  <2>1. /\ \A p \in Pids : index[p].inst \in Nat /\ observed[p].inst \in Nat
        /\ \A i \in Nat : EndedIn(i, procs, alive, threads, unread, instances)
                            => EndedIn(i, procs', alive', threads', unread', instances')
        /\ \A i \in Nat, p \in Pids : HasPidIn(i, p, procs, instances)
                                        => HasPidIn(i, p, procs', instances')
    BY <1>3 DEF Lasting, IntakeTypes, DiscoveryTypeOK
  <2>2. PidsMatch' /\ PassedOver'
    BY <1>1, <2>1 DEF PidsMatch, PassedOver, HasPid, Ended
  <2>3. /\ \A k \in DOMAIN poll.events : poll.events[k].inst \in Nat
        /\ ebpf.pc = "send" => ebpf.held.inst \in Nat
        /\ \A k \in DOMAIN chan : chan[k].inst \in Nat
    BY InputTypes
  <2>4. ExitsTrue'
    <3>1. \A i \in settled : i \in Nat
      BY DEF ExitsTrue, Ended, EndedIn, IntakeTypes, DiscoveryTypeOK
    <3> QED
      BY <1>1, <2>1, <2>3, <3>1 DEF ExitsTrue, Ended
  <2> QED
    BY <2>2, <2>4
<1>4. ASSUME NEW kind \in {"exec", "exit"}, NEW p \in Pids, Emit(kind, p), Lasting,
             kind = "exit" => ExitIn(p, procs', alive', threads')
      PROVE  RecordsTrue'
  <2> DEFINE e == [kind |-> kind, pid |-> p]
  <2>1. ring' = ring \/ ring' = Append(ring, e)
    BY <1>4 DEF Emit
  <2>2. /\ DOMAIN Append(ring, e) = 1..(Len(ring) + 1) /\ Len(ring) \in Nat
        /\ DOMAIN ring = 1..Len(ring)
        /\ \A k \in DOMAIN ring : Append(ring, e)[k] = ring[k]
        /\ Append(ring, e)[Len(ring) + 1] = e
    <3> DEFINE Record == [kind : {"exec", "exit"}, pid : Pids]
    <3>1. ring \in Seq(Record) /\ e \in Record
      BY DEF IntakeTypes, LaneTypeOK
    <3> HIDE DEF Record, e
    <3> QED
      BY <3>1, AppendOf
  <2>3. \A k \in DOMAIN ring : ring[k].kind = "exit" => ExitIn(ring[k].pid, procs', alive', threads')
    BY <1>2, <1>4 DEF Lasting, RecordsTrue, ExitOf
  <2>4. SUFFICES ASSUME NEW k \in DOMAIN ring', ring'[k].kind = "exit"
                 PROVE  ExitIn(ring'[k].pid, procs', alive', threads')
    BY DEF RecordsTrue, ExitOf
  <2>5. CASE ring' = ring
    BY <2>3, <2>4, <2>5
  <2>6. CASE ring' = Append(ring, e)
    <3>1. CASE k \in DOMAIN ring
      BY <2>2, <2>3, <2>4, <2>6, <3>1
    <3>2. CASE k = Len(ring) + 1
      BY <1>4, <2>2, <2>4, <2>6, <3>2
    <3> QED
      BY <2>2, <2>6, <3>1, <3>2
  <2> QED
    BY <2>1, <2>5, <2>6
<1>5. ASSUME NEW p \in Pids, NEW path \in bound.paths, ProcessStarts(p, path)
      PROVE  ExitInv'
  <2> DEFINE e == [pid |-> p, path |-> path]
             new == Len(procs) + 1
  <2>1. procs' = Append(procs, e) /\ alive' = alive \union {new} /\ threads' = threads
        /\ Emit("exec", p) /\ Running(p) = {}
    BY <1>5 DEF ProcessStarts
  <2>2. /\ DOMAIN procs' = 1..new /\ procs'[new] = e
        /\ \A q \in DOMAIN procs : procs'[q] = procs[q]
    BY <2>1, AppendOf DEF IntakeTypes, MachineTypeOK
  <2>3. Lasting
    BY <1>1, <1>2, <2>1, <2>2, GrowthLasts
  <2>4. NewestRuns'
    <3> SUFFICES ASSUME NEW q \in alive', NEW r \in DOMAIN procs', procs'[r].pid = procs'[q].pid
                 PROVE  r <= q
      BY DEF NewestRuns
    <3>1. CASE q = new
      BY <1>2, <2>2, <3>1
    <3>2. CASE q \in alive
      <4>1. procs[q].pid # p
        BY <2>1, <3>2 DEF Running
      <4>2. q \in DOMAIN procs /\ r # new /\ r \in DOMAIN procs
        BY <1>2, <2>2, <3>2, <4>1
      <4> QED
        BY <2>2, <3>2, <4>2 DEF NewestRuns
    <3> QED
      BY <2>1, <3>1, <3>2
  <2> QED
    BY <1>3, <1>4, <2>1, <2>3, <2>4
<1>6. ASSUME NEW q \in alive, ThreadExits(q)
      PROVE  ExitInv'
  <2>1. UNCHANGED <<procs, alive>> /\ threads' = threads \union {q} /\ Emit("exit", procs[q].pid)
    BY <1>6 DEF ThreadExits
  <2>2. Lasting
    BY <1>1, <2>1, GrowthLasts
  <2>3. procs[q].pid \in Pids
    BY <1>2, ProcessTypes
  <2>4. ExitIn(procs[q].pid, procs', alive', threads')
    BY <1>2, <2>1 DEF ExitIn
  <2>5. RecordsTrue'
    BY <1>4, <2>1, <2>2, <2>3, <2>4
  <2> QED
    BY <1>3, <2>1, <2>2, <2>5 DEF NewestRuns
<1>7. ASSUME NEW q \in alive, ProcessDies(q)
      PROVE  ExitInv'
  <2>1. UNCHANGED <<procs, threads>> /\ alive' = alive \ {q} /\ Emit("exit", procs[q].pid)
    BY <1>7 DEF ProcessDies
  <2>2. Lasting
    BY <1>1, <2>1, GrowthLasts
  <2>3. procs[q].pid \in Pids
    BY <1>2, ProcessTypes
  <2>4. ExitIn(procs[q].pid, procs', alive', threads')
    BY <1>2, <2>1 DEF ExitIn
  <2>5. RecordsTrue'
    BY <1>4, <2>1, <2>2, <2>3, <2>4
  <2> QED
    BY <1>3, <2>1, <2>2, <2>5 DEF NewestRuns
<1>8. ASSUME NEW q \in alive, ExecutableReplaced(q)
      PROVE  ExitInv'
  <2>1. procs' = [procs EXCEPT ![q] = [@ EXCEPT !.path = Deleted]] /\ UNCHANGED <<alive, threads, ring>>
    BY <1>8 DEF ExecutableReplaced
  <2>2. q \in DOMAIN procs /\ procs[q] \in [pid : Pids, path : Paths \union {Deleted}]
    BY <1>2, ProcessTypes
  <2>3. DOMAIN procs' = DOMAIN procs
        /\ \A r \in DOMAIN procs : /\ procs'[r].pid = procs[r].pid
                                   /\ procs[r].path = Deleted => procs'[r].path = Deleted
    BY <2>1, <2>2
  <2>4. Lasting
    BY <1>1, <2>1, <2>3, GrowthLasts
  <2>5. NewestRuns'
    BY <1>2, <2>1, <2>3 DEF NewestRuns
  <2>6. RecordsTrue'
    BY <1>2, <2>1, <2>4 DEF RecordsTrue, ExitOf, Lasting
  <2> QED
    BY <1>3, <2>4, <2>5, <2>6
<1>9. ASSUME NEW f \in Flows, NEW q, PacketCaptured(f) \/ Connect(f, q)
      PROVE  ExitInv'
  <2>1. UNCHANGED <<procs, alive, threads, ring>>
    BY <1>9 DEF PacketCaptured, Connect
  <2>2. Lasting
    BY <1>1, <2>1, QuietLasts
  <2> QED
    BY <1>3, <2>1, <2>2 DEF NewestRuns, RecordsTrue, ExitOf
<1> QED
  BY <1>5, <1>6, <1>7, <1>8, <1>9 DEF Machine

(* A sequence of inputs that gets one more keeps to what holds of each. *)
LEMMA ExitAppended ==
  ASSUME NEW S, NEW s \in Seq(S), NEW e \in S, NEW T,
         \A k \in DOMAIN s : s[k].kind = "exit" => s[k].inst \in T,
         e.kind = "exit" => e.inst \in T
  PROVE  \A k \in DOMAIN Append(s, e) :
           Append(s, e)[k].kind = "exit" => Append(s, e)[k].inst \in T
<1> SUFFICES ASSUME NEW k \in DOMAIN Append(s, e), Append(s, e)[k].kind = "exit"
             PROVE  Append(s, e)[k].inst \in T
  OBVIOUS
<1>1. CASE k \in DOMAIN s
  BY <1>1, AppendOf
<1>2. CASE k = Len(s) + 1
  BY <1>2, AppendOf
<1> QED
  BY <1>1, <1>2, AppendOf

LEMMA DiscoveryExits ==
  ASSUME IntakeTypes, IntakeTypes', ExitInv, Discovery
  PROVE  ExitInv'
<1> USE DEF ExitInv
<1>1. UNCHANGED <<procs, alive, threads, ring, ebpf, settled>>
  BY DEF Discovery, PollStart, PollIndex, PollIndexFails, PollDone, PollSend, PollUnreadable,
     PollExisting, PollNew, PollStale, discoveryFrame, osVars, laneVars
<1>0. unread \subseteq unread'
  BY DEF Discovery, PollStart, PollIndex, PollIndexFails, PollDone, PollSend, PollUnreadable,
     PollExisting, PollNew, PollStale, LookUpFails, failureVars
<1>2. NewestRuns' /\ RecordsTrue'
  BY <1>1 DEF NewestRuns, RecordsTrue, ExitOf
<1>3. /\ \A p \in Pids : index[p].inst \in Nat /\ observed[p].inst \in Nat
      /\ poll.events \in Seq(ProcessInput) /\ chan \in Seq(Input)
      /\ \A i \in settled : i \in Nat
  <2>1. \A i \in settled : i \in Nat
    BY DEF IntakeTypes, DiscoveryTypeOK, ExitsTrue, Ended, EndedIn
  <2>2. poll.events \in Seq(ProcessInput) /\ chan \in Seq(Input)
    BY DEF IntakeTypes, DiscoveryTypeOK, LaneTypeOK
  <2>3. \A p \in Pids : index[p].inst \in Nat /\ observed[p].inst \in Nat
    BY DEF IntakeTypes, DiscoveryTypeOK
  <2> QED
    BY <2>1, <2>2, <2>3
<1> DEFINE T == {i \in Nat : Ended(i)}
<1>4. /\ \A k \in DOMAIN poll.events : poll.events[k].kind = "exit" => poll.events[k].inst \in T
      /\ ebpf.pc = "send" /\ ebpf.held.kind = "exit" => ebpf.held.inst \in T
      /\ \A k \in DOMAIN chan : chan[k].kind = "exit" => chan[k].inst \in T
      /\ \A i \in settled : i \in T
  BY <1>3, InputTypes DEF ExitsTrue
<1>5. ASSUME UNCHANGED instances,
             \A k \in DOMAIN poll'.events : poll'.events[k].kind = "exit" => poll'.events[k].inst \in T,
             \A k \in DOMAIN chan' : chan'[k].kind = "exit" => chan'[k].inst \in T
      PROVE  ExitsTrue'
  <2>1. \A i \in T : EndedIn(i, procs', alive', threads', unread', instances')
    BY <1>0, <1>1, <1>5 DEF Ended, EndedIn
  <2> QED
    BY <1>1, <1>4, <1>5, <2>1 DEF ExitsTrue, Ended
<1>6. CASE PollStart
  <2>1. PICK listed \in SUBSET {procs[q].pid : q \in alive} :
          /\ poll' = [Resting EXCEPT !.pc = "scan", !.todo = listed]
          /\ \/ listed = {procs[q].pid : q \in alive}
             \/ LookUpFails({procs[q].pid : q \in alive} \ listed)
    BY <1>6 DEF PollStart
  <2>2. UNCHANGED <<index, observed, instances, chan>>
        /\ poll'.todo = listed /\ poll'.events = <<>>
    BY <1>6, <2>1 DEF PollStart, Resting
  <2>3. ASSUME NEW p \in Pids, observed[p].inst # None, p \notin listed
        PROVE  EndedIn(observed[p].inst, procs, alive, threads, unread', instances)
    <3> DEFINE i == observed[p].inst
    <3>1. i \in DOMAIN instances /\ procs[instances[i]].pid = p
      BY <2>3 DEF PidsMatch, HasPid, HasPidIn
    <3>2. ASSUME instances[i] \in alive
          PROVE  i \in unread'
      <4>1. p \in {procs[q].pid : q \in alive} \ listed
        BY <2>3, <3>1, <3>2
      <4>2. LookUpFails({procs[q].pid : q \in alive} \ listed)
        BY <2>1, <4>1
      <4> QED
        BY <2>3, <4>1, <4>2 DEF LookUpFails
    <3> QED
      BY <3>1, <3>2 DEF EndedIn
  <2>4. PassedOver'
    BY <1>1, <2>2, <2>3 DEF PassedOver, Ended
  <2>5. ExitsTrue'
    BY <1>4, <1>5, <2>2
  <2> QED
    BY <1>1, <1>2, <2>2, <2>4, <2>5 DEF PidsMatch, HasPid
<1>7. ASSUME NEW p \in Pids, PollUnreadable(p)
      PROVE  ExitInv'
  <2>1. UNCHANGED <<index, observed, instances, chan>> /\ poll.pc = "scan"
        /\ poll'.todo = poll.todo \ {p} /\ poll'.events = poll.events
        /\ poll'.active = poll.active /\ poll'.pc = "scan"
    BY <1>7 DEF PollUnreadable, IntakeTypes, DiscoveryTypeOK
  <2>2. ASSUME observed[p].inst # None
        PROVE  EndedIn(observed[p].inst, procs, alive, threads, unread', instances)
    <3> DEFINE i == observed[p].inst
    <3>1. i \in DOMAIN instances /\ procs[instances[i]].pid = p
      BY <2>2 DEF PidsMatch, HasPid, HasPidIn
    <3>2. ASSUME instances[i] \in alive
          PROVE  procs[instances[i]].path = Deleted \/ i \in unread'
      <4>1. CASE ExeOf(p) \subseteq {Deleted}
        BY <3>1, <3>2, <4>1 DEF ExeOf, Running
      <4>2. CASE LookUpFails({p})
        BY <2>2, <4>2 DEF LookUpFails
      <4> QED
        BY <1>7, <4>1, <4>2 DEF PollUnreadable
    <3> QED
      BY <3>1, <3>2 DEF EndedIn
  <2>3. ASSUME NEW r \in Pids, observed[r].inst # None, Ended(observed[r].inst)
        PROVE  EndedIn(observed[r].inst, procs, alive, threads, unread', instances)
    BY <1>0, <2>3 DEF Ended, EndedIn
  <2>4. PassedOver'
    BY <1>1, <2>1, <2>2, <2>3 DEF PassedOver, Ended
  <2>5. ExitsTrue'
    BY <1>4, <1>5, <2>1
  <2> QED
    BY <1>1, <1>2, <2>1, <2>4, <2>5 DEF PidsMatch, HasPid
<1>8. ASSUME NEW p \in Pids, PollExisting(p)
      PROVE  ExitInv'
  <2>1. UNCHANGED <<index, observed, instances, unread, chan>> /\ poll.pc = "scan"
        /\ poll'.todo = poll.todo \ {p} /\ poll'.events = poll.events
        /\ poll'.active = poll.active \union {p}
    BY <1>8 DEF PollExisting, failureVars, IntakeTypes, DiscoveryTypeOK
  <2>2. PassedOver'
    BY <1>1, <2>1 DEF PassedOver, Ended
  <2>3. ExitsTrue'
    BY <1>4, <1>5, <2>1
  <2> QED
    BY <1>1, <1>2, <2>1, <2>2, <2>3 DEF PidsMatch, HasPid
<1>9. ASSUME NEW p \in Pids, PollNew(p)
      PROVE  ExitInv'
  <2>1. PICK q \in Running(p) :
          /\ instances' = Append(instances, q)
          /\ observed' = [observed EXCEPT ![p] = [inst |-> Len(instances) + 1, path |-> procs[q].path]]
    BY <1>9 DEF PollNew
  <2>2. UNCHANGED <<index, chan>> /\ poll.pc = "scan"
        /\ poll'.todo = poll.todo \ {p} /\ poll'.events = poll.events
        /\ poll'.active = poll.active \union {p}
    BY <1>9 DEF PollNew, IntakeTypes, DiscoveryTypeOK
  <2>3. q \in alive /\ q \in DOMAIN procs /\ procs[q].pid = p
    BY <2>1 DEF Running, IntakeTypes, MachineTypeOK
  <2>4. /\ DOMAIN instances = 1..Len(instances) /\ Len(instances) \in Nat
        /\ DOMAIN instances' = 1..(Len(instances) + 1) /\ instances'[Len(instances) + 1] = q
        /\ \A i \in DOMAIN instances : instances'[i] = instances[i]
    BY <2>1, <2>3, AppendOf DEF IntakeTypes, DiscoveryTypeOK
  <2>5. Lasting
    BY <1>0, <1>1, <2>4, GrowthLasts
  <2>6. /\ observed'[p].inst = Len(instances) + 1
        /\ \A r \in Pids \ {p} : observed'[r] = observed[r]
    BY <2>1 DEF IntakeTypes, DiscoveryTypeOK
  <2>7. PidsMatch'
    <3>1. HasPidIn(Len(instances) + 1, p, procs', instances')
      BY <1>1, <2>3, <2>4 DEF HasPidIn
    <3> QED
      BY <1>3, <2>2, <2>5, <2>6, <3>1 DEF PidsMatch, HasPid, Lasting
  <2>8. PassedOver'
    BY <1>3, <2>2, <2>5, <2>6 DEF PassedOver, Ended, Lasting
  <2>9. ExitsTrue'
    <3>1. \A i \in T : EndedIn(i, procs', alive', threads', unread', instances')
      BY <2>5 DEF Lasting, Ended
    <3> QED
      BY <1>1, <1>4, <2>2, <3>1 DEF ExitsTrue, Ended
  <2> QED
    BY <1>2, <2>7, <2>8, <2>9
<1>10. CASE PollIndex
  <2>1. poll.pid \in Pids /\ poll.pc = "index" /\ UNCHANGED <<observed, instances, unread, chan>>
    BY <1>10 DEF PollIndex, failureVars, IntakeTypes, DiscoveryTypeOK
  <2>2. /\ index'[poll.pid].inst = observed[poll.pid].inst
        /\ \A p \in Pids \ {poll.pid} : index'[p] = index[p]
    BY <1>10, <2>1 DEF PollIndex, IntakeTypes, DiscoveryTypeOK
  <2>3. PidsMatch'
    BY <1>1, <2>1, <2>2 DEF PidsMatch, HasPid
  <2> DEFINE e == ProcessObserved(observed[poll.pid].inst)
  <2>4. /\ poll'.todo = poll.todo /\ poll'.active = poll.active
        /\ poll'.events = poll.events \/ poll'.events = Append(poll.events, e)
    BY <1>10 DEF PollIndex, IntakeTypes, DiscoveryTypeOK
  <2>5. PassedOver'
    BY <1>1, <2>1, <2>4 DEF PassedOver, Ended
  <2>6. e \in ProcessInput /\ e.kind # "exit"
    BY <1>3, <2>1 DEF ProcessObserved, ProcessInput
  <2>7. \A k \in DOMAIN poll'.events : poll'.events[k].kind = "exit" => poll'.events[k].inst \in T
    <3> HIDE DEF e, T
    <3> QED
      BY <1>3, <1>4, <2>4, <2>6, ExitAppended
  <2>8. ExitsTrue'
    BY <1>4, <1>5, <2>1, <2>7
  <2> QED
    BY <1>2, <2>3, <2>5, <2>8
<1>11. CASE PollIndexFails
  <2>1. UNCHANGED <<index, observed, instances, unread, chan>> /\ poll.pc = "index"
        /\ poll'.todo = poll.todo /\ poll'.events = poll.events /\ poll'.active = poll.active
    BY <1>11 DEF PollIndexFails, failureVars, IntakeTypes, DiscoveryTypeOK
  <2>2. PassedOver'
    BY <1>1, <2>1 DEF PassedOver, Ended
  <2>3. ExitsTrue'
    BY <1>4, <1>5, <2>1
  <2> QED
    BY <1>1, <1>2, <2>1, <2>2, <2>3 DEF PidsMatch, HasPid
<1>12. ASSUME NEW p \in Pids, PollStale(p)
       PROVE  ExitInv'
  <2> DEFINE e == ProcessExit(observed[p].inst)
  <2>1. UNCHANGED <<instances, unread, chan>> /\ poll.pc = "scan" /\ poll.todo = {}
        /\ observed[p].inst # None /\ p \notin poll.active
        /\ poll'.events = Append(poll.events, e)
        /\ poll'.todo = poll.todo /\ poll'.active = poll.active
    BY <1>12 DEF PollStale, Stale, failureVars, IntakeTypes, DiscoveryTypeOK
  <2>2. /\ observed'[p].inst = None /\ index'[p].inst = None
        /\ \A r \in Pids \ {p} : observed'[r] = observed[r] /\ index'[r] = index[r]
    BY <1>12 DEF PollStale, Unseen, Unknown, IntakeTypes, DiscoveryTypeOK
  <2>3. PidsMatch'
    BY <1>1, <2>1, <2>2 DEF PidsMatch, HasPid
  <2>4. PassedOver'
    BY <1>1, <2>1, <2>2 DEF PassedOver, Ended
  <2>5. observed[p].inst \in T
    BY <1>3, <2>1 DEF PassedOver
  <2>6. e \in ProcessInput /\ e.inst \in T
    BY <1>3, <2>5 DEF ProcessExit, ProcessInput
  <2>7. \A k \in DOMAIN poll'.events : poll'.events[k].kind = "exit" => poll'.events[k].inst \in T
    <3> HIDE DEF e, T
    <3> QED
      BY <1>3, <1>4, <2>1, <2>6, ExitAppended
  <2>8. ExitsTrue'
    BY <1>4, <1>5, <2>1, <2>7
  <2> QED
    BY <1>2, <2>3, <2>4, <2>8
<1>13. CASE PollDone
  <2>1. UNCHANGED <<index, observed, instances, chan>> /\ poll'.pc \in {"rest", "send"}
        /\ (poll'.events = poll.events \/ poll'.events = <<>>)
    BY <1>13 DEF PollDone, Resting
  <2>2. PassedOver'
    BY <2>1 DEF PassedOver
  <2>3. ExitsTrue'
    BY <1>4, <1>5, <2>1
  <2> QED
    BY <1>1, <1>2, <2>1, <2>2, <2>3 DEF PidsMatch, HasPid
<1>14. CASE PollSend
  <2>1. UNCHANGED <<index, observed, instances>> /\ poll.pc = "send" /\ poll.events # <<>>
        /\ chan' = Append(chan, Head(poll.events)) /\ poll'.pc \in {"rest", "send"}
        /\ (poll'.events = <<>> \/ poll'.events = Tail(poll.events))
    BY <1>14 DEF PollSend, Send, Resting, IntakeTypes, DiscoveryTypeOK
  <2>2. PassedOver'
    BY <2>1 DEF PassedOver
  <2>3. /\ Head(poll.events) \in Input
        /\ Head(poll.events).kind = "exit" => Head(poll.events).inst \in T
        /\ \A k \in DOMAIN poll'.events : poll'.events[k].kind = "exit" => poll'.events[k].inst \in T
    <3> HIDE DEF T
    <3>1. /\ Head(poll.events) \in ProcessInput /\ Head(poll.events) = poll.events[1]
          /\ 1 \in DOMAIN poll.events
          /\ \A k \in DOMAIN Tail(poll.events) :
               k + 1 \in DOMAIN poll.events /\ Tail(poll.events)[k] = poll.events[k + 1]
      BY <1>3, <2>1, TailOf
    <3>2. \A k \in DOMAIN poll'.events : poll'.events[k].kind = "exit" => poll'.events[k].inst \in T
      <4>1. CASE poll'.events = Tail(poll.events)
        BY <1>4, <3>1, <4>1
      <4>2. CASE poll'.events = <<>>
        BY <4>2
      <4> QED
        BY <2>1, <4>1, <4>2
    <3> QED
      BY <1>4, <3>1, <3>2 DEF Input
  <2>4. \A k \in DOMAIN chan' : chan'[k].kind = "exit" => chan'[k].inst \in T
    <3> HIDE DEF T
    <3> QED
      BY <1>3, <1>4, <2>1, <2>3, ExitAppended
  <2>5. ExitsTrue'
    BY <1>5, <2>1, <2>3, <2>4
  <2> QED
    BY <1>1, <1>2, <2>1, <2>2, <2>5 DEF PidsMatch, HasPid
<1> QED
  BY <1>6, <1>7, <1>8, <1>9, <1>10, <1>11, <1>12, <1>13, <1>14 DEF Discovery

(* The other tasks do not touch processes, instances or polls. *)
LEMMA QuietExits ==
  ASSUME IntakeTypes, ExitInv, Tap \/ Ebpf \/ LaneReceives
  PROVE  /\ UNCHANGED <<procs, alive, threads, unread, instances, poll>>
         /\ NewestRuns' /\ PidsMatch' /\ PassedOver'
<1>1. UNCHANGED <<procs, alive, threads, unread, index, observed, instances, poll>>
  BY DEF Tap, ExpirePending, FindPending, TakePending, ReadFrame, RecvNothing, TapSend, tapFrame,
     Ebpf, EbpfStart, EbpfFails, EbpfNext, EbpfSend, ebpfFrame, LaneReceives, osVars, discoveryVars,
     failureVars
<1> QED
  BY <1>1 DEF ExitInv, NewestRuns, PidsMatch, PassedOver, HasPid, Ended

LEMMA OtherExits ==
  ASSUME IntakeTypes, IntakeTypes', ExitInv, Tap \/ Ebpf \/ LaneReceives
  PROVE  ExitInv'
<1> USE DEF ExitInv
<1>1. UNCHANGED <<procs, alive, threads, unread, instances, poll>> /\ NewestRuns' /\ PidsMatch' /\ PassedOver'
  BY QuietExits
<1>2. chan \in Seq(Input) /\ \A i \in settled : i \in Nat
  BY DEF IntakeTypes, LaneTypeOK, DiscoveryTypeOK, ExitsTrue, Ended, EndedIn
<1> DEFINE T == {i \in Nat : Ended(i)}
<1>3. /\ \A k \in DOMAIN poll.events : poll.events[k].kind = "exit" => poll.events[k].inst \in T
      /\ ebpf.pc = "send" /\ ebpf.held.kind = "exit" => ebpf.held.inst \in T
      /\ \A k \in DOMAIN chan : chan[k].kind = "exit" => chan[k].inst \in T
      /\ \A i \in settled : i \in T
  BY <1>2, InputTypes DEF ExitsTrue
<1>4. ASSUME RecordsTrue',
             ebpf'.pc = "send" /\ ebpf'.held.kind = "exit" => ebpf'.held.inst \in T,
             \A k \in DOMAIN chan' : chan'[k].kind = "exit" => chan'[k].inst \in T,
             \A i \in settled' : i \in T
      PROVE  ExitInv'
  <2>1. \A i \in T : EndedIn(i, procs', alive', threads', unread', instances')
    BY <1>1 DEF Ended
  <2>2. ExitsTrue'
    BY <1>1, <1>3, <1>4, <2>1 DEF ExitsTrue, Ended
  <2> QED
    BY <1>1, <1>4, <2>2
<1>5. ASSUME ring' = ring
      PROVE  RecordsTrue'
  BY <1>1, <1>5 DEF RecordsTrue, ExitOf
<1>6. CASE Tap
  <2>1. UNCHANGED <<ring, ebpf, settled>>
    BY <1>6 DEF Tap, ExpirePending, FindPending, TakePending, ReadFrame, RecvNothing, TapSend,
       tapFrame, laneVars
  <2>2. \A k \in DOMAIN chan' : chan'[k].kind = "exit" => chan'[k].inst \in T
    <3>1. CASE TapSend
      <4>1. tap.held \in Input /\ tap.held.kind = "segment" /\ chan' = Append(chan, tap.held)
        BY <3>1 DEF TapSend, Send, IntakeTypes, TapTypeOK, Input, SegmentInput
      <4> HIDE DEF T
      <4> QED
        BY <1>2, <1>3, <4>1, ExitAppended
    <3>2. CASE ~TapSend
      <4>1. chan' = chan
        BY <1>6, <3>2 DEF Tap, ExpirePending, FindPending, TakePending, ReadFrame, RecvNothing
      <4> QED
        BY <1>3, <4>1
    <3> QED
      BY <3>1, <3>2
  <2> QED
    BY <1>3, <1>4, <1>5, <2>1, <2>2
<1>7. CASE EbpfStart
  BY <1>3, <1>4, <1>5, <1>7 DEF EbpfStart, ebpfFrame, laneVars, IntakeTypes, LaneTypeOK
<1>8. CASE EbpfFails
  <2>1. RecordsTrue'
    BY <1>8 DEF EbpfFails, RecordsTrue
  <2> QED
    BY <1>3, <1>4, <1>8, <2>1 DEF EbpfFails, ebpfFrame, laneVars, Detached
<1>9. CASE EbpfNext
  <2>1. UNCHANGED <<chan, settled>> /\ ring # <<>> /\ ring' = Tail(ring) /\ ebpf.pc = "up"
    BY <1>9 DEF EbpfNext, ebpfFrame, laneVars
  <2>2. /\ Head(ring) = ring[1] /\ 1 \in DOMAIN ring
        /\ \A k \in DOMAIN Tail(ring) : k + 1 \in DOMAIN ring /\ Tail(ring)[k] = ring[k + 1]
    <3> DEFINE Record == [kind : {"exec", "exit"}, pid : Pids]
    <3>1. ring \in Seq(Record)
      BY DEF IntakeTypes, LaneTypeOK
    <3> HIDE DEF Record
    <3> QED
      BY <2>1, <3>1, TailOf
  <2>3. RecordsTrue'
    BY <1>1, <2>1, <2>2 DEF RecordsTrue, ExitOf
  <2> DEFINE p == ring[1].pid
             inst == index[p].inst
  <2>4. ASSUME ring[1].kind = "exit", inst # None
        PROVE  inst \in T
    <3>1. p \in Pids /\ ring[1].kind = "exit"
      BY <2>2, <2>4, RecordTypes
    <3>2. inst \in DOMAIN instances /\ procs[instances[inst]].pid = p /\ inst \in Nat
      BY <2>4, <3>1 DEF PidsMatch, HasPid, HasPidIn, IntakeTypes, DiscoveryTypeOK
    <3>3. PICK q \in DOMAIN procs : procs[q].pid = p /\ (q \notin alive \/ q \in threads)
      BY <2>2, <3>1 DEF RecordsTrue, ExitOf, ExitIn
    <3>4. ASSUME instances[inst] \in alive
          PROVE  \/ instances[inst] \in threads
                 \/ \E r \in DOMAIN procs :
                      r < instances[inst] /\ procs[r].pid = procs[instances[inst]].pid
      <4>1. q <= instances[inst]
        BY <3>2, <3>3, <3>4 DEF NewestRuns
      <4>2. q \in Nat /\ instances[inst] \in Nat
        <5>1. DOMAIN procs \subseteq Nat /\ alive \subseteq DOMAIN procs
          BY DEF IntakeTypes, MachineTypeOK
        <5> QED
          BY <3>3, <3>4, <5>1
      <4>3. CASE q = instances[inst]
        BY <3>3, <3>4, <4>3
      <4>4. CASE q < instances[inst]
        BY <3>2, <3>3, <4>4
      <4> QED
        BY <4>1, <4>2, <4>3, <4>4
    <3> QED
      BY <3>2, <3>4 DEF Ended, EndedIn
  <2>5. ebpf'.pc = "send" /\ ebpf'.held.kind = "exit" => ebpf'.held.inst \in T
    <3>1. CASE inst = None
      <4>1. ebpf' = ebpf
        BY <1>9, <2>2, <3>1 DEF EbpfNext
      <4> QED
        BY <2>1, <4>1
    <3>2. CASE inst # None
      <4>1. ebpf' = [pc |-> "send", held |-> IF ring[1].kind = "exec" THEN ProcessObserved(inst)
                                             ELSE ProcessExit(inst)]
        BY <1>9, <2>2, <3>2 DEF EbpfNext
      <4>2. ring[1].kind \in {"exec", "exit"}
        BY <2>2, RecordTypes
      <4>3. CASE ring[1].kind = "exec"
        BY <4>1, <4>3 DEF ProcessObserved
      <4>4. CASE ring[1].kind = "exit"
        <5>1. ebpf'.held.inst = inst
          BY <4>1, <4>4 DEF ProcessExit
        <5> QED
          BY <2>4, <3>2, <4>4, <5>1
      <4> QED
        BY <4>2, <4>3, <4>4
    <3> QED
      BY <3>1, <3>2
  <2> QED
    BY <1>3, <1>4, <2>1, <2>3, <2>5
<1>10. CASE EbpfSend
  <2>1. UNCHANGED <<ring, settled>> /\ ebpf.pc = "send" /\ chan' = Append(chan, ebpf.held)
        /\ ebpf'.pc = "up" /\ ebpf.held \in Input
    BY <1>10 DEF EbpfSend, Send, ebpfFrame, laneVars, IntakeTypes, LaneTypeOK, Input
  <2>2. \A k \in DOMAIN chan' : chan'[k].kind = "exit" => chan'[k].inst \in T
    <3> HIDE DEF T
    <3> QED
      BY <1>2, <1>3, <2>1, ExitAppended
  <2> QED
    BY <1>3, <1>4, <1>5, <2>1, <2>2
<1>11. CASE LaneReceives
  <2>1. UNCHANGED <<ring, ebpf>> /\ chan # <<>> /\ chan' = Tail(chan)
        /\ (settled' = settled \/ (Head(chan).kind = "exit" /\ settled' = settled \union {Head(chan).inst}))
    BY <1>11 DEF LaneReceives, laneVars
  <2>2. /\ Head(chan) = chan[1] /\ 1 \in DOMAIN chan
        /\ \A k \in DOMAIN Tail(chan) : k + 1 \in DOMAIN chan /\ Tail(chan)[k] = chan[k + 1]
    BY <1>2, <2>1, TailOf
  <2>3. \A k \in DOMAIN chan' : chan'[k].kind = "exit" => chan'[k].inst \in T
    <3> HIDE DEF T
    <3> QED
      BY <1>3, <2>1, <2>2
  <2>4. \A i \in settled' : i \in T
    <3> HIDE DEF T
    <3> QED
      BY <1>3, <2>1, <2>2
  <2> QED
    BY <1>3, <1>4, <1>5, <2>1, <2>3, <2>4
<1> QED
  BY <1>6, <1>7, <1>8, <1>9, <1>10, <1>11 DEF Ebpf

LEMMA ExitInvAlways == Spec => [](IntakeTypes /\ ExitInv)
<1>1. Init => IntakeTypes /\ ExitInv
  <2> SUFFICES ASSUME Init
               PROVE  ExitInv
    BY TypesInit
  <2> QED
    BY DEF Init, ExitInv, NewestRuns, PidsMatch, RecordsTrue, PassedOver, ExitsTrue, Unknown, Unseen,
       Resting, Detached
<1>2. IntakeTypes /\ ExitInv /\ [Next]_vars => (IntakeTypes /\ ExitInv)'
  <2> SUFFICES ASSUME IntakeTypes, ExitInv, [Next]_vars
               PROVE  IntakeTypes' /\ ExitInv'
    OBVIOUS
  <2>1. IntakeTypes'
    BY TypesKept
  <2>2. CASE UNCHANGED vars
    BY <2>1, <2>2 DEF vars, osVars, discoveryVars, failureVars, tapVars, laneVars, ExitInv, NewestRuns,
       PidsMatch, RecordsTrue, PassedOver, ExitsTrue, Ended, HasPid, ExitOf
  <2> QED
    BY <2>1, <2>2, MachineExits, DiscoveryExits, OtherExits DEF Next
<1> QED
  BY <1>1, <1>2, PTL DEF Spec

(* Only a process that has ended is reported to the lane as exited, however*)
(* /proc, the probes and the channel interleave, however many pids are     *)
(* used again and whatever look-up fails - but for the four mistakes of    *)
(* Mistaken (poll, map_loader_record and their loops).                     *)
THEOREM ExitsConfirmed == Spec => []ExitConfirmed
<1>1. IntakeTypes /\ ExitInv => ExitConfirmed
  BY DEF ExitInv, ExitsTrue, Ended, EndedIn, ExitConfirmed, Mistaken
<1> QED
  BY <1>1, ExitInvAlways, PTL

-----------------------------------------------------------------------------
(* Proof that segments stay in order. *)

LEMMA SegmentTypes ==
  ASSUME NEW s \in Seq(Segment), NEW k \in DOMAIN s
  PROVE  s[k] \in Segment /\ s[k].flow \in Flows /\ s[k].n \in Nat
<1>1. s[k] \in Segment
  OBVIOUS
<1> QED
  BY <1>1, IntakeAssumption DEF Segment

LEMMA ThinsItself ==
  ASSUME NEW S, NEW s \in Seq(S)
  PROVE  Thins(s, s)
<1> DEFINE m == [k \in DOMAIN s |-> k]
<1>1. m \in [DOMAIN s -> DOMAIN s] /\ (\A k \in DOMAIN s : s[k] = s[m[k]])
      /\ \A j, k \in DOMAIN s : j < k => m[j] < m[k]
  OBVIOUS
<1> HIDE DEF m
<1> QED
  BY <1>1 DEF Thins

LEMMA TailThins ==
  ASSUME NEW S, NEW s \in Seq(S), s # <<>>
  PROVE  Thins(Tail(s), s)
<1>1. Tail(s) = SubSeq(s, 2, Len(s)) /\ 1 \in 0..Len(s) /\ 1 + 1 = 2
  BY TailIsSubSeq, TailOf
<1> QED
  BY <1>1, SuffixThins

(* To drop what waits disturbs no order. *)
LEMMA ThinOrder ==
  ASSUME NEW f \in Flows, NEW count, NEW queue \in Seq(Segment), NEW queue2 \in Seq(Segment),
         NEW socket \in Seq(Segment), NEW socket2 \in Seq(Segment),
         Thins(queue2, queue), Thins(socket2, socket)
  PROVE  /\ Ordered(f, queue, socket, count) => Ordered(f, queue2, socket2, count)
         /\ \A n \in Nat : Ahead(f, n, queue, socket, count) => Ahead(f, n, queue2, socket2, count)
<1>1. PICK q \in [DOMAIN queue2 -> DOMAIN queue] :
        /\ \A k \in DOMAIN queue2 : queue2[k] = queue[q[k]]
        /\ \A j, k \in DOMAIN queue2 : j < k => q[j] < q[k]
  BY DEF Thins
<1>2. PICK s \in [DOMAIN socket2 -> DOMAIN socket] :
        /\ \A k \in DOMAIN socket2 : socket2[k] = socket[s[k]]
        /\ \A j, k \in DOMAIN socket2 : j < k => s[j] < s[k]
  BY DEF Thins
<1>3. ASSUME Ordered(f, queue, socket, count)
      PROVE  Ordered(f, queue2, socket2, count)
  <2>1. Rising(queue2, f) /\ Rising(socket2, f)
    BY <1>1, <1>2, <1>3 DEF Ordered, Rising
  <2>2. \A j \in DOMAIN queue2, k \in DOMAIN socket2 :
          queue2[j].flow = f /\ socket2[k].flow = f => queue2[j].n < socket2[k].n
    BY <1>1, <1>2, <1>3 DEF Ordered
  <2>3. /\ \A j \in DOMAIN queue2 : queue2[j].flow = f => queue2[j].n <= count[f]
        /\ \A k \in DOMAIN socket2 : socket2[k].flow = f => socket2[k].n <= count[f]
    BY <1>1, <1>2, <1>3 DEF Ordered
  <2> QED
    BY <2>1, <2>2, <2>3 DEF Ordered
<1>4. ASSUME NEW n \in Nat, Ahead(f, n, queue, socket, count)
      PROVE  Ahead(f, n, queue2, socket2, count)
  BY <1>1, <1>2, <1>4 DEF Ahead
<1> QED
  BY <1>3, <1>4

(* The first segment of its flow in the queue comes before the others. *)
LEMMA TakenAhead ==
  ASSUME NEW queue \in Seq(Segment), NEW socket \in Seq(Segment), NEW count,
         NEW i \in DOMAIN queue, NEW f, queue[i].flow = f,
         Ordered(f, queue, socket, count),
         \A j \in DOMAIN queue : j < i => queue[j].flow # f
  PROVE  Ahead(f, queue[i].n, RemoveAt(queue, i), socket, count)
<1>1. i \in 1..Len(queue)
  OBVIOUS
<1>2. ASSUME NEW k \in DOMAIN RemoveAt(queue, i), RemoveAt(queue, i)[k].flow = f
      PROVE  queue[i].n < RemoveAt(queue, i)[k].n
  <2>1. CASE k < i /\ k \in DOMAIN queue /\ RemoveAt(queue, i)[k] = queue[k]
    BY <1>2, <2>1
  <2>2. CASE k + 1 > i /\ k + 1 \in DOMAIN queue /\ RemoveAt(queue, i)[k] = queue[k + 1]
    BY <1>2, <2>2 DEF Ordered, Rising
  <2> QED
    BY <1>1, <2>1, <2>2, RemoveAtThins
<1> QED
  BY <1>2 DEF Ordered, Ahead

(* A segment read from the socket, when none of its flow waits. *)
LEMMA ReadAhead ==
  ASSUME NEW queue \in Seq(Segment), NEW socket \in Seq(Segment), socket # <<>>, NEW count,
         NEW f, Head(socket).flow = f,
         Ordered(f, queue, socket, count),
         \A j \in DOMAIN queue : queue[j].flow # f
  PROVE  Ahead(f, Head(socket).n, queue, Tail(socket), count)
<1>1. /\ Head(socket) = socket[1] /\ 1 \in DOMAIN socket
      /\ \A k \in DOMAIN Tail(socket) : k + 1 \in DOMAIN socket /\ Tail(socket)[k] = socket[k + 1]
      /\ DOMAIN Tail(socket) \subseteq Nat \ {0}
  BY TailOf
<1>2. ASSUME NEW k \in DOMAIN Tail(socket), Tail(socket)[k].flow = f
      PROVE  Head(socket).n < Tail(socket)[k].n
  <2>1. 1 < k + 1 /\ k + 1 \in DOMAIN socket /\ Tail(socket)[k] = socket[k + 1]
    BY <1>1
  <2> QED
    BY <1>1, <1>2, <2>1 DEF Ordered, Rising
<1> QED
  BY <1>1, <1>2 DEF Ordered, Ahead

(* A segment moves from the socket to the end of the queue. *)
LEMMA MovedOrder ==
  ASSUME NEW f \in Flows, NEW queue \in Seq(Segment), NEW socket \in Seq(Segment), socket # <<>>,
         NEW count, NEW queue2, queue2 = Append(queue, Head(socket))
  PROVE  /\ Ordered(f, queue, socket, count) => Ordered(f, queue2, Tail(socket), count)
         /\ \A n \in Nat : Ahead(f, n, queue, socket, count) => Ahead(f, n, queue2, Tail(socket), count)
<1>1. /\ Head(socket) = socket[1] /\ 1 \in DOMAIN socket /\ Head(socket) \in Segment
      /\ Tail(socket) \in Seq(Segment)
      /\ \A k \in DOMAIN Tail(socket) : k + 1 \in DOMAIN socket /\ Tail(socket)[k] = socket[k + 1]
                                        /\ 1 < k + 1
  <2>1. DOMAIN Tail(socket) \subseteq Nat \ {0}
    BY TailOf
  <2> QED
    BY <2>1, TailOf
<1>2. /\ DOMAIN queue2 = 1..(Len(queue) + 1) /\ DOMAIN queue = 1..Len(queue) /\ Len(queue) \in Nat
      /\ \A k \in DOMAIN queue : queue2[k] = queue[k]
      /\ queue2[Len(queue) + 1] = socket[1]
  BY <1>1, AppendOf
<1>3. ASSUME NEW j \in DOMAIN queue2
      PROVE  \/ j \in DOMAIN queue /\ queue2[j] = queue[j]
             \/ j = Len(queue) + 1 /\ queue2[j] = socket[1]
  <2>1. j \in 1..Len(queue) \/ j = Len(queue) + 1
    BY <1>2
  <2> QED
    BY <1>2, <2>1
<1>4. ASSUME Ordered(f, queue, socket, count)
      PROVE  Ordered(f, queue2, Tail(socket), count)
  <2>1. Rising(queue2, f)
    <3> SUFFICES ASSUME NEW j \in DOMAIN queue2, NEW k \in DOMAIN queue2, j < k,
                        queue2[j].flow = f, queue2[k].flow = f
                 PROVE  queue2[j].n < queue2[k].n
      BY DEF Rising
    <3>1. j \in DOMAIN queue /\ queue2[j] = queue[j]
      BY <1>2
    <3>2. CASE k \in DOMAIN queue
      BY <1>2, <1>4, <3>1, <3>2 DEF Ordered, Rising
    <3>3. CASE k = Len(queue) + 1
      BY <1>1, <1>2, <1>4, <3>1, <3>3 DEF Ordered
    <3> QED
      BY <1>2, <3>2, <3>3
  <2>2. Rising(Tail(socket), f)
    BY <1>4, TailThins, ThinsItself, ThinOrder, <1>1 DEF Ordered
  <2>3. ASSUME NEW j \in DOMAIN queue2, NEW k \in DOMAIN Tail(socket),
               queue2[j].flow = f, Tail(socket)[k].flow = f
        PROVE  queue2[j].n < Tail(socket)[k].n
    BY <1>1, <1>3, <1>4, <2>3 DEF Ordered, Rising
  <2>4. \A j \in DOMAIN queue2 : queue2[j].flow = f => queue2[j].n <= count[f]
    BY <1>1, <1>3, <1>4 DEF Ordered
  <2>5. \A k \in DOMAIN Tail(socket) : Tail(socket)[k].flow = f => Tail(socket)[k].n <= count[f]
    BY <1>1, <1>4 DEF Ordered
  <2> QED
    BY <2>1, <2>2, <2>3, <2>4, <2>5 DEF Ordered
<1>5. ASSUME NEW n \in Nat, Ahead(f, n, queue, socket, count)
      PROVE  Ahead(f, n, queue2, Tail(socket), count)
  BY <1>1, <1>3, <1>5 DEF Ahead
<1> QED
  BY <1>4, <1>5

(* A segment is captured. *)
LEMMA CapturedOrder ==
  ASSUME IntakeTypes, NEW f \in Flows, NEW g \in Flows, PacketCaptured(g)
  PROVE  /\ Ordered(f, pending, frames, captured) => Ordered(f, pending, frames', captured')
         /\ \A n \in Nat : Ahead(f, n, pending, frames, captured)
                             => Ahead(f, n, pending, frames', captured')
<1> DEFINE s == [flow |-> g, n |-> captured[g] + 1]
<1>1. captured \in [Flows -> 0..MaxSegments] /\ captured[g] < MaxSegments /\ MaxSegments \in Nat
  BY IntakeAssumption DEF PacketCaptured, IntakeTypes, MachineTypeOK
<1>2. captured \in [Flows -> Nat] /\ s \in Segment /\ s.flow = g /\ s.n = captured[g] + 1
      /\ pending \in Seq(Segment) /\ frames \in Seq(Segment)
  BY <1>1 DEF Segment, IntakeTypes, MachineTypeOK, TapTypeOK
<1>3. frames' = Append(frames, s) /\ captured' = [captured EXCEPT ![g] = @ + 1]
  BY DEF PacketCaptured
<1> HIDE DEF s
<1>4. /\ DOMAIN frames' = 1..(Len(frames) + 1) /\ DOMAIN frames = 1..Len(frames) /\ Len(frames) \in Nat
      /\ \A k \in DOMAIN frames : frames'[k] = frames[k]
      /\ frames'[Len(frames) + 1] = s
  BY <1>2, <1>3, AppendOf
<1>5. /\ captured' \in [Flows -> Nat] /\ captured[f] <= captured'[f]
      /\ (f = g => captured'[f] = captured[f] + 1 /\ s.n = captured[f] + 1) /\ s.flow = g
  BY <1>2, <1>3
<1>6. ASSUME NEW k \in DOMAIN frames'
      PROVE  \/ k \in DOMAIN frames /\ frames'[k] = frames[k]
             \/ k = Len(frames) + 1 /\ frames'[k] = s
  <2>1. k \in 1..Len(frames) \/ k = Len(frames) + 1
    BY <1>4
  <2> QED
    BY <1>4, <2>1
<1>7. /\ \A j \in DOMAIN pending : pending[j].n \in Nat
      /\ \A k \in DOMAIN frames : frames[k].n \in Nat
      /\ captured[f] \in Nat /\ captured'[f] \in Nat
  BY <1>5, <1>2, SegmentTypes
<1>8. ASSUME Ordered(f, pending, frames, captured)
      PROVE  Ordered(f, pending, frames', captured')
  <2>1. Rising(frames', f)
    <3> SUFFICES ASSUME NEW j \in DOMAIN frames', NEW k \in DOMAIN frames', j < k,
                        frames'[j].flow = f, frames'[k].flow = f
                 PROVE  frames'[j].n < frames'[k].n
      BY DEF Rising
    <3>1. j \in DOMAIN frames /\ frames'[j] = frames[j]
      BY <1>4
    <3>2. CASE k \in DOMAIN frames
      BY <1>4, <1>8, <3>1, <3>2 DEF Ordered, Rising
    <3>3. CASE k = Len(frames) + 1
      <4>1. frames[j].n <= captured[f] /\ frames'[k].n = captured[f] + 1
        BY <1>4, <1>5, <1>8, <3>1, <3>3 DEF Ordered
      <4> QED
        BY <1>7, <3>1, <4>1
    <3> QED
      BY <1>4, <3>2, <3>3
  <2>2. ASSUME NEW j \in DOMAIN pending, NEW k \in DOMAIN frames', pending[j].flow = f, frames'[k].flow = f
        PROVE  pending[j].n < frames'[k].n
    <3>1. CASE k \in DOMAIN frames /\ frames'[k] = frames[k]
      BY <1>8, <2>2, <3>1 DEF Ordered
    <3>2. CASE frames'[k] = s
      <4>1. pending[j].n <= captured[f] /\ frames'[k].n = captured[f] + 1
        BY <1>5, <1>8, <2>2, <3>2 DEF Ordered
      <4> QED
        BY <1>7, <4>1
    <3> QED
      BY <1>6, <3>1, <3>2
  <2>3. ASSUME NEW j \in DOMAIN pending, pending[j].flow = f
        PROVE  pending[j].n <= captured'[f]
    <3>1. pending[j].n <= captured[f]
      BY <1>8, <2>3 DEF Ordered
    <3> QED
      BY <1>5, <1>7, <3>1
  <2>4. ASSUME NEW k \in DOMAIN frames', frames'[k].flow = f
        PROVE  frames'[k].n <= captured'[f]
    <3>1. CASE k \in DOMAIN frames /\ frames'[k] = frames[k]
      <4>1. frames[k].n <= captured[f]
        BY <1>8, <2>4, <3>1 DEF Ordered
      <4> QED
        BY <1>5, <1>7, <3>1, <4>1
    <3>2. CASE frames'[k] = s
      BY <1>5, <1>7, <2>4, <3>2
    <3> QED
      BY <1>6, <3>1, <3>2
  <2> QED
    BY <1>8, <2>1, <2>2, <2>3, <2>4 DEF Ordered
<1>9. ASSUME NEW n \in Nat, Ahead(f, n, pending, frames, captured)
      PROVE  Ahead(f, n, pending, frames', captured')
  <2>1. n <= captured[f] /\ n <= captured'[f]
    BY <1>5, <1>7, <1>9 DEF Ahead
  <2>2. ASSUME NEW k \in DOMAIN frames', frames'[k].flow = f
        PROVE  n < frames'[k].n
    <3>1. CASE k \in DOMAIN frames /\ frames'[k] = frames[k]
      BY <1>9, <2>2, <3>1 DEF Ahead
    <3>2. CASE frames'[k] = s
      <4>1. frames'[k].n = captured[f] + 1
        BY <1>5, <2>2, <3>2
      <4> QED
        BY <1>7, <2>1, <4>1
    <3> QED
      BY <1>6, <3>1, <3>2
  <2> QED
    BY <1>9, <2>1, <2>2 DEF Ahead
<1> QED
  BY <1>8, <1>9

(* Numbers of segments in the channel, held and received. *)
LEMMA NumberTypes ==
  ASSUME IntakeTypes, NEW f \in Flows
  PROVE  /\ last[f] \in Nat
         /\ \A k \in DOMAIN chan : chan[k].kind = "segment" => chan[k].seg \in Segment /\ chan[k].seg.n \in Nat
         /\ tap.pc = "send" => tap.held.kind = "segment" /\ tap.held.seg \in Segment /\ tap.held.seg.n \in Nat
<1>1. \A s \in Segment : s.n \in Nat
  BY IntakeAssumption DEF Segment
<1>2. \A e \in Input : e.kind = "segment" => e.seg \in Segment
  BY DEF Input, ProcessInput, SegmentInput
<1>3. \A k \in DOMAIN chan : chan[k] \in Input
  BY DEF IntakeTypes, LaneTypeOK
<1>4. tap.pc = "send" => tap.held \in SegmentInput
  BY DEF IntakeTypes, TapTypeOK
<1>5. last[f] \in Nat
  BY DEF IntakeTypes, LaneTypeOK
<1> QED
  BY <1>1, <1>2, <1>3, <1>4, <1>5 DEF SegmentInput

(* Nothing is handed on: the order holds on when what waits stays ordered. *)
LEMMA FlowKept ==
  ASSUME IntakeTypes, NEW f \in Flows, FlowInv(f), UNCHANGED <<chan, last>>,
         tap'.pc = "send" => tap.pc = "send" /\ tap'.held = tap.held,
         Ordered(f, pending, frames, captured) => Ordered(f, pending', frames', captured'),
         \A n \in Nat : Ahead(f, n, pending, frames, captured)
                          => Ahead(f, n, pending', frames', captured')
  PROVE  FlowInv(f)'
<1>1. \A k \in DOMAIN chan : InFlow(chan[k], f) => chan[k].seg.n \in Nat
  BY NumberTypes DEF InFlow
<1>2. last[f] \in Nat /\ (Holds(f) => tap.held.seg.n \in Nat)
  BY NumberTypes DEF Holds
<1>3. Holds(f)' => Holds(f) /\ tap'.held = tap.held
  BY DEF Holds
<1> QED
  BY <1>1, <1>2, <1>3 DEF FlowInv

(* A process event enters the channel. *)
LEMMA EventSent ==
  ASSUME IntakeTypes, NEW f \in Flows, FlowInv(f), NEW e \in ProcessInput, chan' = Append(chan, e),
         UNCHANGED <<last, tap, pending, frames, captured>>
  PROVE  FlowInv(f)'
<1>1. e.kind # "segment" /\ e \in Input /\ chan \in Seq(Input)
  BY DEF ProcessInput, Input, IntakeTypes, LaneTypeOK
<1>2. /\ DOMAIN chan' = 1..(Len(chan) + 1) /\ DOMAIN chan = 1..Len(chan) /\ Len(chan) \in Nat
      /\ \A k \in DOMAIN chan : chan'[k] = chan[k]
      /\ chan'[Len(chan) + 1] = e
  BY <1>1, AppendOf
<1>3. \A k \in DOMAIN chan' : InFlow(chan'[k], f) => k \in DOMAIN chan /\ chan'[k] = chan[k]
  BY <1>1, <1>2 DEF InFlow
<1>4. InOrder(f, chan', last')
  BY <1>3 DEF FlowInv, InOrder
<1>5. Holds(f)' <=> Holds(f)
  BY DEF Holds
<1> QED
  BY <1>3, <1>4, <1>5 DEF FlowInv

(* A segment is handed on by recv. *)
LEMMA HandedOn ==
  ASSUME IntakeTypes, NEW f \in Flows, FlowInv(f), NEW s \in Segment, NEW i,
         tap' = [pc |-> "send", at |-> 0, held |-> Attributed(s, i)],
         UNCHANGED <<chan, last>>,
         Ordered(f, pending, frames, captured) => Ordered(f, pending', frames', captured'),
         \A n \in Nat : Ahead(f, n, pending, frames, captured)
                          => Ahead(f, n, pending', frames', captured'),
         s.flow = f => /\ Ahead(f, s.n, pending', frames', captured')
                       /\ \A n \in Nat : Ahead(f, n, pending, frames, captured) => n < s.n
  PROVE  FlowInv(f)'
<1>1. \A k \in DOMAIN chan : InFlow(chan[k], f) => chan[k].seg.n \in Nat
  BY NumberTypes DEF InFlow
<1>2. last[f] \in Nat
  BY NumberTypes
<1>3. Holds(f)' <=> s.flow = f
  BY DEF Holds, InFlow, Attributed
<1>4. tap'.held.seg = s
  BY DEF Attributed
<1> QED
  BY <1>1, <1>2, <1>3, <1>4 DEF FlowInv

LEMMA MachineOrder ==
  ASSUME IntakeTypes, OrderInv, Machine
  PROVE  OrderInv'
<1>1. UNCHANGED <<index, pending, tap, chan, last, swapped, raced>>
  BY DEF Machine, ProcessStarts, ThreadExits, ProcessDies, ExecutableReplaced, Connect,
     PacketCaptured, tapVars, laneVars
<1>2. LookedUp' /\ InOrderUnlessRaced'
  BY <1>1 DEF OrderInv, LookedUp, InOrderUnlessRaced
<1>3. ASSUME NEW f \in Flows, FlowInv(f)
      PROVE  FlowInv(f)'
  <2>1. CASE UNCHANGED <<frames, captured>>
    BY <1>1, <1>3, <2>1, FlowKept
  <2>2. ASSUME NEW g \in Flows, PacketCaptured(g)
        PROVE  FlowInv(f)'
    BY <1>1, <1>3, <2>2, CapturedOrder, FlowKept
  <2>3. \/ UNCHANGED <<frames, captured>>
        \/ \E g \in Flows : PacketCaptured(g)
    BY DEF Machine, ProcessStarts, ThreadExits, ProcessDies, ExecutableReplaced, Connect
  <2> QED
    BY <2>1, <2>2, <2>3
<1>4. \A f \in Flows \ raced' : FlowInv(f)'
  BY <1>1, <1>3 DEF OrderInv
<1> QED
  BY <1>2, <1>4 DEF OrderInv

(* Discovery makes connections known: those that it does while recv runs   *)
(* are set aside.                                                          *)
LEMMA DiscoveryOrder ==
  ASSUME IntakeTypes, OrderInv, Discovery
  PROVE  OrderInv'
<1>1. UNCHANGED <<frames, captured, pending, tap, last, swapped>> /\ raced \subseteq raced'
  BY DEF Discovery, PollStart, PollIndex, PollIndexFails, PollDone, PollSend, PollUnreadable,
     PollExisting, PollNew, PollStale, discoveryFrame, osVars, tapVars, laneVars
<1>2. InOrderUnlessRaced'
  BY <1>1 DEF OrderInv, InOrderUnlessRaced
<1>3. ASSUME NEW f \in Flows, FlowInv(f)
      PROVE  FlowInv(f)'
  <2>1. CASE PollSend
    <3>1. Head(poll.events) \in ProcessInput /\ chan' = Append(chan, Head(poll.events))
      BY <2>1, TailOf DEF PollSend, Send, IntakeTypes, DiscoveryTypeOK
    <3> QED
      BY <1>1, <1>3, <3>1, EventSent
  <2>2. CASE chan' = chan
    BY <1>1, <1>3, <2>2, FlowKept
  <2>3. PollSend \/ chan' = chan
    BY DEF Discovery, PollStart, PollIndex, PollIndexFails, PollDone, PollUnreadable,
       PollExisting, PollNew, PollStale
  <2> QED
    BY <2>1, <2>2, <2>3
<1>4. \A f \in Flows \ raced' : FlowInv(f)'
  BY <1>1, <1>3 DEF OrderInv
<1>5. LookedUp'
  <2> SUFFICES ASSUME tap.pc \in {"find", "take", "read"}, NEW j \in DOMAIN pending,
                      tap.pc = "read" \/ j < tap.at, pending[j].flow \notin raced', NEW p \in Pids
               PROVE  pending[j].flow \notin index'[p].flows
    BY <1>1 DEF LookedUp
  <2>1. pending[j].flow \notin index[p].flows
    BY <1>1 DEF OrderInv, LookedUp
  <2>2. CASE PollIndex
    <3>1. /\ raced' = raced \union (FlowsOf(poll.pid) \ index[poll.pid].flows)
          /\ index' = [index EXCEPT ![poll.pid] =
                         [inst |-> observed[poll.pid].inst, flows |-> FlowsOf(poll.pid)]]
      BY <2>2 DEF PollIndex
    <3>2. CASE p = poll.pid
      <4>1. index'[p].flows = FlowsOf(p)
        BY <3>1, <3>2 DEF IntakeTypes, DiscoveryTypeOK
      <4> QED
        BY <2>1, <3>1, <3>2, <4>1
    <3>3. CASE p # poll.pid
      <4>1. index'[p] = index[p]
        BY <3>1, <3>3 DEF IntakeTypes, DiscoveryTypeOK
      <4> QED
        BY <2>1, <4>1
    <3> QED
      BY <3>2, <3>3
  <2>3. ASSUME NEW r \in Pids, PollStale(r)
        PROVE  pending[j].flow \notin index'[p].flows
    <3>1. index' = [index EXCEPT ![r] = Unknown] /\ index \in [Pids -> [inst : Nat, flows : SUBSET Flows]]
      BY <2>3 DEF PollStale, IntakeTypes, DiscoveryTypeOK
    <3>2. index'[p] = index[p] \/ index'[p].flows = {}
      BY <3>1 DEF Unknown
    <3> QED
      BY <2>1, <3>2
  <2>4. CASE index' = index
    BY <2>1, <2>4
  <2> QED
    BY <2>2, <2>3, <2>4 DEF Discovery, PollStart, PollIndexFails, PollDone, PollSend, PollUnreadable,
       PollExisting, PollNew
<1> QED
  BY <1>2, <1>4, <1>5 DEF OrderInv

LEMMA EbpfOrder ==
  ASSUME IntakeTypes, OrderInv, Ebpf
  PROVE  OrderInv'
<1>1. UNCHANGED <<frames, captured, pending, tap, last, swapped, raced, index>>
  BY DEF Ebpf, EbpfStart, EbpfFails, EbpfNext, EbpfSend, ebpfFrame, osVars, tapVars, laneVars
<1>2. LookedUp' /\ InOrderUnlessRaced'
  BY <1>1 DEF OrderInv, LookedUp, InOrderUnlessRaced
<1>3. ASSUME NEW f \in Flows, FlowInv(f)
      PROVE  FlowInv(f)'
  <2>1. CASE EbpfSend
    <3>1. ebpf.held \in ProcessInput /\ chan' = Append(chan, ebpf.held)
      BY <2>1 DEF EbpfSend, Send, IntakeTypes, LaneTypeOK
    <3> QED
      BY <1>1, <1>3, <3>1, EventSent
  <2>2. CASE chan' = chan
    BY <1>1, <1>3, <2>2, FlowKept
  <2> QED
    BY <2>1, <2>2 DEF Ebpf, EbpfStart, EbpfFails, EbpfNext
<1> QED
  BY <1>1, <1>2, <1>3 DEF OrderInv

LEMMA LaneOrder ==
  ASSUME IntakeTypes, OrderInv, LaneReceives
  PROVE  OrderInv'
<1>1. UNCHANGED <<frames, captured, pending, tap, raced, index>> /\ chan # <<>> /\ chan' = Tail(chan)
  BY DEF LaneReceives, osVars, tapVars
<1>2. LookedUp'
  BY <1>1 DEF OrderInv, LookedUp
<1>3. /\ Head(chan) = chan[1] /\ 1 \in DOMAIN chan /\ chan[1] \in Input
      /\ \A k \in DOMAIN Tail(chan) : k + 1 \in DOMAIN chan /\ Tail(chan)[k] = chan[k + 1] /\ 1 < k + 1
  <2>1. chan \in Seq(Input)
    BY DEF IntakeTypes, LaneTypeOK
  <2>2. DOMAIN Tail(chan) \subseteq Nat \ {0}
    BY <1>1, <2>1, TailOf
  <2> QED
    BY <1>1, <2>1, <2>2, TailOf
<1> DEFINE s == chan[1].seg
<1>4. CASE chan[1].kind # "segment"
  <2>1. UNCHANGED <<last, swapped>>
    BY <1>3, <1>4 DEF LaneReceives, laneVars
  <2>2. ASSUME NEW f \in Flows, FlowInv(f)
        PROVE  FlowInv(f)'
    <3>1. InOrder(f, chan', last')
      BY <1>1, <1>3, <2>1, <2>2 DEF FlowInv, InOrder
    <3>2. Holds(f)' <=> Holds(f)
      BY <1>1 DEF Holds
    <3> QED
      BY <1>1, <1>3, <2>1, <2>2, <3>1, <3>2 DEF FlowInv
  <2> QED
    BY <1>1, <1>2, <2>1, <2>2 DEF OrderInv, InOrderUnlessRaced
<1>5. CASE chan[1].kind = "segment"
  <2>1. last' = [last EXCEPT ![s.flow] = s.n]
        /\ swapped' = IF s.n <= last[s.flow] THEN swapped \union {s.flow} ELSE swapped
    BY <1>3, <1>5 DEF LaneReceives
  <2>2. s \in Segment /\ s.flow \in Flows /\ s.n \in Nat
    <3>1. s \in Segment
      BY <1>3, <1>5 DEF Input, ProcessInput, SegmentInput
    <3> QED
      BY <3>1, IntakeAssumption DEF Segment
  <2>3. last'[s.flow] = s.n /\ \A f \in Flows \ {s.flow} : last'[f] = last[f]
    BY <2>1, <2>2 DEF IntakeTypes, LaneTypeOK
  <2>4. ASSUME NEW f \in Flows, FlowInv(f)
        PROVE  FlowInv(f)'
    <3>1. Holds(f)' <=> Holds(f)
      BY <1>1 DEF Holds
    <3>2. CASE f = s.flow
      <4>1. InFlow(chan[1], f)
        BY <1>5, <3>2 DEF InFlow
      <4>2. InOrder(f, chan', last')
        <5> SUFFICES ASSUME NEW k \in DOMAIN Tail(chan), InFlow(Tail(chan)[k], f)
                     PROVE  /\ s.n < Tail(chan)[k].seg.n
                            /\ \A j \in DOMAIN Tail(chan) : j < k /\ InFlow(Tail(chan)[j], f)
                                 => Tail(chan)[j].seg.n < Tail(chan)[k].seg.n
          BY <1>1, <2>3, <3>2 DEF InOrder
        <5>1. /\ k + 1 \in DOMAIN chan /\ Tail(chan)[k] = chan[k + 1] /\ 1 < k + 1
              /\ \A j \in DOMAIN Tail(chan) : j \in Int
          BY <1>1, <1>3, TailOf DEF IntakeTypes, LaneTypeOK
        <5>2. s.n < chan[k + 1].seg.n
          BY <1>3, <2>4, <4>1, <5>1 DEF FlowInv, InOrder
        <5>3. ASSUME NEW j \in DOMAIN Tail(chan), j < k, InFlow(Tail(chan)[j], f)
              PROVE  Tail(chan)[j].seg.n < Tail(chan)[k].seg.n
          <6>1. j + 1 \in DOMAIN chan /\ Tail(chan)[j] = chan[j + 1] /\ j + 1 < k + 1
            BY <1>3, <5>1, <5>3
          <6> QED
            BY <2>4, <5>1, <5>3, <6>1 DEF FlowInv, InOrder
        <5> QED
          BY <5>1, <5>2, <5>3
      <4>3. Ahead(f, last'[f], pending, frames, captured)
        BY <1>3, <2>3, <2>4, <3>2, <4>1 DEF FlowInv
      <4>4. Holds(f) => last'[f] < tap.held.seg.n
        BY <1>3, <2>3, <2>4, <3>2, <4>1 DEF FlowInv
      <4> QED
        BY <1>1, <1>3, <2>4, <3>1, <4>2, <4>3, <4>4 DEF FlowInv
    <3>3. CASE f # s.flow
      <4>1. last'[f] = last[f]
        BY <2>3, <3>3
      <4>2. InOrder(f, chan', last')
        BY <1>1, <1>3, <2>4, <4>1 DEF FlowInv, InOrder
      <4> QED
        BY <1>1, <1>3, <2>4, <3>1, <4>1, <4>2 DEF FlowInv
    <3> QED
      BY <3>2, <3>3
  <2>5. ASSUME s.flow \notin raced
        PROVE  ~(s.n <= last[s.flow])
    <3>1. FlowInv(s.flow) /\ InFlow(chan[1], s.flow)
      BY <1>5, <2>2, <2>5 DEF OrderInv, InFlow
    <3>2. last[s.flow] < s.n
      BY <1>3, <3>1 DEF FlowInv, InOrder
    <3>3. last[s.flow] \in Nat
      BY <2>2 DEF IntakeTypes, LaneTypeOK
    <3> QED
      BY <2>2, <3>2, <3>3
  <2>6. InOrderUnlessRaced'
    BY <1>1, <2>1, <2>5 DEF OrderInv, InOrderUnlessRaced
  <2> QED
    BY <1>1, <1>2, <2>4, <2>6 DEF OrderInv
<1> QED
  BY <1>4, <1>5

LEMMA TapOrder ==
  ASSUME IntakeTypes, OrderInv, Tap
  PROVE  OrderInv'
<1>1. UNCHANGED <<captured, last, swapped, index>>
  BY DEF Tap, ExpirePending, FindPending, TakePending, ReadFrame, RecvNothing, TapSend, tapFrame,
     laneVars
<1>2. /\ pending \in Seq(Segment) /\ frames \in Seq(Segment) /\ chan \in Seq(Input)
      /\ (tap.pc \in {"find", "take"} => tap.at \in 1..Len(pending) /\ tap.at \in DOMAIN pending)
      /\ DOMAIN pending = 1..Len(pending) /\ Len(pending) \in Nat
      /\ Thins(pending, pending) /\ Thins(frames, frames)
  BY ThinsItself DEF IntakeTypes, MachineTypeOK, TapTypeOK, LaneTypeOK
<1>3. \A f \in Flows \ raced : FlowInv(f)
  BY DEF OrderInv
<1>4. raced \subseteq raced'
  BY DEF Tap, ExpirePending, FindPending, TakePending, ReadFrame, RecvNothing, TapSend
<1>5. InOrderUnlessRaced'
  BY <1>1, <1>4 DEF OrderInv, InOrderUnlessRaced
<1>6. ASSUME NEW s
      PROVE  /\ Matches(s) = {} <=> \A p \in Pids : s.flow \notin index[p].flows
  BY DEF Matches
<1>7. ASSUME NEW k \in 0..Len(pending), ExpirePending(k)
      PROVE  OrderInv'
  <2>1. UNCHANGED <<frames, chan, raced>> /\ tap' = LookAt(pending', 1)
        /\ pending' = SubSeq(pending, k + 1, Len(pending))
    BY <1>7 DEF ExpirePending
  <2>2. pending' \in Seq(Segment) /\ Thins(pending', pending)
    BY <1>2, <2>1, SuffixThins
  <2>3. \/ tap'.pc = "find" /\ tap'.at = 1
        \/ tap'.pc = "read" /\ 1 \notin 1..Len(pending')
    <3>1. PICK q : q = pending'
      OBVIOUS
    <3>2. q \in Seq(Segment) /\ 1 \in Nat \ {0}
      BY <2>2, <3>1
    <3>3. \/ LookAt(q, 1).pc = "find" /\ LookAt(q, 1).at = 1 /\ 1 \in 1..Len(q)
          \/ LookAt(q, 1).pc = "read" /\ 1 \notin 1..Len(q)
      BY <3>2, LookAtTypes
    <3>4. tap' = LookAt(q, 1)
      BY <2>1, <3>1
    <3> QED
      BY <3>1, <3>3, <3>4
  <2>4. ASSUME NEW f \in Flows, FlowInv(f)
        PROVE  FlowInv(f)'
    <3>1. /\ Ordered(f, pending, frames, captured) => Ordered(f, pending', frames, captured)
          /\ \A n \in Nat : Ahead(f, n, pending, frames, captured) => Ahead(f, n, pending', frames, captured)
      BY <1>2, <2>2, ThinOrder
    <3> QED
      BY <1>1, <2>1, <2>3, <2>4, <3>1, FlowKept
  <2>5. LookedUp'
    <3>1. ASSUME NEW j \in DOMAIN pending', tap'.pc = "read" \/ j < tap'.at
          PROVE  FALSE
      <4>1. DOMAIN pending' = 1..Len(pending') /\ Len(pending') \in Nat
        BY <2>2
      <4> QED
        BY <2>3, <3>1, <4>1
    <3> QED
      BY <3>1 DEF LookedUp
  <2> QED
    BY <1>3, <1>5, <2>1, <2>4, <2>5 DEF OrderInv
<1>8. CASE FindPending
  <2>1. UNCHANGED <<frames, chan, raced, pending>> /\ tap.pc = "find"
        /\ tap.at \in 1..Len(pending) /\ tap.at \in Nat
    BY <1>2, <1>8 DEF FindPending
  <2>2. \/ /\ Matches(pending[tap.at]) = {}
           /\ \/ tap'.pc = "find" /\ tap'.at = tap.at + 1
              \/ tap'.pc = "read" /\ tap.at + 1 \notin 1..Len(pending)
        \/ tap'.pc = "take" /\ tap'.at = tap.at
    <3>1. CASE Matches(pending[tap.at]) = {}
      <4>1. tap' = LookAt(pending, tap.at + 1) /\ tap.at + 1 \in Nat \ {0}
        BY <1>8, <2>1, <3>1 DEF FindPending
      <4> QED
        BY <1>2, <3>1, <4>1, LookAtTypes
    <3>2. CASE Matches(pending[tap.at]) # {}
      <4>1. tap' = [tap EXCEPT !.pc = "take"]
        BY <1>8, <3>2 DEF FindPending
      <4> QED
        BY <4>1 DEF IntakeTypes, TapTypeOK
    <3> QED
      BY <3>1, <3>2
  <2>3. ASSUME NEW f \in Flows, FlowInv(f)
        PROVE  FlowInv(f)'
    BY <1>1, <2>1, <2>2, <2>3, FlowKept
  <2>4. LookedUp'
    <3> SUFFICES ASSUME NEW j \in DOMAIN pending, tap'.pc = "read" \/ j < tap'.at,
                        pending[j].flow \notin raced, NEW p \in Pids
                 PROVE  pending[j].flow \notin index[p].flows
      BY <1>1, <2>1 DEF LookedUp
    <3>1. CASE j < tap.at
      BY <2>1, <3>1 DEF OrderInv, LookedUp
    <3>2. CASE ~(j < tap.at)
      <4>1. j = tap.at /\ Matches(pending[tap.at]) = {}
        BY <1>2, <2>1, <2>2, <3>2
      <4> QED
        BY <1>6, <4>1
    <3> QED
      BY <3>1, <3>2
  <2> QED
    BY <1>3, <1>5, <2>1, <2>3, <2>4 DEF OrderInv
<1>9. CASE TakePending
  <2> DEFINE i == tap.at
             s == pending[i]
  <2>1. UNCHANGED <<frames, chan>> /\ tap.pc = "take" /\ i \in 1..Len(pending) /\ i \in DOMAIN pending
        /\ pending' = RemoveAt(pending, i) /\ s \in Segment /\ s.flow \in Flows /\ s.n \in Nat
    BY <1>2, <1>9, SegmentTypes DEF TakePending
  <2>2. pending' \in Seq(Segment) /\ Thins(pending', pending)
    BY <1>2, <2>1, RemoveAtThins
  <2>3. ASSUME NEW f \in Flows
        PROVE  /\ Ordered(f, pending, frames, captured) => Ordered(f, pending', frames, captured)
               /\ \A n \in Nat : Ahead(f, n, pending, frames, captured)
                                   => Ahead(f, n, pending', frames, captured)
    BY <1>2, <2>2, ThinOrder
  <2>4. CASE Matches(s) = {} /\ tap' = [tap EXCEPT !.pc = "read", !.at = 0]
             /\ raced' = raced \union LeftBehind
    <3>1. tap'.pc = "read"
      BY <2>4 DEF IntakeTypes, TapTypeOK
    <3>2. ASSUME NEW f \in Flows, FlowInv(f)
          PROVE  FlowInv(f)'
      BY <1>1, <2>1, <2>3, <3>1, <3>2, FlowKept
    <3>3. LookedUp'
      <4> SUFFICES ASSUME NEW k \in DOMAIN pending', pending'[k].flow \notin raced', NEW p \in Pids
                   PROVE  pending'[k].flow \notin index[p].flows
        BY <1>1, <3>1 DEF LookedUp
      <4>1. CASE k < i /\ k \in DOMAIN pending /\ pending'[k] = pending[k]
        BY <1>4, <2>1, <4>1 DEF OrderInv, LookedUp
      <4>2. CASE k + 1 > i /\ k + 1 \in DOMAIN pending /\ pending'[k] = pending[k + 1]
        <5>1. Matches(pending[k + 1]) = {}
          BY <2>4, <4>2 DEF LeftBehind
        <5> QED
          BY <1>6, <4>2, <5>1
      <4> QED
        BY <1>2, <2>1, <4>1, <4>2, RemoveAtThins
    <3> QED
      BY <1>3, <1>4, <1>5, <3>2, <3>3 DEF OrderInv
  <2>5. ASSUME NEW inst \in Matches(s), UNCHANGED raced,
               tap' = [pc |-> "send", at |-> 0, held |-> Attributed(s, inst)]
        PROVE  OrderInv'
    <3>1. ASSUME NEW f \in Flows, f \notin raced, FlowInv(f)
          PROVE  FlowInv(f)'
      <4>1. ASSUME s.flow = f
            PROVE  /\ Ahead(f, s.n, pending', frames, captured)
                   /\ \A n \in Nat : Ahead(f, n, pending, frames, captured) => n < s.n
        <5>1. PICK p \in Pids : f \in index[p].flows
          BY <2>5, <4>1 DEF Matches
        <5>2. ASSUME NEW j \in DOMAIN pending, j < i
              PROVE  pending[j].flow # f
          BY <2>1, <3>1, <5>1, <5>2 DEF OrderInv, LookedUp
        <5>3. Ordered(f, pending, frames, captured)
          BY <3>1 DEF FlowInv
        <5>4. Ahead(f, s.n, pending', frames, captured)
          BY <1>2, <2>1, <4>1, <5>2, <5>3, TakenAhead
        <5>5. \A n \in Nat : Ahead(f, n, pending, frames, captured) => n < s.n
          BY <2>1, <4>1 DEF Ahead
        <5> QED
          BY <5>4, <5>5
      <4> HIDE DEF s
      <4> QED
        BY <1>1, <2>1, <2>3, <2>5, <3>1, <4>1, HandedOn
    <3>2. LookedUp'
      BY <2>5 DEF LookedUp
    <3> QED
      BY <1>3, <1>5, <2>5, <3>1, <3>2 DEF OrderInv
  <2> QED
    BY <1>9, <2>4, <2>5 DEF TakePending
<1>10. CASE ReadFrame
  <2> DEFINE s == Head(frames)
  <2>1. UNCHANGED <<chan, raced>> /\ tap.pc = "read" /\ frames # <<>> /\ frames' = Tail(frames)
    BY <1>10 DEF ReadFrame
  <2>2. /\ s \in Segment /\ s = frames[1] /\ 1 \in DOMAIN frames /\ frames' \in Seq(Segment)
        /\ Thins(frames', frames)
    BY <1>2, <2>1, TailOf, TailThins
  <2>3. s.flow \in Flows /\ s.n \in Nat
    BY <1>2, <2>2, SegmentTypes
  <2>4. ASSUME NEW inst \in Matches(s), UNCHANGED pending,
               tap' = [pc |-> "send", at |-> 0, held |-> Attributed(s, inst)]
        PROVE  OrderInv'
    <3>1. ASSUME NEW f \in Flows, f \notin raced, FlowInv(f)
          PROVE  FlowInv(f)'
      <4>1. ASSUME s.flow = f
            PROVE  /\ Ahead(f, s.n, pending', frames', captured)
                   /\ \A n \in Nat : Ahead(f, n, pending, frames, captured) => n < s.n
        <5>1. PICK p \in Pids : f \in index[p].flows
          BY <2>4, <4>1 DEF Matches
        <5>2. ASSUME NEW j \in DOMAIN pending
              PROVE  pending[j].flow # f
          BY <2>1, <3>1, <5>1 DEF OrderInv, LookedUp
        <5>3. Ordered(f, pending, frames, captured)
          BY <3>1 DEF FlowInv
        <5>4. Ahead(f, s.n, pending, Tail(frames), captured)
          BY <1>2, <2>1, <4>1, <5>2, <5>3, ReadAhead
        <5>5. \A n \in Nat : Ahead(f, n, pending, frames, captured) => n < s.n
          BY <2>2, <4>1 DEF Ahead
        <5> QED
          BY <2>1, <2>4, <5>4, <5>5
      <4>2. /\ Ordered(f, pending, frames, captured) => Ordered(f, pending', frames', captured)
            /\ \A n \in Nat : Ahead(f, n, pending, frames, captured)
                                => Ahead(f, n, pending', frames', captured)
        BY <1>2, <2>2, <2>4, ThinOrder
      <4> HIDE DEF s
      <4> QED
        BY <1>1, <2>1, <2>2, <2>4, <3>1, <4>1, <4>2, HandedOn
    <3>2. LookedUp'
      BY <2>4 DEF LookedUp
    <3> QED
      BY <1>3, <1>5, <2>1, <3>1, <3>2 DEF OrderInv
  <2>5. ASSUME Matches(s) = {}, PushPending(s), UNCHANGED tap
        PROVE  OrderInv'
    <3>1. PICK k \in 0..Len(pending), added \in {<<>>, <<s>>} :
            pending' = SubSeq(pending, k + 1, Len(pending)) \o added
      BY <1>2, <2>2, <2>5, PushedPending
    <3>2. PICK q : q = SubSeq(pending, k + 1, Len(pending))
      OBVIOUS
    <3>3. q \in Seq(Segment) /\ Thins(q, pending)
      BY <1>2, <3>2, SuffixThins
    <3>4. \/ pending' = q
          \/ pending' = Append(q, s)
      <4>1. pending' = q \o added
        BY <3>1, <3>2
      <4>2. CASE added = <<>>
        BY <3>3, <4>1, <4>2, ConcatEmptySeq
      <4>3. CASE added = <<s>>
        <5>1. Append(q, s) = q \o <<s>>
          BY <2>2, <3>3, AppendIsConcat
        <5> QED
          BY <4>1, <4>3, <5>1
      <4> QED
        BY <3>1, <4>2, <4>3
    <3>5. ASSUME NEW f \in Flows
          PROVE  /\ Ordered(f, pending, frames, captured) => Ordered(f, pending', frames', captured)
                 /\ \A n \in Nat : Ahead(f, n, pending, frames, captured)
                                     => Ahead(f, n, pending', frames', captured)
      <4>1. CASE pending' = q
        BY <1>2, <2>2, <3>3, <4>1, ThinOrder
      <4>2. CASE pending' = Append(q, s)
        <5>1. /\ Ordered(f, pending, frames, captured) => Ordered(f, q, frames, captured)
              /\ \A n \in Nat : Ahead(f, n, pending, frames, captured) => Ahead(f, n, q, frames, captured)
          BY <1>2, <3>3, ThinOrder
        <5>2. /\ Ordered(f, q, frames, captured) => Ordered(f, pending', Tail(frames), captured)
              /\ \A n \in Nat : Ahead(f, n, q, frames, captured)
                                  => Ahead(f, n, pending', Tail(frames), captured)
          BY <1>2, <2>1, <3>3, <4>2, MovedOrder
        <5> QED
          BY <2>1, <5>1, <5>2
      <4> QED
        BY <3>4, <4>1, <4>2
    <3>6. ASSUME NEW f \in Flows, FlowInv(f)
          PROVE  FlowInv(f)'
      BY <1>1, <2>1, <2>5, <3>5, <3>6, FlowKept
    <3>7. \A j \in DOMAIN q : \E k2 \in DOMAIN pending : q[j] = pending[k2]
      BY <3>3 DEF Thins
    <3>8. \A j \in DOMAIN pending' : pending'[j] = s \/ \E k2 \in DOMAIN pending : pending'[j] = pending[k2]
      <4>1. CASE pending' = q
        BY <3>7, <4>1
      <4>2. CASE pending' = Append(q, s)
        <5>1. /\ DOMAIN pending' = 1..(Len(q) + 1) /\ DOMAIN q = 1..Len(q) /\ Len(q) \in Nat
              /\ \A j \in DOMAIN q : pending'[j] = q[j]
              /\ pending'[Len(q) + 1] = s
          BY <2>2, <3>3, <4>2, AppendOf
        <5>2. \A j \in DOMAIN pending' : j \in DOMAIN q \/ j = Len(q) + 1
          BY <5>1
        <5> QED
          BY <3>7, <5>1, <5>2
      <4> QED
        BY <3>4, <4>1, <4>2
    <3>9. LookedUp'
      <4> SUFFICES ASSUME NEW j \in DOMAIN pending', pending'[j].flow \notin raced, NEW p \in Pids
                   PROVE  pending'[j].flow \notin index[p].flows
        BY <1>1, <2>1 DEF LookedUp
      <4>1. CASE pending'[j] = s
        BY <1>6, <2>5, <4>1
      <4>2. CASE \E k2 \in DOMAIN pending : pending'[j] = pending[k2]
        BY <2>1, <4>2 DEF OrderInv, LookedUp
      <4> QED
        BY <3>8, <4>1, <4>2
    <3> QED
      BY <1>3, <1>5, <2>1, <3>6, <3>9 DEF OrderInv
  <2> QED
    BY <1>10, <2>4, <2>5 DEF ReadFrame
<1>11. CASE RecvNothing
  <2>1. UNCHANGED <<frames, chan, raced, pending>> /\ tap'.pc = "rest"
    BY <1>11 DEF RecvNothing, AtRecv
  <2>2. ASSUME NEW f \in Flows, FlowInv(f)
        PROVE  FlowInv(f)'
    BY <1>1, <2>1, <2>2, FlowKept
  <2> QED
    BY <1>3, <1>5, <2>1, <2>2 DEF OrderInv, LookedUp
<1>12. CASE TapSend
  <2> DEFINE e == tap.held
  <2>1. UNCHANGED <<frames, raced, pending>> /\ tap'.pc = "rest" /\ tap.pc = "send"
        /\ chan' = Append(chan, e) /\ e \in Input /\ e.kind = "segment"
    BY <1>12 DEF TapSend, Send, AtRecv, IntakeTypes, TapTypeOK, Input, SegmentInput
  <2>2. /\ DOMAIN chan' = 1..(Len(chan) + 1) /\ DOMAIN chan = 1..Len(chan) /\ Len(chan) \in Nat
        /\ \A k \in DOMAIN chan : chan'[k] = chan[k]
        /\ chan'[Len(chan) + 1] = e
    BY <1>2, <2>1, AppendOf
  <2>3. ASSUME NEW f \in Flows, FlowInv(f)
        PROVE  FlowInv(f)'
    <3>1. InFlow(e, f) => Holds(f)
      BY <2>1 DEF Holds
    <3>2. InOrder(f, chan', last')
      <4> SUFFICES ASSUME NEW k \in DOMAIN chan', InFlow(chan'[k], f)
                   PROVE  /\ last[f] < chan'[k].seg.n
                          /\ \A j \in DOMAIN chan' : j < k /\ InFlow(chan'[j], f)
                               => chan'[j].seg.n < chan'[k].seg.n
        BY <1>1 DEF InOrder
      <4>1. CASE k \in DOMAIN chan
        <5>1. \A j \in DOMAIN chan' : j < k => j \in DOMAIN chan
          BY <2>2, <4>1
        <5> QED
          BY <2>2, <2>3, <4>1, <5>1 DEF FlowInv, InOrder
      <4>2. CASE k = Len(chan) + 1
        <5>1. \A j \in DOMAIN chan' : j < k => j \in DOMAIN chan
          BY <2>2, <4>2
        <5>2. Holds(f) /\ chan'[k] = e
          BY <2>2, <3>1, <4>2
        <5> QED
          BY <2>2, <2>3, <5>1, <5>2 DEF FlowInv
      <4> QED
        BY <2>2, <4>1, <4>2
    <3>3. \A k \in DOMAIN chan' : InFlow(chan'[k], f) => Ahead(f, chan'[k].seg.n, pending, frames, captured)
      <4> SUFFICES ASSUME NEW k \in DOMAIN chan', InFlow(chan'[k], f)
                   PROVE  Ahead(f, chan'[k].seg.n, pending, frames, captured)
        OBVIOUS
      <4>1. CASE k \in DOMAIN chan
        BY <2>2, <2>3, <4>1 DEF FlowInv
      <4>2. CASE k = Len(chan) + 1
        BY <2>2, <2>3, <3>1, <4>2 DEF FlowInv
      <4> QED
        BY <2>2, <4>1, <4>2
    <3>4. ~Holds(f)'
      BY <2>1 DEF Holds
    <3> QED
      BY <1>1, <2>1, <2>3, <3>2, <3>3, <3>4 DEF FlowInv
  <2> QED
    BY <1>3, <1>5, <2>1, <2>3 DEF OrderInv, LookedUp
<1> QED
  BY <1>7, <1>8, <1>9, <1>10, <1>11, <1>12 DEF Tap

(* The lane receives the segments of a connection once and in the order of *)
(* their capture, whatever waits, expires, is dropped at either limit or   *)
(* loses its process, and for any number of connections - unless the index *)
(* came to know the connection while recv was looking, or recv left it     *)
(* behind when another segment had lost its process (pop_attributed_pending*)
(* and recv of the packet source).                                         *)
THEOREM SegmentsInOrder == Spec => []InOrderUnlessRaced
<1>1. Init => IntakeTypes /\ OrderInv
  <2> SUFFICES ASSUME Init
               PROVE  OrderInv
    BY TypesInit
  <2>1. LookedUp /\ InOrderUnlessRaced
    BY DEF Init, LookedUp, InOrderUnlessRaced, AtRecv
  <2>2. ASSUME NEW f \in Flows
        PROVE  FlowInv(f)
    <3>1. captured[f] = 0 /\ last[f] = 0 /\ pending = <<>> /\ frames = <<>> /\ chan = <<>>
          /\ tap.pc = "rest"
      BY DEF Init, AtRecv
    <3> QED
      BY <3>1 DEF FlowInv, Ordered, Rising, Ahead, InOrder, Holds
  <2> QED
    BY <2>1, <2>2 DEF OrderInv
<1>2. IntakeTypes /\ OrderInv /\ [Next]_vars => (IntakeTypes /\ OrderInv)'
  <2> SUFFICES ASSUME IntakeTypes, OrderInv, [Next]_vars
               PROVE  IntakeTypes' /\ OrderInv'
    OBVIOUS
  <2>1. IntakeTypes'
    BY TypesKept
  <2>2. CASE UNCHANGED vars
    <3>1. UNCHANGED <<frames, captured, index, pending, tap, chan, last, swapped, raced>>
      BY <2>2 DEF vars, osVars, tapVars, laneVars
    <3>2. \A f \in Flows : FlowInv(f) => FlowInv(f)'
      BY <3>1, FlowKept
    <3> QED
      BY <2>1, <3>1, <3>2 DEF OrderInv, LookedUp, InOrderUnlessRaced
  <2> QED
    BY <2>1, <2>2, MachineOrder, DiscoveryOrder, TapOrder, EbpfOrder, LaneOrder DEF Next
<1>3. OrderInv => InOrderUnlessRaced
  BY DEF OrderInv
<1> QED
  BY <1>1, <1>2, <1>3, PTL DEF Spec

-----------------------------------------------------------------------------
(* What Bytes, a recursion over positions, adds up to. *)

SizeOf(s) == SegmentSize[s.flow]

Sums(f, segs, N) == f = [k \in 0..N |-> IF k = 0 THEN 0 ELSE f[k - 1] + SegmentSize[segs[k].flow]]

SumExists(segs, N) == \E f : Sums(f, segs, N)

LEMMA SumsExist ==
  ASSUME NEW segs, NEW N \in Nat
  PROVE  SumExists(segs, N)
<1> DEFINE D == {n \in Nat : ~SumExists(segs, n)}
<1>1. SumExists(segs, 0)
  <2>1. PICK f : f = [k \in 0..0 |-> 0]
    OBVIOUS
  <2>2. f = [k \in 0..0 |-> IF k = 0 THEN 0 ELSE f[k - 1] + SegmentSize[segs[k].flow]]
    BY <2>1
  <2> QED
    BY <2>2 DEF SumExists, Sums
<1>2. ASSUME NEW n \in Nat, SumExists(segs, n)
      PROVE  SumExists(segs, n + 1)
  <2>1. PICK g : g = [k \in 0..n |-> IF k = 0 THEN 0 ELSE g[k - 1] + SegmentSize[segs[k].flow]]
    BY <1>2 DEF SumExists, Sums
  <2>2. PICK f : f = [k \in 0..(n + 1) |-> IF k = n + 1 THEN g[n] + SegmentSize[segs[n + 1].flow] ELSE g[k]]
    OBVIOUS
  <2>3. ASSUME NEW k \in 0..(n + 1)
        PROVE  f[k] = IF k = 0 THEN 0 ELSE f[k - 1] + SegmentSize[segs[k].flow]
    <3>1. CASE k = 0
      BY <2>1, <2>2, <3>1
    <3>2. CASE k = n + 1
      <4>1. f[k] = g[n] + SegmentSize[segs[k].flow] /\ f[n] = g[n] /\ k - 1 = n
        BY <2>2, <3>2
      <4> QED
        BY <3>2, <4>1
    <3>3. CASE k # 0 /\ k # n + 1
      <4>1. PICK j \in 0..n : j = k - 1
        BY <3>3
      <4>2. f[k] = g[k] /\ f[j] = g[j] /\ g[k] = g[j] + SegmentSize[segs[k].flow]
        BY <2>1, <2>2, <3>3, <4>1
      <4> QED
        BY <3>3, <4>1, <4>2
    <3> QED
      BY <3>1, <3>2, <3>3
  <2>4. f = [k \in 0..(n + 1) |-> IF k = 0 THEN 0 ELSE f[k - 1] + SegmentSize[segs[k].flow]]
    BY <2>2, <2>3
  <2> QED
    BY <2>4 DEF SumExists, Sums
<1>3. D = {}
  <2> SUFFICES ASSUME D # {}
               PROVE  FALSE
    OBVIOUS
  <2>1. PICK d \in D : \A m \in D : d <= m
    <3>1. D \subseteq Nat
      OBVIOUS
    <3> HIDE DEF D
    <3> QED
      BY <3>1, LeastNumber
  <2>2. d \in Nat /\ d # 0
    BY <1>1
  <2>3. PICK e \in Nat : e + 1 = d
    BY <2>2
  <2>4. ~(e \in D)
    BY <2>1, <2>3
  <2> QED
    BY <1>2, <2>3, <2>4
<1> QED
  BY <1>3

(* The bytes that a queue of segments has up to each position. *)
Growing(f, segs) ==
  /\ f \in [0..Len(segs) -> Nat]
  /\ f[0] = 0
  /\ \A k \in 1..Len(segs) : f[k] = f[k - 1] + SizeOf(segs[k])

LEMMA SizeTypes ==
  ASSUME NEW s \in Segment
  PROVE  SizeOf(s) \in Nat
BY IntakeAssumption DEF SizeOf, Segment

(* Two functions that start and grow alike are the same. *)
Alike(f, g, segs, N) ==
  /\ f[0] = g[0]
  /\ \A k \in 1..N : f[k] = f[k - 1] + SizeOf(segs[k]) /\ g[k] = g[k - 1] + SizeOf(segs[k])

LEMMA SumsAgree ==
  ASSUME NEW N \in Nat, NEW f, NEW g, NEW segs, Alike(f, g, segs, N)
  PROVE  \A k \in 0..N : f[k] = g[k]
<1> USE DEF Alike
<1> DEFINE D == {k \in 0..N : f[k] # g[k]}
<1> SUFFICES ASSUME D # {}
             PROVE  FALSE
  OBVIOUS
<1>1. PICK d \in D : \A m \in D : d <= m
  <2>1. D \subseteq Nat
    OBVIOUS
  <2> HIDE DEF D
  <2> QED
    BY <2>1, LeastNumber
<1>2. d \in 0..N /\ d # 0 /\ f[d] # g[d]
  OBVIOUS
<1>3. PICK e \in 0..N : e = d - 1
  BY <1>2
<1>4. ~(e \in D)
  BY <1>1, <1>2, <1>3
<1>5. f[e] = g[e]
  BY <1>4
<1>6. d \in 1..N
  BY <1>2
<1> QED
  BY <1>2, <1>3, <1>5, <1>6

(* Any function that starts with nothing and grows by each segment has the *)
(* byte count at its end; and there is one.                                *)
LEMMA BytesIs ==
  ASSUME NEW segs \in Seq(Segment)
  PROVE  /\ \E f : Growing(f, segs)
         /\ \A g : Growing(g, segs) => g[Len(segs)] = Bytes(segs)
<1>1. PICK N \in Nat : N = Len(segs)
  OBVIOUS
<1>2. PICK f : f = CHOOSE h : Sums(h, segs, N)
  OBVIOUS
<1>3. Sums(f, segs, N)
  BY <1>2, SumsExist DEF SumExists
<1>4. /\ f[0] = 0
      /\ \A k \in 1..N : f[k] = f[k - 1] + SizeOf(segs[k])
  <2>1. f = [k \in 0..N |-> IF k = 0 THEN 0 ELSE f[k - 1] + SegmentSize[segs[k].flow]]
    BY <1>3 DEF Sums
  <2> QED
    BY <2>1 DEF SizeOf
<1>5. Bytes(segs) = f[N]
  BY <1>1, <1>2 DEF Bytes, Sums
<1>6. f \in [0..N -> Nat]
  <2>1. \A k \in 1..N : SizeOf(segs[k]) \in Nat
    BY <1>1, SizeTypes
  <2> DEFINE D == {k \in 0..N : f[k] \notin Nat}
  <2>2. D = {}
    <3> SUFFICES ASSUME D # {}
                 PROVE  FALSE
      OBVIOUS
    <3>1. PICK d \in D : \A m \in D : d <= m
      <4>1. D \subseteq Nat
        OBVIOUS
      <4> HIDE DEF D
      <4> QED
        BY <4>1, LeastNumber
    <3>2. d \in 1..N
      BY <1>4
    <3>3. PICK e \in 0..N : e = d - 1
      BY <3>2
    <3>4. f[e] \in Nat
      BY <3>1, <3>2, <3>3
    <3> QED
      BY <1>4, <2>1, <3>2, <3>3, <3>4
  <2>3. f = [k \in 0..N |-> f[k]]
    BY <1>3 DEF Sums
  <2> QED
    BY <2>2, <2>3
<1>7. Growing(f, segs)
  BY <1>1, <1>4, <1>6 DEF Growing
<1>8. ASSUME NEW g, Growing(g, segs)
      PROVE  g[N] = f[N]
  <2>1. g[0] = 0 /\ \A k \in 1..N : g[k] = g[k - 1] + SizeOf(segs[k])
    BY <1>1, <1>8 DEF Growing
  <2>2. Alike(f, g, segs, N)
    BY <1>4, <2>1 DEF Alike
  <2>3. \A k \in 0..N : f[k] = g[k]
    BY <2>2, SumsAgree
  <2> QED
    BY <2>3
<1> QED
  BY <1>1, <1>5, <1>7, <1>8

(* The bytes of a part of a queue. *)
LEMMA BytesOfPart ==
  ASSUME NEW s \in Seq(Segment), NEW f, Growing(f, s), NEW i \in 0..Len(s), NEW j \in i..Len(s)
  PROVE  Bytes(SubSeq(s, i + 1, j)) = f[j] - f[i] /\ f[j] - f[i] \in Nat
<1>1. PICK N \in Nat : N = Len(s)
  OBVIOUS
<1>0. i \in 0..N /\ j \in 0..N
  BY <1>1
<1>2. PICK n \in Nat : n = j - i /\ i + n = j
  BY <1>1
<1>3. PICK t : t = SubSeq(s, i + 1, j)
  OBVIOUS
<1>4. t \in Seq(Segment) /\ Len(t) = n /\ \A k \in 1..n : t[k] = s[i + k]
  <2>1. i + 1 \in 1..(Len(s) + 1) /\ j \in i..Len(s)
    BY <1>1
  <2> QED
    BY <1>1, <1>2, <1>3, <2>1
<1>5. /\ f \in [0..N -> Nat]
      /\ \A k \in 1..N : f[k] = f[k - 1] + SizeOf(s[k]) /\ SizeOf(s[k]) \in Nat
  BY <1>1, SizeTypes DEF Growing
<1>6. \A k \in 0..n : f[i + k] - f[i] \in Nat
  <2> DEFINE D == {k \in 0..n : f[i + k] - f[i] \notin Nat}
  <2> SUFFICES ASSUME D # {}
               PROVE  FALSE
    OBVIOUS
  <2>1. PICK d \in D : \A m \in D : d <= m
    <3>1. D \subseteq Nat
      OBVIOUS
    <3> HIDE DEF D
    <3> QED
      BY <3>1, LeastNumber
  <2>2. d \in 1..n
    <3>1. d \in 0..n /\ f[i + d] - f[i] \notin Nat
      BY <2>1
    <3>2. i + 0 = i /\ f[i] - f[i] = 0
      BY <1>0, <1>5
    <3>3. d # 0
      BY <3>1, <3>2
    <3> QED
      BY <3>1, <3>3
  <2>3. PICK e \in 0..n : e = d - 1 /\ i + e = (i + d) - 1
    BY <1>0, <2>2
  <2>4. f[i + e] - f[i] \in Nat
    <3>1. ~(d <= e)
      BY <2>2, <2>3
    <3>2. ~(e \in D)
      BY <2>1, <3>1
    <3> QED
      BY <3>2
  <2>5. PICK x \in 1..N : x = i + d
    BY <1>1, <1>2, <2>2
  <2>6. f[x] = f[i + e] + SizeOf(s[x]) /\ SizeOf(s[x]) \in Nat
    BY <1>5, <2>3, <2>5
  <2>7. f[i] \in Nat /\ f[i + e] \in Nat /\ f[x] \in Nat
    <3>1. i + e \in 0..N
      BY <1>0, <1>1, <1>2, <2>3
    <3>2. f \in [0..N -> Nat] /\ x \in 0..N
      BY <1>5, <2>5
    <3> QED
      BY <1>0, <3>1, <3>2
  <2>8. f[x] - f[i] \in Nat
    <3>1. PICK u, v, w \in Nat : u = f[i] /\ v = f[i + e] /\ w = SizeOf(s[x])
      BY <2>6, <2>7
    <3>2. v - u \in Nat /\ f[x] = v + w
      BY <2>4, <2>6, <3>1
    <3>3. \A a, b, c \in Nat : b - a \in Nat => (b + c) - a \in Nat
      OBVIOUS
    <3> QED
      BY <3>1, <3>2, <3>3
  <2> QED
    BY <2>1, <2>5, <2>8
<1>7. PICK g : g = [k \in 0..n |-> f[i + k] - f[i]]
  OBVIOUS
<1>8. Growing(g, t)
  <2>1. g \in [0..n -> Nat]
    BY <1>6, <1>7
  <2>2. g[0] = 0
    <3>1. i + 0 = i /\ f[i] \in Nat
      BY <1>1, <1>5
    <3> QED
      BY <1>7, <3>1
  <2>3. ASSUME NEW k \in 1..n
        PROVE  g[k] = g[k - 1] + SizeOf(t[k])
    <3>1. PICK x \in 1..N : x = i + k
      BY <1>1, <1>2
    <3>2. PICK y \in 0..N : y = x - 1
      OBVIOUS
    <3>3. g[k] = f[x] - f[i] /\ g[k - 1] = f[y] - f[i]
      <4>1. k - 1 \in 0..n /\ i + (k - 1) = y
        BY <1>1, <3>1, <3>2
      <4> QED
        BY <1>7, <3>1, <4>1
    <3>4. f[x] = f[y] + SizeOf(s[x]) /\ t[k] = s[x] /\ SizeOf(s[x]) \in Nat
      BY <1>4, <1>5, <3>1, <3>2
    <3>5. f[x] \in Nat /\ f[y] \in Nat /\ f[i] \in Nat
      BY <1>0, <1>5, <3>1
    <3> QED
      BY <3>3, <3>4, <3>5
  <2> QED
    BY <1>4, <2>1, <2>2, <2>3 DEF Growing
<1>9. g[n] = Bytes(t)
  BY <1>4, <1>8, BytesIs
<1>10. g[n] = f[j] - f[i] /\ f[j] - f[i] \in Nat
  <2>1. n \in 0..n
    OBVIOUS
  <2> QED
    BY <1>2, <1>6, <1>7, <2>1
<1> QED
  BY <1>3, <1>9, <1>10

LEMMA BytesTyped ==
  ASSUME NEW s \in Seq(Segment)
  PROVE  Bytes(s) \in Nat
<1>1. PICK f : Growing(f, s)
  BY BytesIs
<1>2. f[Len(s)] \in Nat
  BY <1>1 DEF Growing
<1> QED
  BY <1>1, <1>2, BytesIs

(* What is dropped and what is kept add up. *)
LEMMA BytesSplit ==
  ASSUME NEW s \in Seq(Segment), NEW k \in 0..Len(s)
  PROVE  Bytes(SubSeq(s, k + 1, Len(s))) = Bytes(s) - Bytes(SubSeq(s, 1, k))
<1>1. PICK f : Growing(f, s)
  BY BytesIs
<1>2. PICK N \in Nat : N = Len(s)
  OBVIOUS
<1>3. f[N] = Bytes(s)
  BY <1>1, <1>2, BytesIs
<1>4. f[0] = 0 /\ f[k] \in Nat /\ f[N] \in Nat
  BY <1>1, <1>2 DEF Growing
<1>5. Bytes(SubSeq(s, k + 1, N)) = f[N] - f[k]
  BY <1>1, <1>2, BytesOfPart
<1>6. Bytes(SubSeq(s, 0 + 1, k)) = f[k] - f[0]
  <2>1. 0 \in 0..Len(s) /\ k \in 0..Len(s)
    BY <1>2
  <2> QED
    BY <1>1, <2>1, BytesOfPart
<1> QED
  BY <1>2, <1>3, <1>4, <1>5, <1>6

LEMMA BytesConcat ==
  ASSUME NEW a \in Seq(Segment), NEW b \in Seq(Segment)
  PROVE  Bytes(a \o b) = Bytes(a) + Bytes(b)
<1>1. PICK s, m, n : s = a \o b /\ m = Len(a) /\ n = Len(b)
  OBVIOUS
<1>2. m \in Nat /\ n \in Nat /\ s \in Seq(Segment) /\ Len(s) = m + n
  BY <1>1, ConcatProperties
<1>3. \A k \in 1..(m + n) : s[k] = IF k <= m THEN a[k] ELSE b[k - m]
  BY <1>1, ConcatProperties
<1>4. SubSeq(s, 1, m) = a
  <2>1. SubSeq(s, 1, m) \in Seq(Segment) /\ Len(SubSeq(s, 1, m)) = m
        /\ \A k \in 1..m : SubSeq(s, 1, m)[k] = s[k]
    BY <1>2
  <2>2. \A k \in 1..m : s[k] = a[k]
    BY <1>2, <1>3
  <2> QED
    BY <1>1, <2>1, <2>2, SeqEqual
<1>5. SubSeq(s, m + 1, m + n) = b
  <2>1. SubSeq(s, m + 1, m + n) \in Seq(Segment) /\ Len(SubSeq(s, m + 1, m + n)) = n
        /\ \A k \in 1..n : SubSeq(s, m + 1, m + n)[k] = s[m + k]
    BY <1>2
  <2>2. ASSUME NEW k \in 1..n
        PROVE  s[m + k] = b[k]
    <3>1. m + k \in 1..(m + n) /\ ~(m + k <= m) /\ (m + k) - m = k
      BY <1>2
    <3> QED
      BY <1>3, <3>1
  <2> QED
    BY <1>1, <2>1, <2>2, SeqEqual
<1>6. Bytes(b) = Bytes(s) - Bytes(a)
  <2>1. m \in 0..Len(s)
    BY <1>2
  <2> QED
    BY <1>2, <1>4, <1>5, <2>1, BytesSplit
<1>7. Bytes(a) \in Nat /\ Bytes(b) \in Nat /\ Bytes(s) \in Nat
  BY <1>2, BytesTyped
<1> QED
  BY <1>1, <1>6, <1>7

LEMMA BytesOfOne ==
  ASSUME NEW s \in Segment
  PROVE  Bytes(<<>>) = 0 /\ Bytes(<<s>>) = SizeOf(s)
<1>1. <<>> \in Seq(Segment) /\ Len(<<>>) = 0 /\ <<s>> \in Seq(Segment) /\ Len(<<s>>) = 1
  OBVIOUS
<1>2. PICK f, g : Growing(f, <<>>) /\ Growing(g, <<s>>)
  BY <1>1, BytesIs
<1>3. f[0] = 0 /\ g[0] = 0 /\ g[1] = 0 + SizeOf(s)
  BY <1>1, <1>2 DEF Growing
<1>4. f[0] = Bytes(<<>>)
  BY <1>1, <1>2, BytesIs
<1>5. g[1] = Bytes(<<s>>)
  BY <1>1, <1>2, BytesIs
<1>6. SizeOf(s) \in Nat
  BY SizeTypes
<1> QED
  BY <1>3, <1>4, <1>5, <1>6

LEMMA BytesWithout ==
  ASSUME NEW s \in Seq(Segment), NEW i \in 1..Len(s)
  PROVE  Bytes(RemoveAt(s, i)) = Bytes(s) - SizeOf(s[i]) /\ Len(RemoveAt(s, i)) = Len(s) - 1
<1>1. PICK f : Growing(f, s)
  BY BytesIs
<1>2. PICK N \in Nat : N = Len(s)
  OBVIOUS
<1>3. PICK h \in 0..N : h = i - 1
  BY <1>2
<1>4. PICK a, b : a = SubSeq(s, 1, h) /\ b = SubSeq(s, i + 1, N)
  OBVIOUS
<1>5. a \in Seq(Segment) /\ b \in Seq(Segment) /\ Len(a) = h /\ Len(b) = N - i
  BY <1>2, <1>3, <1>4
<1>6. RemoveAt(s, i) = a \o b
  BY <1>2, <1>3, <1>4 DEF RemoveAt
<1>7. f[0] = 0 /\ f[h] \in Nat /\ f[i] \in Nat /\ f[N] \in Nat /\ f[i] = f[h] + SizeOf(s[i])
  BY <1>1, <1>2, <1>3 DEF Growing
<1>8. Bytes(a) = f[h]
  <2>1. 0 \in 0..Len(s) /\ h \in 0..Len(s)
    BY <1>2
  <2>2. Bytes(SubSeq(s, 0 + 1, h)) = f[h] - f[0]
    BY <1>1, <2>1, BytesOfPart
  <2> QED
    BY <1>4, <1>7, <2>2
<1>9. Bytes(b) = f[N] - f[i]
  <2>1. i \in 0..Len(s) /\ N \in i..Len(s)
    BY <1>2
  <2> QED
    BY <1>1, <1>4, <2>1, BytesOfPart
<1>10. f[N] = Bytes(s)
  BY <1>1, <1>2, BytesIs
<1>11. Bytes(a \o b) = Bytes(a) + Bytes(b) /\ Len(a \o b) = N - 1
  <2>1. Len(a \o b) = Len(a) + Len(b)
    BY <1>5, ConcatProperties
  <2>2. Len(a \o b) = h + (N - i)
    BY <1>5, <2>1
  <2>3. Len(a \o b) = N - 1
    BY <1>2, <1>3, <2>2
  <2> QED
    BY <1>5, <2>3, BytesConcat
<1>12. SizeOf(s[i]) \in Nat
  BY SizeTypes
<1> QED
  BY <1>2, <1>6, <1>7, <1>8, <1>9, <1>10, <1>11, <1>12

-----------------------------------------------------------------------------
(* The limits: of the processes, of the channel, of the ring and of what   *)
(* waits.                                                                  *)

LimitInv ==
  /\ owner \in [Flows -> Procs \union {Other, Nobody}]
  /\ Len(procs) <= bound.procs
  /\ Len(chan) <= ChannelCap
  /\ Len(ring) <= bound.ring
  /\ PendingAccounted

LEMMA BoundTypes ==
  ASSUME IntakeTypes
  PROVE  /\ bound.procs \in 0..MaxProcs /\ bound.ring \in Nat
         /\ MaxProcs \in Nat /\ ChannelCap \in Nat \ {0}
         /\ MaxPendingSegments \in Nat \ {0} /\ MaxPendingBytes \in Nat
         /\ SegmentSize \in [Flows -> Nat \ {0}]
BY IntakeAssumption DEF IntakeTypes, MachineTypeOK

(* push_pending: what is kept and what is added fit. *)
LEMMA PushedFits ==
  ASSUME IntakeTypes, PendingAccounted, NEW s \in Segment, PushPending(s)
  PROVE  PendingAccounted'
<1>1. pending \in Seq(Segment)
  BY DEF IntakeTypes, TapTypeOK
<1>2. PICK size, N : size = SizeOf(s) /\ N = Len(pending)
  OBVIOUS
<1>3. size \in Nat /\ N \in Nat /\ size = SegmentSize[s.flow]
  BY <1>1, <1>2, SizeTypes DEF SizeOf
<1> DEFINE Room(k) == /\ Fits(k, size) \/ k = N
                      /\ \A j \in 0..(k - 1) : ~Fits(j, size)
           D == {k \in 0..N : Fits(k, size) \/ k = N}
<1>4. \E k \in 0..N : Room(k)
  <2>1. D \subseteq Nat /\ N \in D
    BY <1>3
  <2>2. PICK d \in D : \A m \in D : d <= m
    <3> HIDE DEF D
    <3> QED
      BY <2>1, LeastNumber
  <2>3. d \in 0..N /\ (Fits(d, size) \/ d = N)
    BY <2>2
  <2>4. ASSUME NEW j \in 0..(d - 1)
        PROVE  ~Fits(j, size)
    <3>1. j \in 0..N /\ ~(d <= j)
      BY <1>3, <2>3
    <3>2. ~(j \in D)
      BY <2>2, <3>1
    <3> QED
      BY <3>1, <3>2
  <2> QED
    BY <2>3, <2>4
<1>5. PICK k : k = CHOOSE j \in 0..N : Room(j)
  OBVIOUS
<1>6. k \in 0..N /\ (Fits(k, size) \/ k = N)
  BY <1>4, <1>5
<1>7. PICK kept, dropped, added : /\ kept = SubSeq(pending, k + 1, N)
                                  /\ dropped = SubSeq(pending, 1, k)
                                  /\ added = IF size <= MaxPendingBytes THEN <<s>> ELSE <<>>
  OBVIOUS
<1>8. /\ pending' = kept \o added
      /\ pendingBytes' = pendingBytes - Bytes(dropped) + Bytes(added)
  BY <1>2, <1>3, <1>5, <1>7 DEF PushPending
<1>9. /\ kept \in Seq(Segment) /\ Len(kept) = N - k
      /\ dropped \in Seq(Segment) /\ added \in Seq(Segment)
  <2>1. kept \in Seq(Segment) /\ Len(kept) = N - k
    BY <1>1, <1>2, <1>3, <1>6, <1>7
  <2>2. dropped \in Seq(Segment)
    BY <1>1, <1>2, <1>3, <1>6, <1>7
  <2>3. <<s>> \in Seq(Segment) /\ <<>> \in Seq(Segment)
    OBVIOUS
  <2> QED
    BY <1>7, <2>1, <2>2, <2>3
<1>10. Bytes(kept) = Bytes(pending) - Bytes(dropped)
  BY <1>1, <1>2, <1>6, <1>7, BytesSplit
<1>11. Bytes(kept) \in Nat /\ Bytes(dropped) \in Nat /\ Bytes(added) \in Nat /\ Bytes(pending) \in Nat
  BY <1>1, <1>9, BytesTyped
<1>12. Bytes(kept \o added) = Bytes(kept) + Bytes(added)
  BY <1>9, BytesConcat
<1>13. pendingBytes' = Bytes(pending')
  BY <1>8, <1>10, <1>11, <1>12 DEF PendingAccounted
<1>14. Len(pending') = (N - k) + Len(added)
  BY <1>8, <1>9, ConcatProperties
<1>15. MaxPendingBytes \in Nat /\ MaxPendingSegments \in Nat \ {0}
  BY BoundTypes
<1>16. CASE size <= MaxPendingBytes
  <2>1. Len(added) = 1 /\ Bytes(added) = size
    BY <1>2, <1>7, <1>16, BytesOfOne
  <2>2. Fits(k, size)
    <3>1. CASE k = N
      <4>1. Len(kept) = 0
        BY <1>3, <1>9, <3>1
      <4>2. kept = <<>>
        BY <1>9, <4>1, EmptySeq
      <4>3. Bytes(kept) = 0
        BY <4>2, BytesOfOne
      <4> QED
        BY <1>2, <1>3, <1>7, <1>15, <1>16, <3>1, <4>3 DEF Fits
    <3> QED
      BY <1>6, <3>1
  <2>3. N - k < MaxPendingSegments /\ Bytes(kept) + size <= MaxPendingBytes
    BY <1>2, <1>7, <2>2 DEF Fits
  <2>4. Len(pending') <= MaxPendingSegments
    BY <1>3, <1>6, <1>14, <1>15, <2>1, <2>3
  <2> QED
    BY <1>8, <1>12, <1>13, <2>1, <2>3, <2>4 DEF PendingAccounted
<1>17. CASE ~(size <= MaxPendingBytes)
  <2>1. Len(added) = 0 /\ Bytes(added) = 0
    BY <1>7, <1>17, BytesOfOne
  <2>2. Bytes(pending) <= MaxPendingBytes /\ N <= MaxPendingSegments
    BY <1>2 DEF PendingAccounted
  <2>3. Bytes(kept) + 0 <= MaxPendingBytes
    BY <1>10, <1>11, <1>15, <2>2
  <2>4. Len(pending') <= MaxPendingSegments
    BY <1>3, <1>6, <1>14, <1>15, <2>1, <2>2
  <2> QED
    BY <1>8, <1>12, <1>13, <2>1, <2>3, <2>4 DEF PendingAccounted
<1> QED
  BY <1>16, <1>17

(* A send that waits for room leaves the channel within its capacity. *)
LEMMA SentFits ==
  ASSUME IntakeTypes, NEW e \in Input, Send(e)
  PROVE  Len(chan') <= ChannelCap
<1>1. chan \in Seq(Input) /\ ChannelCap \in Nat
  BY BoundTypes DEF IntakeTypes, LaneTypeOK
<1>2. Len(chan) < ChannelCap /\ chan' = Append(chan, e)
  BY DEF Send
<1>3. Len(chan') = Len(chan) + 1 /\ Len(chan) \in Nat
  BY <1>1, <1>2
<1> QED
  BY <1>1, <1>2, <1>3

LEMMA ReceivedFits ==
  ASSUME IntakeTypes, LimitInv, chan # <<>>, chan' = Tail(chan)
  PROVE  Len(chan') <= ChannelCap
<1>1. chan \in Seq(Input) /\ ChannelCap \in Nat
  BY BoundTypes DEF IntakeTypes, LaneTypeOK
<1>2. Len(chan') = Len(chan) - 1 /\ Len(chan) \in Nat
  BY <1>1, HeadTailProperties
<1> QED
  BY <1>1, <1>2 DEF LimitInv

(* emit_record keeps the ring within its size. *)
LEMMA EmittedFits ==
  ASSUME IntakeTypes, LimitInv, NEW kind \in {"exec", "exit"}, NEW p \in Pids, Emit(kind, p)
  PROVE  Len(ring') <= bound.ring
<1>1. ring \in Seq([kind : {"exec", "exit"}, pid : Pids]) /\ bound.ring \in Nat
  BY BoundTypes DEF IntakeTypes, LaneTypeOK
<1>2. CASE ring' = ring
  BY <1>2 DEF LimitInv
<1>3. CASE Len(ring) < bound.ring /\ ring' = Append(ring, [kind |-> kind, pid |-> p])
  <2>1. Len(ring') = Len(ring) + 1 /\ Len(ring) \in Nat
    BY <1>1, <1>3
  <2> QED
    BY <1>1, <1>3, <2>1
<1> QED
  BY <1>2, <1>3 DEF Emit

LEMMA PendingUnchanged ==
  ASSUME PendingAccounted, UNCHANGED <<pending, pendingBytes>>
  PROVE  PendingAccounted'
BY DEF PendingAccounted

LEMMA MachineLimits ==
  ASSUME IntakeTypes, LimitInv, Machine
  PROVE  LimitInv'
<1>1. bound' = bound /\ chan' = chan /\ UNCHANGED <<pending, pendingBytes>>
  BY DEF Machine, ProcessStarts, ThreadExits, ProcessDies, ExecutableReplaced, PacketCaptured, Connect, tapVars
<1>2. PendingAccounted' /\ Len(chan') <= ChannelCap
  BY <1>1, PendingUnchanged DEF LimitInv
<1>3. procs \in Seq([pid : Pids, path : Paths \union {Deleted}]) /\ alive \subseteq DOMAIN procs
      /\ bound.procs \in 0..MaxProcs /\ MaxProcs \in Nat
  BY BoundTypes DEF IntakeTypes, MachineTypeOK
<1>4. \A q \in alive : q \in Procs /\ procs[q].pid \in Pids
  <2>1. Len(procs) \in Nat /\ Len(procs) <= bound.procs /\ DOMAIN procs = 1..Len(procs)
    BY <1>3 DEF LimitInv
  <2>2. 1..Len(procs) \subseteq Procs
    BY <1>3, <2>1 DEF Procs
  <2>3. \A q \in DOMAIN procs : procs[q].pid \in Pids
    BY ProcessTypes
  <2>4. DOMAIN procs \subseteq Procs
    BY <2>1, <2>2
  <2> QED
    BY <1>3, <2>3, <2>4
<1>5. ASSUME NEW p \in Pids, NEW path \in bound.paths, ProcessStarts(p, path)
      PROVE  LimitInv'
  <2>1. Len(procs') <= bound.procs
    <3>1. Len(procs) < bound.procs /\ procs' = Append(procs, [pid |-> p, path |-> path])
      BY <1>5 DEF ProcessStarts
    <3>2. Len(procs') = Len(procs) + 1 /\ Len(procs) \in Nat
      BY <1>3, <3>1
    <3> QED
      BY <1>3, <3>1, <3>2
  <2>2. Len(ring') <= bound.ring
    BY <1>5, EmittedFits DEF ProcessStarts
  <2> QED
    BY <1>1, <1>2, <1>5, <2>1, <2>2 DEF ProcessStarts, LimitInv
<1>6. ASSUME NEW q \in alive, ThreadExits(q) \/ ProcessDies(q)
      PROVE  LimitInv'
  <2>1. Len(ring') <= bound.ring
    BY <1>4, <1>6, EmittedFits DEF ThreadExits, ProcessDies
  <2> QED
    BY <1>1, <1>2, <1>6, <2>1 DEF ThreadExits, ProcessDies, LimitInv
<1>7. ASSUME NEW q \in alive, ExecutableReplaced(q)
      PROVE  LimitInv'
  <2>1. Len(procs') = Len(procs)
    BY <1>3, <1>7 DEF ExecutableReplaced
  <2> QED
    BY <1>1, <1>2, <1>7, <2>1 DEF ExecutableReplaced, LimitInv
<1>8. ASSUME NEW f \in Flows, PacketCaptured(f)
      PROVE  LimitInv'
  BY <1>1, <1>2, <1>8 DEF PacketCaptured, LimitInv
<1>9. ASSUME NEW f \in Flows, NEW q \in alive \union {Other}, Connect(f, q)
      PROVE  LimitInv'
  <2>1. owner' = [owner EXCEPT ![f] = q] /\ q \in Procs \union {Other, Nobody}
    BY <1>4, <1>9 DEF Connect
  <2>2. owner' \in [Flows -> Procs \union {Other, Nobody}]
    BY <2>1 DEF LimitInv
  <2> QED
    BY <1>1, <1>2, <1>9, <2>2 DEF Connect, LimitInv
<1> QED
  BY <1>5, <1>6, <1>7, <1>8, <1>9 DEF Machine

LEMMA DiscoveryLimits ==
  ASSUME IntakeTypes, LimitInv, Discovery
  PROVE  LimitInv'
<1>1. UNCHANGED discoveryFrame
  BY DEF Discovery, PollStart, PollIndex, PollIndexFails, PollDone, PollSend, PollUnreadable, PollExisting,
     PollNew, PollStale
<1>2. UNCHANGED <<owner, procs, bound, ring, pending, pendingBytes>>
  BY <1>1 DEF discoveryFrame, osVars, tapVars
<1>3. PendingAccounted'
  BY <1>2, PendingUnchanged DEF LimitInv
<1>4. chan' = chan \/ PollSend
  BY DEF Discovery, PollStart, PollIndex, PollIndexFails, PollDone, PollUnreadable, PollExisting, PollNew,
     PollStale
<1>5. CASE PollSend
  <2>1. poll.events \in Seq(ProcessInput) /\ poll.events # <<>>
    BY <1>5 DEF PollSend, IntakeTypes, DiscoveryTypeOK
  <2>2. Head(poll.events) \in Input
    BY <2>1, TailOf DEF Input
  <2>3. Len(chan') <= ChannelCap
    BY <1>5, <2>2, SentFits DEF PollSend
  <2> QED
    BY <1>2, <1>3, <2>3 DEF LimitInv
<1> QED
  BY <1>2, <1>3, <1>4, <1>5 DEF LimitInv

LEMMA TapLimits ==
  ASSUME IntakeTypes, LimitInv, Tap
  PROVE  LimitInv'
<1>1. UNCHANGED <<owner, procs, bound, ring>>
  BY DEF Tap, ExpirePending, FindPending, TakePending, ReadFrame, RecvNothing, TapSend, tapFrame
<1>2. pending \in Seq(Segment) /\ PendingAccounted /\ Len(chan) <= ChannelCap
  BY DEF IntakeTypes, TapTypeOK, LimitInv
<1>3. ASSUME PendingAccounted', Len(chan') <= ChannelCap
      PROVE  LimitInv'
  BY <1>1, <1>3 DEF LimitInv
<1>4. PICK N \in Nat : N = Len(pending)
  BY <1>2
<1>5. Bytes(pending) \in Nat /\ MaxPendingBytes \in Nat /\ MaxPendingSegments \in Nat
  BY <1>2, BytesTyped, BoundTypes
<1>6. ASSUME NEW k \in 0..Len(pending), ExpirePending(k)
      PROVE  LimitInv'
  <2>1. PICK kept, dropped : kept = SubSeq(pending, k + 1, N) /\ dropped = SubSeq(pending, 1, k)
    OBVIOUS
  <2>2. pending' = kept /\ pendingBytes' = pendingBytes - Bytes(dropped) /\ chan' = chan
    BY <1>4, <1>6, <2>1 DEF ExpirePending
  <2>3. kept \in Seq(Segment) /\ Len(kept) = N - k /\ dropped \in Seq(Segment) /\ k \in 0..N
    BY <1>2, <1>4, <1>6, <2>1
  <2>4. Bytes(kept) = Bytes(pending) - Bytes(dropped)
    BY <1>2, <1>4, <1>6, <2>1, BytesSplit
  <2>5. Bytes(dropped) \in Nat
    BY <2>3, BytesTyped
  <2>6. pendingBytes' = Bytes(pending') /\ pendingBytes' <= MaxPendingBytes
    BY <1>2, <1>5, <2>2, <2>4, <2>5 DEF PendingAccounted
  <2>7. Len(pending') <= MaxPendingSegments
    BY <1>2, <1>4, <1>5, <2>2, <2>3 DEF PendingAccounted
  <2> QED
    BY <1>2, <1>3, <2>2, <2>6, <2>7 DEF PendingAccounted
<1>7. CASE FindPending
  BY <1>2, <1>3, <1>7, PendingUnchanged DEF FindPending
<1>8. CASE TakePending
  <2>1. PICK i \in 1..Len(pending) : i = tap.at
    BY <1>8 DEF TakePending, IntakeTypes, TapTypeOK
  <2>2. /\ pending' = RemoveAt(pending, i) /\ chan' = chan
        /\ pendingBytes' = pendingBytes - SizeOf(pending[i])
    BY <1>8, <2>1 DEF TakePending, SizeOf
  <2>3. Bytes(pending') = Bytes(pending) - SizeOf(pending[i]) /\ Len(pending') = Len(pending) - 1
    BY <1>2, <2>2, BytesWithout
  <2>4. SizeOf(pending[i]) \in Nat
    BY <1>2, SizeTypes
  <2>5. pendingBytes' = Bytes(pending') /\ pendingBytes' <= MaxPendingBytes
    BY <1>2, <1>5, <2>2, <2>3, <2>4 DEF PendingAccounted
  <2>6. Len(pending') <= MaxPendingSegments
    BY <1>2, <1>4, <1>5, <2>3 DEF PendingAccounted
  <2> QED
    BY <1>2, <1>3, <2>2, <2>5, <2>6 DEF PendingAccounted
<1>9. CASE ReadFrame
  <2>1. Head(frames) \in Segment
    BY <1>9, TailOf DEF ReadFrame, IntakeTypes, MachineTypeOK
  <2>2. UNCHANGED <<pending, pendingBytes>> \/ PushPending(Head(frames))
    BY <1>9 DEF ReadFrame
  <2>3. PendingAccounted'
    BY <1>2, <2>1, <2>2, PendingUnchanged, PushedFits
  <2> QED
    BY <1>2, <1>3, <1>9, <2>3 DEF ReadFrame
<1>10. CASE RecvNothing
  BY <1>2, <1>3, <1>10, PendingUnchanged DEF RecvNothing
<1>11. CASE TapSend
  <2>1. tap.held \in Input
    BY <1>11 DEF TapSend, IntakeTypes, TapTypeOK, Input
  <2>2. Len(chan') <= ChannelCap
    BY <1>11, <2>1, SentFits DEF TapSend
  <2> QED
    BY <1>2, <1>3, <1>11, <2>2, PendingUnchanged DEF TapSend
<1> QED
  BY <1>6, <1>7, <1>8, <1>9, <1>10, <1>11 DEF Tap

LEMMA EbpfLimits ==
  ASSUME IntakeTypes, LimitInv, Ebpf
  PROVE  LimitInv'
<1>1. UNCHANGED ebpfFrame
  BY DEF Ebpf, EbpfStart, EbpfFails, EbpfNext, EbpfSend
<1>2. UNCHANGED <<owner, procs, bound, pending, pendingBytes>>
  BY <1>1 DEF ebpfFrame, osVars, tapVars
<1>3. PendingAccounted'
  BY <1>2, PendingUnchanged DEF LimitInv
<1>4. ring \in Seq([kind : {"exec", "exit"}, pid : Pids]) /\ bound.ring \in Nat
  BY BoundTypes DEF IntakeTypes, LaneTypeOK
<1>5. CASE EbpfStart
  BY <1>2, <1>3, <1>5 DEF EbpfStart, LimitInv
<1>6. CASE EbpfFails
  <2>1. Len(ring') <= bound.ring
    BY <1>4, <1>6 DEF EbpfFails
  <2> QED
    BY <1>2, <1>3, <1>6, <2>1 DEF EbpfFails, LimitInv
<1>7. CASE EbpfNext
  <2>1. ring # <<>> /\ ring' = Tail(ring) /\ chan' = chan
    BY <1>7 DEF EbpfNext
  <2>2. Len(ring') = Len(ring) - 1 /\ Len(ring) \in Nat
    BY <1>4, <2>1, HeadTailProperties
  <2>3. Len(ring') <= bound.ring
    BY <1>4, <2>2 DEF LimitInv
  <2> QED
    BY <1>2, <1>3, <2>1, <2>3 DEF LimitInv
<1>8. CASE EbpfSend
  <2>1. ebpf.held \in Input
    BY <1>8 DEF EbpfSend, IntakeTypes, LaneTypeOK, Input
  <2>2. Len(chan') <= ChannelCap
    BY <1>8, <2>1, SentFits DEF EbpfSend
  <2> QED
    BY <1>2, <1>3, <1>8, <2>2 DEF EbpfSend, LimitInv
<1> QED
  BY <1>5, <1>6, <1>7, <1>8 DEF Ebpf

LEMMA LaneLimits ==
  ASSUME IntakeTypes, LimitInv, LaneReceives
  PROVE  LimitInv'
<1>1. UNCHANGED <<owner, procs, bound, ring, pending, pendingBytes>> /\ chan # <<>> /\ chan' = Tail(chan)
  BY DEF LaneReceives, osVars, tapVars
<1>2. PendingAccounted' /\ Len(chan') <= ChannelCap
  BY <1>1, PendingUnchanged, ReceivedFits DEF LimitInv
<1> QED
  BY <1>1, <1>2 DEF LimitInv

(* Whatever starts, exits, connects and is captured, the index and the     *)
(* observed processes name instances that were made, the channel, the ring *)
(* and the waiting segments stay within their limits, and the byte count   *)
(* of the waiting segments is exact, so that the saturating subtraction of *)
(* push_pending, pop_attributed_pending and expire_pending never saturates.*)
THEOREM IntakeTyped == Spec => []TypeOK
<1>1. Init => LimitInv
  <2> SUFFICES ASSUME Init
               PROVE  LimitInv
    OBVIOUS
  <2>1. bound.procs \in Nat /\ bound.ring \in Nat /\ MaxPendingBytes \in Nat /\ MaxPendingSegments \in Nat
        /\ ChannelCap \in Nat
    BY TypesInit, BoundTypes
  <2>2. Bytes(<<>>) = 0
    <3>0. <<>> \in Seq(Segment)
      OBVIOUS
    <3>1. PICK f : Growing(f, <<>>)
      BY <3>0, BytesIs
    <3>2. f[0] = 0 /\ Len(<<>>) = 0
      BY <3>1 DEF Growing
    <3> QED
      BY <3>0, <3>1, <3>2, BytesIs
  <2>3. PendingAccounted
    BY <2>1, <2>2 DEF Init, PendingAccounted
  <2>4. owner \in [Flows -> Procs \union {Other, Nobody}]
    BY DEF Init
  <2> QED
    BY <2>1, <2>3, <2>4 DEF Init, LimitInv
<1>2. IntakeTypes /\ LimitInv /\ [Next]_vars => LimitInv'
  <2> SUFFICES ASSUME IntakeTypes, LimitInv, [Next]_vars
               PROVE  LimitInv'
    OBVIOUS
  <2>1. CASE UNCHANGED vars
    BY <2>1 DEF vars, osVars, tapVars, LimitInv, PendingAccounted
  <2> QED
    BY <2>1, MachineLimits, DiscoveryLimits, TapLimits, EbpfLimits, LaneLimits DEF Next
<1>3. IntakeTypes /\ ExitInv /\ LimitInv => TypeOK
  <2> SUFFICES ASSUME IntakeTypes, ExitInv, LimitInv
               PROVE  TypeOK
    OBVIOUS
  <2>1. /\ procs \in Seq([pid : Pids, path : Paths \union {Deleted}]) /\ alive \subseteq DOMAIN procs
        /\ instances \in Seq(DOMAIN procs)
        /\ poll.pc \in {"rest", "scan", "index", "send"} /\ tap.pc \in {"rest", "find", "take", "read", "send"}
        /\ ebpf.pc \in {"down", "up", "send"}
    BY DEF IntakeTypes, MachineTypeOK, DiscoveryTypeOK, TapTypeOK, LaneTypeOK
  <2>2. pending \in Seq(Segment) /\ (tap.pc \in {"find", "take"} => tap.at \in DOMAIN pending)
    BY DEF IntakeTypes, TapTypeOK
  <2>3. DOMAIN procs \subseteq Procs
    <3>1. Len(procs) \in Nat /\ Len(procs) <= bound.procs /\ DOMAIN procs = 1..Len(procs)
          /\ bound.procs \in 0..MaxProcs
      BY <2>1, BoundTypes DEF LimitInv
    <3> QED
      BY <3>1, BoundTypes DEF Procs
  <2>4. instances \in Seq(Procs)
    BY <2>1, <2>3, SeqWider
  <2>5. ASSUME NEW p \in Pids
        PROVE  /\ index[p].inst \in 0..Len(instances) /\ index[p].flows \subseteq Flows
               /\ observed[p].inst \in 0..Len(instances)
    <3>1. index[p].inst \in Nat /\ index[p].flows \subseteq Flows /\ observed[p].inst \in Nat
      BY DEF IntakeTypes, DiscoveryTypeOK
    <3>2. /\ index[p].inst # None => index[p].inst \in DOMAIN instances
          /\ observed[p].inst # None => observed[p].inst \in DOMAIN instances
      BY DEF ExitInv, PidsMatch, HasPid, HasPidIn
    <3>3. DOMAIN instances = 1..Len(instances) /\ Len(instances) \in Nat
      BY <2>4
    <3> QED
      BY <3>1, <3>2, <3>3 DEF None
  <2>6. settled \subseteq DOMAIN instances
    BY DEF ExitInv, ExitsTrue, Ended, EndedIn
  <2>7. \A k \in DOMAIN pending : pending[k] \in Segment
    BY <2>2
  <2> QED
    BY <2>1, <2>2, <2>4, <2>5, <2>6, <2>7 DEF TypeOK, LimitInv
<1> QED
  BY <1>1, <1>2, <1>3, ExitInvAlways, PTL DEF Spec
=============================================================================
