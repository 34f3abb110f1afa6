--------------------------- MODULE CaptureIntake ---------------------------
(***************************************************************************)
(* How packets and process events reach the capture lane.  Three tasks     *)
(* share one bounded channel into the lane and one index from processes to *)
(* connections: the AF_PACKET source, which looks segments up in the index *)
(* and keeps the unknown ones waiting; process discovery, which scans      *)
(* /proc, fills the index and reports processes that came and went; and    *)
(* the eBPF loop, which reports exec and exit records of indexed pids.     *)
(*                                                                         *)
(* The tasks run in parallel: a step here is one access to the index (each *)
(* takes its lock), to /proc, or to the channel.  The capture health that  *)
(* the eBPF loop publishes is a function of where the loop is; the gap     *)
(* records that a failed look-up adds name no task and are left out.       *)
(***************************************************************************)
EXTENDS Integers, Sequences, FiniteSets, SequencesExt

CONSTANTS
  Pids,         \* process ids
  Paths,        \* executables named like Codex
  Flows,        \* five-tuples
  SegmentSize,  \* segment_size of the segments of a flow
  MaxPendingSegments, MaxPendingBytes,
  ChannelCap,   \* capacity of the channel into the lane
  MaxProcs,     \* bound: Codex processes ever started
  MaxFailures,  \* bound: failing look-ups of running processes
  MaxSegments,  \* bound: segments captured on each flow
  Bounds        \* bounds that are explored together: processes and their executables,
                \* exits of a single thread, failing look-ups, flows, segments on them, records
                \* in the ring (none: the probes are not installed)

ASSUME IntakeAssumption ==
  /\ MaxProcs \in Nat /\ MaxSegments \in Nat /\ MaxFailures \in Nat
  /\ Bounds \subseteq [procs : 0..MaxProcs, paths : SUBSET Paths, threads : Nat,
                      failures : 0..MaxFailures, flows : SUBSET Flows, segments : Nat, ring : Nat]
  /\ SegmentSize \in [Flows -> Nat \ {0}]
  /\ MaxPendingSegments \in Nat \ {0} /\ MaxPendingBytes \in Nat
  /\ ChannelCap \in Nat \ {0}

VARIABLES
  bound,     \* one of Bounds
  procs,     \* Codex processes in order of their start
  alive,     \* those that run
  threads,   \* processes of which a single thread has exited
  owner,     \* the process of a connection, Other or Nobody
  captured,  \* segments captured on each flow
  frames,    \* segments in the packet socket
  index,     \* SharedProcessIndex: what is known of a pid
  observed,  \* discovery: ObservedProcess of a pid
  instances, \* process instances ever made, with the process each was made for
  poll,      \* discovery: where its poll is
  failures,  \* the number of look-ups in /proc that failed although the process was running
  unread,    \* history: instances observed of a process when such a look-up failed
  tap,       \* AF_PACKET source: where its recv is
  pending, pendingBytes, \* AF_PACKET source: segments of no known process
  ring,      \* records of the eBPF programs
  ebpf,      \* the eBPF loop
  chan,      \* inputs on their way to the lane
  settled,   \* instances whose exit the lane has handled
  last,      \* the last segment of each flow that the lane has received
  swapped,   \* history: flows with a segment received after a later one
  raced      \* history: flows that became known while recv was running, or that it left
             \* behind when a segment of another process could not be attributed any more

osVars == <<bound, procs, alive, threads, owner, captured, frames>>
failureVars == <<failures, unread>>
discoveryVars == <<observed, instances, poll, failureVars>>
tapVars == <<tap, pending, pendingBytes>>
laneVars == <<settled, last, swapped>>
vars == <<osVars, index, discoveryVars, tapVars, ring, ebpf, chan, laneVars, raced>>

None == 0
Nobody == 0
Other == MaxProcs + 1    \* any program that is not Codex
Deleted == "deleted"    \* what the exe link of a replaced file points to

Procs == 1..MaxProcs
Instances == 1..(MaxProcs + MaxFailures) \* a failed look-up may cost a process its instance
Segment == [flow : Flows, n : 1..MaxSegments]
Unknown == [inst |-> None, flows |-> {}]
Unseen == [inst |-> None, path |-> Deleted]

(* CaptureInput. *)
Attributed(s, i) == [kind |-> "segment", seg |-> s, inst |-> i]
ProcessObserved(i) == [kind |-> "observed", inst |-> i]
ProcessExit(i) == [kind |-> "exit", inst |-> i]
NoInput == [kind |-> "none"]

Resting == [pc |-> "rest", todo |-> {}, pid |-> None, fresh |-> FALSE, active |-> {}, events |-> <<>>]
AtRecv == [pc |-> "rest", at |-> 0, held |-> NoInput]
Detached == [pc |-> "down", held |-> NoInput]

Init ==
  /\ bound \in Bounds
  /\ procs = <<>>
  /\ alive = {}
  /\ threads = {}
  /\ owner = [f \in Flows |-> Nobody]
  /\ captured = [f \in Flows |-> 0]
  /\ frames = <<>>
  /\ index = [p \in Pids |-> Unknown]
  /\ observed = [p \in Pids |-> Unseen]
  /\ instances = <<>>
  /\ poll = Resting
  /\ failures = 0
  /\ unread = {}
  /\ tap = AtRecv
  /\ pending = <<>>
  /\ pendingBytes = 0
  /\ ring = <<>>
  /\ ebpf = Detached
  /\ chan = <<>>
  /\ settled = {}
  /\ last = [f \in Flows |-> 0]
  /\ swapped = {}
  /\ raced = {}

Running(p) == {q \in alive : procs[q].pid = p}

(* tx.send: waits for room. *)
Send(input) ==
  /\ Len(chan) < ChannelCap
  /\ chan' = Append(chan, input)

-----------------------------------------------------------------------------
(* The machine: processes, connections and the probes in the kernel.       *)

(* emit_record: a record that finds the ring full is lost; without an      *)
(* attached program there is none.                                         *)
Emit(kind, p) ==
  ring' = IF ebpf.pc # "down" /\ Len(ring) < bound.ring
          THEN Append(ring, [kind |-> kind, pid |-> p]) ELSE ring

(* try_process_exec. *)
ProcessStarts(p, path) ==
  /\ Running(p) = {}
  /\ Len(procs) < bound.procs
  /\ procs' = Append(procs, [pid |-> p, path |-> path])
  /\ alive' = alive \union {Len(procs) + 1}
  /\ Emit("exec", p)
  /\ UNCHANGED <<bound, threads, owner, captured, frames, index, discoveryVars, tapVars, ebpf, chan,
                 laneVars, raced>>

(* try_process_exit, which runs at the exit of every thread and reports the *)
(* thread group.                                                            *)
ThreadExits(q) ==
  /\ q \in alive
  /\ Cardinality(threads) < bound.threads
  /\ threads' = threads \union {q}
  /\ Emit("exit", procs[q].pid)
  /\ UNCHANGED <<bound, procs, alive, owner, captured, frames, index, discoveryVars, tapVars, ebpf, chan,
                 laneVars, raced>>

ProcessDies(q) ==
  /\ q \in alive
  /\ alive' = alive \ {q}
  /\ Emit("exit", procs[q].pid)
  /\ UNCHANGED <<bound, procs, threads, owner, captured, frames, index, discoveryVars, tapVars, ebpf, chan,
                 laneVars, raced>>

(* An update of Codex replaces the file that a process was started from. *)
ExecutableReplaced(q) ==
  /\ q \in alive
  /\ procs[q].path # Deleted
  /\ procs' = [procs EXCEPT ![q].path = Deleted]
  /\ UNCHANGED <<bound, alive, threads, owner, captured, frames, index, discoveryVars, tapVars, ring, ebpf,
                 chan, laneVars, raced>>

Connect(f, q) ==
  /\ f \in bound.flows /\ owner[f] = Nobody
  /\ q \in alive \union {Other}
  /\ owner' = [owner EXCEPT ![f] = q]
  /\ UNCHANGED <<bound, procs, alive, threads, captured, frames, index, discoveryVars, tapVars, ring, ebpf,
                 chan, laneVars, raced>>

(* A packet of a connection; the last ones may come after the process died. *)
PacketCaptured(f) ==
  /\ owner[f] # Nobody
  /\ captured[f] < MaxSegments
  /\ MapThenSumSet(LAMBDA g : captured[g], Flows) < bound.segments
  /\ captured' = [captured EXCEPT ![f] = @ + 1]
  /\ frames' = Append(frames, [flow |-> f, n |-> captured[f] + 1])
  /\ UNCHANGED <<bound, procs, alive, threads, owner, index, discoveryVars, tapVars, ring, ebpf, chan,
                 laneVars, raced>>

-----------------------------------------------------------------------------
(* ProcfsProcessDiscovery::poll and run_process_source_loop.               *)

discoveryFrame == <<osVars, tapVars, ring, ebpf, laneVars>>

(* Look-ups of the pids in P fail although their processes run. *)
LookUpFails(P) ==
  /\ failures < bound.failures
  /\ failures' = failures + 1
  /\ unread' = unread \union ({observed[p].inst : p \in P} \ {None})

(* discover_pids: /proc cannot be listed, or the comm of some cannot be    *)
(* read (.ok() throughout): these pids are left out.                       *)
PollStart ==
  LET running == {procs[q].pid : q \in alive} IN
  /\ poll.pc = "rest"
  /\ \E listed \in SUBSET running :
       /\ poll' = [Resting EXCEPT !.pc = "scan", !.todo = listed]
       /\ \/ listed = running /\ UNCHANGED failureVars
          \/ listed # running /\ LookUpFails(running \ listed)
  /\ UNCHANGED <<discoveryFrame, index, observed, instances, chan, raced>>

ExeOf(p) == {procs[q].path : q \in Running(p)}

(* Nothing can be said of this pid: the process is gone, or the file it    *)
(* runs was replaced; or it runs, but its exe link or the file cannot be   *)
(* read.                                                                   *)
PollUnreadable(p) ==
  /\ poll.pc = "scan" /\ p \in poll.todo
  /\ \/ ExeOf(p) \subseteq {Deleted} /\ UNCHANGED failureVars
     \/ ~(ExeOf(p) \subseteq {Deleted}) /\ LookUpFails({p})
  /\ poll' = [poll EXCEPT !.todo = @ \ {p}]
  /\ UNCHANGED <<discoveryFrame, index, observed, instances, chan, raced>>

(* The pid was seen before with this executable: the same instance. *)
PollExisting(p) ==
  /\ poll.pc = "scan" /\ p \in poll.todo
  /\ observed[p].inst # None /\ observed[p].path \in ExeOf(p)
  /\ poll' = [poll EXCEPT !.pc = "index", !.todo = @ \ {p}, !.pid = p, !.fresh = FALSE,
                          !.active = @ \union {p}]
  /\ UNCHANGED <<discoveryFrame, failureVars, index, observed, instances, chan, raced>>

(* A new instance; one that the pid had before is overwritten. *)
PollNew(p) ==
  /\ poll.pc = "scan" /\ p \in poll.todo
  /\ \E q \in Running(p) :
       /\ procs[q].path # Deleted
       /\ observed[p].inst # None => observed[p].path # procs[q].path
       /\ instances' = Append(instances, q)
       /\ observed' = [observed EXCEPT ![p] = [inst |-> Len(instances) + 1, path |-> procs[q].path]]
  /\ poll' = [poll EXCEPT !.pc = "index", !.todo = @ \ {p}, !.pid = p, !.fresh = TRUE,
                          !.active = @ \union {p}]
  /\ UNCHANGED <<discoveryFrame, failureVars, index, chan, raced>>

(* ProcessFlowIndex::from_pid: the connections of the process by socket inode. *)
FlowsOf(p) == {f \in Flows : owner[f] \in Running(p)}

(* upsert, then ProcessObserved for a new one. *)
PollIndex ==
  LET p == poll.pid IN
  /\ poll.pc = "index"
  /\ Running(p) # {}
  /\ index' = [index EXCEPT ![p] = [inst |-> observed[p].inst, flows |-> FlowsOf(p)]]
  /\ raced' = IF tap.pc \in {"rest", "send"} THEN raced
              ELSE raced \union (FlowsOf(p) \ index[p].flows)
  /\ poll' = [poll EXCEPT !.pc = "scan",
                          !.events = IF poll.fresh THEN Append(@, ProcessObserved(observed[p].inst))
                                     ELSE @]
  /\ UNCHANGED <<discoveryFrame, failureVars, observed, instances, chan>>

(* Fault: such a process does not count as active. *)
PollIndexFailsInactive ==
  /\ poll.pc = "index"
  /\ poll' = [poll EXCEPT !.pc = "scan", !.active = @ \ {poll.pid}]
  /\ UNCHANGED <<discoveryFrame, failureVars, index, observed, instances, chan, raced>>

(* from_pid fails: the process has gone, or a descriptor was closed between *)
(* the listing of /proc/pid/fd and the reading of its link.                 *)
PollIndexFails ==
  /\ poll.pc = "index"
  /\ poll' = [poll EXCEPT !.pc = "scan"]
  /\ UNCHANGED <<discoveryFrame, failureVars, index, observed, instances, chan, raced>>

Stale == {p \in Pids : observed[p].inst # None /\ p \notin poll.active}

(* Fault: the exit of a process that never made it into the index is not   *)
(* reported.                                                               *)
PollStaleIndexedOnly(p) ==
  /\ poll.pc = "scan" /\ poll.todo = {}
  /\ p \in Stale
  /\ observed' = [observed EXCEPT ![p] = Unseen]
  /\ index' = [index EXCEPT ![p] = Unknown]
  /\ poll' = IF index[p].inst = None THEN poll
             ELSE [poll EXCEPT !.events = Append(@, ProcessExit(observed[p].inst))]
  /\ UNCHANGED <<discoveryFrame, failureVars, instances, chan, raced>>

(* An observed pid that this poll did not confirm has exited. *)
PollStale(p) ==
  /\ poll.pc = "scan" /\ poll.todo = {}
  /\ p \in Stale
  /\ observed' = [observed EXCEPT ![p] = Unseen]
  /\ index' = [index EXCEPT ![p] = Unknown]
  /\ poll' = [poll EXCEPT !.events = Append(@, ProcessExit(observed[p].inst))]
  /\ UNCHANGED <<discoveryFrame, failureVars, instances, chan, raced>>

PollDone ==
  /\ poll.pc = "scan" /\ poll.todo = {} /\ Stale = {}
  /\ poll' = IF poll.events = <<>> THEN Resting
             ELSE [Resting EXCEPT !.pc = "send", !.events = poll.events]
  /\ UNCHANGED <<discoveryFrame, failureVars, index, observed, instances, chan, raced>>

PollSend ==
  /\ poll.pc = "send"
  /\ Send(Head(poll.events))
  /\ poll' = IF Len(poll.events) = 1 THEN Resting ELSE [poll EXCEPT !.events = Tail(@)]
  /\ UNCHANGED <<discoveryFrame, failureVars, index, observed, instances, raced>>

-----------------------------------------------------------------------------
(* PassiveTapSource::recv and run_capture_source_loop.                     *)

tapFrame == <<bound, procs, alive, threads, owner, captured, index, discoveryVars, ring, ebpf, laneVars>>

(* match_segment: the instances whose connections include the segment's. *)
Matches(s) == {index[p].inst : p \in {p \in Pids : s.flow \in index[p].flows}}

Bytes(segs) ==
  LET sum[k \in 0..Len(segs)] == IF k = 0 THEN 0 ELSE sum[k - 1] + SegmentSize[segs[k].flow]
  IN  sum[Len(segs)]

(* The lookup of the k-th waiting segment is next, or the read after the last. *)
LookAt(queue, k) ==
  IF k \in DOMAIN queue THEN [tap EXCEPT !.pc = "find", !.at = k]
  ELSE [tap EXCEPT !.pc = "read", !.at = 0]

(* expire_pending: those at the front that have waited for 15 s go. *)
ExpirePending(k) ==
  /\ tap.pc = "rest"
  /\ k \in 0..Len(pending)
  /\ pending' = SubSeq(pending, k + 1, Len(pending))
  /\ pendingBytes' = pendingBytes - Bytes(SubSeq(pending, 1, k))
  /\ tap' = LookAt(pending', 1)
  /\ UNCHANGED <<tapFrame, frames, chan, raced>>

(* Fault: the newest waiting segment is looked up first. *)
FindPendingLast ==
  LET k == Len(pending) + 1 - tap.at IN
  /\ tap.pc = "find"
  /\ tap' = IF Matches(pending[k]) = {} THEN LookAt(pending, tap.at + 1)
            ELSE [tap EXCEPT !.pc = "take", !.at = k]
  /\ UNCHANGED <<tapFrame, frames, pending, pendingBytes, chan, raced>>

(* pop_attributed_pending looks the waiting segments up one by one. *)
FindPending ==
  /\ tap.pc = "find"
  /\ tap' = IF Matches(pending[tap.at]) = {} THEN LookAt(pending, tap.at + 1)
            ELSE [tap EXCEPT !.pc = "take"]
  /\ UNCHANGED <<tapFrame, frames, pending, pendingBytes, chan, raced>>

(* The known connections whose segments wait behind this one. *)
LeftBehind ==
  {pending[j].flow : j \in {j \in DOMAIN pending : j > tap.at /\ Matches(pending[j]) # {}}}

(* Fault: the bytes of a taken segment stay counted. *)
TakePendingUncounted ==
  LET s == pending[tap.at] IN
  /\ tap.pc = "take"
  /\ pending' = RemoveAt(pending, tap.at)
  /\ \/ /\ Matches(s) = {}
        /\ tap' = [tap EXCEPT !.pc = "read", !.at = 0]
        /\ raced' = raced \union LeftBehind
     \/ /\ \E i \in Matches(s) : tap' = [pc |-> "send", at |-> 0, held |-> Attributed(s, i)]
        /\ UNCHANGED raced
  /\ UNCHANGED <<tapFrame, frames, pendingBytes, chan>>

(* The segment leaves the queue and is looked up again; when it matches no *)
(* more it is gone, and recv goes on to the socket without a look at those *)
(* behind it.                                                              *)
TakePending ==
  LET s == pending[tap.at] IN
  /\ tap.pc = "take"
  /\ pending' = RemoveAt(pending, tap.at)
  /\ pendingBytes' = pendingBytes - SegmentSize[s.flow]
  /\ \/ /\ Matches(s) = {}
        /\ tap' = [tap EXCEPT !.pc = "read", !.at = 0]
        /\ raced' = raced \union LeftBehind
     \/ /\ \E i \in Matches(s) : tap' = [pc |-> "send", at |-> 0, held |-> Attributed(s, i)]
        /\ UNCHANGED raced
  /\ UNCHANGED <<tapFrame, frames, chan>>

(* push_pending: the fewest segments go from the front that make room. *)
Fits(k, size) ==
  /\ Len(pending) - k < MaxPendingSegments
  /\ Bytes(SubSeq(pending, k + 1, Len(pending))) + size <= MaxPendingBytes

PushPending(s) ==
  LET size == SegmentSize[s.flow]
      k == CHOOSE k \in 0..Len(pending) :
             /\ Fits(k, size) \/ k = Len(pending)
             /\ \A j \in 0..(k - 1) : ~Fits(j, size)
      kept == SubSeq(pending, k + 1, Len(pending))
      added == IF size <= MaxPendingBytes THEN <<s>> ELSE <<>> IN
  /\ pending' = kept \o added
  /\ pendingBytes' = pendingBytes - Bytes(SubSeq(pending, 1, k)) + Bytes(added)

(* The next frame: of a known connection it is handed on, of an unknown    *)
(* one it waits.                                                           *)
ReadFrame ==
  /\ tap.pc = "read"
  /\ frames # <<>>
  /\ frames' = Tail(frames)
  /\ LET s == Head(frames) IN
     \/ \E i \in Matches(s) :
          /\ tap' = [pc |-> "send", at |-> 0, held |-> Attributed(s, i)]
          /\ UNCHANGED <<pending, pendingBytes>>
     \/ /\ Matches(s) = {}
        /\ PushPending(s)
        /\ UNCHANGED tap
  /\ UNCHANGED <<tapFrame, chan, raced>>

(* recv returns without a segment: no frame is left, 256 were read, or one *)
(* was not TCP.                                                            *)
RecvNothing ==
  /\ tap.pc = "read"
  /\ tap' = AtRecv
  /\ UNCHANGED <<tapFrame, frames, pending, pendingBytes, chan, raced>>

TapSend ==
  /\ tap.pc = "send"
  /\ Send(tap.held)
  /\ tap' = AtRecv
  /\ UNCHANGED <<tapFrame, frames, pending, pendingBytes, raced>>

-----------------------------------------------------------------------------
(* run_ebpf_loop.  A start that fails only changes the health and the      *)
(* back-off.                                                               *)

ebpfFrame == <<osVars, index, discoveryVars, tapVars, laneVars, raced>>

EbpfStart ==
  /\ bound.ring > 0
  /\ ebpf.pc = "down"
  /\ ebpf' = [ebpf EXCEPT !.pc = "up"]
  /\ UNCHANGED <<ebpfFrame, ring, chan>>

(* next_event fails: the programs are unloaded, their ring with them. *)
EbpfFails ==
  /\ ebpf.pc = "up"
  /\ ebpf' = Detached
  /\ ring' = <<>>
  /\ UNCHANGED <<ebpfFrame, chan>>

(* map_loader_record: only exec and exit records of indexed pids count. *)
EbpfNext ==
  /\ ebpf.pc = "up"
  /\ ring # <<>>
  /\ ring' = Tail(ring)
  /\ LET record == Head(ring)
         inst == index[record.pid].inst
         input == IF record.kind = "exec" THEN ProcessObserved(inst) ELSE ProcessExit(inst) IN
     ebpf' = IF inst = None THEN ebpf ELSE [pc |-> "send", held |-> input]
  /\ UNCHANGED <<ebpfFrame, chan>>

EbpfSend ==
  /\ ebpf.pc = "send"
  /\ Send(ebpf.held)
  /\ ebpf' = [pc |-> "up", held |-> NoInput]
  /\ UNCHANGED <<ebpfFrame, ring>>

-----------------------------------------------------------------------------
(* run_capture_ingest_loop takes one input at a time.  What a segment and  *)
(* an exit do to tasks is TaskProjection.                                  *)
LaneReceives ==
  /\ chan # <<>>
  /\ chan' = Tail(chan)
  /\ LET input == Head(chan) IN
     \/ /\ input.kind = "segment"
        /\ LET s == input.seg IN
           /\ swapped' = IF s.n <= last[s.flow] THEN swapped \union {s.flow} ELSE swapped
           /\ last' = [last EXCEPT ![s.flow] = s.n]
        /\ UNCHANGED settled
     \/ /\ input.kind = "exit"
        /\ settled' = settled \union {input.inst}
        /\ UNCHANGED <<last, swapped>>
     \/ /\ input.kind = "observed"
        /\ UNCHANGED laneVars
  /\ UNCHANGED <<osVars, index, discoveryVars, tapVars, ring, ebpf, raced>>

-----------------------------------------------------------------------------
Machine ==
  \/ \E p \in Pids, path \in bound.paths : ProcessStarts(p, path)
  \/ \E q \in alive : ThreadExits(q) \/ ProcessDies(q) \/ ExecutableReplaced(q)
  \/ \E f \in Flows : PacketCaptured(f) \/ \E q \in alive \union {Other} : Connect(f, q)

Discovery ==
  \/ PollStart \/ PollIndex \/ PollIndexFails \/ PollDone \/ PollSend
  \/ \E p \in Pids : PollUnreadable(p) \/ PollExisting(p) \/ PollNew(p) \/ PollStale(p)

Tap ==
  \/ \E k \in 0..Len(pending) : ExpirePending(k)
  \/ FindPending \/ TakePending \/ ReadFrame \/ RecvNothing \/ TapSend

Ebpf == EbpfStart \/ EbpfFails \/ EbpfNext \/ EbpfSend

Next == Machine \/ Discovery \/ Tap \/ Ebpf \/ LaneReceives

Spec == Init /\ [][Next]_vars

(* Discovery polls for ever and the lane goes on receiving.  Nothing is    *)
(* assumed of the machine, the packet source or the eBPF loop, except that *)
(* the room in the channel is shared fairly (its senders queue).           *)
Fairness ==
  /\ WF_vars(Discovery /\ poll.pc # "send")
  /\ SF_vars(PollSend)
  /\ WF_vars(LaneReceives)

FairSpec == Spec /\ Fairness

-----------------------------------------------------------------------------
(* What waits is counted exactly and stays within both limits, so that     *)
(* saturating_sub never hides a wrong count.                               *)
PendingAccounted ==
  /\ pendingBytes = Bytes(pending)
  /\ pendingBytes <= MaxPendingBytes
  /\ Len(pending) <= MaxPendingSegments

(* The shared index, the queues and where each task is; the byte count of  *)
(* the waiting segments (push_pending, pop_attributed_pending and          *)
(* expire_pending) is exact and within its limit.                          *)
TypeOK ==
  /\ procs \in Seq([pid : Pids, path : Paths \union {Deleted}])
  /\ alive \subseteq DOMAIN procs
  /\ owner \in [Flows -> Procs \union {Other, Nobody}]
  /\ \A p \in Pids : index[p].inst \in 0..Len(instances) /\ index[p].flows \subseteq Flows
  /\ \A p \in Pids : observed[p].inst \in 0..Len(instances)
  /\ instances \in Seq(Procs)
  /\ poll.pc \in {"rest", "scan", "index", "send"}
  /\ tap.pc \in {"rest", "find", "take", "read", "send"}
  /\ tap.pc \in {"find", "take"} => tap.at \in DOMAIN pending
  /\ \A k \in DOMAIN pending : pending[k] \in Segment
  /\ PendingAccounted
  /\ ebpf.pc \in {"down", "up", "send"}
  /\ Len(chan) <= ChannelCap /\ Len(ring) <= bound.ring
  /\ settled \subseteq DOMAIN instances

(* The lane receives the segments of a connection once and in the order of *)
(* capture, however long they waited and whatever was dropped: the ones    *)
(* that wait are looked up before new ones are read - unless the index     *)
(* came to know the connection while recv was looking, or the segment that *)
(* recv had found first lost its process before the second look-up.        *)
InOrderUnlessRaced == swapped \subseteq raced

Gone(i) == i \in DOMAIN instances /\ instances[i] \notin alive
Reused(i) ==
  /\ i \in DOMAIN instances
  /\ \E q \in DOMAIN procs : q > instances[i] /\ procs[q].pid = procs[instances[i]].pid

(* Every process that discovery has seen is reported to the lane once it   *)
(* is gone, through failing look-ups and a full channel - unless its pid   *)
(* was taken by another Codex before a poll missed it.                     *)
GoneIsReported ==
  \A i \in Instances : Gone(i) ~> (i \in settled \/ Reused(i))

(* The process runs, but one of its threads exited; its file was replaced   *)
(* so that it cannot be hashed; a look-up in /proc failed while it was this *)
(* instance; or the exit record of the process that had the pid before came *)
(* late.                                                                    *)
Mistaken(i) ==
  \/ instances[i] \in threads
  \/ procs[instances[i]].path = Deleted
  \/ i \in unread
  \/ \E r \in DOMAIN procs : r < instances[i] /\ procs[r].pid = procs[instances[i]].pid

(* Only a process that has ended is reported as exited, however late its   *)
(* records are read and although its connections cannot be read - but for  *)
(* the four mistakes that the code makes.  A running process that one of   *)
(* them took for ended is observed as a new instance, which needs a        *)
(* mistake of its own to be reported.                                      *)
ExitConfirmed ==
  \A i \in settled : instances[i] \in alive => Mistaken(i)
=============================================================================
