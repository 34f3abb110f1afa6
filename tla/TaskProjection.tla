--------------------------- MODULE TaskProjection ---------------------------
(***************************************************************************)
(* The capture lane's projection of captured traffic to task states: the   *)
(* exchanges, gaps and process exits that handle_input receives, the       *)
(* sequence numbers, ordinals and phases it derives from the stored        *)
(* cursor, and the transaction that commits them.                          *)
(*                                                                         *)
(* One input is one action: the lane handles its channel one input at a    *)
(* time.  Everything an input yields is projected from the cursors stored  *)
(* before it and committed as one batch; an invalid batch is rolled back,  *)
(* ends the lane and with it the daemon.                                   *)
(***************************************************************************)
EXTENDS Integers, Sequences, FiniteSets, FiniteSetsExt

CONSTANTS
  Tasks,          \* task keys of user turns
  Flows,          \* TCP connections
  Procs,          \* Codex processes
  TaskProc,       \* the process that runs a task's turn
  FlowProc,       \* the process at the local end of a connection
  Responses,      \* response ids
  ExchangePhases, \* the phases that an exchange can leave a task in
  MaxInstances,   \* bound: times discovery takes up one process
  MaxTransitions, \* bound: transitions of all tasks
  MaxPerSegment   \* bound: exchanges completed by one segment

NoResponse == "none"
NoTask == "none"
NoOwner == 0

ASSUME ProjectionAssumption ==
  /\ TaskProc \in [Tasks -> Procs]
  /\ FlowProc \in [Flows -> Procs]
  /\ NoResponse \notin Responses
  /\ NoTask \notin Tasks
  /\ ExchangePhases \subseteq {"awaiting_tool", "retrying", "terminal"}
  /\ MaxInstances \in Nat
  /\ MaxTransitions \in Nat
  /\ MaxPerSegment \in Nat

(* A process that discovery loses and finds again gets a new instance id: *)
(* the instances of a process are numbered.                               *)
VARIABLES
  rows,       \* active_tasks: the cursor of each task
  attempts,   \* attempts table
  events,     \* all transitions ever committed to the outbox, per task
  flowTask,   \* in memory: FlowState.current_task
  owner,      \* in memory: FlowState.process_instance_id
  procTasks,  \* in memory: process_tasks
  degraded,   \* in memory: directions of connections whose assembler is degraded
  observed,   \* in memory: the number of instances of a process so far
  index,      \* in memory: the instance in the shared index, 0 when there is none
  captured,   \* history: what this run of the daemon knows of a task
  up          \* the daemon runs

stored == <<rows, attempts, events>>
vars ==
  <<rows, attempts, events, flowTask, owner, procTasks, degraded, observed, index, captured, up>>

Directions == {"client", "server"}
Phases == {"running", "awaiting_tool", "retrying", "terminal"}
Instances == Procs \X (1..MaxInstances)
NoRow == [sequence |-> 0, count |-> 0, phase |-> "running"]
Row == [sequence : Nat, count : Nat, phase : Phases]
Exchange == [task : Tasks, phase : ExchangePhases,
             response : Responses \union {NoResponse}]
Attempt == [task : Tasks, ordinal : Nat \ {0}, response : Responses \union {NoResponse}]
Transition == [phase : Phases, cause : {"exchange", "gap", "exit"}]

Init ==
  /\ rows = [t \in Tasks |-> NoRow]
  /\ attempts = {}
  /\ events = [t \in Tasks |-> <<>>]
  /\ flowTask = [f \in Flows |-> NoTask]
  /\ owner = [f \in Flows |-> NoOwner]
  /\ procTasks = [i \in Instances |-> {}]
  /\ degraded = {}
  /\ observed = [p \in Procs |-> 0]
  /\ index = [p \in Procs |-> 0]
  /\ captured = [t \in Tasks |-> "never"]
  /\ up = TRUE

Seen(t) == rows[t].sequence > 0
Open(t) == Seen(t) /\ rows[t].phase # "terminal"
(* The bound. *)
Transitions == MapThenSumSet(LAMBDA t : rows[t].sequence, Tasks)
HasRoom(T) == Transitions + Cardinality(T) <= MaxTransitions

(* persist_ingress of one new transition for each task of T. *)
CommitTransitions(T, phase, cause) ==
  /\ rows' = [t \in Tasks |->
                IF t \notin T THEN rows[t]
                ELSE [sequence |-> rows[t].sequence + 1,
                      count |-> IF cause = "exchange" THEN rows[t].count + 1 ELSE rows[t].count,
                      phase |-> phase[t]]]
  /\ events' = [t \in Tasks |->
                  IF t \in T THEN Append(events[t], [phase |-> phase[t], cause |-> cause])
                  ELSE events[t]]

(* The memory of the daemon when it starts, and when it has ended. *)
Forget ==
  /\ flowTask' = [f \in Flows |-> NoTask]
  /\ owner' = [f \in Flows |-> NoOwner]
  /\ procTasks' = [i \in Instances |-> {}]
  /\ degraded' = {}
  /\ observed' = [p \in Procs |-> 0]
  /\ index' = [p \in Procs |-> 0]
  /\ captured' = [t \in Tasks |-> "never"]

(* The error leaves the ingest loop, `result??` ends the daemon. *)
LaneFails ==
  /\ up' = FALSE
  /\ Forget
  /\ UNCHANGED stored

-----------------------------------------------------------------------------
(* Segments that complete exchanges. *)

(* A segment comes with the instance that was in the index when it was     *)
(* attributed, which may have been lost since.                             *)
Attributed(f, n) == n \in 1..observed[FlowProc[f]]

(* The first segment of a connection decides whose it is. *)
Owner(f, n) == IF owner[f] = NoOwner THEN n ELSE owner[f]
FlowInstance(f, n) == <<FlowProc[f], Owner(f, n)>>

(* Codex's side: an exchange belongs to a turn of the connection's process. *)
Possible(f, xs) == \A i \in DOMAIN xs : TaskProc[xs[i].task] = FlowProc[f]

(* Fault: response ids are not looked up. *)
HasAttemptResponseNever(t, r) == FALSE

HasAttemptResponse(t, r) ==
  \E a \in attempts : a.task = t /\ a.response = r /\ r # NoResponse

(* Fault: ordinals count from zero. *)
OrdinalFromZero(t) == rows[t].count

(* Fault: the first ordinal is given twice. *)
OrdinalOffByOne(t) == IF rows[t].count = 0 THEN 1 ELSE rows[t].count

Ordinal(t) == rows[t].count + 1

GapTasks(t) == {u \in {t} \ {NoTask} : Open(u)}

(* The end of handle_segment: the connection is kept, or forgotten when    *)
(* this was the FIN or RST that closed its second direction.               *)
EndSegment(f, n, fin, task, broken) ==
  \/ /\ flowTask' = [flowTask EXCEPT ![f] = task]
     /\ owner' = [owner EXCEPT ![f] = Owner(f, n)]
     /\ degraded' = broken
  \/ /\ fin
     /\ flowTask' = [flowTask EXCEPT ![f] = NoTask]
     /\ owner' = [owner EXCEPT ![f] = NoOwner]
     /\ degraded' = broken \ ({f} \X Directions)

(* History: a task captured on a connection of the process's present       *)
(* instance, or only on one of an instance that discovery has lost.        *)
Capture(T, instance) ==
  captured' = [t \in Tasks |->
    IF t \notin T \/ captured[t] = "present" THEN captured[t]
    ELSE IF index[instance[1]] = instance[2] THEN "present" ELSE "stray"]

(* consume_http1, consume_h2 or consume_websocket with project_exchange for *)
(* each exchange, map_attempt_projection giving the phase.  A response that *)
(* the attempts table knows is skipped; whether the task is over is not     *)
(* looked at.  Two exchanges of one task take the same sequence number and  *)
(* the batch is not valid; so do an exchange and the gap of a FIN that      *)
(* finds fragments waiting.                                                 *)
Segment(f, d, n, xs, fin, gap) ==
  LET kept == {i \in DOMAIN xs : ~HasAttemptResponse(xs[i].task, xs[i].response)}
      of(t) == xs[CHOOSE i \in kept : xs[i].task = t]
      touched == {xs[i].task : i \in kept}
      last == xs[CHOOSE i \in kept : \A j \in kept : j <= i].task
      clash == \/ \E i, j \in kept : i # j /\ xs[i].task = xs[j].task
               \/ gap /\ GapTasks(last) # {} IN
  /\ up
  /\ Attributed(f, n)
  /\ <<f, d>> \notin degraded
  /\ kept # {}
  /\ HasRoom(touched)
  /\ \/ clash /\ LaneFails
     \/ /\ ~clash
        /\ CommitTransitions(touched, [t \in touched |-> of(t).phase], "exchange")
        /\ attempts' = attempts \union
             {[task |-> t, ordinal |-> Ordinal(t), response |-> of(t).response] : t \in touched}
        /\ EndSegment(f, n, fin, last, IF gap THEN degraded \union {<<f, d>>} ELSE degraded)
        /\ procTasks' = [procTasks EXCEPT ![FlowInstance(f, n)] = @ \union touched]
        /\ Capture(touched, FlowInstance(f, n))
        /\ UNCHANGED <<observed, index, up>>

-----------------------------------------------------------------------------
(* Segments that complete no exchange. *)

(* The beginning of an exchange, or bytes that wait or came before. *)
QuietSegment(f, n) ==
  /\ up
  /\ Attributed(f, n)
  /\ owner' = [owner EXCEPT ![f] = Owner(f, n)]
  /\ UNCHANGED <<stored, flowTask, procTasks, degraded, observed, index, captured, up>>

(* project_gap: the task of the connection keeps its phase. *)
ProjectGap(T) ==
  /\ CommitTransitions(T, [t \in T |-> rows[t].phase], "gap")
  /\ UNCHANGED attempts

(* A segment that the assembler cannot place, or any segment after it. *)
GapSegment(f, d, n) ==
  /\ up
  /\ Attributed(f, n)
  /\ HasRoom(GapTasks(flowTask[f]))
  /\ degraded' = degraded \union {<<f, d>>}
  /\ owner' = [owner EXCEPT ![f] = Owner(f, n)]
  /\ ProjectGap(GapTasks(flowTask[f]))
  /\ UNCHANGED <<flowTask, procTasks, observed, index, captured, up>>

(* A FIN or RST whose segment is placed; it reports a gap when it finds    *)
(* fragments waiting.                                                      *)
FinSegment(f, d, n, waiting) ==
  LET hit == IF waiting THEN GapTasks(flowTask[f]) ELSE {} IN
  /\ up
  /\ Attributed(f, n)
  /\ <<f, d>> \notin degraded
  /\ HasRoom(hit)
  /\ ProjectGap(hit)
  /\ EndSegment(f, n, TRUE, flowTask[f], IF waiting THEN degraded \union {<<f, d>>} ELSE degraded)
  /\ UNCHANGED <<procTasks, observed, index, captured, up>>

(* A FIN or RST on a degraded stream, or one that degrades it itself:      *)
(* push_segment reports the conflict and finish the gap, both projected    *)
(* from the same cursor into one batch.                                    *)
FinConflict(f, d, n) ==
  LET hit == GapTasks(flowTask[f]) IN
  /\ up
  /\ Attributed(f, n)
  /\ \/ hit # {} /\ LaneFails
     \/ /\ hit = {}
        /\ EndSegment(f, n, TRUE, flowTask[f], degraded \union {<<f, d>>})
        /\ UNCHANGED <<stored, procTasks, observed, index, captured, up>>

-----------------------------------------------------------------------------
(* Processes. *)

(* The discovery poll finds the process, or finds it again. *)
ProcessObserved(p) ==
  /\ up
  /\ index[p] = 0
  /\ observed[p] < MaxInstances
  /\ observed' = [observed EXCEPT ![p] = @ + 1]
  /\ index' = [index EXCEPT ![p] = observed'[p]]
  /\ UNCHANGED <<stored, flowTask, owner, procTasks, degraded, captured, up>>

OwnTasks(p, n) ==
  procTasks[<<p, n>>] \union
    {t \in Tasks : \E f \in Flows : FlowProc[f] = p /\ owner[f] = n /\ flowTask[f] = t}

(* Fault: tasks that are terminal already are not left alone. *)
LostTasksAll(p, n) == {t \in OwnTasks(p, n) : Seen(t)}

(* Fault: only the tasks of open connections are closed. *)
LostTasksOfFlows(p, n) ==
  {t \in Tasks : Open(t) /\ \E f \in Flows :
                              FlowProc[f] = p /\ owner[f] = n /\ flowTask[f] = t}

(* The tasks project_process_exit closes. *)
LostTasks(p, n) == {t \in OwnTasks(p, n) : Open(t)}

(* ProcessExit: the open tasks of the instance become terminal (lost:      *)
(* neither source has an exit code or a signal).                           *)
HandleExit(p, n) ==
  /\ up
  /\ HasRoom(LostTasks(p, n))
  /\ CommitTransitions(LostTasks(p, n), [t \in LostTasks(p, n) |-> "terminal"], "exit")
  /\ procTasks' = [procTasks EXCEPT ![<<p, n>>] = {}]
  /\ captured' = [t \in Tasks |->
       IF captured[t] = "present" /\ TaskProc[t] = p /\ index[p] = n THEN "settled"
       ELSE captured[t]]
  /\ UNCHANGED <<attempts, flowTask, owner, degraded, observed, up>>

(* A process known from an earlier poll is not listed any more, because it *)
(* is gone or because looking it up in /proc failed.                       *)
ProcessMissed(p) ==
  /\ index[p] # 0
  /\ HandleExit(p, index[p])
  /\ index' = [index EXCEPT ![p] = 0]

(* The sched_process_exit tracepoint fires for every thread: the process   *)
(* may be running and stays in the index.  The record may be handled after *)
(* the instance that it was attributed to has been lost.                   *)
ThreadExit(p) ==
  /\ \E n \in 1..observed[p] : HandleExit(p, n)
  /\ UNCHANGED index

(* The daemon dies, or died, and starts again with empty memory. *)
Restart ==
  /\ up' = TRUE
  /\ Forget
  /\ UNCHANGED stored

-----------------------------------------------------------------------------
(* The exchanges a segment may complete. *)
Exchanges == UNION {[1..n -> Exchange] : n \in 1..MaxPerSegment}
Inputs(f) ==
  IF Transitions < MaxTransitions THEN {xs \in Exchanges : Possible(f, xs)} ELSE {}

Next ==
  \/ \E f \in Flows : \E n \in 1..observed[FlowProc[f]] :
       \/ QuietSegment(f, n)
       \/ \E d \in Directions :
            \/ \E xs \in Inputs(f), fin \in BOOLEAN :
                 \E gap \in {FALSE, fin} : Segment(f, d, n, xs, fin, gap)
            \/ GapSegment(f, d, n)
            \/ \E waiting \in BOOLEAN : FinSegment(f, d, n, waiting)
            \/ FinConflict(f, d, n)
  \/ \E p \in Procs : ProcessObserved(p) \/ ProcessMissed(p) \/ ThreadExit(p)
  \/ Restart

Spec == Init /\ [][Next]_vars

-----------------------------------------------------------------------------
(* The task rows, attempt rows and flow states of the capture lane.        *)
TypeOK ==
  /\ rows \in [Tasks -> Row]
  /\ attempts \subseteq Attempt
  /\ \A t \in Tasks : events[t] \in Seq(Transition)
  /\ flowTask \in [Flows -> Tasks \union {NoTask}]
  /\ owner \in [Flows -> 0..MaxInstances]
  /\ procTasks \in [Instances -> SUBSET Tasks]
  /\ degraded \subseteq Flows \X Directions
  /\ observed \in [Procs -> 0..MaxInstances]
  /\ index \in [Procs -> 0..MaxInstances]
  /\ \A p \in Procs : index[p] <= observed[p]
  /\ captured \in [Tasks -> {"never", "present", "stray", "settled"}]
  /\ up \in BOOLEAN

(* A task that is over is reopened by nothing but another captured         *)
(* exchange: no gap and no exit, of a thread or handled twice, follows its *)
(* end, on whichever connection and over restarts.  An exit ends the task, *)
(* and a gap leaves it in its phase.  The transitions are numbered without *)
(* gap or repetition.  (That project_exchange reopens a finished task at   *)
(* all is what the code does; TaskReducer of the protocol, which nothing   *)
(* calls, would refuse it.)                                                *)
PhasesFollow ==
  \A t \in Tasks :
    /\ rows[t].sequence = Len(events[t])
    /\ \A i \in 2..Len(events[t]) :
         LET before == events[t][i - 1]
             event == events[t][i] IN
         /\ before.phase = "terminal" => event.cause = "exchange"
         /\ event.cause = "gap" => event.phase = before.phase
         /\ event.cause = "exit" => event.phase = "terminal"

(* attempt_count and the attempts table agree, and ordinals count from one *)
(* without gap or repetition, over gaps, exits and restarts.               *)
AttemptsCounted ==
  \A t \in Tasks :
    LET own == {a \in attempts : a.task = t} IN
    /\ {a.ordinal : a \in own} = 1..rows[t].count
    /\ Cardinality(own) = rows[t].count

(* A response captured twice - by the packet tap and by the probes, or     *)
(* again after a restart - is one attempt.                                 *)
ResponseOnce ==
  \A a, b \in attempts :
    a.task = b.task /\ a.response = b.response /\ a.response # NoResponse => a = b

(* When an exit of a process has been handled - of all of it, of a thread, *)
(* or because a poll missed it - no task that this run of the daemon had   *)
(* captured on a connection of the instance is open, on whichever          *)
(* connection it was, until an exchange of the task is captured again.  A  *)
(* task captured only on connections of an instance lost before ("stray")  *)
(* is not found by the exits of the present one.                           *)
ExitSettles ==
  \A t \in Tasks : captured[t] = "settled" => ~Open(t)

(* No captured input makes the daemon end. *)
LaneSurvives == up
=============================================================================
