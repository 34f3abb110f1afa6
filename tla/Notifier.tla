------------------------------ MODULE Notifier ------------------------------
(***************************************************************************)
(* The notifier: it polls the server's task list and sends one notice for  *)
(* each task that completed or became abnormal, remembering in a file what *)
(* it has sent.  The titles that it waits for come from TitleSync; the     *)
(* server has what was uploaded last.                                      *)
(***************************************************************************)
EXTENDS TitleSync

CONSTANT Window    \* limit of the task list: the newest tasks that a poll sees

ASSUME NotifierAssumption == Window \in Nat \ {0}

VARIABLES
  pass,     \* the daemon: where its loop is, and the tasks left of this pass
  memory,   \* NotificationState
  saved,    \* the state file
  failures, \* ends of the process so far
  sent,     \* history: notices that reached Feishu, by task and kind
  cut,      \* history: of these, the ones after which the process ended before the save
  silent    \* history: notices recorded without being sent

noticeVars == <<pass, memory, saved, failures, sent, cut, silent>>
vars == <<titleVars, noticeVars>>

Kinds == {"completed", "abnormal"}
NoKind == "none"
Notices == Tasks \X Kinds
NotificationState == [initialized : BOOLEAN, seen : SUBSET Notices]
Down == [pc |-> "down", tasks |-> <<>>]
Idle == [pc |-> "idle", tasks |-> <<>>]

Init ==
  /\ TitleInit
  /\ pass = Down
  /\ memory = [initialized |-> FALSE, seen |-> {}]
  /\ saved = memory
  /\ failures = 0
  /\ sent = [n \in Notices |-> 0]
  /\ cut = sent
  /\ silent = {}

(* notice_kind *)
NoticeKind(row) ==
  CASE row.status \in {"degraded", "failed"} -> "abnormal"
    [] row.status = "completed" -> "completed"
    [] OTHER -> NoKind

(* list_tasks: the newest tasks, as they were uploaded. *)
TaskList == SubSeq(recent, 1, IF Len(recent) < Window THEN Len(recent) ELSE Window)

-----------------------------------------------------------------------------
(* systemd starts the daemon again, which loads the file. *)
Start ==
  /\ bound.notifier
  /\ pass.pc = "down"
  /\ pass' = Idle
  /\ memory' = saved
  /\ UNCHANGED <<titleVars, saved, failures, sent, cut, silent>>

(* One tick: the list is fetched, and handled from its oldest task on. *)
Fetch ==
  LET tasks == TaskList IN
  /\ pass.pc = "idle"
  /\ pass' = [pc |-> "pass",
              tasks |-> Reverse([i \in DOMAIN tasks |-> [task |-> tasks[i], row |-> uploaded[tasks[i]]]])]
  /\ UNCHANGED <<titleVars, memory, saved, failures, sent, cut, silent>>

AtTask == pass.pc = "pass" /\ pass.tasks # <<>>
This == Head(pass.tasks)
ThisNotice == <<This.task, NoticeKind(This.row)>>
NextTask == [pc |-> "pass", tasks |-> Tail(pass.tasks)]

(* Fault: the test for a title is the wrong way round. *)
SkipsTitled ==
  \/ NoticeKind(This.row) = NoKind
  \/ NoticeKind(This.row) = "abnormal" /\ This.row.title # NoTitle
  \/ ThisNotice \in memory.seen

(* Nothing to say, not yet a title, or said before. *)
Skips ==
  \/ NoticeKind(This.row) = NoKind
  \/ NoticeKind(This.row) = "abnormal" /\ This.row.title = NoTitle
  \/ ThisNotice \in memory.seen

(* deliver: the first pass of all only takes stock. *)
Delivers ==
  /\ memory.initialized
  /\ NoticeKind(This.row) # "completed" \/ bound.completed

SkipTask ==
  /\ AtTask
  /\ Skips
  /\ pass' = NextTask
  /\ UNCHANGED <<titleVars, memory, saved, failures, sent, cut, silent>>

(* send_feishu succeeds. *)
SendNotice ==
  /\ AtTask
  /\ ~Skips /\ Delivers
  /\ sent' = [sent EXCEPT ![ThisNotice] = @ + 1]
  /\ pass' = [pass EXCEPT !.pc = "sent"]
  /\ UNCHANGED <<titleVars, memory, saved, failures, cut, silent>>

(* Fault: the file is written at the end of the pass only. *)
RecordInMemory(state) ==
  /\ memory' = state
  /\ UNCHANGED saved

(* insert and save: the state file is replaced by rename. *)
Record(state) ==
  /\ memory' = state
  /\ saved' = state

MarkSeen == [memory EXCEPT !.seen = @ \union {ThisNotice}]

RecordSent ==
  /\ pass.pc = "sent"
  /\ Record(MarkSeen)
  /\ pass' = NextTask
  /\ UNCHANGED <<titleVars, failures, sent, cut, silent>>

RecordSilently ==
  /\ AtTask
  /\ ~Skips /\ ~Delivers
  /\ Record(MarkSeen)
  /\ silent' = silent \union {ThisNotice}
  /\ pass' = NextTask
  /\ UNCHANGED <<titleVars, failures, sent, cut>>

EndPass ==
  /\ pass.pc = "pass" /\ pass.tasks = <<>>
  /\ IF memory.initialized THEN UNCHANGED <<memory, saved>>
     ELSE Record([memory EXCEPT !.initialized = TRUE])
  /\ pass' = Idle
  /\ UNCHANGED <<titleVars, failures, sent, cut, silent>>

(* The request, the send or the save fails, or the process ends, at any    *)
(* point: every error leaves run_daemon.  A send that fails may have       *)
(* reached Feishu.                                                         *)
Fail ==
  /\ pass.pc # "down"
  /\ failures < bound.failures
  /\ failures' = failures + 1
  /\ pass' = Down
  /\ \/ /\ AtTask /\ ~Skips /\ Delivers
        /\ sent' = [sent EXCEPT ![ThisNotice] = @ + 1]
        /\ cut' = [cut EXCEPT ![ThisNotice] = @ + 1]
     \/ /\ pass.pc = "sent"
        /\ cut' = [cut EXCEPT ![ThisNotice] = @ + 1]
        /\ UNCHANGED sent
     \/ /\ pass.pc # "sent"
        /\ UNCHANGED <<sent, cut>>
  /\ UNCHANGED <<titleVars, memory, saved, silent>>

-----------------------------------------------------------------------------
NoticeNext ==
  \/ Start \/ Fetch \/ SkipTask \/ SendNotice \/ RecordSent \/ RecordSilently \/ EndPass

Next ==
  \/ TitleNext /\ UNCHANGED noticeVars
  \/ NoticeNext
  \/ Fail

Spec == Init /\ [][Next]_vars

(* The loop ticks for ever and systemd restarts it; failures are finitely  *)
(* many (their bound).  Nothing is assumed of the client.                  *)
FairSpec == Spec /\ WF_vars(NoticeNext)

-----------------------------------------------------------------------------
(* The parts of both modules; the file is never ahead of the memory. *)
TypeOK ==
  /\ TitleTypeOK
  /\ pass.pc \in {"down", "idle", "pass", "sent"}
  /\ pass.pc = "sent" => pass.tasks # <<>>
  /\ {memory, saved} \subseteq NotificationState
  /\ pass.pc # "down" => saved = memory
  /\ {sent, cut} \subseteq [Notices -> 0..(bound.failures + 1)]

(* Every notice is sent exactly once, and recorded then, plus once for     *)
(* each time that the process ended between its arrival and the save; none *)
(* is recorded unsent but in the first pass or when completions are not    *)
(* wanted.                                                                 *)
SentAccounted ==
  \A n \in Notices :
    LET recorded == n \in saved.seen \ silent
        underway == pass.pc = "sent" /\ ThisNotice = n IN
    sent[n] - cut[n] = IF recorded \/ underway THEN 1 ELSE 0

Due(t) ==
  /\ t \in Range(TaskList)
  /\ NoticeKind(uploaded[t]) = "abnormal"
  /\ uploaded[t].title # NoTitle

(* A task that stays abnormal and among the newest, once it has its title, *)
(* is noticed, also when the title came long after the task ended and      *)
(* whatever the sends of other tasks did.                                  *)
NoticedEventually ==
  \A t \in Tasks :
    <>[]Due(t) => <>(sent[t, "abnormal"] > 0 \/ <<t, "abnormal">> \in silent)
=============================================================================
