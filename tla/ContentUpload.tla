---------------------------- MODULE ContentUpload ----------------------------
(***************************************************************************)
(* On-demand content end to end: the server's handlers (ContentServer),    *)
(* the client's raw store (RawStore) and, between them, the client's       *)
(* command loop: poll, save, then execute one due command.                 *)
(*                                                                         *)
(* The client hears of a post in one of two ways: the answer arrives, or   *)
(* none does.  Then the post was handled, is handled later, when the       *)
(* client is already doing something else, or never.                       *)
(* The server and the client read one clock.                               *)
(***************************************************************************)
EXTENDS ContentServer, RawStore

CONSTANT MaxLate   \* bound: posts that are under way without their client

ASSUME UploadAssumption == MaxLate \in Nat

VARIABLES
  cmds,      \* client commands table: status, "none" when there is no row
  ready,     \* client commands whose next_attempt_at has passed
  loop,      \* the command loop
  late,      \* posts the client has given up and the server may still get
  reopened   \* history: requests that got such a post after their outcome

clientVars == <<cmds, ready, loop>>
netVars == <<late, reopened>>
vars == <<serverVars, rawVars, clientVars, netVars>>

(* pc    what the loop does next                                           *)
(* req   the command it works on                                           *)
(* got   commands of the poll response not saved yet                       *)
(* work  manifests whose chunks are still to be sent                       *)
(* cur   the object being sent and the number of the next chunk            *)
(* say   the result to post                                                *)
AtPoll == [pc |-> "poll", req |-> 0, got |-> {}, work |-> {}, cur |-> <<>>, say |-> "none"]

Init ==
  /\ ServerInit
  /\ RawInit
  /\ cmds = [r \in Requests |-> "none"]
  /\ ready = {}
  /\ loop = AtPoll
  /\ late = {}
  /\ reopened = {}

-----------------------------------------------------------------------------
(* The network. *)

Post ==
  [type : {"poll"}]
    \union [type : {"manifests"}, req : Requests, work : SUBSET Manifest]
    \union [type : {"chunk"}, req : Requests, obj : Objects, piece : Nat]
    \union [type : {"result"}, req : Requests, say : Outcomes]

Handled(post) ==
  \/ post.type = "poll" /\ NextCommand
  \/ post.type = "manifests" /\ UploadManifests(post.req, post.work)
  \/ post.type = "chunk" /\ UploadChunk(post.req, post.obj, post.piece)
  \/ post.type = "result" /\ UploadResult(post.req, post.say)

(* The client gets an error instead of an answer. *)
Lost(post) ==
  \/ Handled(post) /\ UNCHANGED netVars
  \/ UNCHANGED <<serverVars, netVars>>
  \/ /\ Cardinality(late) < MaxLate
     /\ late' = late \union {post}
     /\ UNCHANGED <<serverVars, reopened>>

(* The server handles a post whose client has gone on, or was restarted. *)
LateHandled(post) ==
  /\ post \in late
  /\ Handled(post)
  /\ late' = late \ {post}
  /\ reopened' = IF post.type # "poll" /\ status[post.req] \in Outcomes
                 THEN reopened \union {post.req} ELSE reopened
  /\ UNCHANGED <<rawVars, clientVars>>

-----------------------------------------------------------------------------
(* poll_command_once. *)

(* poll_commands returns with the commands the server marked. *)
PollAnswered ==
  /\ loop.pc = "poll"
  /\ NextCommand
  /\ loop' = [AtPoll EXCEPT !.pc = "save", !.got = Polled]
  /\ UNCHANGED <<cmds, ready, rawVars, netVars>>

(* The server has marked and sent them, or does so later; the answer does  *)
(* not arrive.                                                             *)
PollLost ==
  /\ loop.pc = "poll"
  /\ Lost([type |-> "poll"])
  /\ UNCHANGED <<clientVars, rawVars>>

(* save_commands: one INSERT per command, no transaction around them. *)
SaveCommand(r) ==
  /\ loop.pc = "save" /\ Free
  /\ r \in loop.got
  /\ \A s \in loop.got : r <= s
  /\ cmds' = [cmds EXCEPT ![r] = IF @ = "none" THEN "pending" ELSE @]
  /\ ready' = IF cmds[r] = "none" THEN ready \union {r} ELSE ready
  /\ loop' = [loop EXCEPT !.got = @ \ {r}]
  /\ UNCHANGED <<serverVars, rawVars, netVars>>

-----------------------------------------------------------------------------
(* execute_due_command_once. *)

(* next_due_command: the lowest rowid; commands are saved in the order in  *)
(* which they were created.                                                *)
DueCommands == {r \in ready : cmds[r] \in {"pending", "failed", "running"}}
IsNextDue(r) == r \in DueCommands /\ \A s \in DueCommands : r <= s

AtPick == loop.pc = "save" /\ loop.got = {} /\ Free

NothingDue ==
  /\ AtPick
  /\ DueCommands = {}
  /\ loop' = AtPoll
  /\ UNCHANGED <<cmds, ready, serverVars, rawVars, netVars>>

(* ORDER BY created_at DESC LIMIT 1 *)
IsLatest(o, c, p) ==
  /\ o \in Present /\ rows[o].conv = c /\ rows[o].part = p
  /\ \A q \in Present : rows[q].conv = c /\ rows[q].part = p => rows[q].stamp <= rows[o].stamp

Available(c, p) == \E o \in Objects : IsLatest(o, c, p) /\ ~rows[o].expired
CanServe(r) == r \notin overdue /\ \A p \in wanted[r] : Available(convOf[r], p)

Work(r) ==
  {m \in Manifest : /\ m.req = r
                    /\ m.part \in wanted[r]
                    /\ IsLatest(m.obj, convOf[r], m.part)
                    /\ m.stamp = rows[m.obj].stamp}

(* Fault: a command without content is dropped, no result is posted. *)
PrepareExpiredSilently(r) ==
  /\ AtPick /\ IsNextDue(r)
  /\ ~CanServe(r)
  /\ cmds' = [cmds EXCEPT ![r] = "completed"]
  /\ loop' = AtPoll
  /\ UNCHANGED <<ready, serverVars, rawVars, netVars>>

(* prepare_upload finds the request expired, or content missing or expired. *)
PrepareExpired(r) ==
  /\ AtPick /\ IsNextDue(r)
  /\ ~CanServe(r)
  /\ loop' = [AtPoll EXCEPT !.pc = "result", !.req = r, !.say = "content_expired"]
  /\ UNCHANGED <<cmds, ready, serverVars, rawVars, netVars>>

(* prepare_upload pins the task's rows and marks the command running; it   *)
(* stays due.                                                              *)
PrepareReady(r) ==
  /\ AtPick /\ IsNextDue(r)
  /\ CanServe(r)
  /\ Pin(r, convOf[r])
  /\ cmds' = [cmds EXCEPT ![r] = "running"]
  /\ loop' = [AtPoll EXCEPT !.pc = "manifests", !.req = r, !.work = Work(r)]
  /\ UNCHANGED <<ready, serverVars, netVars>>

Failing == [loop EXCEPT !.pc = "fail", !.work = {}, !.cur = <<>>]

ManifestsAnswered(r) ==
  /\ loop.pc = "manifests" /\ loop.req = r
  /\ UploadManifests(r, loop.work)
  /\ loop' = IF ManifestsAccepted(r, loop.work) THEN [loop EXCEPT !.pc = "load"] ELSE Failing
  /\ UNCHANGED <<cmds, ready, rawVars, netVars>>

ManifestsLost(r) ==
  /\ loop.pc = "manifests" /\ loop.req = r
  /\ Lost([type |-> "manifests", req |-> r, work |-> loop.work])
  /\ loop' = Failing
  /\ UNCHANGED <<cmds, ready, rawVars>>

(* load_chunks reads the file of the next manifest.  When it is missing    *)
(* the error ends the attempt; the command stays running and due.          *)
LoadChunks(m) ==
  /\ loop.pc = "load" /\ m \in loop.work
  /\ loop' = IF m.obj \in blobs
             THEN [loop EXCEPT !.pc = "chunk", !.work = @ \ {m}, !.cur = <<m.obj, 1>>]
             ELSE AtPoll
  /\ UNCHANGED <<cmds, ready, serverVars, rawVars, netVars>>

ChunkSent ==
  IF loop.cur[2] < Pieces[loop.cur[1]] THEN [loop EXCEPT !.cur = <<@[1], @[2] + 1>>]
  ELSE IF loop.work # {} THEN [loop EXCEPT !.pc = "load", !.cur = <<>>]
  ELSE [loop EXCEPT !.pc = "result", !.say = "stored", !.cur = <<>>]

(* post_chunk looks at the HTTP status only, not at the result in the body. *)
ChunkAnswered(r) ==
  /\ loop.pc = "chunk" /\ loop.req = r
  /\ UploadChunk(r, loop.cur[1], loop.cur[2])
  /\ loop' = IF ChunkAccepted(r, loop.cur[1]) THEN ChunkSent ELSE Failing
  /\ UNCHANGED <<cmds, ready, rawVars, netVars>>

(* Fault: an error of post_chunk is ignored. *)
ChunkLostIgnored(r) ==
  /\ loop.pc = "chunk" /\ loop.req = r
  /\ Lost([type |-> "chunk", req |-> r, obj |-> loop.cur[1], piece |-> loop.cur[2]])
  /\ loop' = ChunkSent
  /\ UNCHANGED <<cmds, ready, rawVars>>

ChunkLost(r) ==
  /\ loop.pc = "chunk" /\ loop.req = r
  /\ Lost([type |-> "chunk", req |-> r, obj |-> loop.cur[1], piece |-> loop.cur[2]])
  /\ loop' = Failing
  /\ UNCHANGED <<cmds, ready, rawVars>>

(* fail_command: back-off, the pins stay. *)
FailCommand(r) ==
  /\ loop.pc = "fail" /\ loop.req = r /\ Free
  /\ cmds' = [cmds EXCEPT ![r] = "failed"]
  /\ ready' = ready \ {r}
  /\ loop' = AtPoll
  /\ UNCHANGED <<serverVars, rawVars, netVars>>

BackoffElapsed(r) ==
  /\ cmds[r] = "failed" /\ r \notin ready
  /\ ready' = ready \union {r}
  /\ UNCHANGED <<cmds, loop, serverVars, rawVars, netVars>>

ResultAnswered(r) ==
  /\ loop.pc = "result" /\ loop.req = r
  /\ UploadResult(r, loop.say)
  /\ loop' = [loop EXCEPT !.pc = "complete"]
  /\ UNCHANGED <<cmds, ready, rawVars, netVars>>

(* Fault: an error of post_upload_result is ignored. *)
ResultLostIgnored(r) ==
  /\ loop.pc = "result" /\ loop.req = r
  /\ Lost([type |-> "result", req |-> r, say |-> loop.say])
  /\ loop' = [loop EXCEPT !.pc = "complete"]
  /\ UNCHANGED <<cmds, ready, rawVars>>

(* The error ends the attempt; the command is still due. *)
ResultLost(r) ==
  /\ loop.pc = "result" /\ loop.req = r
  /\ Lost([type |-> "result", req |-> r, say |-> loop.say])
  /\ loop' = AtPoll
  /\ UNCHANGED <<cmds, ready, rawVars>>

(* complete_command: the command is done, its pins are released. *)
CompleteCommand(r) ==
  /\ loop.pc = "complete" /\ loop.req = r
  /\ Unpin(r)
  /\ cmds' = [cmds EXCEPT ![r] = "completed"]
  /\ loop' = AtPoll
  /\ UNCHANGED <<ready, serverVars, netVars>>

-----------------------------------------------------------------------------
(* The client dies at any point and systemd starts it again. *)
ClientRestart ==
  /\ RawRestart
  /\ loop' = AtPoll
  /\ UNCHANGED <<cmds, ready, serverVars, netVars>>

(* Steps of the raw store that no command takes part in. *)
Raw ==
  /\ \/ \E c \in Conversations, p \in Parts, o \in Objects : StoreBlob(c, p, o)
     \/ CommitRow
     \/ RollBack
     \/ \E o \in Objects : ContentExpires(o) \/ CleanupRemove(o)
     \/ CleanupSelect
     \/ CleanupDelete
  /\ UNCHANGED <<serverVars, clientVars, netVars>>

Admin(r) ==
  /\ \/ \E c \in Conversations, parts \in SUBSET Parts : CreateContentRequest(r, c, parts)
     \/ RequestExpires(r)
  /\ UNCHANGED <<rawVars, clientVars, netVars>>

Next ==
  \/ PollAnswered \/ PollLost \/ NothingDue
  \/ Raw
  \/ ClientRestart
  \/ \E m \in Manifest : LoadChunks(m)
  \/ \E post \in late : LateHandled(post)
  \/ \E r \in Requests :
       \/ Admin(r)
       \/ SaveCommand(r)
       \/ PrepareExpired(r) \/ PrepareReady(r)
       \/ ManifestsAnswered(r) \/ ManifestsLost(r)
       \/ ChunkAnswered(r) \/ ChunkLost(r)
       \/ ResultAnswered(r) \/ ResultLost(r)
       \/ FailCommand(r) \/ CompleteCommand(r)
       \/ BackoffElapsed(r)

Spec == Init /\ [][Next]_vars

(* Transactions end, time passes, and the loop keeps polling (weak         *)
(* fairness).  A restart or a lost answer may undo any step of the command *)
(* loop, but not every time (strong fairness).                             *)
Fairness ==
  /\ WF_vars((CommitRow \/ RollBack) /\ UNCHANGED <<serverVars, clientVars, netVars>>)
  /\ \A o \in Objects : WF_vars(ContentExpires(o) /\ UNCHANGED <<serverVars, clientVars, netVars>>)
  /\ SF_vars(PollAnswered)
  /\ SF_vars(NothingDue)
  /\ SF_vars(\E m \in Manifest : LoadChunks(m))
  /\ \A r \in Requests :
       /\ SF_vars(SaveCommand(r))
       /\ SF_vars(PrepareExpired(r))
       /\ SF_vars(PrepareReady(r))
       /\ SF_vars(ManifestsAnswered(r))
       /\ SF_vars(ChunkAnswered(r))
       /\ SF_vars(ResultAnswered(r))
       /\ SF_vars(FailCommand(r))
       /\ SF_vars(CompleteCommand(r))
       /\ WF_vars(BackoffElapsed(r))

FairSpec == Spec /\ Fairness

-----------------------------------------------------------------------------
(* The command loop's rows and its place in run_command_loop, on top of    *)
(* the types of the two stores.                                            *)
TypeOK ==
  /\ ServerTypeOK
  /\ RawTypeOK
  /\ cmds \in [Requests -> {"none", "pending", "running", "failed", "completed"}]
  /\ ready \subseteq {r \in Requests : cmds[r] # "none"}
  /\ loop.pc \in {"poll", "save", "manifests", "load", "chunk", "fail", "result", "complete"}
  /\ loop.req \in Requests \union {0}
  /\ loop.got \subseteq Requests
  /\ loop.work \subseteq Manifest
  /\ late \subseteq Post
  /\ reopened \subseteq Created

(* The client forgets a command only when the server has its outcome, over *)
(* lost answers, repeated uploads and crashes between the posted result    *)
(* and complete_command.  The command stays completed for good; the        *)
(* outcome stays unless a post of an abandoned attempt is handled after it *)
(* (upload_chunk writes partial_upload over any status).                   *)
CompletedOnBothSides ==
  \A r \in Requests : cmds[r] = "completed" =>
    /\ command[r] = "completed"
    /\ status[r] \in {"stored", "content_expired"} \/ r \in reopened

(* When the client is done with a request that is called stored, all its   *)
(* parts were uploaded, over lost answers, repeated uploads, posts handled *)
(* late and content that was captured anew between two attempts - unless   *)
(* the request expired during the upload, its conversation could be        *)
(* evicted meanwhile, or a late post came after the outcome.  (The         *)
(* server's own claim is weaker: linked_object_count counts objects, so    *)
(* two objects of one part may make it say stored before the other part    *)
(* arrives.)                                                               *)
StoredIsUploaded ==
  Cardinality(Conversations) <= Limit =>
    \A r \in Requests \ (overdue \union reopened) :
      cmds[r] = "completed" /\ status[r] = "stored" =>
        \A p \in wanted[r] : \E m \in manifests :
          m.req = r /\ m.part = p /\ <<r, m.obj>> \in links

(* Every content request that the client has saved gets an outcome on the  *)
(* server: stored, or content_expired once the content is gone.  (One      *)
(* whose poll answer is lost stays dispatched and never gets one.)         *)
SavedRequestCompletes ==
  \A r \in Requests : (cmds[r] # "none") ~> (command[r] = "completed")
=============================================================================
