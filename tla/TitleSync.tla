----------------------------- MODULE TitleSync -----------------------------
(***************************************************************************)
(* Conversation titles on their way from Codex's session_index.jsonl to    *)
(* the snapshots of tasks: the index that follows the file, the watcher    *)
(* that refreshes it, sync_conversation_title, and the capture lane, which *)
(* stamps the title it finds on the summaries that it persists.            *)
(*                                                                         *)
(* One session.  A line of the file is two pieces, so that a read may end  *)
(* inside it; entries of other sessions do not matter.  `uploaded' is what *)
(* the last batch of a task says; how batches travel is Delivery.          *)
(***************************************************************************)
EXTENDS Integers, Sequences, FiniteSets, SequencesExt

CONSTANTS
  Tasks,     \* tasks of the session
  Titles,    \* its titles
  MaxFiles,  \* bound: files that ever have the name of the index
  MaxPieces, \* bound: pieces written to all of them, and rewritings of one
  Bounds     \* bounds that are explored together: titles, files, pieces, statuses of
             \* tasks, summaries, restarts of the client; whether the notifier runs, with
             \* notify_completed, and its failures

NoTitle == "none"
Statuses == {"running", "degraded", "completed", "failed"}

ASSUME TitleAssumption ==
  /\ NoTitle \notin Titles
  /\ MaxFiles \in Nat /\ MaxPieces \in Nat
  /\ Bounds \subseteq [titles : SUBSET Titles, files : 0..MaxFiles, pieces : 0..MaxPieces,
                      statuses : SUBSET Statuses, summaries : Nat, restarts : Nat,
                      notifier : BOOLEAN, completed : BOOLEAN, failures : Nat]

VARIABLES
  bound,    \* one of Bounds
  file,     \* session_index.jsonl: inode (0: there is none) and content
  inodes,   \* files created so far
  idx,      \* ConversationTitleIndex
  wake,     \* an inotify event for the file waits to be read
  watcher,  \* where the thread that refreshes the index is, and the metadata it has read
  queue,    \* changes on their way to sync_conversation_title
  sync,     \* sync_conversation_title
  lane,     \* the summary that the lane is about to persist, and the title of the index at
            \* the time of its look (history)
  rows,     \* active_tasks.conversation_title
  uploaded, \* the snapshot of each task in its last batch
  recent,   \* tasks by the time of their last summary, newest first
  written, summaries, restarts, \* counts that are bounded
  missed,   \* history: the file changed before it was watched and was not read since
  rewritten, \* history: what the index has read of the file was replaced in place, and
            \* the index has not started over since
  raced     \* history: tasks whose title was overwritten by an older one, or not uploaded

fileVars == <<file, inodes, written, rewritten>>
indexVars == <<idx, watcher>>
storeVars == <<rows, uploaded, recent>>
titleVars == <<bound, fileVars, indexVars, wake, queue, sync, lane, storeVars, summaries,
               restarts, missed, raced>>

Piece == [title : Titles, end : BOOLEAN]
Empty == [title |-> NoTitle, inode |-> 0, offset |-> 0, partial |-> <<>>]
Stat(pc) == [pc |-> pc, inode |-> 0, len |-> 0]
NoSync == [pc |-> "idle", title |-> NoTitle, rows |-> {}]
NoSummary == [pc |-> "idle"]
NoRow == [exists |-> FALSE, title |-> NoTitle, status |-> "running"]

TitleInit ==
  /\ bound \in Bounds
  /\ file = [inode |-> 0, content |-> <<>>]
  /\ inodes = 0
  /\ idx = Empty
  /\ wake = FALSE
  /\ watcher = Stat("open")
  /\ queue = <<>>
  /\ sync = NoSync
  /\ lane = NoSummary
  /\ rows = [t \in Tasks |-> NoRow]
  /\ uploaded = [t \in Tasks |-> NoRow]
  /\ recent = <<>>
  /\ written = 0 /\ summaries = 0 /\ restarts = 0
  /\ missed = FALSE
  /\ rewritten = FALSE
  /\ raced = {}

-----------------------------------------------------------------------------
(* Codex and the file. *)

Watching == watcher.pc \in {"watch", "stat", "read"}

(* The watch on the directory has an event for every change of the file. *)
Changed ==
  /\ wake' = (wake \/ Watching)
  /\ missed' = (missed \/ ~Watching)

(* The next piece of a line. *)
AppendPiece(t) ==
  /\ file.inode # 0
  /\ written < bound.pieces
  /\ LET open == file.content # <<>> /\ ~Last(file.content).end IN
     /\ open => t = Last(file.content).title
     /\ file' = [file EXCEPT !.content = Append(@, [title |-> t, end |-> open])]
  /\ written' = written + 1
  /\ Changed
  /\ UNCHANGED <<bound, inodes, rewritten, indexVars, queue, sync, lane, storeVars, summaries, restarts,
                 raced>>

(* A new file is created, or renamed over the old one with its content. *)
Replace(content) ==
  /\ inodes < bound.files
  /\ written + Len(content) <= bound.pieces
  /\ file' = [inode |-> inodes + 1, content |-> content]
  /\ inodes' = inodes + 1
  /\ written' = written + Len(content)
  /\ Changed
  /\ UNCHANGED <<bound, rewritten, indexVars, queue, sync, lane, storeVars, summaries, restarts, raced>>

(* The file is truncated and written again; or it is removed and a new one *)
(* gets its inode number.                                                  *)
Rewrite(content) ==
  /\ file.inode # 0
  /\ written + 1 + Len(content) <= bound.pieces
  /\ file' = [file EXCEPT !.content = content]
  /\ written' = written + 1 + Len(content)
  /\ rewritten' = (rewritten \/ (idx.inode = file.inode /\ idx.offset > 0))
  /\ Changed
  /\ UNCHANGED <<bound, inodes, indexVars, queue, sync, lane, storeVars, summaries, restarts, raced>>

-----------------------------------------------------------------------------
(* ConversationTitleIndex *)

Line(t) == <<[title |-> t, end |-> FALSE], [title |-> t, end |-> TRUE]>>

Ends(pieces) == {k \in DOMAIN pieces : pieces[k].end}
LastEnd(pieces) == CHOOSE k \in Ends(pieces) : \A j \in Ends(pieces) : j <= k

(* Piece k ends a line that parses: the line is made of its two pieces    *)
(* and nothing before them.                                                *)
Whole(pieces, k) ==
  /\ pieces[k].end
  /\ k > 1 /\ pieces[k - 1] = [pieces[k] EXCEPT !.end = FALSE]
  /\ k > 2 => pieces[k - 2].end

(* The line that piece k ends, if it does: a title that differs from the   *)
(* one before is a change.                                                 *)
ApplyLine(changes, pieces, k) ==
  IF Whole(pieces, k) /\ pieces[k].title # Last(changes)
  THEN Append(changes, pieces[k].title) ELSE changes

(* apply_complete_lines; the title known so far comes first. *)
Changes(title, pieces) ==
  LET after[k \in 0..Len(pieces)] ==
        IF k = 0 THEN <<title>> ELSE ApplyLine(after[k - 1], pieces, k)
  IN  after[Len(pieces)]

(* refresh, first part: the metadata, read without the lock.  Without a    *)
(* file nothing happens.                                                   *)
RefreshStat ==
  /\ watcher.pc \in {"open", "stat"}
  /\ watcher' =
       IF file.inode = 0 THEN Stat(IF watcher.pc = "open" THEN "sync" ELSE "watch")
       ELSE [pc |-> IF watcher.pc = "open" THEN "openRead" ELSE "read",
             inode |-> file.inode, len |-> Len(file.content)]
  /\ missed' = (missed /\ watcher.pc # "open")
  /\ UNCHANGED <<bound, fileVars, idx, wake, queue, sync, lane, storeVars, summaries, restarts, raced>>

(* Fault: a line that the replaced file left unfinished is kept. *)
StartOverKeepsPartial ==
  IF idx.inode = 0 \/ idx.inode # watcher.inode \/ watcher.len < idx.offset
  THEN [Empty EXCEPT !.partial = idx.partial] ELSE idx

(* A file that is new, replaced or truncated is read from its beginning. *)
StartOver ==
  IF idx.inode = 0 \/ idx.inode # watcher.inode \/ watcher.len < idx.offset THEN Empty ELSE idx

(* refresh, second part, under the lock: the metadata decide where reading *)
(* starts, and are recorded, though the file may be another by now.        *)
RefreshRead ==
  LET from == StartOver
      grown == watcher.len # from.offset
      appended == IF grown THEN SubSeq(file.content, from.offset + 1, Len(file.content)) ELSE <<>>
      text == from.partial \o appended
      complete == IF Ends(text) = {} THEN 0 ELSE LastEnd(text)
      changes == Changes(from.title, SubSeq(text, 1, complete)) IN
  /\ watcher.pc \in {"openRead", "read"}
  /\ idx' = [title |-> Last(changes), inode |-> watcher.inode,
             offset |-> from.offset + Len(appended),
             partial |-> SubSeq(text, complete + 1, Len(text))]
  /\ IF watcher.pc = "openRead"
     THEN watcher' = Stat("sync") /\ UNCHANGED <<queue, missed>>
     ELSE /\ watcher' = Stat("watch")
          /\ queue' = queue \o Tail(changes)
          /\ missed' = FALSE
  /\ rewritten' = (rewritten /\ from # Empty)
  /\ UNCHANGED <<bound, file, inodes, written, wake, sync, lane, storeVars, summaries, restarts, raced>>

(* run_daemon_with_components syncs the titles that open found, one after  *)
(* the other, before it starts the watcher and the lane.                   *)
StartupSync ==
  /\ watcher.pc = "sync"
  /\ watcher' = Stat("synced")
  /\ queue' = IF idx.title = NoTitle THEN <<>> ELSE <<idx.title>>
  /\ UNCHANGED <<bound, fileVars, idx, wake, sync, lane, storeVars, summaries, restarts,
                 missed, raced>>

Started == watcher.pc = "synced" /\ queue = <<>> /\ sync.pc = "idle"

(* watch: the first thing the new thread does, any time after the start of *)
(* the lane.                                                               *)
AddWatch ==
  /\ Started
  /\ watcher' = Stat("watch")
  /\ UNCHANGED <<bound, fileVars, idx, wake, queue, sync, lane, storeVars, summaries, restarts,
                 missed, raced>>

(* read_events_blocking *)
ReadEvent ==
  /\ watcher.pc = "watch" /\ wake
  /\ wake' = FALSE
  /\ watcher' = Stat("stat")
  /\ UNCHANGED <<bound, fileVars, idx, queue, sync, lane, storeVars, summaries, restarts,
                 missed, raced>>

-----------------------------------------------------------------------------
(* sync_conversation_title *)

OtherTitle(t) == rows[t].exists /\ rows[t].title # Head(queue)

SyncSelect ==
  LET found == {t \in Tasks : OtherTitle(t)} IN
  /\ sync.pc = "idle" /\ queue # <<>>
  /\ queue' = Tail(queue)
  /\ sync' = IF found = {} THEN NoSync ELSE [pc |-> "update", title |-> Head(queue), rows |-> found]
  /\ UNCHANGED <<bound, fileVars, indexVars, wake, lane, storeVars, summaries, restarts, missed, raced>>

(* Rows that came since the selection are updated too, but not uploaded.   *)
SyncUpdate ==
  /\ sync.pc = "update"
  /\ rows' = [t \in Tasks |->
                IF rows[t].exists THEN [rows[t] EXCEPT !.title = sync.title] ELSE rows[t]]
  /\ sync' = [sync EXCEPT !.pc = "persist"]
  /\ raced' = (raced \ sync.rows)
                \union {t \in Tasks \ sync.rows : rows[t].exists /\ rows[t].title # sync.title}
  /\ UNCHANGED <<bound, fileVars, indexVars, wake, queue, lane, uploaded, recent, summaries, restarts,
                 missed>>

(* The batch has the snapshots of the selected tasks as they are now; the  *)
(* time of their last update stays.                                        *)
SyncPersist ==
  /\ sync.pc = "persist"
  /\ uploaded' = [t \in Tasks |-> IF t \in sync.rows THEN rows[t] ELSE uploaded[t]]
  /\ sync' = NoSync
  /\ UNCHANGED <<bound, fileVars, indexVars, wake, queue, lane, rows, recent, summaries, restarts,
                 missed, raced>>

-----------------------------------------------------------------------------
(* The capture lane: project_exchange, project_gap, project_process_exit.  *)

Or(title, otherwise) == IF title = NoTitle THEN otherwise ELSE title

(* load_task_cursor and title(), whether or not the task has ended. *)
LaneLooks(t, status) ==
  /\ Started \/ Watching
  /\ lane.pc = "idle"
  /\ summaries < bound.summaries
  /\ lane' = [pc |-> "persist", task |-> t, status |-> status, title |-> Or(idx.title, rows[t].title),
              known |-> idx.title]
  /\ UNCHANGED <<bound, fileVars, indexVars, wake, queue, sync, storeVars, summaries, restarts,
                 missed, raced>>

(* persist_ingress: the row keeps its title when the summary has none. *)
LanePersists ==
  LET t == lane.task
      row == [exists |-> TRUE, title |-> Or(lane.title, rows[t].title), status |-> lane.status] IN
  /\ lane.pc = "persist"
  /\ rows' = [rows EXCEPT ![t] = row]
  /\ uploaded' = [uploaded EXCEPT ![t] = row]
  /\ recent' = <<t>> \o RemoveFirst(recent, t)
  /\ lane' = NoSummary
  /\ summaries' = summaries + 1
  /\ raced' = IF lane.known = idx.title \/ row.title = Or(idx.title, row.title)
              THEN raced ELSE raced \union {t}
  /\ UNCHANGED <<bound, fileVars, indexVars, wake, queue, sync, restarts, missed>>

(* The daemon ends at any point; the store stays. *)
ClientRestart ==
  /\ restarts < bound.restarts
  /\ restarts' = restarts + 1
  /\ idx' = Empty
  /\ wake' = FALSE
  /\ watcher' = Stat("open")
  /\ queue' = <<>>
  /\ sync' = NoSync
  /\ lane' = NoSummary
  /\ missed' = FALSE
  /\ rewritten' = FALSE
  /\ raced' = IF sync.pc = "persist" THEN raced \union sync.rows ELSE raced
  /\ UNCHANGED <<bound, file, inodes, written, storeVars, summaries>>

-----------------------------------------------------------------------------
Contents == {<<>>} \union {Line(t) : t \in bound.titles}

TitleNext ==
  \/ \E t \in bound.titles : AppendPiece(t)
  \/ \E content \in Contents : Replace(content) \/ Rewrite(content)
  \/ RefreshStat \/ RefreshRead \/ StartupSync \/ AddWatch \/ ReadEvent
  \/ SyncSelect \/ SyncUpdate \/ SyncPersist
  \/ \E t \in Tasks, status \in bound.statuses : LaneLooks(t, status)
  \/ LanePersists
  \/ ClientRestart

-----------------------------------------------------------------------------
(* Where each part is. *)
TitleTypeOK ==
  /\ file.inode \in 0..inodes /\ file.content \in Seq(Piece)
  /\ idx.title \in Titles \union {NoTitle}
  /\ idx.inode \in 0..inodes
  /\ idx.partial \in Seq(Piece) /\ Ends(idx.partial) = {}
  /\ watcher.pc \in {"open", "openRead", "sync", "synced", "watch", "stat", "read"}
  /\ Range(queue) \subseteq Titles
  /\ sync.pc \in {"idle", "update", "persist"} /\ sync.rows \subseteq Tasks
  /\ rows \in [Tasks -> [exists : BOOLEAN, title : Titles \union {NoTitle}, status : Statuses]]
  /\ uploaded \in [Tasks -> [exists : BOOLEAN, title : Titles \union {NoTitle}, status : Statuses]]
  /\ IsInjective(recent) /\ Range(recent) = {t \in Tasks : rows[t].exists}

(* The title of the last complete line. *)
Reference(content) ==
  LET whole == {k \in DOMAIN content : Whole(content, k)} IN
  IF whole = {} THEN NoTitle ELSE content[CHOOSE k \in whole : \A j \in whole : j <= k].title

Quiet ==
  /\ watcher.pc = "watch" /\ ~wake
  /\ queue = <<>> /\ sync.pc = "idle"

(* The file was rewritten in place and is at least as long as what had     *)
(* been read of it: nothing tells the index.                               *)
Regrown == rewritten /\ idx.offset <= Len(file.content)

(* When nothing is under way, the index has the title of the last complete *)
(* line of the file, however its pieces arrived and whatever was replaced  *)
(* or truncated between the look at the metadata and the read; and every   *)
(* task has that title, in the store and in its last batch.  Except: the   *)
(* file changed between open and the watch, and not since (missed); it was *)
(* rewritten in place and had grown back to where the index had read when  *)
(* the index looked (Regrown); or, after the last sync of the task, the    *)
(* index changed between the lane's look at it and the summary, or the row *)
(* was updated but is not in the batch, because it came after the          *)
(* selection or the daemon ended in between (raced).                       *)
TitlesFollowFile ==
  Quiet /\ ~missed /\ ~Regrown /\ file.inode # 0 =>
    /\ idx.title = Reference(file.content)
    /\ idx.title # NoTitle =>
         \A t \in Tasks \ raced :
           rows[t].exists => rows[t].title = idx.title /\ uploaded[t].title = idx.title
=============================================================================
