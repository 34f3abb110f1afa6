------------------------------ MODULE RawStore ------------------------------
(***************************************************************************)
(* The client's 72-hour content store: the raw_objects table, the blob     *)
(* files it describes, the pins that content commands set on rows, and the *)
(* cleanup loop.                                                           *)
(*                                                                         *)
(* The table is keyed by the content hash.  The SQLite pool has one        *)
(* connection, so a statement waits while persist_ingress holds its        *)
(* transaction; the cleanup's file removals and persist_ingress's file     *)
(* writes wait for nobody.                                                 *)
(***************************************************************************)
EXTENDS Content

VARIABLES
  rows,      \* raw_objects: a Row, or NoRow
  blobs,     \* objects whose file exists
  storing,   \* the row persist_ingress is about to commit, or Nothing
  captures,  \* how many contents were captured
  sweep,     \* the cleanup loop: rows found expired and files still to remove
  raced      \* history: objects last captured while cleanup held their hash

rawVars == <<rows, blobs, storing, captures, sweep, raced>>

NoPin == 0
NoRow == [conv |-> NoConv]
Nothing == [obj |-> NoConv]
Resting == [pc |-> "resting", expired |-> {}, files |-> {}]

Row == [conv : Conversations, part : Parts, stamp : 1..MaxStamp,
        expired : BOOLEAN, pin : Requests \union {NoPin}]
Present == {o \in Objects : rows[o] # NoRow}
Expired == {o \in Present : rows[o].expired}
Unpinned == {o \in Present : rows[o].pin = NoPin}

(* No transaction is open: the connection is free. *)
Free == storing = Nothing

RawInit ==
  /\ rows = [o \in Objects |-> NoRow]
  /\ blobs = {}
  /\ storing = Nothing
  /\ captures = 0
  /\ sweep = Resting
  /\ raced = {}

-----------------------------------------------------------------------------
(* Capture. *)

(* persist_ingress opens its transaction and BlobStore::store writes the   *)
(* file, unless one of that name exists: a file that cleanup has selected  *)
(* and not removed yet is left for it to remove.                           *)
StoreBlob(c, p, o) ==
  /\ Free
  /\ captures < MaxStamp
  /\ blobs' = blobs \union {o}
  /\ storing' = [obj |-> o, row |-> [conv |-> c, part |-> p, stamp |-> captures + 1,
                                     expired |-> FALSE, pin |-> NoPin]]
  /\ captures' = captures + 1
  /\ raced' = IF o \in sweep.files THEN raced \union {o} ELSE raced \ {o}
  /\ UNCHANGED <<rows, sweep>>

(* store_raw_object_tx and the commit: whatever row the hash had, pinned   *)
(* or of another task, is replaced.  The new row expires after the `now`   *)
(* of a cleanup under way, whose DELETE does not see it.                   *)
CommitRow ==
  /\ ~Free
  /\ rows' = [rows EXCEPT ![storing.obj] = storing.row]
  /\ sweep' = [sweep EXCEPT !.expired = @ \ {storing.obj}]
  /\ storing' = Nothing
  /\ UNCHANGED <<blobs, captures, raced>>

(* The transaction fails after the file was written: the outbox is full,   *)
(* the records do not form a valid batch, or the process dies.             *)
RollBack ==
  /\ ~Free
  /\ storing' = Nothing
  /\ UNCHANGED <<rows, blobs, captures, sweep, raced>>

(* 72 hours pass. *)
ContentExpires(o) ==
  /\ o \in Present \ Expired
  /\ rows' = [rows EXCEPT ![o].expired = TRUE]
  /\ UNCHANGED <<blobs, storing, captures, sweep, raced>>

-----------------------------------------------------------------------------
(* Pins. *)

(* prepare_upload pins every row of the task, whoever pinned it before. *)
Pin(r, c) ==
  /\ Free
  /\ rows' = [o \in Objects |->
                IF rows[o].conv = c THEN [rows[o] EXCEPT !.pin = r] ELSE rows[o]]
  /\ UNCHANGED <<blobs, storing, captures, sweep, raced>>

(* complete_command releases the pins that still carry its id. *)
Unpin(r) ==
  /\ Free
  /\ rows' = [o \in Objects |->
                IF o \in Present /\ rows[o].pin = r
                THEN [rows[o] EXCEPT !.pin = NoPin] ELSE rows[o]]
  /\ UNCHANGED <<blobs, storing, captures, sweep, raced>>

-----------------------------------------------------------------------------
(* Cleanup. *)

(* Fault: the SELECT forgets expires_at. *)
CleanupSelectUnpinned ==
  /\ Free
  /\ sweep = Resting
  /\ sweep' = [pc |-> "removing", expired |-> Expired, files |-> Unpinned]
  /\ UNCHANGED <<rows, blobs, storing, captures, raced>>

(* The SELECT. *)
CleanupSelect ==
  /\ Free
  /\ sweep = Resting
  /\ sweep' = [pc |-> "removing", expired |-> Expired, files |-> Expired \intersect Unpinned]
  /\ UNCHANGED <<rows, blobs, storing, captures, raced>>

(* One turn of the loop over the selected hashes: BlobStore::remove. *)
CleanupRemove(o) ==
  /\ o \in sweep.files
  /\ blobs' = blobs \ {o}
  /\ sweep' = [sweep EXCEPT !.files = @ \ {o}]
  /\ UNCHANGED <<rows, storing, captures, raced>>

(* Fault: the DELETE forgets the pins. *)
CleanupDeletePinned ==
  /\ Free
  /\ sweep.pc = "removing"
  /\ sweep.files = {}
  /\ rows' = [o \in Objects |-> IF o \in sweep.expired \intersect Expired THEN NoRow ELSE rows[o]]
  /\ sweep' = Resting
  /\ UNCHANGED <<blobs, storing, captures, raced>>

(* The DELETE repeats the condition of the SELECT, at the same `now`. *)
CleanupDelete ==
  /\ Free
  /\ sweep.pc = "removing"
  /\ sweep.files = {}
  /\ rows' = [o \in Objects |->
                IF o \in sweep.expired \intersect Expired \intersect Unpinned
                THEN NoRow ELSE rows[o]]
  /\ sweep' = Resting
  /\ UNCHANGED <<blobs, storing, captures, raced>>

(* A restart ends the cleanup's turn and rolls an open transaction back. *)
RawRestart ==
  /\ storing' = Nothing
  /\ sweep' = Resting
  /\ UNCHANGED <<rows, blobs, captures, raced>>

RawNext ==
  \/ \E c \in Conversations, p \in Parts, o \in Objects : StoreBlob(c, p, o)
  \/ CommitRow
  \/ RollBack
  \/ \E o \in Objects : ContentExpires(o) \/ CleanupRemove(o)
  \/ \E r \in Requests :
       \/ \E c \in Conversations : Pin(r, c)
       \/ Unpin(r)
  \/ CleanupSelect
  \/ CleanupDelete
  \/ RawRestart

RawSpec == RawInit /\ [][RawNext]_rawVars

-----------------------------------------------------------------------------
(* The raw_objects rows, the blob files and what cleanup has selected.     *)
RawTypeOK ==
  /\ rows \in [Objects -> Row \union {NoRow}]
  /\ blobs \subseteq Objects
  /\ storing \in [obj : Objects, row : Row] \union {Nothing}
  /\ captures \in 0..MaxStamp
  /\ sweep \in [pc : {"resting", "removing"}, expired : SUBSET Objects, files : SUBSET Objects]
  /\ raced \subseteq Objects
  /\ sweep.pc = "resting" => sweep = Resting

(* Content that has not expired can be read: its row has a file, whatever  *)
(* crash, roll-back, cleanup or further capture of the same content came   *)
(* between (BlobStore::store writes the file before the row is committed,  *)
(* cleanup removes only what it found expired).  The one exception is a    *)
(* capture between cleanup's SELECT and the removal of that very file:     *)
(* BlobStore::store finds the old file and keeps it, cleanup removes it.   *)
LiveRowHasBlob == \A o \in Present \ Expired : o \in blobs \union raced

(* A cleanup that was under way when a row was pinned does not delete it.  *)
PinnedSurvivesCleanup ==
  [][\A o \in Present : rows[o].pin # NoPin => rows'[o] # NoRow]_rawVars
=============================================================================
