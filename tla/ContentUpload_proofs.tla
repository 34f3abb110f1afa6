------------------------ MODULE ContentUpload_proofs ------------------------
(***************************************************************************)
(* What the client's content store and its command loop guarantee          *)
(* together with the server, for any number of requests, conversations,    *)
(* parts, objects and chunks.                                              *)
(***************************************************************************)
EXTENDS ContentUpload, ContentServer_proofs, FiniteSetTheorems

(* The raw store alone. *)
NoStaleFile ==
  /\ sweep.files \subseteq Expired \union raced
  /\ ~Free => /\ storing.obj \in blobs \union raced
              /\ storing.obj \in sweep.files => storing.obj \in raced
  /\ LiveRowHasBlob

(* A row is not the absence of one. *)
LEMMA RowIsRow ==
  ASSUME NEW row \in Row
  PROVE  /\ row # NoRow /\ row.conv \in Conversations /\ row.pin \in Requests \union {NoPin}
         /\ row.expired \in BOOLEAN
BY ContentAssumption DEF Row, NoRow

LEMMA PresentRow ==
  ASSUME RawTypeOK, NEW o \in Objects
  PROVE  (o \in Present => rows[o] \in Row) /\ (o \notin Present => rows[o] = NoRow)
BY DEF RawTypeOK, Present

LEMMA NoRowIsNobodys == NoRow.conv = NoConv /\ NoRow.conv \notin Conversations
BY ContentAssumption DEF NoRow

LEMMA StoringTyped ==
  ASSUME RawTypeOK, ~Free
  PROVE  storing.obj \in Objects /\ storing.row \in Row
BY DEF RawTypeOK, Free

LEMMA RawInitInv == RawInit => RawTypeOK /\ NoStaleFile
<1> SUFFICES ASSUME RawInit
             PROVE  RawTypeOK /\ NoStaleFile
  OBVIOUS
<1>1. RawTypeOK
  BY ContentAssumption DEF RawInit, RawTypeOK, Resting, Nothing
<1>2. Present = {} /\ Free /\ sweep.files = {}
  BY DEF RawInit, Present, Free, Resting
<1> QED BY <1>1, <1>2 DEF NoStaleFile, LiveRowHasBlob

(* Pins keep everything else of a row. *)
LEMMA PinRows ==
  ASSUME RawTypeOK, NEW r \in Requests, NEW c \in Conversations, Pin(r, c)
  PROVE  /\ rows' \in [Objects -> Row \union {NoRow}]
         /\ \A o \in Objects : /\ rows'[o] = NoRow <=> rows[o] = NoRow
                               /\ o \in Present => rows'[o].expired = rows[o].expired
<1>1. ASSUME NEW o \in Objects
      PROVE  /\ rows'[o] \in Row \union {NoRow}
             /\ rows'[o] = NoRow <=> rows[o] = NoRow
             /\ o \in Present => rows'[o].expired = rows[o].expired
  <2>1. rows'[o] = IF rows[o].conv = c THEN [rows[o] EXCEPT !.pin = r] ELSE rows[o]
    BY DEF Pin
  <2>2. CASE o \in Present /\ rows[o].conv = c
    <3>1. rows[o] \in Row /\ rows'[o] = [rows[o] EXCEPT !.pin = r]
      BY <2>1, <2>2, PresentRow
    <3>2. rows'[o] \in Row /\ rows'[o].expired = rows[o].expired
      BY <3>1 DEF Row
    <3> QED BY <3>1, <3>2, RowIsRow
  <2>3. CASE o \in Present /\ rows[o].conv # c
    BY <2>1, <2>3, PresentRow
  <2>4. CASE o \notin Present
    BY <2>1, <2>4, PresentRow, NoRowIsNobodys
  <2> QED BY <2>2, <2>3, <2>4
<1>2. rows' \in [Objects -> Row \union {NoRow}]
  BY <1>1 DEF Pin
<1> QED BY <1>1, <1>2

LEMMA UnpinRows ==
  ASSUME RawTypeOK, NEW r \in Requests, Unpin(r)
  PROVE  /\ rows' \in [Objects -> Row \union {NoRow}]
         /\ \A o \in Objects : /\ rows'[o] = NoRow <=> rows[o] = NoRow
                               /\ o \in Present => rows'[o].expired = rows[o].expired
<1>1. ASSUME NEW o \in Objects
      PROVE  /\ rows'[o] \in Row \union {NoRow}
             /\ rows'[o] = NoRow <=> rows[o] = NoRow
             /\ o \in Present => rows'[o].expired = rows[o].expired
  <2>1. rows'[o] = IF o \in Present /\ rows[o].pin = r THEN [rows[o] EXCEPT !.pin = NoPin]
                   ELSE rows[o]
    BY DEF Unpin
  <2>2. CASE o \in Present /\ rows[o].pin = r
    <3>1. rows[o] \in Row /\ rows'[o] = [rows[o] EXCEPT !.pin = NoPin]
      BY <2>1, <2>2, PresentRow
    <3>2. rows'[o] \in Row /\ rows'[o].expired = rows[o].expired
      BY <3>1 DEF Row
    <3> QED BY <3>1, <3>2, RowIsRow
  <2>3. CASE ~(o \in Present /\ rows[o].pin = r)
    BY <2>1, <2>3, PresentRow
  <2> QED BY <2>2, <2>3
<1>2. rows' \in [Objects -> Row \union {NoRow}]
  BY <1>1 DEF Unpin
<1> QED BY <1>1, <1>2

LEMMA ExpiresRows ==
  ASSUME RawTypeOK, NEW o \in Objects, ContentExpires(o)
  PROVE  /\ rows' \in [Objects -> Row \union {NoRow}]
         /\ rows'[o] # NoRow /\ rows'[o].expired
         /\ \A q \in Objects \ {o} : rows'[q] = rows[q]
<1>1. o \in Present /\ rows' = [rows EXCEPT ![o].expired = TRUE]
  BY DEF ContentExpires
<1>2. rows[o] \in Row
  BY <1>1, PresentRow
<1>3. rows'[o] = [rows[o] EXCEPT !.expired = TRUE]
  BY <1>1 DEF RawTypeOK
<1>4. rows'[o] \in Row /\ rows'[o].expired
  BY <1>2, <1>3 DEF Row
<1> QED BY <1>1, <1>4, RowIsRow DEF RawTypeOK

(* What each step of the raw store leaves of the table's types. *)
LEMMA RawTypeStep == RawTypeOK /\ [RawNext]_rawVars => RawTypeOK'
<1> SUFFICES ASSUME RawTypeOK, [RawNext]_rawVars
             PROVE  RawTypeOK'
  OBVIOUS
<1>1. ASSUME NEW c \in Conversations, NEW p \in Parts, NEW o \in Objects, StoreBlob(c, p, o)
      PROVE  RawTypeOK'
  <2> DEFINE row == [conv |-> c, part |-> p, stamp |-> captures + 1, expired |-> FALSE, pin |-> NoPin]
  <2>1. captures' \in 0..MaxStamp /\ captures + 1 \in 1..MaxStamp
    BY <1>1, ContentAssumption DEF StoreBlob, RawTypeOK
  <2>2. row \in Row
    BY <2>1 DEF Row
  <2> HIDE DEF row
  <2>3. storing' = [obj |-> o, row |-> row]
    BY <1>1 DEF StoreBlob, row
  <2>4. storing' \in [obj : Objects, row : Row]
    BY <2>2, <2>3
  <2>5. raced' \subseteq Objects
    BY <1>1 DEF StoreBlob, RawTypeOK
  <2> QED BY <1>1, <2>1, <2>4, <2>5 DEF StoreBlob, RawTypeOK
<1>2. CASE CommitRow
  <2>1. rows' \in [Objects -> Row \union {NoRow}]
    BY <1>2, StoringTyped DEF CommitRow, RawTypeOK
  <2>2. /\ sweep \in [pc : {"resting", "removing"}, expired : SUBSET Objects, files : SUBSET Objects]
        /\ sweep.pc = "resting" => sweep = Resting
        /\ sweep' = [sweep EXCEPT !.expired = @ \ {storing.obj}]
    BY <1>2 DEF CommitRow, RawTypeOK
  <2>3. /\ sweep' \in [pc : {"resting", "removing"}, expired : SUBSET Objects, files : SUBSET Objects]
        /\ sweep'.pc = "resting" => sweep' = Resting
    BY <2>2 DEF Resting
  <2> QED BY <1>2, <2>1, <2>3 DEF CommitRow, RawTypeOK
<1>3. CASE RollBack
  BY <1>3 DEF RollBack, RawTypeOK
<1>4. ASSUME NEW o \in Objects, ContentExpires(o)
      PROVE  RawTypeOK'
  BY <1>4, ExpiresRows DEF ContentExpires, RawTypeOK
<1>5. ASSUME NEW o \in Objects, CleanupRemove(o)
      PROVE  RawTypeOK'
  <2>1. /\ sweep \in [pc : {"resting", "removing"}, expired : SUBSET Objects, files : SUBSET Objects]
        /\ sweep.pc = "removing"
        /\ sweep' = [sweep EXCEPT !.files = @ \ {o}]
    BY <1>5 DEF CleanupRemove, RawTypeOK, Resting
  <2>2. /\ sweep' \in [pc : {"resting", "removing"}, expired : SUBSET Objects, files : SUBSET Objects]
        /\ sweep'.pc = "removing"
    BY <2>1
  <2> QED BY <1>5, <2>2 DEF CleanupRemove, RawTypeOK
<1>6. ASSUME NEW r \in Requests, NEW c \in Conversations, Pin(r, c)
      PROVE  RawTypeOK'
  BY <1>6, PinRows DEF Pin, RawTypeOK
<1>7. ASSUME NEW r \in Requests, Unpin(r)
      PROVE  RawTypeOK'
  BY <1>7, UnpinRows DEF Unpin, RawTypeOK
<1>8. CASE CleanupSelect
  <2>1. Expired \subseteq Objects
    BY DEF Expired, Present
  <2>2. /\ sweep' \in [pc : {"resting", "removing"}, expired : SUBSET Objects, files : SUBSET Objects]
        /\ sweep'.pc = "removing"
    BY <1>8, <2>1 DEF CleanupSelect
  <2> QED BY <1>8, <2>2 DEF CleanupSelect, RawTypeOK
<1>9. CASE CleanupDelete
  <2>1. rows' \in [Objects -> Row \union {NoRow}]
    BY <1>9 DEF CleanupDelete, RawTypeOK
  <2> QED BY <1>9, <2>1 DEF CleanupDelete, RawTypeOK, Resting
<1>10. CASE RawRestart
  BY <1>10 DEF RawRestart, RawTypeOK, Resting
<1>11. CASE UNCHANGED rawVars
  BY <1>11 DEF rawVars, RawTypeOK
<1> QED BY <1>1, <1>2, <1>3, <1>4, <1>5, <1>6, <1>7, <1>8, <1>9, <1>10, <1>11 DEF RawNext

(* Rows, files and the cleanup's selection stay consistent: a file the     *)
(* cleanup removes is an expired row's, or was captured again meanwhile.   *)
LEMMA NoStaleStep == RawTypeOK /\ NoStaleFile /\ [RawNext]_rawVars => NoStaleFile'
<1> SUFFICES ASSUME RawTypeOK, NoStaleFile, [RawNext]_rawVars
             PROVE  NoStaleFile'
  OBVIOUS
<1>0. /\ sweep.files \subseteq Expired \union raced
      /\ ~Free => /\ storing.obj \in blobs \union raced
                  /\ storing.obj \in sweep.files => storing.obj \in raced
      /\ \A o \in Present \ Expired : o \in blobs \union raced
  BY DEF NoStaleFile, LiveRowHasBlob
<1>t. /\ Present \subseteq Objects /\ Expired \subseteq Present
      /\ sweep \in [pc : {"resting", "removing"}, expired : SUBSET Objects, files : SUBSET Objects]
  BY DEF Present, Expired, RawTypeOK
<1>1. ASSUME NEW c \in Conversations, NEW p \in Parts, NEW o \in Objects, StoreBlob(c, p, o)
      PROVE  NoStaleFile'
  <2>1. /\ rows' = rows /\ sweep' = sweep /\ blobs' = blobs \union {o} /\ storing'.obj = o
        /\ raced' = IF o \in sweep.files THEN raced \union {o} ELSE raced \ {o}
    BY <1>1 DEF StoreBlob
  <2>2. Present' = Present /\ Expired' = Expired
    BY <2>1 DEF Present, Expired
  <2> QED BY <1>0, <2>1, <2>2 DEF NoStaleFile, LiveRowHasBlob
<1>2. CASE CommitRow
  <2>1. /\ ~Free /\ rows' = [rows EXCEPT ![storing.obj] = storing.row] /\ Free'
        /\ blobs' = blobs /\ raced' = raced
    BY <1>2 DEF CommitRow, Free
  <2>2. storing.obj \in Objects /\ storing.row \in Row /\ storing.row # NoRow
    BY <2>1, StoringTyped, RowIsRow
  <2>3. rows'[storing.obj] = storing.row /\ \A o \in Objects \ {storing.obj} : rows'[o] = rows[o]
    BY <2>1, <2>2 DEF RawTypeOK
  <2>4. sweep'.files = sweep.files
    BY <1>2, <1>t DEF CommitRow
  <2>5. Present' = Present \union {storing.obj}
    BY <2>2, <2>3 DEF Present
  <2>6. \A o \in Objects \ {storing.obj} : o \in Expired' <=> o \in Expired
    BY <2>3, <2>5 DEF Expired
  <2>7. storing.obj \in sweep.files => storing.obj \in raced
    BY <1>0, <2>1
  <2> QED BY <1>0, <1>t, <2>1, <2>4, <2>5, <2>6, <2>7 DEF NoStaleFile, LiveRowHasBlob
<1>3. CASE RollBack
  <2>1. Free' /\ rows' = rows /\ blobs' = blobs /\ sweep' = sweep /\ raced' = raced
    BY <1>3 DEF RollBack, Free
  <2> QED BY <1>0, <2>1 DEF NoStaleFile, LiveRowHasBlob, Present, Expired
<1>4. ASSUME NEW o \in Objects, ContentExpires(o)
      PROVE  NoStaleFile'
  <2>1. /\ o \in Present /\ blobs' = blobs /\ storing' = storing /\ sweep' = sweep
        /\ raced' = raced
    BY <1>4 DEF ContentExpires
  <2>2. Present' = Present
    BY <1>4, <2>1, ExpiresRows DEF Present
  <2>3. Expired' = Expired \union {o}
    BY <1>4, <1>t, <2>1, <2>2, ExpiresRows DEF Expired
  <2> QED BY <1>0, <2>1, <2>2, <2>3 DEF NoStaleFile, LiveRowHasBlob, Free
<1>5. ASSUME NEW o \in Objects, CleanupRemove(o)
      PROVE  NoStaleFile'
  <2>1. /\ o \in sweep.files /\ blobs' = blobs \ {o} /\ rows' = rows /\ storing' = storing
        /\ sweep'.files = sweep.files \ {o} /\ raced' = raced
    BY <1>5, <1>t DEF CleanupRemove
  <2>2. Present' = Present /\ Expired' = Expired
    BY <2>1 DEF Present, Expired
  <2>3. o \in Expired \union raced
    BY <1>0, <2>1
  <2> QED BY <1>0, <2>1, <2>2, <2>3 DEF NoStaleFile, LiveRowHasBlob, Free
<1>6. ASSUME rows' \in [Objects -> Row \union {NoRow}],
             \A o \in Objects : /\ rows'[o] = NoRow <=> rows[o] = NoRow
                                /\ o \in Present => rows'[o].expired = rows[o].expired,
             UNCHANGED <<blobs, storing, captures, sweep, raced>>
      PROVE  NoStaleFile'
  <2>1. Present' = Present
    BY <1>6 DEF Present
  <2>2. Expired' = Expired
    BY <1>6, <1>t, <2>1 DEF Expired
  <2> QED BY <1>0, <1>6, <2>1, <2>2 DEF NoStaleFile, LiveRowHasBlob, Free
<1>7. ASSUME NEW r \in Requests, NEW c \in Conversations, Pin(r, c)
      PROVE  NoStaleFile'
  BY <1>6, <1>7, PinRows DEF Pin
<1>8. ASSUME NEW r \in Requests, Unpin(r)
      PROVE  NoStaleFile'
  BY <1>6, <1>8, UnpinRows DEF Unpin
<1>9. CASE CleanupSelect
  <2>1. /\ rows' = rows /\ blobs' = blobs /\ storing' = storing
        /\ sweep'.files = Expired \intersect Unpinned /\ raced' = raced /\ Free
    BY <1>9 DEF CleanupSelect
  <2>2. Present' = Present /\ Expired' = Expired
    BY <2>1 DEF Present, Expired
  <2> QED BY <1>0, <2>1, <2>2 DEF NoStaleFile, LiveRowHasBlob, Free
<1>10. CASE CleanupDelete
  <2>1. /\ Free /\ Free' /\ blobs' = blobs /\ sweep'.files = {} /\ raced' = raced
        /\ \A o \in Objects : rows'[o] = NoRow \/ rows'[o] = rows[o]
    BY <1>10 DEF CleanupDelete, Free, Resting
  <2>2. \A o \in Present' : rows'[o] = rows[o] /\ o \in Present
    BY <2>1 DEF Present
  <2>3. \A o \in Present' \ Expired' : o \in Present \ Expired
    BY <2>2 DEF Expired
  <2> QED BY <1>0, <2>1, <2>3 DEF NoStaleFile, LiveRowHasBlob
<1>11. CASE RawRestart
  <2>1. Free' /\ rows' = rows /\ blobs' = blobs /\ sweep'.files = {} /\ raced' = raced
    BY <1>11 DEF RawRestart, Free, Resting
  <2> QED BY <1>0, <2>1 DEF NoStaleFile, LiveRowHasBlob, Present, Expired
<1>12. CASE UNCHANGED rawVars
  BY <1>0, <1>12 DEF rawVars, NoStaleFile, LiveRowHasBlob, Present, Expired, Free
<1> QED BY <1>1, <1>2, <1>3, <1>4, <1>5, <1>7, <1>8, <1>9, <1>10, <1>11, <1>12 DEF RawNext

(* Only the cleanup's DELETE takes a row away, and it looks at the pins of *)
(* that moment.                                                            *)
LEMMA PinnedStays ==
  ASSUME RawTypeOK, [RawNext]_rawVars, NEW o \in Present, rows[o].pin # NoPin
  PROVE  rows'[o] # NoRow
<1>0. o \in Objects /\ rows[o] # NoRow
  BY DEF Present
<1>1. ASSUME NEW c \in Conversations, NEW p \in Parts, NEW q \in Objects, StoreBlob(c, p, q)
      PROVE  rows'[o] # NoRow
  BY <1>0, <1>1 DEF StoreBlob
<1>2. CASE CommitRow
  <2>1. ~Free
    BY <1>2 DEF CommitRow
  <2>2. storing.row # NoRow /\ storing.obj \in Objects
    BY <2>1, StoringTyped, RowIsRow
  <2> QED BY <1>0, <1>2, <2>2 DEF CommitRow, RawTypeOK
<1>3. CASE RollBack
  BY <1>0, <1>3 DEF RollBack
<1>4. ASSUME NEW q \in Objects, ContentExpires(q)
      PROVE  rows'[o] # NoRow
  BY <1>0, <1>4, ExpiresRows
<1>5. ASSUME NEW q \in Objects, CleanupRemove(q)
      PROVE  rows'[o] # NoRow
  BY <1>0, <1>5 DEF CleanupRemove
<1>6. ASSUME NEW r \in Requests, NEW c \in Conversations, Pin(r, c)
      PROVE  rows'[o] # NoRow
  BY <1>0, <1>6, PinRows
<1>7. ASSUME NEW r \in Requests, Unpin(r)
      PROVE  rows'[o] # NoRow
  BY <1>0, <1>7, UnpinRows
<1>8. CASE CleanupSelect
  BY <1>0, <1>8 DEF CleanupSelect
<1>9. CASE CleanupDelete
  <2>1. o \notin Unpinned
    BY DEF Unpinned
  <2> QED BY <1>0, <1>9, <2>1 DEF CleanupDelete
<1>10. CASE RawRestart
  BY <1>0, <1>10 DEF RawRestart
<1>11. CASE UNCHANGED rawVars
  BY <1>0, <1>11 DEF rawVars
<1> QED BY <1>1, <1>2, <1>3, <1>4, <1>5, <1>6, <1>7, <1>8, <1>9, <1>10, <1>11 DEF RawNext

-----------------------------------------------------------------------------
(* The command loop in front of the server. *)

Said == {"stored", "content_expired"}
LoopState ==
  [pc : {"poll", "save", "manifests", "load", "chunk", "fail", "result", "complete"},
   req : Requests \union {0}, got : SUBSET Requests, work : SUBSET Manifest,
   cur : {<<>>} \union (Objects \X Nat), say : {"none"} \union Said]

ClientTypeOK ==
  /\ cmds \in [Requests -> {"none", "pending", "running", "failed", "completed"}]
  /\ ready \subseteq {r \in Requests : cmds[r] # "none"}
  /\ loop \in LoopState

(* Commands exist only for created requests; what the client has forgotten *)
(* has an outcome.                                                         *)
CommandsInv ==
  /\ \A r \in Requests : command[r] # "none" => r \in Created
  /\ \A r \in Requests : cmds[r] # "none" => r \in Created
  /\ CompletedOnBothSides

(* What may still reach the server is a post the loop could send. *)
LateInv ==
  /\ reopened \subseteq Created
  /\ late \subseteq Post
  /\ \A post \in late : /\ post.type # "poll" => post.req \in Created
                        /\ post.type = "chunk" => post.piece \in AllPieces(post.obj)

(* The command the loop works on is neither unknown nor completed.  That   *)
(* is why only a late post reopens a request the client has forgotten.     *)
LoopInv ==
  /\ loop.got \subseteq Created
  /\ loop.pc \notin {"poll", "save"} =>
       loop.req \in Created /\ cmds[loop.req] \notin {"none", "completed"}
  /\ loop.pc = "chunk" => loop.cur \in Objects \X Nat /\ loop.cur[2] \in AllPieces(loop.cur[1])
  /\ loop.pc = "result" => loop.say \in Said
  /\ loop.pc = "complete" =>
       /\ loop.say \in Said /\ command[loop.req] = "completed"
       /\ status[loop.req] = loop.say \/ loop.req \in reopened

UploadInv ==
  /\ ServerInv
  /\ RawTypeOK
  /\ ClientTypeOK
  /\ CommandsInv
  /\ LoopInv
  /\ LateInv

(* What a step of the server leaves alone; q is the request it is about,   *)
(* 0 when it is about none that the client knows.                          *)
ServerKeeps(q) ==
  /\ Created \subseteq Created' /\ overdue \subseteq overdue'
  /\ \A r \in Created : convOf'[r] = convOf[r] /\ wanted'[r] = wanted[r]
  /\ \A r \in Created \ {q} : status'[r] = status[r]
  /\ \A r \in Created : command[r] = "completed" => command'[r] = "completed"
  /\ \A r \in Requests : command'[r] # "none" => r \in Created'

(* Rows of the content tables are only added. *)
ContentGrows == manifests \subseteq manifests' /\ chunks \subseteq chunks' /\ links \subseteq links'

LEMMA SameServerKeeps ==
  ASSUME UNCHANGED serverVars, NEW q, \A r \in Requests : command[r] # "none" => r \in Created
  PROVE  ServerKeeps(q) /\ ContentGrows
BY DEF serverVars, ServerKeeps, ContentGrows, Created

LEMMA SameServerInv ==
  ASSUME ServerInv, UNCHANGED serverVars
  PROVE  ServerInv'
BY ServerNextInv

LEMMA NextCommandKeeps ==
  ASSUME ServerInv, CommandsInv, NextCommand
  PROVE  ServerKeeps(0) /\ ContentGrows /\ Polled \subseteq Created
<1>1. Polled \subseteq Created /\ \A r \in Polled : r \in Requests /\ command[r] = "pending"
  BY DEF Polled, PendingCommands, CommandsInv
<1>2. \A r \in Requests : command'[r] = IF r \in Polled THEN "dispatched" ELSE command[r]
  BY DEF NextCommand
<1>3. UNCHANGED <<convOf, wanted, status, overdue>> /\ UNCHANGED contentVars
  BY DEF NextCommand
<1>4. Created' = Created /\ Created \subseteq Requests
  BY <1>3 DEF Created
<1>5. \A r \in Requests : command[r] = "completed" => command'[r] = "completed"
  BY <1>1, <1>2
<1>6. \A r \in Requests : command'[r] # "none" => r \in Created'
  BY <1>1, <1>2, <1>4 DEF CommandsInv
<1> QED BY <1>1, <1>3, <1>4, <1>5, <1>6 DEF ServerKeeps, ContentGrows, contentVars

LEMMA CreateKeeps ==
  ASSUME ServerInv, CommandsInv, NEW q \in Requests, NEW c \in Conversations,
         NEW parts \in SUBSET Parts, CreateContentRequest(q, c, parts)
  PROVE  ServerKeeps(0)
<1>1. /\ q \notin Created /\ convOf' = [convOf EXCEPT ![q] = c]
      /\ wanted' = [wanted EXCEPT ![q] = parts] /\ status' = [status EXCEPT ![q] = "pending"]
      /\ command' = [command EXCEPT ![q] = "pending"] /\ overdue' = overdue
  BY DEF CreateContentRequest
<1>2. /\ convOf \in [Requests -> Conversations \union {NoConv}]
      /\ wanted \in [Requests -> SUBSET Parts]
      /\ status \in [Requests -> {"none", "pending", "partial_upload"} \union Outcomes]
      /\ command \in [Requests -> {"none", "pending", "dispatched", "completed"}]
  BY DEF ServerInv, ServerTypeOK
<1>3. Created' = Created \union {q} /\ Created \subseteq Requests
  BY <1>1, <1>2, ContentAssumption DEF Created
<1>4. \A r \in Created : r # q /\ r \in Requests
  BY <1>1, <1>3
<1> QED BY <1>1, <1>2, <1>3, <1>4 DEF ServerKeeps, CommandsInv

LEMMA ExpiresKeeps ==
  ASSUME ServerInv, CommandsInv, NEW q \in Requests, RequestExpires(q)
  PROVE  ServerKeeps(0) /\ ContentGrows
BY DEF RequestExpires, ServerKeeps, ContentGrows, contentVars, CommandsInv, Created

LEMMA CompleteKeeps ==
  ASSUME ServerInv, CommandsInv, NEW q \in Created, NEW outcome,
         CompleteRequestAndCommand(q, outcome), UNCHANGED <<convOf, wanted, overdue>>
  PROVE  ServerKeeps(q) /\ status'[q] = outcome /\ command'[q] = "completed"
<1>1. Created' = Created /\ Created \subseteq Requests
  BY DEF Created
<1>2. /\ status \in [Requests -> {"none", "pending", "partial_upload"} \union Outcomes]
      /\ command \in [Requests -> {"none", "pending", "dispatched", "completed"}]
  BY DEF ServerInv, ServerTypeOK
<1>3. /\ status' = [status EXCEPT ![q] = outcome] /\ command' = [command EXCEPT ![q] = "completed"]
  BY DEF CompleteRequestAndCommand
<1> QED BY <1>1, <1>2, <1>3 DEF ServerKeeps, CommandsInv

LEMMA ResultKeeps ==
  ASSUME ServerInv, CommandsInv, NEW q \in Requests, NEW outcome, UploadResult(q, outcome)
  PROVE  /\ ServerKeeps(q) /\ ContentGrows /\ overdue' = overdue
         /\ status'[q] = outcome /\ command'[q] = "completed"
<1>1. q \in Created /\ UNCHANGED contentVars /\ UNCHANGED <<convOf, wanted, overdue>>
  BY DEF UploadResult
<1> QED BY <1>1, CompleteKeeps DEF UploadResult, ContentGrows, contentVars

LEMMA ManifestsKeep ==
  ASSUME ServerInv, CommandsInv, NEW q \in Requests, NEW ms \in SUBSET Manifest,
         UploadManifests(q, ms)
  PROVE  /\ ServerKeeps(q) /\ ContentGrows /\ overdue' = overdue
         /\ q \notin overdue /\ ManifestsAccepted(q, ms) => ms \subseteq manifests'
<1>1. q \in Created
  BY DEF UploadManifests
<1>2. CASE ExpireOnUpload(q)
  BY <1>1, <1>2, CompleteKeeps DEF ExpireOnUpload, ContentGrows, contentVars
<1>3. CASE ~ExpireOnUpload(q)
  <2>1. /\ manifests' = IF ManifestsAccepted(q, ms) THEN manifests \union ms ELSE manifests
        /\ UNCHANGED <<convOf, wanted, status, command, overdue, listed, older>>
        /\ UNCHANGED <<chunks, links, objects>>
    BY <1>3 DEF UploadManifests
  <2> QED BY <2>1 DEF ServerKeeps, ContentGrows, CommandsInv, Created
<1> QED BY <1>2, <1>3

LEMMA ChunkKeeps ==
  ASSUME ServerInv, CommandsInv, NEW q \in Requests, NEW o \in Objects, NEW i \in AllPieces(o),
         UploadChunk(q, o, i)
  PROVE  /\ ServerKeeps(q) /\ ContentGrows /\ overdue' = overdue
         /\ q \notin overdue /\ ChunkAccepted(q, o) =>
              /\ <<q, o, i>> \in chunks'
              /\ IsObjectComplete(q, o, chunks') => <<q, o>> \in links'
<1>1. q \in Created
  BY DEF UploadChunk
<1>2. CASE ExpireOnUpload(q)
  BY <1>1, <1>2, CompleteKeeps DEF ExpireOnUpload, ContentGrows, contentVars
<1>3. CASE UNCHANGED serverVars /\ ~ChunkAccepted(q, o)
  BY <1>3, SameServerKeeps DEF CommandsInv, serverVars
<1>4. CASE /\ q \notin overdue
           /\ chunks' = chunks \union {<<q, o, i>>}
           /\ UNCHANGED <<convOf, wanted, overdue, manifests>>
           /\ \/ IsObjectComplete(q, o, chunks') /\ StoreObject(q, o)
              \/ /\ ~IsObjectComplete(q, o, chunks')
                 /\ UNCHANGED <<status, command, listed, older, links, objects>>
  <2>1. CASE IsObjectComplete(q, o, chunks') /\ StoreObject(q, o)
    <3>1. links' = links \union {<<q, o>>}
      BY <2>1 DEF StoreObject
    <3>2. ServerKeeps(q)
      <4>1. CASE AllLinked(q)
        BY <1>1, <1>4, <2>1, <4>1, CompleteKeeps DEF StoreObject
      <4>2. CASE ~AllLinked(q)
        <5>1. /\ status' = [status EXCEPT ![q] = "partial_upload"] /\ command' = command
              /\ UNCHANGED <<convOf, wanted, overdue>>
          BY <1>4, <2>1, <4>2 DEF StoreObject
        <5>2. status \in [Requests -> {"none", "pending", "partial_upload"} \union Outcomes]
          BY DEF ServerInv, ServerTypeOK
        <5> QED BY <5>1, <5>2 DEF ServerKeeps, CommandsInv, Created
      <4> QED BY <4>1, <4>2
    <3> QED BY <1>4, <3>1, <3>2 DEF ContentGrows
  <2>2. CASE /\ ~IsObjectComplete(q, o, chunks')
             /\ UNCHANGED <<status, command, listed, older, links, objects>>
    BY <1>4, <2>2 DEF ServerKeeps, ContentGrows, CommandsInv, Created
  <2> QED BY <1>4, <2>1, <2>2
<1> QED BY <1>2, <1>3, <1>4 DEF UploadChunk

-----------------------------------------------------------------------------
LEMMA UploadInit == Init => UploadInv
<1> SUFFICES ASSUME Init
             PROVE  UploadInv
  OBVIOUS
<1>1. ServerInv
  BY ServerInitInv DEF Init
<1>2. RawTypeOK
  BY RawInitInv DEF Init
<1>3. ClientTypeOK
  BY DEF Init, ClientTypeOK, LoopState, AtPoll
<1>4. CommandsInv
  BY DEF Init, ServerInit, CommandsInv, CompletedOnBothSides
<1>5. LoopInv
  BY DEF Init, LoopInv, AtPoll
<1>6. LateInv
  BY DEF Init, LateInv
<1> QED BY <1>1, <1>2, <1>3, <1>4, <1>5, <1>6 DEF UploadInv

(* Every step of the composition is one of the raw store, or leaves it     *)
(* alone.                                                                  *)
LEMMA StepIsRawStep ==
  ASSUME UploadInv, [Next]_vars
  PROVE  [RawNext]_rawVars
<1>1. CASE Raw
  BY <1>1 DEF Raw, RawNext
<1>2. ASSUME NEW r \in Requests, PrepareReady(r)
      PROVE  RawNext
  <2>1. r \in ready /\ Pin(r, convOf[r])
    BY <1>2 DEF PrepareReady, IsNextDue, DueCommands
  <2>2. convOf[r] \in Conversations
    BY <2>1 DEF UploadInv, ClientTypeOK, CommandsInv, Created, ServerInv, ServerTypeOK
  <2> QED BY <2>1, <2>2 DEF RawNext
<1>3. ASSUME NEW r \in Requests, CompleteCommand(r)
      PROVE  RawNext
  BY <1>3 DEF CompleteCommand, RawNext
<1>4. CASE ClientRestart
  BY <1>4 DEF ClientRestart, RawNext
<1>5. CASE UNCHANGED rawVars
  BY <1>5
<1>6. CASE PollAnswered \/ PollLost \/ NothingDue \/ (\E m \in Manifest : LoadChunks(m))
             \/ \E post \in late : LateHandled(post)
  <2>1. UNCHANGED rawVars
    BY <1>6 DEF PollAnswered, PollLost, NothingDue, LoadChunks, LateHandled
  <2> QED BY <2>1
<1>7. ASSUME NEW r \in Requests,
             \/ Admin(r) \/ SaveCommand(r) \/ PrepareExpired(r)
             \/ ManifestsAnswered(r) \/ ManifestsLost(r) \/ ChunkAnswered(r) \/ ChunkLost(r)
             \/ ResultAnswered(r) \/ ResultLost(r) \/ FailCommand(r) \/ BackoffElapsed(r)
      PROVE  UNCHANGED rawVars
  BY <1>7 DEF Admin, SaveCommand, PrepareExpired, ManifestsAnswered, ManifestsLost, ChunkAnswered,
              ChunkLost, ResultAnswered, ResultLost, FailCommand, BackoffElapsed
<1>8. CASE UNCHANGED vars
  BY <1>8 DEF vars
<1> QED BY <1>1, <1>2, <1>3, <1>4, <1>6, <1>7, <1>8 DEF Next

(* What the server does with a post. *)
LEMMA LostServer ==
  ASSUME NEW post, Lost(post)
  PROVE  (Handled(post) \/ UNCHANGED serverVars) /\ reopened' = reopened
BY DEF Lost, netVars

LEMMA ManifestsHandled ==
  ASSUME NEW r, NEW ms
  PROVE  Handled([type |-> "manifests", req |-> r, work |-> ms]) <=> UploadManifests(r, ms)
BY DEF Handled

LEMMA ChunkHandled ==
  ASSUME NEW r, NEW o, NEW i
  PROVE  Handled([type |-> "chunk", req |-> r, obj |-> o, piece |-> i]) <=> UploadChunk(r, o, i)
BY DEF Handled

LEMMA ResultHandled ==
  ASSUME NEW r, NEW outcome
  PROVE  Handled([type |-> "result", req |-> r, say |-> outcome]) <=> UploadResult(r, outcome)
BY DEF Handled

(* A step of the server about no completed command, or one noted in the    *)
(* history, keeps what the client relies on.                               *)
LEMMA KeepsCommands ==
  ASSUME UploadInv, NEW q, ServerKeeps(q), cmds' = cmds, reopened \subseteq reopened',
         q \in Requests => cmds[q] # "completed" \/ q \in reopened'
  PROVE  CommandsInv'
<1>1. \A r \in Requests : cmds'[r] # "none" => r \in Created'
  BY DEF UploadInv, CommandsInv, ServerKeeps
<1>2. CompletedOnBothSides'
  <2> SUFFICES ASSUME NEW r \in Requests, cmds[r] = "completed"
               PROVE  command'[r] = "completed" /\ (status'[r] \in Said \/ r \in reopened')
    BY DEF CompletedOnBothSides, Said
  <2>1. /\ r \in Created /\ command[r] = "completed"
        /\ status[r] \in Said \/ r \in reopened
    BY DEF UploadInv, CommandsInv, CompletedOnBothSides, Said
  <2>2. r = q => r \in reopened'
    OBVIOUS
  <2> QED BY <2>1, <2>2 DEF ServerKeeps
<1> QED BY <1>1, <1>2 DEF CommandsInv, ServerKeeps

(* While the server works for others the loop's knowledge stays true. *)
LEMMA KeepsLoop ==
  ASSUME UploadInv, NEW q, ServerKeeps(q), cmds' = cmds, loop' = loop,
         reopened \subseteq reopened',
         q \in Requests /\ loop.pc = "complete" /\ loop.req = q => q \in reopened'
  PROVE  LoopInv'
<1>1. loop.pc \notin {"poll", "save"} => loop.req \in Created /\ loop.req \in Requests
  BY DEF UploadInv, LoopInv, Created
<1>2. Created \subseteq Created'
  BY DEF ServerKeeps
<1>3. loop.pc = "complete" =>
        command'[loop.req] = "completed" /\ (status'[loop.req] = loop.say \/ loop.req \in reopened')
  BY <1>1 DEF UploadInv, LoopInv, ServerKeeps
<1> QED BY <1>2, <1>3 DEF UploadInv, LoopInv

LEMMA ClientPartsTyped ==
  ASSUME UploadInv
  PROVE  /\ loop.pc \notin {"poll", "save"} => loop.req \in Created /\ loop.req \in Requests
         /\ loop.work \in SUBSET Manifest
BY DEF UploadInv, LoopInv, Created, ClientTypeOK, LoopState

(* The loop gives up, or starts over. *)
LEMMA LoopGivesUp ==
  ASSUME UploadInv, NEW q \in Created, ServerKeeps(q), cmds' = cmds, ready' = ready,
         reopened' = reopened, loop.pc \notin {"poll", "save"}, loop.req = q,
         loop' = Failing \/ loop' = AtPoll
  PROVE  ClientTypeOK' /\ CommandsInv' /\ LoopInv'
<1>1. /\ loop \in LoopState /\ q \in Requests /\ cmds[q] \notin {"none", "completed"}
      /\ loop.got \subseteq Created
  BY DEF UploadInv, ClientTypeOK, LoopInv, Created
<1>2. CommandsInv'
  BY <1>1, KeepsCommands
<1>3. CASE loop' = Failing
  <2>1. loop' \in LoopState /\ loop'.pc = "fail" /\ loop'.req = q /\ loop'.got = loop.got
    BY <1>1, <1>3 DEF Failing, LoopState
  <2>2. ClientTypeOK'
    BY <2>1 DEF UploadInv, ClientTypeOK
  <2>3. q \in Created' /\ loop.got \subseteq Created'
    BY <1>1 DEF ServerKeeps
  <2>4. LoopInv'
    BY <1>1, <2>1, <2>3 DEF LoopInv
  <2> QED BY <1>2, <2>2, <2>4
<1>4. CASE loop' = AtPoll
  <2>1. ClientTypeOK'
    BY <1>4 DEF UploadInv, ClientTypeOK, AtPoll, LoopState
  <2>2. LoopInv'
    BY <1>4 DEF AtPoll, LoopInv
  <2> QED BY <1>2, <2>1, <2>2
<1> QED BY <1>3, <1>4

(* Steps of the client alone. *)
LEMMA ClientStep ==
  ASSUME UploadInv, UNCHANGED <<serverVars, reopened>>,
         ClientTypeOK', LoopInv',
         \A r \in Requests : cmds'[r] # "none" => r \in Created,
         \A r \in Requests : cmds'[r] = "completed" =>
           \/ cmds[r] = "completed"
           \/ command[r] = "completed" /\ (status[r] \in Said \/ r \in reopened)
  PROVE  ServerInv' /\ ClientTypeOK' /\ CommandsInv' /\ LoopInv'
<1>1. ServerInv'
  BY SameServerInv DEF UploadInv
<1>2. Created' = Created /\ command' = command /\ status' = status
  BY DEF serverVars, Created
<1>3. CommandsInv'
  BY <1>2 DEF UploadInv, CommandsInv, CompletedOnBothSides, Said
<1> QED BY <1>1, <1>3

-----------------------------------------------------------------------------
LEMMA PollStep ==
  ASSUME UploadInv, PollAnswered \/ PollLost
  PROVE  ServerInv' /\ ClientTypeOK' /\ CommandsInv' /\ LoopInv'
<1>1. /\ NextCommand \/ UNCHANGED serverVars
      /\ cmds' = cmds /\ ready' = ready /\ reopened' = reopened
  BY LostServer DEF PollAnswered, PollLost, clientVars, netVars, Handled
<1>2. ServerInv' /\ ServerKeeps(0) /\ Polled \subseteq Created
  <2>1. Polled \subseteq Created
    BY DEF Polled, PendingCommands, UploadInv, CommandsInv
  <2> QED BY <1>1, <2>1, NextCommandInv, NextCommandKeeps, SameServerInv, SameServerKeeps
          DEF UploadInv, CommandsInv
<1>3. 0 \notin Requests
  BY DEF Requests
<1>4. CommandsInv'
  BY <1>1, <1>2, <1>3, KeepsCommands
<1>5. CASE loop' = loop
  <2>1. LoopInv'
    BY <1>1, <1>2, <1>3, <1>5, KeepsLoop
  <2> QED BY <1>1, <1>2, <1>4, <1>5, <2>1 DEF UploadInv, ClientTypeOK
<1>6. CASE loop' = [AtPoll EXCEPT !.pc = "save", !.got = Polled]
  <2>1. Polled \subseteq Requests /\ Polled \subseteq Created'
    BY <1>2 DEF Created, ServerKeeps
  <2>2. loop' \in LoopState /\ loop'.pc = "save" /\ loop'.got = Polled
    BY <1>6, <2>1 DEF AtPoll, LoopState
  <2>3. LoopInv'
    BY <2>1, <2>2 DEF LoopInv
  <2> QED BY <1>1, <1>2, <1>4, <2>2, <2>3 DEF UploadInv, ClientTypeOK
<1> QED BY <1>5, <1>6 DEF PollAnswered, PollLost, clientVars

LEMMA SaveStep ==
  ASSUME UploadInv, NEW r \in Requests, SaveCommand(r)
  PROVE  ServerInv' /\ ClientTypeOK' /\ CommandsInv' /\ LoopInv'
<1>1. /\ loop.pc = "save" /\ r \in loop.got /\ UNCHANGED <<serverVars, reopened>>
      /\ cmds' = [cmds EXCEPT ![r] = IF @ = "none" THEN "pending" ELSE @]
      /\ ready' = IF cmds[r] = "none" THEN ready \union {r} ELSE ready
      /\ loop' = [loop EXCEPT !.got = @ \ {r}]
  BY DEF SaveCommand, netVars
<1>2. loop \in LoopState /\ loop.got \subseteq Created
      /\ cmds \in [Requests -> {"none", "pending", "running", "failed", "completed"}]
      /\ ready \subseteq {q \in Requests : cmds[q] # "none"}
  BY DEF UploadInv, ClientTypeOK, LoopInv
<1>3. cmds' \in [Requests -> {"none", "pending", "running", "failed", "completed"}]
  BY <1>1, <1>2
<1>4. /\ cmds'[r] # "none" /\ \A q \in Requests \ {r} : cmds'[q] = cmds[q]
      /\ cmds'[r] = "completed" => cmds[r] = "completed"
  BY <1>1, <1>2
<1>5. loop' \in LoopState /\ loop'.pc = "save" /\ loop'.got \subseteq Created
  BY <1>1, <1>2 DEF LoopState
<1>6. Created' = Created
  BY <1>1 DEF serverVars, Created
<1>7. ClientTypeOK'
  BY <1>1, <1>2, <1>3, <1>4, <1>5 DEF ClientTypeOK
<1>8. LoopInv'
  BY <1>5, <1>6 DEF LoopInv
<1>9. \A q \in Requests : cmds'[q] # "none" => q \in Created
  BY <1>1, <1>2, <1>4 DEF UploadInv, CommandsInv
<1> QED BY <1>1, <1>4, <1>7, <1>8, <1>9, ClientStep

LEMMA NothingDueStep ==
  ASSUME UploadInv, NothingDue \/ ClientRestart
  PROVE  ServerInv' /\ ClientTypeOK' /\ CommandsInv' /\ LoopInv'
<1>1. /\ UNCHANGED <<serverVars, reopened>> /\ cmds' = cmds /\ ready' = ready
      /\ loop' = AtPoll
  BY DEF NothingDue, ClientRestart, netVars
<1>2. ClientTypeOK'
  BY <1>1 DEF UploadInv, ClientTypeOK, LoopState, AtPoll
<1>3. LoopInv'
  BY <1>1 DEF LoopInv, AtPoll
<1> QED BY <1>1, <1>2, <1>3, ClientStep DEF UploadInv, CommandsInv

LEMMA PrepareStep ==
  ASSUME UploadInv, NEW r \in Requests, PrepareExpired(r) \/ PrepareReady(r)
  PROVE  ServerInv' /\ ClientTypeOK' /\ CommandsInv' /\ LoopInv'
<1>1. /\ r \in ready /\ cmds[r] \in {"pending", "failed", "running"}
      /\ UNCHANGED <<serverVars, reopened>> /\ ready' = ready
  BY DEF PrepareExpired, PrepareReady, IsNextDue, DueCommands, netVars
<1>2. /\ cmds \in [Requests -> {"none", "pending", "running", "failed", "completed"}]
      /\ ready \subseteq {q \in Requests : cmds[q] # "none"}
      /\ r \in Created
  BY <1>1 DEF UploadInv, ClientTypeOK, CommandsInv
<1>3. Created' = Created
  BY <1>1 DEF serverVars, Created
<1>4. CASE PrepareExpired(r)
  <2>1. /\ cmds' = cmds
        /\ loop' = [AtPoll EXCEPT !.pc = "result", !.req = r, !.say = "content_expired"]
    BY <1>4 DEF PrepareExpired
  <2>2. /\ loop' \in LoopState /\ loop'.pc = "result" /\ loop'.req = r /\ loop'.got = {}
        /\ loop'.say = "content_expired"
    BY <2>1 DEF AtPoll, LoopState, Said
  <2>3. ClientTypeOK'
    BY <1>1, <1>2, <2>1, <2>2 DEF ClientTypeOK
  <2>4. LoopInv'
    BY <1>1, <1>2, <1>3, <2>1, <2>2 DEF LoopInv, Said
  <2> QED BY <1>1, <2>1, <2>3, <2>4, ClientStep DEF UploadInv, CommandsInv
<1>5. CASE PrepareReady(r)
  <2>1. /\ cmds' = [cmds EXCEPT ![r] = "running"]
        /\ loop' = [AtPoll EXCEPT !.pc = "manifests", !.req = r, !.work = Work(r)]
    BY <1>5 DEF PrepareReady
  <2>2. Work(r) \subseteq Manifest
    BY DEF Work
  <2>3. loop' \in LoopState /\ loop'.pc = "manifests" /\ loop'.req = r /\ loop'.got = {}
    BY <2>1, <2>2 DEF AtPoll, LoopState
  <2>4. cmds'[r] = "running" /\ \A q \in Requests \ {r} : cmds'[q] = cmds[q]
    BY <1>2, <2>1
  <2>5. ClientTypeOK'
    BY <1>1, <1>2, <2>1, <2>3, <2>4 DEF ClientTypeOK
  <2>6. LoopInv'
    BY <1>2, <1>3, <2>3, <2>4 DEF LoopInv
  <2>7. /\ \A q \in Requests : cmds'[q] # "none" => q \in Created
        /\ \A q \in Requests : cmds'[q] = "completed" => cmds[q] = "completed"
    BY <1>2, <2>4 DEF UploadInv, CommandsInv
  <2> QED BY <1>1, <2>5, <2>6, <2>7, ClientStep
<1> QED BY <1>4, <1>5

LEMMA ManifestsStep ==
  ASSUME UploadInv, NEW r \in Requests, ManifestsAnswered(r) \/ ManifestsLost(r)
  PROVE  ServerInv' /\ ClientTypeOK' /\ CommandsInv' /\ LoopInv'
<1>1. /\ loop.pc = "manifests" /\ loop.req = r /\ cmds' = cmds /\ ready' = ready
      /\ UploadManifests(r, loop.work) \/ UNCHANGED serverVars
      /\ reopened' = reopened
      /\ \/ loop' = [loop EXCEPT !.pc = "load"]
         \/ loop' = Failing
  BY LostServer, ManifestsHandled DEF ManifestsAnswered, ManifestsLost, netVars
<1>2. loop.work \in SUBSET Manifest /\ r \in Created
  BY <1>1, ClientPartsTyped
<1>3. ServerInv' /\ ServerKeeps(r)
  BY <1>1, <1>2, UploadManifestsInv, SameServerInv, ManifestsKeep, SameServerKeeps
     DEF UploadInv, CommandsInv
<1>4. CASE loop' = Failing
  BY <1>1, <1>2, <1>3, <1>4, LoopGivesUp
<1>5. CASE loop' = [loop EXCEPT !.pc = "load"]
  <2>1. loop \in LoopState /\ loop.got \subseteq Created /\ cmds[r] \notin {"none", "completed"}
    BY <1>1 DEF UploadInv, ClientTypeOK, LoopInv
  <2>2. loop' \in LoopState /\ loop'.pc = "load" /\ loop'.req = r /\ loop'.got = loop.got
    BY <1>1, <1>5, <2>1 DEF LoopState
  <2>3. ClientTypeOK'
    BY <1>1, <2>2 DEF UploadInv, ClientTypeOK
  <2>4. CommandsInv'
    BY <1>1, <1>3, <2>1, KeepsCommands
  <2>5. r \in Created' /\ loop.got \subseteq Created'
    BY <1>2, <1>3, <2>1 DEF ServerKeeps
  <2>6. LoopInv'
    BY <1>1, <2>1, <2>2, <2>5 DEF LoopInv
  <2> QED BY <1>3, <2>3, <2>4, <2>6
<1> QED BY <1>1, <1>4, <1>5

LEMMA LoadStep ==
  ASSUME UploadInv, NEW m \in Manifest, LoadChunks(m)
  PROVE  ServerInv' /\ ClientTypeOK' /\ CommandsInv' /\ LoopInv'
<1>1. /\ loop.pc = "load" /\ m \in loop.work /\ UNCHANGED <<serverVars, reopened>>
      /\ cmds' = cmds /\ ready' = ready
      /\ \/ loop' = [loop EXCEPT !.pc = "chunk", !.work = @ \ {m}, !.cur = <<m.obj, 1>>]
         \/ loop' = AtPoll
  BY DEF LoadChunks, netVars
<1>2. Created' = Created
  BY <1>1 DEF serverVars, Created
<1>3. CASE loop' = AtPoll
  <2>1. ClientTypeOK'
    BY <1>1, <1>3 DEF UploadInv, ClientTypeOK, LoopState, AtPoll
  <2>2. LoopInv'
    BY <1>3 DEF LoopInv, AtPoll
  <2> QED BY <1>1, <2>1, <2>2, ClientStep DEF UploadInv, CommandsInv
<1>4. CASE loop' = [loop EXCEPT !.pc = "chunk", !.work = @ \ {m}, !.cur = <<m.obj, 1>>]
  <2>1. /\ loop \in LoopState /\ loop.got \subseteq Created
        /\ loop.req \in Created /\ cmds[loop.req] \notin {"none", "completed"}
    BY <1>1 DEF UploadInv, ClientTypeOK, LoopInv
  <2>2. m.obj \in Objects /\ 1 \in AllPieces(m.obj)
    BY ServerAssumption DEF Manifest, AllPieces
  <2>3. /\ loop' \in LoopState /\ loop'.pc = "chunk" /\ loop'.req = loop.req /\ loop'.got = loop.got
        /\ loop'.cur = <<m.obj, 1>>
    BY <1>4, <2>1, <2>2 DEF LoopState
  <2>4. ClientTypeOK'
    BY <1>1, <2>3 DEF UploadInv, ClientTypeOK
  <2>5. loop'.cur \in Objects \X Nat /\ loop'.cur[2] \in AllPieces(loop'.cur[1])
    BY <2>2, <2>3
  <2>6. LoopInv'
    BY <1>1, <1>2, <2>1, <2>3, <2>5 DEF LoopInv
  <2> QED BY <1>1, <2>4, <2>6, ClientStep DEF UploadInv, CommandsInv
<1> QED BY <1>1, <1>3, <1>4

(* Where the loop goes after a chunk: to the next one, to the next object, *)
(* or to the result.                                                       *)
LEMMA ChunkSentCases ==
  ASSUME ClientTypeOK, LoopInv, loop.pc = "chunk"
  PROVE  /\ ChunkSent \in LoopState /\ ChunkSent.req = loop.req /\ ChunkSent.got = loop.got
         /\ ChunkSent.work = loop.work
         /\ \/ /\ ChunkSent.pc = "chunk" /\ loop.cur[2] < Pieces[loop.cur[1]]
               /\ ChunkSent.cur = <<loop.cur[1], loop.cur[2] + 1>>
            \/ /\ ChunkSent.pc = "load" /\ loop.cur[2] = Pieces[loop.cur[1]] /\ loop.work # {}
            \/ /\ ChunkSent.pc = "result" /\ ChunkSent.say = "stored"
               /\ loop.cur[2] = Pieces[loop.cur[1]] /\ loop.work = {}
<1>1. /\ loop \in LoopState /\ loop.cur \in Objects \X Nat
      /\ loop.cur[2] \in AllPieces(loop.cur[1])
  BY DEF ClientTypeOK, LoopInv
<1>2. loop.cur[1] \in Objects /\ Pieces[loop.cur[1]] \in Nat /\ loop.cur[2] \in 1..Pieces[loop.cur[1]]
  BY <1>1, ServerAssumption DEF AllPieces
<1>3. CASE loop.cur[2] < Pieces[loop.cur[1]]
  <2>1. ChunkSent = [loop EXCEPT !.cur = <<loop.cur[1], loop.cur[2] + 1>>]
    BY <1>3 DEF ChunkSent
  <2>2. <<loop.cur[1], loop.cur[2] + 1>> \in Objects \X Nat
    BY <1>2
  <2> QED BY <1>1, <1>3, <2>1, <2>2 DEF LoopState
<1>4. CASE ~(loop.cur[2] < Pieces[loop.cur[1]]) /\ loop.work # {}
  <2>1. ChunkSent = [loop EXCEPT !.pc = "load", !.cur = <<>>]
    BY <1>4 DEF ChunkSent
  <2>2. loop.cur[2] = Pieces[loop.cur[1]]
    BY <1>2, <1>4
  <2>3. /\ ChunkSent \in LoopState /\ ChunkSent.req = loop.req /\ ChunkSent.got = loop.got
        /\ ChunkSent.work = loop.work /\ ChunkSent.pc = "load"
    BY <1>1, <2>1 DEF LoopState
  <2> QED BY <1>4, <2>2, <2>3
<1>5. CASE ~(loop.cur[2] < Pieces[loop.cur[1]]) /\ loop.work = {}
  <2>1. ChunkSent = [loop EXCEPT !.pc = "result", !.say = "stored", !.cur = <<>>]
    BY <1>5 DEF ChunkSent
  <2>2. loop.cur[2] = Pieces[loop.cur[1]]
    BY <1>2, <1>5
  <2>3. /\ ChunkSent \in LoopState /\ ChunkSent.req = loop.req /\ ChunkSent.got = loop.got
        /\ ChunkSent.work = loop.work /\ ChunkSent.pc = "result" /\ ChunkSent.say = "stored"
    BY <1>1, <2>1 DEF LoopState, Said
  <2> QED BY <1>5, <2>2, <2>3
<1> QED BY <1>3, <1>4, <1>5

LEMMA ChunkStep ==
  ASSUME UploadInv, NEW r \in Requests, ChunkAnswered(r) \/ ChunkLost(r)
  PROVE  ServerInv' /\ ClientTypeOK' /\ CommandsInv' /\ LoopInv'
<1>1. /\ loop.pc = "chunk" /\ loop.req = r /\ cmds' = cmds /\ ready' = ready
      /\ UploadChunk(r, loop.cur[1], loop.cur[2]) \/ UNCHANGED serverVars
      /\ reopened' = reopened
      /\ loop' = ChunkSent \/ loop' = Failing
  BY LostServer, ChunkHandled DEF ChunkAnswered, ChunkLost, netVars
<1>2. /\ loop.cur[1] \in Objects /\ loop.cur[2] \in AllPieces(loop.cur[1]) /\ r \in Created
      /\ loop.got \subseteq Created /\ cmds[r] \notin {"none", "completed"}
  BY <1>1 DEF UploadInv, LoopInv
<1>3. ServerInv' /\ ServerKeeps(r)
  BY <1>1, <1>2, UploadChunkInv, SameServerInv, ChunkKeeps, SameServerKeeps
     DEF UploadInv, CommandsInv
<1>4. CASE loop' = Failing
  BY <1>1, <1>2, <1>3, <1>4, LoopGivesUp
<1>5. CASE loop' = ChunkSent
  <2>1. /\ loop' \in LoopState /\ loop'.req = r /\ loop'.got = loop.got
        /\ \/ /\ loop'.pc = "chunk" /\ loop.cur[2] < Pieces[loop.cur[1]]
              /\ loop'.cur = <<loop.cur[1], loop.cur[2] + 1>>
           \/ loop'.pc = "load"
           \/ loop'.pc = "result" /\ loop'.say = "stored"
    BY <1>1, <1>5, ChunkSentCases DEF UploadInv
  <2>2. ClientTypeOK'
    BY <1>1, <2>1 DEF UploadInv, ClientTypeOK
  <2>3. CommandsInv'
    BY <1>1, <1>2, <1>3, KeepsCommands
  <2>4. loop'.pc = "chunk" =>
          loop'.cur \in Objects \X Nat /\ loop'.cur[2] \in AllPieces(loop'.cur[1])
    <3> SUFFICES ASSUME loop'.pc = "chunk"
                 PROVE  loop'.cur \in Objects \X Nat /\ loop'.cur[2] \in AllPieces(loop'.cur[1])
      OBVIOUS
    <3>1. loop.cur[2] < Pieces[loop.cur[1]] /\ loop'.cur = <<loop.cur[1], loop.cur[2] + 1>>
      BY <2>1
    <3>2. loop.cur[2] + 1 \in AllPieces(loop.cur[1]) /\ loop.cur[2] + 1 \in Nat
      BY <1>2, <3>1, ServerAssumption DEF AllPieces
    <3> QED BY <1>2, <3>1, <3>2
  <2>5. r \in Created' /\ loop.got \subseteq Created'
    BY <1>2, <1>3 DEF ServerKeeps
  <2>6. LoopInv'
    BY <1>1, <1>2, <2>1, <2>4, <2>5 DEF LoopInv, Said
  <2> QED BY <1>3, <2>2, <2>3, <2>6
<1> QED BY <1>1, <1>4, <1>5

LEMMA ResultStep ==
  ASSUME UploadInv, NEW r \in Requests, ResultAnswered(r) \/ ResultLost(r)
  PROVE  ServerInv' /\ ClientTypeOK' /\ CommandsInv' /\ LoopInv'
<1>1. /\ loop.pc = "result" /\ loop.req = r /\ cmds' = cmds /\ ready' = ready
      /\ reopened' = reopened
      /\ \/ UploadResult(r, loop.say) /\ loop' = [loop EXCEPT !.pc = "complete"]
         \/ (UploadResult(r, loop.say) \/ UNCHANGED serverVars) /\ loop' = AtPoll
  BY LostServer, ResultHandled DEF ResultAnswered, ResultLost, netVars
<1>2. /\ loop \in LoopState /\ r \in Created /\ loop.say \in Said /\ loop.say \in Outcomes
      /\ loop.got \subseteq Created /\ cmds[r] \notin {"none", "completed"}
  BY <1>1 DEF UploadInv, ClientTypeOK, LoopInv, Said, Outcomes
<1>3. ServerInv' /\ ServerKeeps(r)
  BY <1>1, <1>2, UploadResultInv, SameServerInv, ResultKeeps, SameServerKeeps
     DEF UploadInv, CommandsInv
<1>4. CASE loop' = AtPoll
  BY <1>1, <1>2, <1>3, <1>4, LoopGivesUp
<1>5. CASE UploadResult(r, loop.say) /\ loop' = [loop EXCEPT !.pc = "complete"]
  <2>1. /\ loop' \in LoopState /\ loop'.pc = "complete" /\ loop'.req = r /\ loop'.got = loop.got
        /\ loop'.say = loop.say
    BY <1>1, <1>2, <1>5 DEF LoopState
  <2>2. ClientTypeOK'
    BY <1>1, <2>1 DEF UploadInv, ClientTypeOK
  <2>3. CommandsInv'
    BY <1>1, <1>2, <1>3, KeepsCommands
  <2>4. status'[r] = loop.say /\ command'[r] = "completed"
    BY <1>5, ResultKeeps DEF UploadInv
  <2>5. r \in Created' /\ loop.got \subseteq Created'
    BY <1>2, <1>3 DEF ServerKeeps
  <2>6. LoopInv'
    BY <1>1, <1>2, <2>1, <2>4, <2>5 DEF LoopInv
  <2> QED BY <1>3, <2>2, <2>3, <2>6
<1> QED BY <1>1, <1>4, <1>5

LEMMA EndStep ==
  ASSUME UploadInv, NEW r \in Requests,
         FailCommand(r) \/ CompleteCommand(r) \/ BackoffElapsed(r)
  PROVE  ServerInv' /\ ClientTypeOK' /\ CommandsInv' /\ LoopInv'
<1>0. /\ cmds \in [Requests -> {"none", "pending", "running", "failed", "completed"}]
      /\ ready \subseteq {q \in Requests : cmds[q] # "none"} /\ loop \in LoopState
      /\ \A q \in Requests : cmds[q] # "none" => q \in Created
  BY DEF UploadInv, ClientTypeOK, CommandsInv
<1>1. CASE FailCommand(r)
  <2>1. /\ loop.pc = "fail" /\ loop.req = r /\ UNCHANGED <<serverVars, reopened>> /\ loop' = AtPoll
        /\ cmds' = [cmds EXCEPT ![r] = "failed"] /\ ready' = ready \ {r}
    BY <1>1 DEF FailCommand, netVars
  <2>2. r \in Created
    BY <2>1 DEF UploadInv, LoopInv
  <2>3. cmds'[r] = "failed" /\ \A q \in Requests \ {r} : cmds'[q] = cmds[q]
    BY <1>0, <2>1
  <2>4. ClientTypeOK'
    BY <1>0, <2>1, <2>3 DEF ClientTypeOK, LoopState, AtPoll
  <2>5. LoopInv'
    BY <2>1 DEF LoopInv, AtPoll
  <2>6. /\ \A q \in Requests : cmds'[q] # "none" => q \in Created
        /\ \A q \in Requests : cmds'[q] = "completed" => cmds[q] = "completed"
    BY <1>0, <2>2, <2>3
  <2> QED BY <2>1, <2>4, <2>5, <2>6, ClientStep
<1>2. CASE CompleteCommand(r)
  <2>1. /\ loop.pc = "complete" /\ loop.req = r /\ UNCHANGED <<serverVars, reopened>>
        /\ loop' = AtPoll /\ cmds' = [cmds EXCEPT ![r] = "completed"] /\ ready' = ready
    BY <1>2 DEF CompleteCommand, netVars
  <2>2. r \in Created /\ command[r] = "completed" /\ (status[r] \in Said \/ r \in reopened)
    BY <2>1 DEF UploadInv, LoopInv
  <2>3. cmds'[r] = "completed" /\ \A q \in Requests \ {r} : cmds'[q] = cmds[q]
    BY <1>0, <2>1
  <2>4. ClientTypeOK'
    BY <1>0, <2>1, <2>3 DEF ClientTypeOK, LoopState, AtPoll
  <2>5. LoopInv'
    BY <2>1 DEF LoopInv, AtPoll
  <2>6. /\ \A q \in Requests : cmds'[q] # "none" => q \in Created
        /\ \A q \in Requests : cmds'[q] = "completed" =>
             \/ cmds[q] = "completed"
             \/ command[q] = "completed" /\ (status[q] \in Said \/ q \in reopened)
    BY <1>0, <2>2, <2>3
  <2> QED BY <2>1, <2>4, <2>5, <2>6, ClientStep
<1>3. CASE BackoffElapsed(r)
  <2>1. /\ cmds[r] = "failed" /\ ready' = ready \union {r} /\ cmds' = cmds /\ loop' = loop
        /\ UNCHANGED <<serverVars, reopened>>
    BY <1>3 DEF BackoffElapsed, netVars
  <2>2. ClientTypeOK'
    BY <1>0, <2>1 DEF ClientTypeOK
  <2>3. LoopInv'
    BY <2>1 DEF UploadInv, LoopInv, serverVars, Created
  <2> QED BY <1>0, <2>1, <2>2, <2>3, ClientStep
<1> QED BY <1>1, <1>2, <1>3

LEMMA AdminStep ==
  ASSUME UploadInv, NEW r \in Requests, Admin(r)
  PROVE  ServerInv' /\ ClientTypeOK' /\ CommandsInv' /\ LoopInv'
<1>1. /\ cmds' = cmds /\ ready' = ready /\ loop' = loop /\ reopened' = reopened
      /\ \/ \E c \in Conversations, parts \in SUBSET Parts : CreateContentRequest(r, c, parts)
         \/ RequestExpires(r)
  BY DEF Admin, clientVars, netVars
<1>2. ServerInv' /\ ServerKeeps(0)
  BY <1>1, CreateInv, CreateKeeps, RequestExpiresInv, ExpiresKeeps DEF UploadInv
<1>3. CommandsInv'
  BY <1>1, <1>2, KeepsCommands DEF Requests
<1>4. LoopInv'
  BY <1>1, <1>2, KeepsLoop DEF Requests
<1> QED BY <1>1, <1>2, <1>3, <1>4 DEF UploadInv, ClientTypeOK

(* A late post is of some request, and is handled like any other. *)
LEMMA LateServer ==
  ASSUME UploadInv, NEW post \in late, LateHandled(post)
  PROVE  \E q : /\ ServerInv' /\ ServerKeeps(q) /\ ContentGrows
                /\ q \in Requests /\ status[q] \in Outcomes => q \in reopened'
                /\ reopened \subseteq reopened'
<1>1. /\ Handled(post) /\ post \in Post /\ reopened \subseteq reopened'
      /\ post.type # "poll" /\ status[post.req] \in Outcomes => post.req \in reopened'
      /\ post.type = "chunk" => post.piece \in AllPieces(post.obj)
  BY DEF LateHandled, UploadInv, LateInv
<1>2. CASE post.type = "poll"
  <2>1. NextCommand
    BY <1>1, <1>2 DEF Handled
  <2>2. ServerInv' /\ ServerKeeps(0) /\ ContentGrows
    BY <2>1, NextCommandInv, NextCommandKeeps DEF UploadInv
  <2>3. 0 \notin Requests
    BY DEF Requests
  <2> QED BY <1>1, <2>2, <2>3
<1>3. CASE post.type = "manifests"
  <2>1. UploadManifests(post.req, post.work)
    BY <1>1, <1>3 DEF Handled
  <2>2. post.req \in Requests /\ post.work \in SUBSET Manifest
    BY <1>1, <1>3 DEF Post
  <2>3. ServerInv' /\ ServerKeeps(post.req) /\ ContentGrows
    BY <2>1, <2>2, UploadManifestsInv, ManifestsKeep DEF UploadInv
  <2> QED BY <1>1, <1>3, <2>3
<1>4. CASE post.type = "chunk"
  <2>1. UploadChunk(post.req, post.obj, post.piece)
    BY <1>1, <1>4 DEF Handled
  <2>2. post.req \in Requests /\ post.obj \in Objects /\ post.piece \in AllPieces(post.obj)
    BY <1>1, <1>4 DEF Post
  <2>3. ServerInv' /\ ServerKeeps(post.req) /\ ContentGrows
    BY <2>1, <2>2, UploadChunkInv, ChunkKeeps DEF UploadInv
  <2> QED BY <1>1, <1>4, <2>3
<1>5. CASE post.type = "result"
  <2>1. UploadResult(post.req, post.say)
    BY <1>1, <1>5 DEF Handled
  <2>2. post.req \in Requests /\ post.say \in Outcomes
    BY <1>1, <1>5 DEF Post
  <2>3. ServerInv' /\ ServerKeeps(post.req) /\ ContentGrows
    BY <2>1, <2>2, UploadResultInv, ResultKeeps DEF UploadInv
  <2> QED BY <1>1, <1>5, <2>3
<1> QED BY <1>1, <1>2, <1>3, <1>4, <1>5 DEF Handled

LEMMA LateStep ==
  ASSUME UploadInv, NEW post \in late, LateHandled(post)
  PROVE  ServerInv' /\ ClientTypeOK' /\ CommandsInv' /\ LoopInv'
<1>1. PICK q : /\ ServerInv' /\ ServerKeeps(q)
               /\ q \in Requests /\ status[q] \in Outcomes => q \in reopened'
               /\ reopened \subseteq reopened'
  BY LateServer
<1>2. cmds' = cmds /\ ready' = ready /\ loop' = loop
  BY DEF LateHandled, clientVars
<1>3. q \in Requests => cmds[q] # "completed" \/ q \in reopened'
  BY <1>1 DEF UploadInv, CommandsInv, CompletedOnBothSides, Outcomes
<1>4. CommandsInv'
  BY <1>1, <1>2, <1>3, KeepsCommands
<1>5. q \in Requests /\ loop.pc = "complete" /\ loop.req = q => q \in reopened'
  BY <1>1 DEF UploadInv, LoopInv, Said, Outcomes
<1>6. LoopInv'
  BY <1>1, <1>2, <1>5, KeepsLoop
<1> QED BY <1>1, <1>2, <1>4, <1>6 DEF UploadInv, ClientTypeOK

(* Only posts of the loop become late, and created requests stay so. *)
LEMMA LateInvStep ==
  ASSUME UploadInv, [Next]_vars, Created \subseteq Created'
  PROVE  LateInv'
<1>0. /\ reopened \subseteq Created /\ late \subseteq Post /\ LateInv
      /\ loop \in LoopState
  BY DEF UploadInv, LateInv, ClientTypeOK
<1>1. ASSUME late' \subseteq late, reopened' \subseteq Created
      PROVE  LateInv'
  BY <1>0, <1>1 DEF LateInv
<1>2. ASSUME NEW post, Lost(post), post \in Post, post.type # "poll" => post.req \in Created,
             post.type = "chunk" => post.piece \in AllPieces(post.obj)
      PROVE  LateInv'
  <2>1. reopened' = reopened /\ late' \subseteq late \union {post}
    BY <1>2 DEF Lost, netVars
  <2> QED BY <1>0, <1>2, <2>1 DEF LateInv
<1>3. CASE PollLost
  BY <1>2, <1>3 DEF PollLost, Post
<1>4. ASSUME NEW r \in Requests, ManifestsLost(r)
      PROVE  LateInv'
  <2> DEFINE post == [type |-> "manifests", req |-> r, work |-> loop.work]
  <2>1. Lost(post) /\ loop.pc = "manifests" /\ loop.req = r
    BY <1>4 DEF ManifestsLost
  <2>2. r \in Created /\ loop.work \in SUBSET Manifest
    BY <2>1, ClientPartsTyped
  <2>3. post \in Post /\ post.req = r /\ post.type = "manifests"
    BY <2>2 DEF Post
  <2> HIDE DEF post
  <2> QED BY <1>2, <2>1, <2>2, <2>3
<1>5. ASSUME NEW r \in Requests, ChunkLost(r)
      PROVE  LateInv'
  <2> DEFINE post == [type |-> "chunk", req |-> r, obj |-> loop.cur[1], piece |-> loop.cur[2]]
  <2>1. Lost(post) /\ loop.pc = "chunk" /\ loop.req = r
    BY <1>5 DEF ChunkLost
  <2>2. /\ r \in Created /\ loop.cur \in Objects \X Nat
        /\ loop.cur[2] \in AllPieces(loop.cur[1])
    BY <2>1 DEF UploadInv, LoopInv
  <2>3. /\ post \in Post /\ post.req = r /\ post.type = "chunk"
        /\ post.obj = loop.cur[1] /\ post.piece = loop.cur[2]
    BY <2>2 DEF Post
  <2> HIDE DEF post
  <2> QED BY <1>2, <2>1, <2>2, <2>3
<1>6. ASSUME NEW r \in Requests, ResultLost(r)
      PROVE  LateInv'
  <2> DEFINE post == [type |-> "result", req |-> r, say |-> loop.say]
  <2>1. Lost(post) /\ loop.pc = "result" /\ loop.req = r
    BY <1>6 DEF ResultLost
  <2>2. r \in Created /\ loop.say \in Outcomes
    BY <2>1 DEF UploadInv, LoopInv, Said, Outcomes
  <2>3. post \in Post /\ post.req = r /\ post.type = "result"
    BY <2>2 DEF Post
  <2> HIDE DEF post
  <2> QED BY <1>2, <2>1, <2>2, <2>3
<1>7. ASSUME NEW post \in late, LateHandled(post)
      PROVE  LateInv'
  <2>1. late' \subseteq late /\ reopened' \subseteq Created
    BY <1>0, <1>7 DEF LateHandled, LateInv
  <2> QED BY <1>1, <2>1
<1>8. CASE UNCHANGED netVars
  BY <1>0, <1>1, <1>8 DEF netVars
<1>9. CASE PollAnswered \/ NothingDue \/ Raw \/ ClientRestart \/ (\E m \in Manifest : LoadChunks(m))
  <2>1. UNCHANGED netVars
    BY <1>9 DEF PollAnswered, NothingDue, Raw, ClientRestart, LoadChunks
  <2> QED BY <1>8, <2>1
<1>10. ASSUME NEW r \in Requests,
              \/ Admin(r) \/ SaveCommand(r) \/ PrepareExpired(r) \/ PrepareReady(r)
              \/ ManifestsAnswered(r) \/ ChunkAnswered(r) \/ ResultAnswered(r)
              \/ FailCommand(r) \/ CompleteCommand(r) \/ BackoffElapsed(r)
       PROVE  LateInv'
  <2>1. UNCHANGED netVars
    BY <1>10 DEF Admin, SaveCommand, PrepareExpired, PrepareReady, ManifestsAnswered,
                 ChunkAnswered, ResultAnswered, FailCommand, CompleteCommand, BackoffElapsed
  <2> QED BY <1>8, <2>1
<1>11. CASE UNCHANGED vars
  BY <1>8, <1>11 DEF vars
<1> QED BY <1>3, <1>4, <1>5, <1>6, <1>7, <1>9, <1>10, <1>11 DEF Next

(* No request is ever forgotten by the server. *)
LEMMA CreatedStays ==
  ASSUME UploadInv, [Next]_vars
  PROVE  Created \subseteq Created'
<1>1. ASSUME convOf' = convOf
      PROVE  Created \subseteq Created'
  BY <1>1 DEF Created
<1>2. ASSUME NEW post, Handled(post)
      PROVE  convOf' = convOf
  <2>1. ASSUME NEW r, NEW ms, UploadManifests(r, ms)
        PROVE  convOf' = convOf
    BY <2>1 DEF UploadManifests, ExpireOnUpload
  <2>2. ASSUME NEW r, NEW o, NEW i, UploadChunk(r, o, i)
        PROVE  convOf' = convOf
    BY <2>2 DEF UploadChunk, ExpireOnUpload, serverVars
  <2> QED BY <1>2, <2>1, <2>2 DEF Handled, NextCommand, UploadResult
<1>3. ASSUME NEW post, Lost(post)
      PROVE  convOf' = convOf
  BY <1>2, <1>3, LostServer DEF serverVars
<1>4. ASSUME NEW r \in Requests, Admin(r)
      PROVE  Created \subseteq Created'
  <2>1. ASSUME NEW c \in Conversations, NEW parts \in SUBSET Parts, CreateContentRequest(r, c, parts)
        PROVE  Created \subseteq Created'
    <3>1. r \notin Created /\ convOf' = [convOf EXCEPT ![r] = c]
      BY <2>1 DEF CreateContentRequest
    <3>2. convOf \in [Requests -> Conversations \union {NoConv}]
      BY DEF UploadInv, ServerInv, ServerTypeOK
    <3> QED BY <3>1, <3>2 DEF Created
  <2>2. CASE RequestExpires(r)
    BY <1>1, <2>2 DEF RequestExpires
  <2> QED BY <1>4, <2>1, <2>2 DEF Admin
<1>5. CASE PollAnswered
  BY <1>1, <1>5 DEF PollAnswered, NextCommand
<1>6. CASE PollLost \/ \E post \in late : LateHandled(post)
  BY <1>1, <1>2, <1>3, <1>6 DEF PollLost, LateHandled
<1>7. ASSUME NEW r \in Requests, ManifestsLost(r) \/ ChunkLost(r) \/ ResultLost(r)
      PROVE  Created \subseteq Created'
  <2>1. \E post : Lost(post)
    BY <1>7 DEF ManifestsLost, ChunkLost, ResultLost
  <2> QED BY <1>1, <1>3, <2>1
<1>8. ASSUME NEW r \in Requests, ManifestsAnswered(r) \/ ChunkAnswered(r) \/ ResultAnswered(r)
      PROVE  Created \subseteq Created'
  <2>1. \E post : Handled(post)
    BY <1>8, ManifestsHandled, ChunkHandled, ResultHandled
       DEF ManifestsAnswered, ChunkAnswered, ResultAnswered
  <2> QED BY <1>1, <1>2, <2>1
<1>9. CASE UNCHANGED serverVars
  BY <1>1, <1>9 DEF serverVars
<1>10. CASE NothingDue \/ Raw \/ ClientRestart \/ UNCHANGED vars \/ \E m \in Manifest : LoadChunks(m)
  BY <1>9, <1>10 DEF NothingDue, Raw, ClientRestart, LoadChunks, vars
<1>11. ASSUME NEW r \in Requests,
              \/ SaveCommand(r) \/ PrepareExpired(r) \/ PrepareReady(r)
              \/ FailCommand(r) \/ CompleteCommand(r) \/ BackoffElapsed(r)
       PROVE  Created \subseteq Created'
  BY <1>9, <1>11 DEF SaveCommand, PrepareExpired, PrepareReady, FailCommand, CompleteCommand,
                     BackoffElapsed
<1> QED BY <1>4, <1>5, <1>6, <1>7, <1>8, <1>10, <1>11 DEF Next

LEMMA UploadStep == UploadInv /\ [Next]_vars => UploadInv'
<1> SUFFICES ASSUME UploadInv, [Next]_vars
             PROVE  UploadInv'
  OBVIOUS
<1>1. RawTypeOK'
  BY StepIsRawStep, RawTypeStep DEF UploadInv
<1>2. Created \subseteq Created'
  BY CreatedStays
<1>s. SUFFICES ServerInv' /\ ClientTypeOK' /\ CommandsInv' /\ LoopInv'
  BY <1>1, <1>2, LateInvStep DEF UploadInv
<1>3. CASE UNCHANGED <<serverVars, clientVars, netVars>>
  <2>1. ClientTypeOK' /\ LoopInv'
    BY <1>3 DEF UploadInv, ClientTypeOK, LoopInv, serverVars, clientVars, netVars, Created
  <2> QED BY <1>3, <2>1, ClientStep DEF UploadInv, CommandsInv, clientVars, netVars
<1>4. CASE Raw
  BY <1>3, <1>4 DEF Raw
<1>5. CASE UNCHANGED vars
  BY <1>3, <1>5 DEF vars
<1> QED BY <1>4, <1>5, PollStep, SaveStep, NothingDueStep, PrepareStep, ManifestsStep, LoadStep,
           ChunkStep, ResultStep, EndStep, AdminStep, LateStep DEF Next

-----------------------------------------------------------------------------
(* The tables of both sides and the command loop keep their types, over    *)
(* lost answers, restarts and cleanups.                                    *)
THEOREM UploadTypeOK == Spec => []TypeOK
<1>1. UploadInv => TypeOK
  BY DEF UploadInv, TypeOK, ServerInv, ClientTypeOK, LoopState, LateInv
<1> QED BY <1>1, UploadInit, UploadStep, PTL DEF Spec

(* complete_command is only reached when the server has the outcome, and   *)
(* nothing the client sends later takes it away: for any number of         *)
(* requests, lost answers, expiries and restarts.                          *)
THEOREM ForgottenIsSettled == Spec => []CompletedOnBothSides
<1>1. UploadInv => CompletedOnBothSides
  BY DEF UploadInv, CommandsInv
<1> QED BY <1>1, UploadInit, UploadStep, PTL DEF Spec

(* The client's part of ContentUpload is the raw store of RawStore, with   *)
(* the command loop as the one that pins and unpins.                       *)
THEOREM UploadUsesRawStore == Spec => RawSpec
<1>1. Init => RawInit
  BY DEF Init
<1>2. UploadInv /\ [Next]_vars => [RawNext]_rawVars
  BY StepIsRawStep
<1> QED BY <1>1, <1>2, UploadInit, UploadStep, PTL DEF Spec, RawSpec

(* Content that has not expired can be read, whatever captures of new or   *)
(* known content, commands and the cleanup loop do at the same time - but  *)
(* for a capture between cleanup's SELECT and its removal of that file.    *)
THEOREM LiveContentReadable == Spec => []LiveRowHasBlob
<1>1. RawInit => RawTypeOK /\ NoStaleFile
  BY RawInitInv
<1>2. RawTypeOK /\ NoStaleFile /\ [RawNext]_rawVars => RawTypeOK' /\ NoStaleFile'
  BY RawTypeStep, NoStaleStep
<1>3. NoStaleFile => LiveRowHasBlob
  BY DEF NoStaleFile
<1> QED BY <1>1, <1>2, <1>3, UploadUsesRawStore, PTL DEF RawSpec

(* The cleanup's DELETE never takes a row that a content command has       *)
(* pinned, also when the pin came after the SELECT.                        *)
THEOREM PinnedRowsSurvive == Spec => PinnedSurvivesCleanup
<1>1. RawInit => RawTypeOK
  BY RawInitInv
<1>2. RawTypeOK /\ [RawNext]_rawVars => RawTypeOK'
  BY RawTypeStep
<1>3. RawTypeOK /\ [RawNext]_rawVars =>
        [\A o \in Present : rows[o].pin # NoPin => rows'[o] # NoRow]_rawVars
  BY PinnedStays
<1> QED BY <1>1, <1>2, <1>3, UploadUsesRawStore, PTL DEF RawSpec, PinnedSurvivesCleanup

-----------------------------------------------------------------------------
(* What has been uploaded, when no conversation can be evicted. *)

NoEviction == IsFiniteSet(Conversations) /\ Cardinality(Conversations) <= Limit

Uploaded(r) ==
  \A p \in wanted[r] : \E m \in manifests :
    m.req = r /\ m.part = p /\ <<r, m.obj>> \in links

(* Every part is uploaded, still to be sent, or of the object being sent. *)
Sending(r, objs) ==
  \A p \in wanted[r] : \E m \in manifests :
    /\ m.req = r /\ m.part = p
    /\ <<r, m.obj>> \in links \/ m \in loop.work \/ m.obj \in objs

ForgottenUploaded ==
  \A r \in Requests \ (overdue \union reopened) :
    cmds[r] = "completed" /\ status[r] = "stored" => Uploaded(r)

(* Why the client may say stored: every manifest of this attempt was       *)
(* accepted, and every chunk up to the current one.                        *)
ProgressInv ==
  /\ ForgottenUploaded
  /\ loop.req \notin overdue =>
       /\ loop.pc = "manifests" =>
            \A p \in wanted[loop.req] : \E m \in loop.work : m.req = loop.req /\ m.part = p
       /\ loop.pc = "load" => Sending(loop.req, {})
       /\ loop.pc = "chunk" =>
            /\ Sending(loop.req, {loop.cur[1]})
            /\ \A i \in 1..(loop.cur[2] - 1) : <<loop.req, loop.cur[1], i>> \in chunks
       /\ loop.pc \in {"result", "complete"} /\ loop.say = "stored" => Uploaded(loop.req)

(* With at most Limit conversations none has Limit newer ones. *)
LEMMA NoVictims ==
  ASSUME NoEviction, ServerInv, NEW c \in Conversations
  PROVE  Victims(TouchedList(c), TouchedOrder(c)) = {}
<1> DEFINE list == TouchedList(c)
           order == TouchedOrder(c)
<1>1. list \subseteq Conversations
  BY DEF TouchedList, ServerInv, ServerTypeOK
<1>2. \A d, e \in list : <<d, e>> \in order => <<e, d>> \notin order
  BY TouchTotal DEF ServerInv, ServerTypeOK
<1> HIDE DEF list, order
<1> SUFFICES ASSUME NEW v \in list
             PROVE  ~(Cardinality({d \in list : <<v, d>> \in order}) >= Limit)
  BY DEF Victims, list, order
<1> DEFINE newer == {d \in list : <<v, d>> \in order}
<1>3. newer \subseteq Conversations \ {v}
  BY <1>1, <1>2
<1>4. /\ IsFiniteSet(Conversations \ {v})
      /\ Cardinality(Conversations \ {v}) = Cardinality(Conversations) - 1
      /\ Cardinality(Conversations) \in Nat
  BY <1>1, FS_RemoveElement, FS_CardinalityType DEF NoEviction
<1>5. IsFiniteSet(newer) /\ Cardinality(newer) <= Cardinality(Conversations \ {v})
  BY <1>3, <1>4, FS_Subset
<1>6. Cardinality(newer) \in Nat
  BY <1>5, FS_CardinalityType
<1> HIDE DEF newer
<1>7. Cardinality(newer) < Limit
  BY <1>4, <1>5, <1>6, ServerAssumption DEF NoEviction
<1> QED BY <1>6, <1>7, ServerAssumption DEF newer

LEMMA CreateGrows ==
  ASSUME NoEviction, ServerInv, NEW q \in Requests, NEW c \in Conversations,
         NEW parts \in SUBSET Parts, CreateContentRequest(q, c, parts)
  PROVE  ContentGrows
<1>1. EvictConversations({})
  BY NoVictims DEF CreateContentRequest
<1> QED BY <1>1 DEF EvictConversations, ContentGrows

LEMMA UploadedStays ==
  ASSUME NEW q, ServerKeeps(q), ContentGrows, NEW r \in Created, Uploaded(r)
  PROVE  Uploaded(r)'
<1>1. wanted'[r] = wanted[r] /\ manifests \subseteq manifests' /\ links \subseteq links'
  BY DEF ServerKeeps, ContentGrows
<1> QED BY <1>1 DEF Uploaded

LEMMA SendingStays ==
  ASSUME NEW q, ServerKeeps(q), ContentGrows, NEW r \in Created, NEW objs, Sending(r, objs),
         loop'.work = loop.work
  PROVE  Sending(r, objs)'
<1>1. wanted'[r] = wanted[r] /\ manifests \subseteq manifests' /\ links \subseteq links'
  BY DEF ServerKeeps, ContentGrows
<1> QED BY <1>1 DEF Sending

(* What the client has forgotten stays uploaded. *)
LEMMA ForgottenStays ==
  ASSUME UploadInv, ProgressInv, NEW q, ServerKeeps(q), ContentGrows, cmds' = cmds,
         reopened \subseteq reopened',
         q \in Requests => cmds[q] # "completed" \/ q \in reopened'
  PROVE  ForgottenUploaded'
<1> SUFFICES ASSUME NEW r \in Requests \ (overdue' \union reopened'),
                    cmds[r] = "completed", status'[r] = "stored"
             PROVE  Uploaded(r)'
  BY DEF ForgottenUploaded
<1>1. r \in Created \ {q} /\ r \notin overdue /\ r \notin reopened
  BY DEF UploadInv, CommandsInv, ServerKeeps
<1>2. status[r] = "stored"
  BY <1>1 DEF ServerKeeps
<1>3. Uploaded(r)
  BY <1>1, <1>2 DEF ProgressInv, ForgottenUploaded
<1> QED BY <1>1, <1>3, UploadedStays

(* The loop stands still while the server works for others. *)
LEMMA ProgressWaits ==
  ASSUME UploadInv, ProgressInv, NEW q, ServerKeeps(q), ContentGrows, cmds' = cmds, loop' = loop,
         reopened \subseteq reopened',
         q \in Requests => cmds[q] # "completed" \/ q \in reopened'
  PROVE  ProgressInv'
<1>1. ForgottenUploaded'
  BY ForgottenStays
<1>2. CASE loop.pc \in {"poll", "save"}
  BY <1>1, <1>2 DEF ProgressInv
<1>3. CASE loop.pc \notin {"poll", "save"} /\ loop.req \notin overdue'
  <2>1. loop.req \in Created /\ loop.req \notin overdue
    BY <1>3 DEF UploadInv, LoopInv, ServerKeeps
  <2>2. wanted'[loop.req] = wanted[loop.req] /\ chunks \subseteq chunks'
    BY <2>1 DEF ServerKeeps, ContentGrows
  <2>3. loop.pc = "load" => Sending(loop.req, {})'
    BY <2>1, SendingStays DEF ProgressInv
  <2>4. loop.pc = "chunk" => Sending(loop.req, {loop.cur[1]})'
    BY <2>1, SendingStays DEF ProgressInv
  <2>5. loop.pc \in {"result", "complete"} /\ loop.say = "stored" => Uploaded(loop.req)'
    BY <2>1, UploadedStays DEF ProgressInv
  <2> QED BY <1>1, <2>1, <2>2, <2>3, <2>4, <2>5 DEF ProgressInv
<1>4. CASE loop.req \in overdue'
  BY <1>1, <1>4 DEF ProgressInv
<1> QED BY <1>2, <1>3, <1>4

(* The loop goes where nothing is claimed. *)
LEMMA ProgressResets ==
  ASSUME UploadInv, ProgressInv, NEW q, ServerKeeps(q), ContentGrows, cmds' = cmds,
         reopened' = reopened, q \in Requests => cmds[q] # "completed",
         loop'.pc \in {"poll", "save", "fail"}
  PROVE  ProgressInv'
BY ForgottenStays DEF ProgressInv

-----------------------------------------------------------------------------
LEMMA PrepareProgress ==
  ASSUME UploadInv, ProgressInv, NEW r \in Requests, PrepareReady(r)
  PROVE  ProgressInv'
<1>1. /\ r \in ready /\ CanServe(r) /\ UNCHANGED <<serverVars, reopened>> /\ r \notin overdue
      /\ cmds' = [cmds EXCEPT ![r] = "running"]
      /\ loop' = [AtPoll EXCEPT !.pc = "manifests", !.req = r, !.work = Work(r)]
  BY DEF PrepareReady, IsNextDue, DueCommands, CanServe, netVars
<1>2. loop'.pc = "manifests" /\ loop'.req = r /\ loop'.work = Work(r)
  BY <1>1 DEF AtPoll
<1>3. ASSUME NEW p \in wanted[r]
      PROVE  \E m \in Work(r) : m.req = r /\ m.part = p
  <2>1. PICK o \in Objects : IsLatest(o, convOf[r], p)
    BY <1>1 DEF CanServe, Available
  <2>2. rows[o] \in Row /\ p \in Parts
    BY <2>1, PresentRow DEF IsLatest, UploadInv, ServerInv, ServerTypeOK
  <2> DEFINE m == [req |-> r, obj |-> o, part |-> p, stamp |-> rows[o].stamp]
  <2>3. m \in Manifest /\ m.req = r /\ m.obj = o /\ m.part = p /\ m.stamp = rows[o].stamp
    BY <2>2, ContentAssumption DEF Manifest, Row
  <2> HIDE DEF m
  <2>4. m \in Work(r)
    BY <2>1, <2>3 DEF Work
  <2> QED BY <2>3, <2>4
<1>4. cmds'[r] = "running" /\ \A q \in Requests \ {r} : cmds'[q] = cmds[q]
  BY <1>1 DEF UploadInv, ClientTypeOK
<1>5. ForgottenUploaded'
  BY <1>1, <1>4 DEF ProgressInv, ForgottenUploaded, Uploaded, serverVars
<1>6. wanted' = wanted
  BY <1>1 DEF serverVars
<1> QED BY <1>2, <1>3, <1>5, <1>6 DEF ProgressInv

LEMMA ManifestsProgress ==
  ASSUME UploadInv, ProgressInv, NEW r \in Requests, ManifestsAnswered(r) \/ ManifestsLost(r)
  PROVE  ProgressInv'
<1>1. /\ loop.pc = "manifests" /\ loop.req = r /\ cmds' = cmds /\ reopened' = reopened
      /\ UploadManifests(r, loop.work) \/ UNCHANGED serverVars
      /\ \/ /\ loop' = [loop EXCEPT !.pc = "load"]
            /\ UploadManifests(r, loop.work) /\ ManifestsAccepted(r, loop.work)
         \/ loop' = Failing
  BY LostServer, ManifestsHandled DEF ManifestsAnswered, ManifestsLost, netVars
<1>2. /\ loop.work \in SUBSET Manifest /\ r \in Created /\ cmds[r] # "completed" /\ loop \in LoopState
  BY <1>1, ClientPartsTyped DEF UploadInv, LoopInv, ClientTypeOK
<1>3. ServerKeeps(r) /\ ContentGrows
  BY <1>1, <1>2, ManifestsKeep, SameServerKeeps DEF UploadInv, CommandsInv
<1>4. CASE loop' = Failing
  <2>1. loop'.pc = "fail"
    BY <1>2, <1>4 DEF Failing, LoopState
  <2> QED BY <1>1, <1>2, <1>3, <2>1, ProgressResets
<1>5. CASE /\ loop' = [loop EXCEPT !.pc = "load"]
           /\ UploadManifests(r, loop.work) /\ ManifestsAccepted(r, loop.work)
  <2>1. loop'.pc = "load" /\ loop'.req = r /\ loop'.work = loop.work
    BY <1>1, <1>2, <1>5 DEF LoopState
  <2>2. ForgottenUploaded'
    BY <1>1, <1>2, <1>3, ForgottenStays
  <2>3. ASSUME r \notin overdue'
        PROVE  Sending(r, {})'
    <3>1. overdue' = overdue /\ loop.work \subseteq manifests'
      BY <1>2, <1>5, <2>3, ManifestsKeep DEF UploadInv
    <3>2. \A p \in wanted[r] : \E m \in loop.work : m.req = r /\ m.part = p
      BY <1>1, <2>3, <3>1 DEF ProgressInv
    <3>3. wanted'[r] = wanted[r]
      BY <1>2, <1>3 DEF ServerKeeps
    <3> QED BY <2>1, <3>1, <3>2, <3>3 DEF Sending
  <2> QED BY <2>1, <2>2, <2>3 DEF ProgressInv
<1> QED BY <1>1, <1>4, <1>5

LEMMA LoadProgress ==
  ASSUME UploadInv, ProgressInv, NEW m \in Manifest, LoadChunks(m)
  PROVE  ProgressInv'
<1>1. /\ loop.pc = "load" /\ m \in loop.work /\ UNCHANGED <<serverVars, reopened>> /\ cmds' = cmds
      /\ \/ loop' = [loop EXCEPT !.pc = "chunk", !.work = @ \ {m}, !.cur = <<m.obj, 1>>]
         \/ loop' = AtPoll
  BY DEF LoadChunks, netVars
<1>2. ServerKeeps(0) /\ ContentGrows /\ loop \in LoopState
  BY <1>1, SameServerKeeps DEF UploadInv, CommandsInv, ClientTypeOK
<1>3. CASE loop' = AtPoll
  <2>1. loop'.pc = "poll"
    BY <1>3 DEF AtPoll
  <2> QED BY <1>1, <1>2, <2>1, ProgressResets DEF Requests
<1>4. CASE loop' = [loop EXCEPT !.pc = "chunk", !.work = @ \ {m}, !.cur = <<m.obj, 1>>]
  <2>1. /\ loop'.pc = "chunk" /\ loop'.req = loop.req /\ loop'.work = loop.work \ {m}
        /\ loop'.cur = <<m.obj, 1>>
    BY <1>2, <1>4 DEF LoopState
  <2>2. loop'.cur[1] = m.obj /\ loop'.cur[2] = 1
    BY <2>1
  <2>3. ForgottenUploaded'
    BY <1>1, <1>2, ForgottenStays DEF Requests
  <2>4. ASSUME loop.req \notin overdue'
        PROVE  Sending(loop.req, {m.obj})'
    <3>1. Sending(loop.req, {})
      BY <1>1, <2>4 DEF ProgressInv, serverVars
    <3>2. wanted' = wanted /\ manifests' = manifests /\ links' = links
      BY <1>1 DEF serverVars
    <3> QED BY <2>1, <3>1, <3>2 DEF Sending
  <2>5. 1..(loop'.cur[2] - 1) = {}
    BY <2>2
  <2> QED BY <2>1, <2>2, <2>3, <2>4, <2>5 DEF ProgressInv
<1> QED BY <1>1, <1>3, <1>4

LEMMA ChunkProgress ==
  ASSUME UploadInv, ProgressInv, NEW r \in Requests, ChunkAnswered(r) \/ ChunkLost(r)
  PROVE  ProgressInv'
<1>0. PICK o, i : o = loop.cur[1] /\ i = loop.cur[2]
  OBVIOUS
<1>1. /\ loop.pc = "chunk" /\ loop.req = r /\ cmds' = cmds /\ reopened' = reopened
      /\ UploadChunk(r, o, i) \/ UNCHANGED serverVars
      /\ \/ loop' = ChunkSent /\ UploadChunk(r, o, i) /\ ChunkAccepted(r, o)
         \/ loop' = Failing
  BY <1>0, LostServer, ChunkHandled DEF ChunkAnswered, ChunkLost, netVars
<1>2. /\ o \in Objects /\ i \in AllPieces(o) /\ r \in Created
      /\ cmds[r] # "completed" /\ loop \in LoopState
  BY <1>0, <1>1 DEF UploadInv, LoopInv, ClientTypeOK
<1>3. ServerKeeps(r) /\ ContentGrows
  BY <1>1, <1>2, ChunkKeeps, SameServerKeeps DEF UploadInv, CommandsInv
<1>4. CASE loop' = Failing
  <2>1. loop'.pc = "fail"
    BY <1>2, <1>4 DEF Failing, LoopState
  <2> QED BY <1>1, <1>2, <1>3, <2>1, ProgressResets
<1>5. CASE loop' = ChunkSent /\ UploadChunk(r, o, i) /\ ChunkAccepted(r, o)
  <2>1. /\ loop'.req = r /\ loop'.work = loop.work
        /\ \/ loop'.pc = "chunk" /\ i < Pieces[o] /\ loop'.cur = <<o, i + 1>>
           \/ loop'.pc = "load" /\ i = Pieces[o]
           \/ loop'.pc = "result" /\ loop'.say = "stored" /\ i = Pieces[o] /\ loop.work = {}
    BY <1>0, <1>1, <1>5, ChunkSentCases DEF UploadInv
  <2>2. ForgottenUploaded'
    BY <1>1, <1>2, <1>3, ForgottenStays
  <2>3. CASE r \notin overdue'
    <3>1. /\ r \notin overdue
          /\ <<r, o, i>> \in chunks'
          /\ IsObjectComplete(r, o, chunks') => <<r, o>> \in links'
      BY <1>2, <1>5, <2>3, ChunkKeeps DEF UploadInv
    <3>2. /\ Sending(r, {o})
          /\ \A k \in 1..(i - 1) : <<r, o, k>> \in chunks
      BY <1>0, <1>1, <3>1 DEF ProgressInv
    <3>3. i \in Nat /\ i >= 1 /\ Pieces[o] \in Nat
      BY <1>2, ServerAssumption DEF AllPieces
    <3>4. \A k \in 1..i : <<r, o, k>> \in chunks'
      <4> SUFFICES ASSUME NEW k \in 1..i
                   PROVE  <<r, o, k>> \in chunks'
        OBVIOUS
      <4>1. k = i \/ k \in 1..(i - 1)
        BY <3>3
      <4> QED BY <1>3, <3>1, <3>2, <4>1 DEF ContentGrows
    <3>5. Sending(r, {o})'
      BY <1>2, <1>3, <2>1, <3>2, SendingStays
    <3>6. CASE loop'.pc = "chunk" /\ i < Pieces[o] /\ loop'.cur = <<o, i + 1>>
      <4>1. loop'.cur[1] = o /\ loop'.cur[2] = i + 1
        BY <3>6
      <4>2. 1..(loop'.cur[2] - 1) = 1..i
        BY <3>3, <4>1
      <4> QED BY <2>1, <2>2, <3>4, <3>5, <3>6, <4>1, <4>2 DEF ProgressInv
    <3>7. i = Pieces[o] => <<r, o>> \in links'
      BY <3>1, <3>4 DEF IsObjectComplete, AllPieces
    <3>8. CASE loop'.pc = "load" /\ i = Pieces[o]
      <4>1. Sending(r, {})'
        BY <3>5, <3>7, <3>8 DEF Sending
      <4> QED BY <2>1, <2>2, <3>8, <4>1 DEF ProgressInv
    <3>9. CASE loop'.pc = "result" /\ i = Pieces[o] /\ loop.work = {}
      <4>1. Uploaded(r)'
        BY <2>1, <3>5, <3>7, <3>9 DEF Sending, Uploaded
      <4> QED BY <2>1, <2>2, <3>9, <4>1 DEF ProgressInv
    <3> QED BY <2>1, <3>6, <3>8, <3>9
  <2>4. CASE r \in overdue'
    BY <2>1, <2>2, <2>4 DEF ProgressInv
  <2> QED BY <2>3, <2>4
<1> QED BY <1>1, <1>4, <1>5

LEMMA ResultProgress ==
  ASSUME UploadInv, ProgressInv, NEW r \in Requests, ResultAnswered(r) \/ ResultLost(r)
  PROVE  ProgressInv'
<1>1. /\ loop.pc = "result" /\ loop.req = r /\ cmds' = cmds /\ reopened' = reopened
      /\ UploadResult(r, loop.say) \/ UNCHANGED serverVars
      /\ loop' = [loop EXCEPT !.pc = "complete"] \/ loop' = AtPoll
  BY LostServer, ResultHandled DEF ResultAnswered, ResultLost, netVars
<1>2. r \in Created /\ cmds[r] # "completed" /\ loop \in LoopState
  BY <1>1 DEF UploadInv, LoopInv, ClientTypeOK
<1>3. ServerKeeps(r) /\ ContentGrows
  BY <1>1, <1>2, ResultKeeps, SameServerKeeps DEF UploadInv, CommandsInv
<1>4. CASE loop' = AtPoll
  <2>1. loop'.pc = "poll"
    BY <1>4 DEF AtPoll
  <2> QED BY <1>1, <1>2, <1>3, <2>1, ProgressResets
<1>5. CASE loop' = [loop EXCEPT !.pc = "complete"]
  <2>1. loop'.pc = "complete" /\ loop'.req = r /\ loop'.say = loop.say
    BY <1>1, <1>2, <1>5 DEF LoopState
  <2>2. ForgottenUploaded'
    BY <1>1, <1>2, <1>3, ForgottenStays
  <2>3. ASSUME r \notin overdue', loop.say = "stored"
        PROVE  Uploaded(r)'
    <3>1. r \notin overdue
      BY <1>3, <2>3 DEF ServerKeeps
    <3>2. Uploaded(r)
      BY <1>1, <2>3, <3>1 DEF ProgressInv
    <3> QED BY <1>2, <1>3, <3>2, UploadedStays
  <2> QED BY <2>1, <2>2, <2>3 DEF ProgressInv
<1> QED BY <1>1, <1>4, <1>5

LEMMA CompleteProgress ==
  ASSUME UploadInv, ProgressInv, NEW r \in Requests, CompleteCommand(r)
  PROVE  ProgressInv'
<1>1. /\ loop.pc = "complete" /\ loop.req = r /\ UNCHANGED <<serverVars, reopened>>
      /\ cmds' = [cmds EXCEPT ![r] = "completed"] /\ loop' = AtPoll
  BY DEF CompleteCommand, netVars
<1>2. status[r] = loop.say \/ r \in reopened
  BY <1>1 DEF UploadInv, LoopInv
<1>3. \A q \in Requests \ {r} : cmds'[q] = cmds[q]
  BY <1>1 DEF UploadInv, ClientTypeOK
<1>4. r \notin overdue \union reopened /\ status[r] = "stored" => Uploaded(r)
  BY <1>1, <1>2 DEF ProgressInv
<1>5. \A q \in Requests \ (overdue \union reopened) :
        cmds'[q] = "completed" /\ status[q] = "stored" => Uploaded(q)
  BY <1>3, <1>4 DEF ProgressInv, ForgottenUploaded
<1>6. loop'.pc = "poll"
  BY <1>1 DEF AtPoll
<1> QED BY <1>1, <1>5, <1>6 DEF ProgressInv, ForgottenUploaded, Uploaded, serverVars

LEMMA ProgressStep ==
  ASSUME NoEviction
  PROVE  UploadInv /\ ProgressInv /\ [Next]_vars => ProgressInv'
<1> SUFFICES ASSUME UploadInv, ProgressInv, [Next]_vars
             PROVE  ProgressInv'
  OBVIOUS
<1>0. 0 \notin Requests
  BY DEF Requests
<1>k. UNCHANGED serverVars => ServerKeeps(0) /\ ContentGrows
  BY SameServerKeeps DEF UploadInv, CommandsInv
<1>1. CASE PollAnswered \/ PollLost
  <2>1. /\ NextCommand \/ UNCHANGED serverVars
        /\ cmds' = cmds /\ reopened' = reopened
    BY <1>1, LostServer DEF PollAnswered, PollLost, clientVars, netVars, Handled
  <2>k. ServerKeeps(0) /\ ContentGrows
    BY <2>1, <1>k, NextCommandKeeps DEF UploadInv
  <2>2. loop'.pc \in {"poll", "save"}
    BY <1>1 DEF PollAnswered, PollLost, clientVars, AtPoll
  <2> QED BY <1>0, <2>1, <2>k, <2>2, ProgressResets
<1>2. CASE NothingDue \/ ClientRestart
  <2>1. UNCHANGED <<serverVars, reopened>> /\ cmds' = cmds /\ loop'.pc = "poll"
    BY <1>2 DEF NothingDue, ClientRestart, AtPoll, netVars
  <2> QED BY <1>0, <1>k, <2>1, ProgressResets
<1>3. CASE Raw \/ UNCHANGED vars \/ \E r \in Requests : BackoffElapsed(r)
  <2>1. UNCHANGED <<serverVars, reopened>> /\ cmds' = cmds /\ loop' = loop
    BY <1>3 DEF Raw, vars, clientVars, netVars, BackoffElapsed
  <2> QED BY <1>0, <1>k, <2>1, ProgressWaits
<1>l. ASSUME NEW post \in late, LateHandled(post)
      PROVE  ProgressInv'
  <2>1. PICK q : /\ ServerKeeps(q) /\ ContentGrows
                 /\ q \in Requests /\ status[q] \in Outcomes => q \in reopened'
                 /\ reopened \subseteq reopened'
    BY <1>l, LateServer
  <2>2. q \in Requests => cmds[q] # "completed" \/ q \in reopened'
    BY <2>1 DEF UploadInv, CommandsInv, CompletedOnBothSides, Outcomes
  <2>3. cmds' = cmds /\ loop' = loop
    BY <1>l DEF LateHandled, clientVars
  <2> QED BY <2>1, <2>2, <2>3, ProgressWaits
<1>4. ASSUME NEW r \in Requests, Admin(r)
      PROVE  ProgressInv'
  <2>1. /\ cmds' = cmds /\ loop' = loop /\ reopened' = reopened
        /\ \/ \E c \in Conversations, parts \in SUBSET Parts : CreateContentRequest(r, c, parts)
           \/ RequestExpires(r)
    BY <1>4 DEF Admin, clientVars, netVars
  <2>2. ServerKeeps(0) /\ ContentGrows
    BY <2>1, CreateKeeps, CreateGrows, ExpiresKeeps DEF UploadInv
  <2> QED BY <1>0, <2>1, <2>2, ProgressWaits
<1>5. ASSUME NEW r \in Requests, SaveCommand(r)
      PROVE  ProgressInv'
  <2>1. /\ UNCHANGED <<serverVars, reopened>> /\ loop.pc = "save" /\ loop' = [loop EXCEPT !.got = @ \ {r}]
        /\ cmds' = [cmds EXCEPT ![r] = IF @ = "none" THEN "pending" ELSE @]
    BY <1>5 DEF SaveCommand, netVars
  <2>2. loop'.pc = "save"
    BY <2>1 DEF UploadInv, ClientTypeOK, LoopState
  <2>3. \A q \in Requests : cmds'[q] = "completed" => cmds[q] = "completed"
    BY <2>1 DEF UploadInv, ClientTypeOK
  <2> QED BY <2>1, <2>2, <2>3 DEF ProgressInv, ForgottenUploaded, Uploaded, serverVars
<1>6. ASSUME NEW r \in Requests, PrepareExpired(r)
      PROVE  ProgressInv'
  <2>1. /\ UNCHANGED <<serverVars, reopened>> /\ cmds' = cmds
        /\ loop'.pc = "result" /\ loop'.say = "content_expired"
    BY <1>6 DEF PrepareExpired, AtPoll, netVars
  <2> QED BY <2>1 DEF ProgressInv, ForgottenUploaded, Uploaded, serverVars
<1>7. ASSUME NEW r \in Requests, FailCommand(r)
      PROVE  ProgressInv'
  <2>1. /\ UNCHANGED <<serverVars, reopened>> /\ cmds' = [cmds EXCEPT ![r] = "failed"]
        /\ loop'.pc = "poll"
    BY <1>7 DEF FailCommand, AtPoll, netVars
  <2>2. \A q \in Requests : cmds'[q] = "completed" => cmds[q] = "completed"
    BY <2>1 DEF UploadInv, ClientTypeOK
  <2> QED BY <2>1, <2>2 DEF ProgressInv, ForgottenUploaded, Uploaded, serverVars
<1> QED BY <1>1, <1>2, <1>3, <1>4, <1>5, <1>6, <1>7, <1>l, PrepareProgress, ManifestsProgress,
           LoadProgress, ChunkProgress, ResultProgress, CompleteProgress DEF Next

(* A request the client is done with and the server calls stored has all   *)
(* its parts, for any number of parts, objects, chunks and attempts, as    *)
(* long as no conversation can be evicted, the request has not expired and *)
(* no post of an abandoned attempt came after its outcome.                 *)
THEOREM StoredMeansUploaded ==
  ASSUME IsFiniteSet(Conversations)
  PROVE  Spec => []StoredIsUploaded
<1>1. CASE ~(Cardinality(Conversations) <= Limit)
  <2>1. StoredIsUploaded
    BY <1>1 DEF StoredIsUploaded
  <2> QED BY <2>1, PTL
<1>2. CASE Cardinality(Conversations) <= Limit
  <2>1. NoEviction
    BY <1>2 DEF NoEviction
  <2>2. Init => UploadInv /\ ProgressInv
    <3>1. Init => ProgressInv
      BY DEF Init, ProgressInv, ForgottenUploaded, AtPoll
    <3> QED BY <3>1, UploadInit
  <2>3. UploadInv /\ ProgressInv /\ [Next]_vars => UploadInv' /\ ProgressInv'
    BY <2>1, UploadStep, ProgressStep
  <2>4. ProgressInv => StoredIsUploaded
    BY DEF ProgressInv, ForgottenUploaded, StoredIsUploaded, Uploaded
  <2> QED BY <2>2, <2>3, <2>4, PTL DEF Spec
<1> QED BY <1>1, <1>2
=============================================================================
