---------------------------- MODULE ContentServer ----------------------------
(***************************************************************************)
(* The server's half of on-demand content: content requests and the        *)
(* commands that carry them to the client, the manifests and chunks the    *)
(* client uploads, the deduplicated content objects with their links, and  *)
(* the conversations whose content is kept.                                *)
(*                                                                         *)
(* The server's SQLite pool has one connection, so every handler's         *)
(* transaction is one action.  Here the handlers are called by any client  *)
(* in any order; ContentUpload puts the real one in front of them.         *)
(***************************************************************************)
EXTENDS Content

CONSTANTS
  Pieces,         \* chunks of an object's compressed file: what load_chunks sends
  Declared,       \* chunk_count of an object's manifest, from the uncompressed size
  Limit,          \* CONTENT_CONVERSATION_LIMIT
  PollLimit       \* commands handed out by one poll

ASSUME ServerAssumption ==
  /\ Pieces \in [Objects -> Nat \ {0}]
  /\ Declared \in [Objects -> Nat \ {0}]
  /\ Limit \in Nat \ {0}
  /\ PollLimit \in Nat \ {0}

VARIABLES
  convOf,     \* content_requests: the conversation of each request, or NoConv
  wanted,     \* content_requests.parts_json
  status,     \* content_requests.status
  command,    \* commands.status
  overdue,    \* requests whose expires_at_ms has passed
  listed,     \* content_conversations
  older,      \* pairs <<c, d>>: c was touched before d (last_requested_at_ms)
  manifests,  \* content_manifests
  chunks,     \* content_chunks as <<request, object, index>>
  links,      \* content_links as <<request, object>>
  objects     \* content_objects

contentVars == <<manifests, chunks, links, objects>>
serverVars ==
  <<convOf, wanted, status, command, overdue, listed, older, manifests, chunks, links, objects>>

Outcomes == {"stored", "content_expired", "rejected"}
Created == {r \in Requests : convOf[r] # NoConv}
AllPieces(o) == 1..Pieces[o]

ServerInit ==
  /\ convOf = [r \in Requests |-> NoConv]
  /\ wanted = [r \in Requests |-> {}]
  /\ status = [r \in Requests |-> "none"]
  /\ command = [r \in Requests |-> "none"]
  /\ overdue = {}
  /\ listed = {}
  /\ older = {}
  /\ manifests = {}
  /\ chunks = {}
  /\ links = {}
  /\ objects = {}

-----------------------------------------------------------------------------
(* The conversations in order of their last use. *)

(* touch_conversation: c becomes the most recent one. *)
TouchedList(c) == listed \union {c}

TouchedOrder(c) ==
  {p \in older : p[1] # c /\ p[2] # c} \union {<<d, c>> : d \in listed \ {c}}

(* Fault: one conversation more than the limit is left. *)
VictimsOffByOne(list, order) ==
  {c \in list : Cardinality({d \in list : <<c, d>> \in order}) > Limit}

(* The loop of evict_old_conversations deletes the oldest conversation     *)
(* until at most Limit are left: those with Limit or more newer ones go.   *)
Victims(list, order) ==
  {c \in list : Cardinality({d \in list : <<c, d>> \in order}) >= Limit}

(* Fault: objects of the evicted requests go although others link them. *)
EvictSharedObjects(victims) ==
  LET gone == {r \in Requests : convOf[r] \in victims}
      freed == {l[2] : l \in {l \in links : l[1] \in gone}} IN
  /\ manifests' = {m \in manifests : m.req \notin gone}
  /\ chunks' = {k \in chunks : k[1] \notin gone}
  /\ links' = {l \in links : l[1] \notin gone}
  /\ objects' = objects \ freed

(* evict_conversation for every victim: what its requests uploaded goes,   *)
(* and each of their objects that no remaining request links.              *)
EvictConversations(victims) ==
  LET gone == {r \in Requests : convOf[r] \in victims}
      freed == {l[2] : l \in {l \in links : l[1] \in gone}} IN
  /\ manifests' = {m \in manifests : m.req \notin gone}
  /\ chunks' = {k \in chunks : k[1] \notin gone}
  /\ links' = {l \in links : l[1] \notin gone}
  /\ objects' = objects \ {o \in freed : \A l \in links' : l[2] # o}

(* create_content_request_inner, which the admin API and the web form call. *)
CreateContentRequest(r, c, parts) ==
  LET list == TouchedList(c)
      order == TouchedOrder(c)
      victims == Victims(list, order) IN
  /\ r \notin Created
  /\ \A s \in 1..(r - 1) : s \in Created
  /\ parts # {}
  /\ listed' = list \ victims
  /\ older' = {p \in order : p[1] \notin victims /\ p[2] \notin victims}
  /\ EvictConversations(victims)
  /\ convOf' = [convOf EXCEPT ![r] = c]
  /\ wanted' = [wanted EXCEPT ![r] = parts]
  /\ status' = [status EXCEPT ![r] = "pending"]
  /\ command' = [command EXCEPT ![r] = "pending"]
  /\ UNCHANGED overdue

(* expires_at_ms passes. *)
RequestExpires(r) ==
  /\ r \in Created \ overdue
  /\ overdue' = overdue \union {r}
  /\ UNCHANGED <<convOf, wanted, status, command, listed, older>>
  /\ UNCHANGED contentVars

-----------------------------------------------------------------------------
(* The handlers the client calls. *)

PendingCommands == {r \in Requests : command[r] = "pending"}

(* The commands one poll returns: the oldest PollLimit pending ones. *)
Polled == {r \in PendingCommands : Cardinality({s \in PendingCommands : s < r}) < PollLimit}

(* next_command: the commands are marked dispatched and committed before   *)
(* the response is sent; nothing ever makes them pending again.            *)
NextCommand ==
  /\ command' = [r \in Requests |-> IF r \in Polled THEN "dispatched" ELSE command[r]]
  /\ UNCHANGED <<convOf, wanted, status, overdue, listed, older>>
  /\ UNCHANGED contentVars

(* Fault: commands.status is given the outcome of the request. *)
CompleteWithOutcome(r, outcome) ==
  /\ status' = [status EXCEPT ![r] = outcome]
  /\ command' = [command EXCEPT ![r] = outcome]

(* complete_request_and_command: unconditional. *)
CompleteRequestAndCommand(r, outcome) ==
  /\ status' = [status EXCEPT ![r] = outcome]
  /\ command' = [command EXCEPT ![r] = "completed"]

(* A request past its expiry is completed and answered with 200. *)
ExpireOnUpload(r) ==
  /\ r \in overdue
  /\ CompleteRequestAndCommand(r, "content_expired")
  /\ UNCHANGED <<convOf, wanted, overdue, listed, older>>
  /\ UNCHANGED contentVars

(* persist_manifest_row: another manifest of the same request and object   *)
(* is a conflict.                                                          *)
ManifestConflict(m) ==
  \E n \in manifests : n.req = m.req /\ n.obj = m.obj /\ n # m

ManifestsAccepted(r, ms) ==
  \/ r \in overdue
  \/ \A m \in ms : m.req = r /\ m.part \in wanted[r] /\ ~ManifestConflict(m)

(* upload_manifests. *)
UploadManifests(r, ms) ==
  /\ r \in Created
  /\ ms # {}
  /\ \/ ExpireOnUpload(r)
     \/ /\ r \notin overdue
        /\ manifests' = IF ManifestsAccepted(r, ms) THEN manifests \union ms ELSE manifests
        /\ UNCHANGED <<convOf, wanted, status, command, overdue, listed, older>>
        /\ UNCHANGED <<chunks, links, objects>>

HasManifest(r, o) == \E m \in manifests : m.req = r /\ m.obj = o

(* A chunk without a manifest, or with another chunk_count, is a conflict. *)
ChunkAccepted(r, o) ==
  r \in overdue \/ (HasManifest(r, o) /\ Declared[o] = Pieces[o])

(* Fault: an object is complete as soon as its last chunk has arrived. *)
CompleteOnLastChunk(r, o, stored) == <<r, o, Pieces[o]>> \in stored

(* is_object_complete: every index from the first to the last is stored. *)
IsObjectComplete(r, o, stored) == \A i \in AllPieces(o) : <<r, o, i>> \in stored

(* linked_object_count against the number of requested parts. *)
AllLinked(r) ==
  Cardinality({l \in links' : l[1] = r}) >= Cardinality(wanted[r])

(* Fault: the conversation is not touched when an object is linked. *)
StoreObjectUntouched(r, o) ==
  /\ objects' = objects \union {o}
  /\ links' = links \union {<<r, o>>}
  /\ UNCHANGED <<listed, older>>
  /\ IF AllLinked(r) THEN CompleteRequestAndCommand(r, "stored")
     ELSE status' = [status EXCEPT ![r] = "partial_upload"] /\ UNCHANGED command

(* The object is complete: store it, link it, touch the conversation - and *)
(* evict none - and complete the request when enough objects are linked.   *)
StoreObject(r, o) ==
  /\ objects' = objects \union {o}
  /\ links' = links \union {<<r, o>>}
  /\ listed' = TouchedList(convOf[r])
  /\ older' = TouchedOrder(convOf[r])
  /\ IF AllLinked(r) THEN CompleteRequestAndCommand(r, "stored")
     ELSE status' = [status EXCEPT ![r] = "partial_upload"] /\ UNCHANGED command

(* upload_chunk of piece i of object o. *)
UploadChunk(r, o, i) ==
  /\ r \in Created
  /\ \/ ExpireOnUpload(r)
     \/ /\ r \notin overdue /\ ~ChunkAccepted(r, o)
        /\ UNCHANGED serverVars
     \/ /\ r \notin overdue /\ ChunkAccepted(r, o)
        /\ chunks' = chunks \union {<<r, o, i>>}
        /\ \/ /\ IsObjectComplete(r, o, chunks')
              /\ StoreObject(r, o)
           \/ /\ ~IsObjectComplete(r, o, chunks')
              /\ UNCHANGED <<status, command, listed, older, links, objects>>
        /\ UNCHANGED <<convOf, wanted, overdue, manifests>>

(* upload_result: whatever the client says, whatever the state is. *)
UploadResult(r, outcome) ==
  /\ r \in Created
  /\ CompleteRequestAndCommand(r, outcome)
  /\ UNCHANGED <<convOf, wanted, overdue, listed, older>>
  /\ UNCHANGED contentVars

-----------------------------------------------------------------------------
ServerNext ==
  \/ NextCommand
  \/ \E r \in Requests :
       \/ \E c \in Conversations, parts \in SUBSET Parts : CreateContentRequest(r, c, parts)
       \/ RequestExpires(r)
       \/ \E m \in Manifest : UploadManifests(r, {m})
       \/ \E o \in Objects : \E i \in AllPieces(o) : UploadChunk(r, o, i)
       \/ \E outcome \in Outcomes : UploadResult(r, outcome)

ServerSpec == ServerInit /\ [][ServerNext]_serverVars

-----------------------------------------------------------------------------
(* The rows of the content tables; links and expiry times belong to        *)
(* requests that were created.                                             *)
ServerTypeOK ==
  /\ convOf \in [Requests -> Conversations \union {NoConv}]
  /\ wanted \in [Requests -> SUBSET Parts]
  /\ status \in [Requests -> {"none", "pending", "partial_upload"} \union Outcomes]
  /\ command \in [Requests -> {"none", "pending", "dispatched", "completed"}]
  /\ overdue \subseteq Created
  /\ listed \subseteq Conversations
  /\ older \subseteq listed \X listed
  /\ manifests \subseteq Manifest
  /\ chunks \subseteq {k \in Requests \X Objects \X Nat : k[3] \in AllPieces(k[2])}
  /\ links \subseteq Created \X Objects
  /\ objects \subseteq Objects

(* Stored content is always reachable for eviction: a link belongs to a    *)
(* listed conversation, so evict_conversation will find it.                *)
LinkedConversationTracked == \A l \in links : convOf[l[1]] \in listed

(* Deduplicated objects are stored exactly as long as some request links   *)
(* them: none is lost to another conversation's eviction, none leaks.      *)
ObjectsReferenced == objects = {l[2] : l \in links}

(* A linked object arrived completely, under a manifest of that request:   *)
(* assemble_object never joined a partial or a mixed set of chunks.        *)
LinkedIsComplete ==
  \A l \in links :
    /\ HasManifest(l[1], l[2])
    /\ Declared[l[2]] = Pieces[l[2]]
    /\ \A i \in AllPieces(l[2]) : <<l[1], l[2], i>> \in chunks

(* A request with an outcome is never handed out or left open as a command *)
(* (complete_request_and_command updates both tables together).            *)
OutcomeClosesCommand ==
  \A r \in Requests :
    status[r] \in Outcomes => command[r] = "completed"

(* The order in which evict_old_conversations finds its victims is a       *)
(* strict total order of the listed conversations.                         *)
RecencyTotal ==
  /\ \A c, d \in listed : c = d \/ <<c, d>> \in older \/ <<d, c>> \in older
  /\ \A c, d \in listed : <<c, d>> \in older => <<d, c>> \notin older
  /\ \A c, d, e \in listed :
       <<c, d>> \in older /\ <<d, e>> \in older => <<c, e>> \in older

(* A new request brings the stored content back within the limit and keeps *)
(* its own conversation, however many evicted ones late uploads had listed *)
(* again (create_content_request_inner, evict_old_conversations).          *)
EvictionRestoresLimit ==
  [][\A r \in Requests : convOf[r] = NoConv /\ convOf'[r] # NoConv =>
       /\ convOf'[r] \in listed'
       /\ Cardinality({convOf'[l[1]] : l \in links'} \union {convOf'[r]}) <= Limit]_serverVars
=============================================================================
