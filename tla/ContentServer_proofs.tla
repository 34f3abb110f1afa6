------------------------ MODULE ContentServer_proofs ------------------------
(***************************************************************************)
(* What the content tables of the server guarantee for every number of     *)
(* requests, conversations and objects, and for any client.                *)
(***************************************************************************)
EXTENDS ContentServer, FiniteSetTheorems, WellFoundedInduction, TLAPS

(* The invariant.  Each part needs the types; LinkedConversationTracked    *)
(* and LinkedIsComplete also need that links belong to created requests,   *)
(* which the types say.                                                    *)
ServerInv ==
  /\ ServerTypeOK
  /\ LinkedConversationTracked
  /\ ObjectsReferenced
  /\ LinkedIsComplete
  /\ OutcomeClosesCommand
  /\ RecencyTotal

(* The request table before any request exists satisfies the invariant. *)
LEMMA ServerInitInv == ServerInit => ServerInv
BY ContentAssumption, ServerAssumption
   DEF ServerInit, ServerInv, ServerTypeOK, LinkedConversationTracked, ObjectsReferenced,
       LinkedIsComplete, OutcomeClosesCommand, RecencyTotal, Created, Outcomes

(* Touching keeps the order of use a strict total order. *)
LEMMA TouchTotal ==
  ASSUME RecencyTotal, older \subseteq listed \X listed, NEW c
  PROVE  LET list == TouchedList(c)
             order == TouchedOrder(c)
         IN /\ order \subseteq list \X list
            /\ \A d, e \in list : d = e \/ <<d, e>> \in order \/ <<e, d>> \in order
            /\ \A d, e \in list : <<d, e>> \in order => <<e, d>> \notin order
            /\ \A d, e, f \in list :
                 <<d, e>> \in order /\ <<e, f>> \in order => <<d, f>> \in order
<1> DEFINE list == TouchedList(c)
           order == TouchedOrder(c)
<1>1. \A d, e : <<d, e>> \in order <=>
                  \/ <<d, e>> \in older /\ d # c /\ e # c
                  \/ e = c /\ d \in listed /\ d # c
  BY DEF TouchedOrder
<1>2. list = listed \union {c}
  BY DEF TouchedList
<1>3. order \subseteq list \X list
  BY <1>2 DEF TouchedOrder
<1> HIDE DEF list, order
<1>4. \A d, e \in list : d = e \/ <<d, e>> \in order \/ <<e, d>> \in order
  BY <1>1, <1>2 DEF RecencyTotal
<1>5. \A d, e \in list : <<d, e>> \in order => <<e, d>> \notin order
  BY <1>1, <1>2 DEF RecencyTotal
<1>6. \A d, e, f \in list : <<d, e>> \in order /\ <<e, f>> \in order => <<d, f>> \in order
  BY <1>1, <1>2 DEF RecencyTotal
<1> QED BY <1>3, <1>4, <1>5, <1>6 DEF list, order

(* Handlers that write only the request and command rows. *)
LEMMA StatusStepInv ==
  ASSUME ServerInv, OutcomeClosesCommand',
         status' \in [Requests -> {"none", "pending", "partial_upload"} \union Outcomes],
         command' \in [Requests -> {"none", "pending", "dispatched", "completed"}],
         overdue' \subseteq Created,
         UNCHANGED <<convOf, wanted, listed, older>>, UNCHANGED contentVars
  PROVE  ServerInv'
<1>1. ServerTypeOK'
  BY DEF ServerInv, ServerTypeOK, contentVars, Created
<1>2. LinkedConversationTracked' /\ ObjectsReferenced'
  BY DEF ServerInv, LinkedConversationTracked, ObjectsReferenced, contentVars
<1>3. LinkedIsComplete'
  BY DEF ServerInv, LinkedIsComplete, HasManifest, contentVars
<1>4. RecencyTotal'
  BY DEF ServerInv, RecencyTotal
<1> QED BY <1>1, <1>2, <1>3, <1>4 DEF ServerInv

(* complete_request_and_command closes both rows. *)
LEMMA CompleteInv ==
  ASSUME ServerInv, NEW r \in Requests, NEW outcome \in Outcomes,
         CompleteRequestAndCommand(r, outcome)
  PROVE  /\ OutcomeClosesCommand'
         /\ status' \in [Requests -> {"none", "pending", "partial_upload"} \union Outcomes]
         /\ command' \in [Requests -> {"none", "pending", "dispatched", "completed"}]
BY DEF ServerInv, ServerTypeOK, OutcomeClosesCommand, CompleteRequestAndCommand

(* An upload past the expiry of its request. *)
LEMMA ExpireInv ==
  ASSUME ServerInv, NEW r \in Requests, ExpireOnUpload(r)
  PROVE  ServerInv'
<1>1. "content_expired" \in Outcomes
  BY DEF Outcomes
<1>2. overdue' \subseteq Created
  BY DEF ServerInv, ServerTypeOK, ExpireOnUpload
<1> QED BY <1>1, <1>2, CompleteInv, StatusStepInv DEF ExpireOnUpload

(* next_command, the passing of time and upload_result. *)
LEMMA NextCommandInv == ServerInv /\ NextCommand => ServerInv'
<1> SUFFICES ASSUME ServerInv, NextCommand PROVE ServerInv'
  OBVIOUS
<1>1. OutcomeClosesCommand'
  BY DEF ServerInv, ServerTypeOK, OutcomeClosesCommand, NextCommand, Polled, PendingCommands
<1>2. command' \in [Requests -> {"none", "pending", "dispatched", "completed"}]
  BY DEF ServerInv, ServerTypeOK, NextCommand
<1> QED BY <1>1, <1>2, StatusStepInv DEF ServerInv, ServerTypeOK, NextCommand

(* The passing of a request's expiry time changes `overdue` alone. *)
LEMMA RequestExpiresInv ==
  ASSUME ServerInv, NEW r \in Requests, RequestExpires(r)
  PROVE  ServerInv'
<1>1. OutcomeClosesCommand' /\ overdue' \subseteq Created
  BY DEF ServerInv, ServerTypeOK, OutcomeClosesCommand, RequestExpires
<1> QED BY <1>1, StatusStepInv DEF ServerInv, ServerTypeOK, RequestExpires

(* upload_result closes the request and its command, nothing else. *)
LEMMA UploadResultInv ==
  ASSUME ServerInv, NEW r \in Requests, NEW outcome \in Outcomes, UploadResult(r, outcome)
  PROVE  ServerInv'
<1>1. overdue' \subseteq Created
  BY DEF ServerInv, ServerTypeOK, UploadResult
<1> QED BY <1>1, CompleteInv, StatusStepInv DEF UploadResult

(* upload_manifests adds rows to content_manifests at most. *)
LEMMA UploadManifestsInv ==
  ASSUME ServerInv, NEW r \in Requests, NEW ms \in SUBSET Manifest, UploadManifests(r, ms)
  PROVE  ServerInv'
<1>1. CASE ExpireOnUpload(r)
  BY <1>1, ExpireInv
<1>2. CASE ~ExpireOnUpload(r)
  <2>1. /\ manifests \subseteq manifests'
        /\ manifests' \subseteq Manifest
        /\ UNCHANGED <<convOf, wanted, status, command, overdue, listed, older>>
        /\ UNCHANGED <<chunks, links, objects>>
    BY <1>2 DEF UploadManifests, ServerInv, ServerTypeOK
  <2>2. ServerTypeOK'
    BY <2>1 DEF ServerInv, ServerTypeOK, Created
  <2>3. LinkedIsComplete'
    BY <2>1 DEF ServerInv, LinkedIsComplete, HasManifest
  <2>4. LinkedConversationTracked' /\ ObjectsReferenced' /\ OutcomeClosesCommand' /\ RecencyTotal'
    BY <2>1 DEF ServerInv, LinkedConversationTracked, ObjectsReferenced, OutcomeClosesCommand,
                RecencyTotal
  <2> QED BY <2>2, <2>3, <2>4 DEF ServerInv
<1> QED BY <1>1, <1>2

(* upload_chunk: an object is linked only together with its last chunk,    *)
(* and its conversation is listed from then on.                            *)
LEMMA UploadChunkInv ==
  ASSUME ServerInv, NEW r \in Requests, NEW o \in Objects, NEW i \in AllPieces(o),
         UploadChunk(r, o, i)
  PROVE  ServerInv'
<1>1. CASE ExpireOnUpload(r)
  BY <1>1, ExpireInv
<1>2. CASE UNCHANGED serverVars
  <2>1. ServerTypeOK' /\ LinkedConversationTracked' /\ ObjectsReferenced'
    BY <1>2 DEF ServerInv, ServerTypeOK, LinkedConversationTracked, ObjectsReferenced,
                serverVars, Created
  <2>2. LinkedIsComplete' /\ OutcomeClosesCommand' /\ RecencyTotal'
    BY <1>2 DEF ServerInv, LinkedIsComplete, HasManifest, OutcomeClosesCommand, RecencyTotal,
                serverVars
  <2> QED BY <2>1, <2>2 DEF ServerInv
<1>3. CASE /\ r \notin overdue /\ ChunkAccepted(r, o)
           /\ chunks' = chunks \union {<<r, o, i>>}
           /\ UNCHANGED <<convOf, wanted, overdue, manifests>>
           /\ \/ IsObjectComplete(r, o, chunks') /\ StoreObject(r, o)
              \/ UNCHANGED <<status, command, listed, older, links, objects>>
  <2>1. /\ r \in Created
        /\ convOf[r] \in Conversations
        /\ HasManifest(r, o) /\ Declared[o] = Pieces[o]
    BY <1>3 DEF UploadChunk, ChunkAccepted, Created, ServerInv, ServerTypeOK
  <2>2. chunks' \subseteq {k \in Requests \X Objects \X Nat : k[3] \in AllPieces(k[2])}
    BY <1>3, ServerAssumption DEF ServerInv, ServerTypeOK, AllPieces
  <2>3. CASE UNCHANGED <<status, command, listed, older, links, objects>>
    <3>1. ServerTypeOK' /\ LinkedConversationTracked' /\ ObjectsReferenced'
      BY <1>3, <2>2, <2>3 DEF ServerInv, ServerTypeOK, LinkedConversationTracked,
                              ObjectsReferenced, Created
    <3>2. LinkedIsComplete' /\ OutcomeClosesCommand' /\ RecencyTotal'
      BY <1>3, <2>3 DEF ServerInv, LinkedIsComplete, HasManifest, OutcomeClosesCommand,
                        RecencyTotal
    <3> QED BY <3>1, <3>2 DEF ServerInv
  <2>4. CASE IsObjectComplete(r, o, chunks') /\ StoreObject(r, o)
    <3>1. /\ objects' = objects \union {o}
          /\ links' = links \union {<<r, o>>}
          /\ listed' = TouchedList(convOf[r])
          /\ older' = TouchedOrder(convOf[r])
      BY <2>4 DEF StoreObject
    <3>2. older' \subseteq listed' \X listed' /\ RecencyTotal'
      BY <3>1, TouchTotal DEF ServerInv, ServerTypeOK, RecencyTotal
    <3>3. /\ OutcomeClosesCommand'
          /\ status' \in [Requests -> {"none", "pending", "partial_upload"} \union Outcomes]
          /\ command' \in [Requests -> {"none", "pending", "dispatched", "completed"}]
      <4>1. CASE AllLinked(r)
        BY <2>4, <4>1, CompleteInv DEF StoreObject, Outcomes
      <4>2. CASE ~AllLinked(r)
        BY <2>4, <4>2 DEF StoreObject, ServerInv, ServerTypeOK, OutcomeClosesCommand, Outcomes
      <4> QED BY <4>1, <4>2
    <3>4. ServerTypeOK'
      BY <1>3, <2>1, <2>2, <3>1, <3>2, <3>3 DEF ServerInv, ServerTypeOK, Created, TouchedList
    <3>5. LinkedConversationTracked'
      BY <1>3, <3>1 DEF ServerInv, LinkedConversationTracked, TouchedList
    <3>7. ObjectsReferenced'
      <4>1. <<r, o>>[2] = o
        OBVIOUS
      <4> QED BY <3>1, <4>1 DEF ServerInv, ObjectsReferenced
    <3>6. LinkedIsComplete'
      BY <1>3, <2>1, <2>4, <3>1 DEF ServerInv, LinkedIsComplete, HasManifest, IsObjectComplete
    <3> QED BY <3>2, <3>3, <3>4, <3>5, <3>6, <3>7 DEF ServerInv
  <2> QED BY <1>3, <2>3, <2>4
<1> QED BY <1>1, <1>2, <1>3 DEF UploadChunk

(* create_content_request_inner: what is evicted goes completely, what     *)
(* other requests share stays.                                             *)
LEMMA CreateInv ==
  ASSUME ServerInv, NEW r \in Requests, NEW c \in Conversations, NEW parts \in SUBSET Parts,
         CreateContentRequest(r, c, parts)
  PROVE  ServerInv'
<1> DEFINE list == TouchedList(c)
           order == TouchedOrder(c)
           victims == Victims(list, order)
           gone == {q \in Requests : convOf[q] \in victims}
<1>1. /\ r \notin Created
      /\ listed' = list \ victims
      /\ older' = {p \in order : p[1] \notin victims /\ p[2] \notin victims}
      /\ manifests' = {m \in manifests : m.req \notin gone}
      /\ chunks' = {k \in chunks : k[1] \notin gone}
      /\ links' = {l \in links : l[1] \notin gone}
      /\ objects' = objects \ {o \in {l[2] : l \in {l \in links : l[1] \in gone}} :
                                 \A l \in links' : l[2] # o}
      /\ convOf' = [convOf EXCEPT ![r] = c]
      /\ wanted' = [wanted EXCEPT ![r] = parts]
      /\ status' = [status EXCEPT ![r] = "pending"]
      /\ command' = [command EXCEPT ![r] = "pending"]
      /\ overdue' = overdue
  BY DEF CreateContentRequest, EvictConversations
<1>2. list \subseteq Conversations /\ listed \subseteq list
  BY DEF TouchedList, ServerInv, ServerTypeOK
<1>3. RecencyTotal' /\ older' \subseteq listed' \X listed'
  <2>1. /\ order \subseteq list \X list
        /\ \A d, e \in list : d = e \/ <<d, e>> \in order \/ <<e, d>> \in order
        /\ \A d, e \in list : <<d, e>> \in order => <<e, d>> \notin order
        /\ \A d, e, f \in list : <<d, e>> \in order /\ <<e, f>> \in order => <<d, f>> \in order
    BY TouchTotal DEF ServerInv, ServerTypeOK
  <2> HIDE DEF list, order, victims
  <2>2. \A d, e : <<d, e>> \in older' <=> <<d, e>> \in order /\ d \notin victims /\ e \notin victims
    BY <1>1
  <2>3. RecencyTotal'
    BY <1>1, <2>1, <2>2 DEF RecencyTotal
  <2>4. older' \subseteq listed' \X listed'
    BY <1>1, <2>1
  <2> QED BY <2>3, <2>4
<1> HIDE DEF list, order, victims
<1>4. Created' = Created \union {r}
  BY <1>1, ContentAssumption DEF Created, ServerInv, ServerTypeOK
<1>5. \A l \in links : l[1] \in Requests /\ l[1] # r /\ l[1] \in Created
  BY <1>1 DEF ServerInv, ServerTypeOK, Created
<1>6. ServerTypeOK'
  BY <1>1, <1>2, <1>3, <1>4, <1>5 DEF ServerInv, ServerTypeOK
<1>7. LinkedConversationTracked'
  BY <1>1, <1>2, <1>5 DEF ServerInv, LinkedConversationTracked, ServerTypeOK
<1>8. ObjectsReferenced'
  BY <1>1 DEF ServerInv, ObjectsReferenced
<1>9. LinkedIsComplete'
  BY <1>1, <1>5 DEF ServerInv, LinkedIsComplete, HasManifest, ServerTypeOK
<1>10. OutcomeClosesCommand'
  BY <1>1 DEF ServerInv, OutcomeClosesCommand, ServerTypeOK, Outcomes
<1> QED BY <1>3, <1>6, <1>7, <1>8, <1>9, <1>10 DEF ServerInv

(* Every step preserves the invariant. *)
LEMMA ServerNextInv == ServerInv /\ [ServerNext]_serverVars => ServerInv'
<1> SUFFICES ASSUME ServerInv, [ServerNext]_serverVars PROVE ServerInv'
  OBVIOUS
<1>1. CASE NextCommand
  BY <1>1, NextCommandInv
<1>2. ASSUME NEW r \in Requests, NEW c \in Conversations, NEW parts \in SUBSET Parts,
             CreateContentRequest(r, c, parts)
      PROVE  ServerInv'
  BY <1>2, CreateInv
<1>3. ASSUME NEW r \in Requests, RequestExpires(r) PROVE ServerInv'
  BY <1>3, RequestExpiresInv
<1>4. ASSUME NEW r \in Requests, NEW m \in Manifest, UploadManifests(r, {m}) PROVE ServerInv'
  BY <1>4, UploadManifestsInv
<1>5. ASSUME NEW r \in Requests, NEW o \in Objects, NEW i \in AllPieces(o), UploadChunk(r, o, i)
      PROVE  ServerInv'
  BY <1>5, UploadChunkInv
<1>6. ASSUME NEW r \in Requests, NEW outcome \in Outcomes, UploadResult(r, outcome)
      PROVE  ServerInv'
  BY <1>6, UploadResultInv
<1>7. CASE UNCHANGED serverVars
  <2>1. ServerTypeOK' /\ LinkedConversationTracked' /\ ObjectsReferenced'
    BY <1>7 DEF ServerInv, ServerTypeOK, LinkedConversationTracked, ObjectsReferenced,
                serverVars, Created
  <2>2. LinkedIsComplete' /\ OutcomeClosesCommand' /\ RecencyTotal'
    BY <1>7 DEF ServerInv, LinkedIsComplete, HasManifest, OutcomeClosesCommand, RecencyTotal,
                serverVars
  <2> QED BY <2>1, <2>2 DEF ServerInv
<1> QED BY <1>1, <1>2, <1>3, <1>4, <1>5, <1>6, <1>7 DEF ServerNext

(* The content tables keep their invariant, whatever clients post. *)
THEOREM ServerInvariance == ServerSpec => []ServerInv
BY ServerInitInv, ServerNextInv, PTL DEF ServerSpec

(* Types of the content tables. *)
THEOREM ServerTypeCorrect == ServerSpec => []ServerTypeOK
<1>1. ServerInv => ServerTypeOK
  BY DEF ServerInv
<1> QED BY <1>1, ServerInvariance, PTL

(* Every link is found by a later eviction of its conversation. *)
THEOREM LinksTracked == ServerSpec => []LinkedConversationTracked
<1>1. ServerInv => LinkedConversationTracked
  BY DEF ServerInv
<1> QED BY <1>1, ServerInvariance, PTL

(* Garbage collection is exact: no shared object is deleted, none leaks. *)
THEOREM GarbageCollectionExact == ServerSpec => []ObjectsReferenced
<1>1. ServerInv => ObjectsReferenced
  BY DEF ServerInv
<1> QED BY <1>1, ServerInvariance, PTL

(* Only objects that arrived completely are linked. *)
THEOREM LinksComplete == ServerSpec => []LinkedIsComplete
<1>1. ServerInv => LinkedIsComplete
  BY DEF ServerInv
<1> QED BY <1>1, ServerInvariance, PTL

(* An outcome closes the command that carried the request. *)
THEOREM OutcomesClose == ServerSpec => []OutcomeClosesCommand
<1>1. ServerInv => OutcomeClosesCommand
  BY DEF ServerInv
<1> QED BY <1>1, ServerInvariance, PTL

(* Eviction always has a well-defined oldest conversation. *)
THEOREM RecencyIsOrder == ServerSpec => []RecencyTotal
<1>1. ServerInv => RecencyTotal
  BY DEF ServerInv
<1> QED BY <1>1, ServerInvariance, PTL

-----------------------------------------------------------------------------
(* Eviction keeps the limit: counting the conversations that are left. *)

(* A set of numbers has a least one. *)
LEMMA LeastOfNumbers ==
  ASSUME NEW D, D \subseteq Nat, D # {}
  PROVE  \E d \in D : \A m \in D : d <= m
<1> DEFINE R == OpToRel(<, Nat)
<1>1. IsWellFoundedOn(R, Nat)
  BY NatLessThanWellFounded
<1>2. \A m, k \in Nat : m < k => <<m, k>> \in R
  BY DEF OpToRel
<1> HIDE DEF R
<1>3. PICK d \in D : \A m \in D : ~(<<m, d>> \in R)
  BY <1>1, WFMin
<1>4. ASSUME NEW m \in D
      PROVE  d <= m
  <2>1. m \in Nat /\ d \in Nat /\ ~(<<m, d>> \in R)
    BY <1>3
  <2>2. ~(m < d)
    BY <1>2, <2>1
  <2> QED BY <2>1, <2>2
<1> QED BY <1>4

Newer(c, list, order) == {d \in list : <<c, d>> \in order}

(* Of a finite list at most Limit conversations survive: the survivor that *)
(* has most newer ones is older than all other survivors.                  *)
LEMMA FewSurvive ==
  ASSUME NEW list, IsFiniteSet(list), NEW order,
         \A d, e \in list : d = e \/ <<d, e>> \in order \/ <<e, d>> \in order,
         \A d, e \in list : <<d, e>> \in order => <<e, d>> \notin order,
         \A d, e, f \in list : <<d, e>> \in order /\ <<e, f>> \in order => <<d, f>> \in order
  PROVE  /\ IsFiniteSet(list \ Victims(list, order))
         /\ Cardinality(list \ Victims(list, order)) <= Limit
<1> DEFINE left == list \ Victims(list, order)
           N(c) == Cardinality(Newer(c, list, order))
           D == {Limit - N(c) : c \in left}
<1>1. Limit \in Nat \ {0}
  BY ServerAssumption
<1>2. \A c : IsFiniteSet(Newer(c, list, order)) /\ N(c) \in Nat
  BY FS_Subset, FS_CardinalityType DEF Newer
<1>3. \A c \in left : c \in list /\ N(c) < Limit
  <2> SUFFICES ASSUME NEW c \in left PROVE c \in list /\ N(c) < Limit
    OBVIOUS
  <2>1. c \in list /\ ~(Cardinality({d \in list : <<c, d>> \in order}) >= Limit)
    BY DEF Victims
  <2>2. N(c) \in Nat /\ ~(N(c) >= Limit)
    BY <1>2, <2>1 DEF Newer
  <2> HIDE DEF N
  <2> QED BY <1>1, <2>1, <2>2
<1>4. IsFiniteSet(left)
  BY FS_Difference
<1> HIDE DEF left, N
<1>5. CASE left = {}
  BY <1>1, <1>4, <1>5, FS_EmptySet DEF left
<1>6. CASE left # {}
  <2>1. D \subseteq Nat /\ D # {}
    BY <1>1, <1>2, <1>3, <1>6 DEF N
  <2>2. PICK k \in D : \A m \in D : k <= m
    <3> HIDE DEF D
    <3> QED BY <2>1, LeastOfNumbers
  <2>3. PICK c \in left : k = Limit - N(c)
    OBVIOUS
  <2>4. ASSUME NEW d \in left
        PROVE  N(d) <= N(c)
    <3>1. k <= Limit - N(d)
      BY <2>2
    <3> QED BY <1>1, <1>2, <2>3, <3>1 DEF N
  <2>5. ASSUME NEW d \in left, d # c
        PROVE  d \in Newer(c, list, order)
    <3>1. CASE <<d, c>> \in order
      <4>1. c \notin Newer(c, list, order)
        BY <1>3 DEF Newer
      <4>2. Newer(c, list, order) \union {c} \subseteq Newer(d, list, order)
        BY <1>3, <3>1 DEF Newer
      <4>3. Cardinality(Newer(c, list, order) \union {c}) = N(c) + 1
        BY <1>2, <4>1, FS_AddElement DEF N
      <4>4. Cardinality(Newer(c, list, order) \union {c}) <= N(d)
        BY <1>2, <4>2, FS_Subset DEF N
      <4> QED BY <1>2, <2>4, <4>3, <4>4 DEF N
    <3> QED BY <1>3, <2>5, <3>1 DEF Newer
  <2>6. left \subseteq Newer(c, list, order) \union {c}
    BY <2>5
  <2>7. /\ IsFiniteSet(Newer(c, list, order) \union {c})
        /\ Cardinality(Newer(c, list, order) \union {c}) <= N(c) + 1
        /\ Cardinality(Newer(c, list, order) \union {c}) \in Nat
    <3>1. PICK newer : newer = Newer(c, list, order)
      OBVIOUS
    <3>2. IsFiniteSet(newer) /\ Cardinality(newer) = N(c) /\ N(c) \in Nat
      BY <1>2, <3>1 DEF N
    <3>3. /\ IsFiniteSet(newer \union {c})
          /\ Cardinality(newer \union {c}) = Cardinality(newer) + 1
               \/ Cardinality(newer \union {c}) = Cardinality(newer)
      BY <3>2, FS_AddElement
    <3> QED BY <3>1, <3>2, <3>3
  <2>8. Cardinality(left) <= Cardinality(Newer(c, list, order) \union {c})
    BY <2>6, <2>7, FS_Subset
  <2>9. Cardinality(left) <= Limit
    <3>1. Cardinality(left) \in Nat /\ N(c) \in Nat /\ N(c) < Limit
      BY <1>2, <1>3, <1>4, FS_CardinalityType DEF N
    <3> QED BY <1>1, <2>7, <2>8, <3>1
  <2> QED BY <1>4, <2>9 DEF left
<1> QED BY <1>5, <1>6

(* Conversations are listed one at a time, so that there are finitely many. *)
LEMMA ListedFinite == IsFiniteSet(listed) /\ [ServerNext]_serverVars => IsFiniteSet(listed)'
<1> SUFFICES ASSUME IsFiniteSet(listed), [ServerNext]_serverVars PROVE IsFiniteSet(listed')
  OBVIOUS
<1>1. \A c : IsFiniteSet(TouchedList(c))
  BY FS_AddElement DEF TouchedList
<1>2. listed' = listed \/ \E c : listed' \subseteq TouchedList(c)
  BY DEF ServerNext, serverVars, NextCommand, CreateContentRequest, RequestExpires, UploadManifests,
         UploadChunk, StoreObject, UploadResult, ExpireOnUpload
<1> QED BY <1>1, <1>2, FS_Subset

(* create_content_request_inner with evict_old_conversations: at most      *)
(* Limit conversations have content afterwards, the new request's own      *)
(* among them.                                                             *)
LEMMA CreateKeepsLimit ==
  ASSUME ServerInv, ServerInv', IsFiniteSet(listed),
         NEW r \in Requests, NEW c \in Conversations, NEW parts \in SUBSET Parts,
         CreateContentRequest(r, c, parts)
  PROVE  /\ c \in listed' /\ convOf' = [convOf EXCEPT ![r] = c] /\ convOf'[r] = c
         /\ Cardinality({convOf'[l[1]] : l \in links'} \union {c}) <= Limit
<1> DEFINE list == TouchedList(c)
           order == TouchedOrder(c)
<1>1. /\ listed' = list \ Victims(list, order) /\ convOf' = [convOf EXCEPT ![r] = c]
      /\ convOf'[r] = c
  BY DEF CreateContentRequest, ServerInv, ServerTypeOK
<1>2. IsFiniteSet(list)
  BY FS_AddElement DEF TouchedList
<1>3. /\ \A d, e \in list : d = e \/ <<d, e>> \in order \/ <<e, d>> \in order
      /\ \A d, e \in list : <<d, e>> \in order => <<e, d>> \notin order
      /\ \A d, e, f \in list :
           <<d, e>> \in order /\ <<e, f>> \in order => <<d, f>> \in order
  BY TouchTotal DEF ServerInv, ServerTypeOK
<1>4. c \in list /\ {d \in list : <<c, d>> \in order} = {}
  <2>1. c \in list
    BY DEF TouchedList
  <2>2. \A d \in list : <<c, d>> \notin order
    BY DEF TouchedOrder, TouchedList
  <2> QED BY <2>1, <2>2
<1> HIDE DEF list, order
<1>5. c \in listed'
  BY <1>1, <1>4, FS_EmptySet, ServerAssumption DEF Victims
<1>6. IsFiniteSet(listed') /\ Cardinality(listed') <= Limit
  BY <1>1, <1>2, <1>3, FewSurvive
<1>7. {convOf'[l[1]] : l \in links'} \union {c} \subseteq listed'
  BY <1>5 DEF ServerInv, LinkedConversationTracked
<1>8. PICK kept : kept = {convOf'[l[1]] : l \in links'} \union {c}
  OBVIOUS
<1>9. Cardinality(kept) <= Cardinality(listed') /\ Cardinality(kept) \in Nat
      /\ Cardinality(listed') \in Nat
  BY <1>6, <1>7, <1>8, FS_Subset, FS_CardinalityType
<1>10. Cardinality(kept) <= Limit
  BY <1>6, <1>9, ServerAssumption
<1> QED BY <1>1, <1>5, <1>8, <1>10

(* Every new request brings the stored content back within                 *)
(* CONTENT_CONVERSATION_LIMIT and keeps its own conversation, for any      *)
(* number of conversations and however many evicted ones late uploads have *)
(* listed again.                                                           *)
THEOREM LimitRestored == ServerSpec => EvictionRestoresLimit
<1>1. ServerInit => IsFiniteSet(listed)
  BY FS_EmptySet DEF ServerInit
<1>2. ASSUME ServerInv, ServerInv', IsFiniteSet(listed), [ServerNext]_serverVars,
             NEW r \in Requests, convOf[r] = NoConv, convOf'[r] # NoConv
      PROVE  /\ convOf'[r] \in listed'
             /\ Cardinality({convOf'[l[1]] : l \in links'} \union {convOf'[r]}) <= Limit
  <2>1. PICK q \in Requests, c \in Conversations, parts \in SUBSET Parts :
          CreateContentRequest(q, c, parts)
    BY <1>2 DEF ServerNext, serverVars, NextCommand, RequestExpires, UploadManifests, UploadChunk,
         UploadResult, ExpireOnUpload
  <2>2. /\ c \in listed' /\ convOf' = [convOf EXCEPT ![q] = c] /\ convOf'[q] = c
        /\ Cardinality({convOf'[l[1]] : l \in links'} \union {c}) <= Limit
    BY <1>2, <2>1, CreateKeepsLimit
  <2>3. r = q
    BY <1>2, <2>2 DEF ServerInv, ServerTypeOK
  <2> QED BY <2>2, <2>3
<1>3. ServerInv /\ ServerInv' /\ IsFiniteSet(listed) /\ [ServerNext]_serverVars =>
        [\A r \in Requests : convOf[r] = NoConv /\ convOf'[r] # NoConv =>
           /\ convOf'[r] \in listed'
           /\ Cardinality({convOf'[l[1]] : l \in links'} \union {convOf'[r]}) <= Limit]_serverVars
  BY <1>2
<1> QED BY <1>1, <1>3, ListedFinite, ServerInvariance, PTL DEF ServerSpec, EvictionRestoresLimit
=============================================================================
