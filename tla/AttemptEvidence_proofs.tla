------------------------ MODULE AttemptEvidence_proofs ------------------------
(***************************************************************************)
(* What the projection of an exchange guarantees for streams of any        *)
(* length, complete or cut off.                                            *)
(***************************************************************************)
EXTENDS AttemptEvidence, TLAPS

Statuses == {"running", "completed", "failed", "incomplete", "cancelled"}
Fails == {i \in DOMAIN stream : stream[i] \in Failure}

EvidenceTypeOK ==
  /\ pc \in {"reading", "answered", "projected"}
  /\ stream \in Seq(Event)
  /\ acc \in [status : Statuses, error : StructuredError \union {NoError}, tools : BOOLEAN,
              endTurn : BOOLEAN, terminal : BOOLEAN]

(* What the loop of map_attempt_projection knows of the events it has      *)
(* read: the last one that ends an attempt gives the status, the last      *)
(* failure the error.                                                      *)
FoldInv ==
  /\ acc.tools <=> Ends # DOMAIN stream
  /\ acc.terminal <=> Ends # {}
  /\ Ends # {} =>
       \E k \in Ends :
         /\ \A j \in Ends : j <= k
         /\ acc.status = StatusOf(stream[k].type)
         /\ stream[k].type = "response.completed" => acc.endTurn = stream[k].endTurn
  /\ acc.error = NoError => Fails = {}
  /\ acc.error # NoError =>
       \E k \in Fails : (\A j \in Fails : j <= k) /\ acc.error = StructuredErrorOf(stream[k])

(* The same for a response that is an HTTP error. *)
AnsweredInv ==
  /\ stream = <<>>
  /\ acc.terminal /\ acc.status = "failed"
  /\ acc.error \in StructuredError /\ acc.error.class = "http"

EvidenceInv ==
  /\ EvidenceTypeOK
  /\ pc = "reading" => FoldInv
  /\ pc = "answered" => AnsweredInv
  /\ pc = "projected" =>
       /\ FoldInv \/ AnsweredInv
       /\ \E request, response \in BOOLEAN : proj = Projection(acc, request, response)

-----------------------------------------------------------------------------
(* The kinds of events that map_responses_event takes up. *)
LEMMA EventKinds ==
  ASSUME NEW e \in Event
  PROVE  \/ e = ToolCall /\ e \notin Failure
         \/ /\ e # ToolCall /\ e \notin Failure
            /\ e.type = "response.completed" /\ e.endTurn \in BOOLEAN
         \/ /\ e # ToolCall /\ e \in Failure
            /\ e.type \in FailureTypes /\ e.typed \in BOOLEAN
            /\ e.reason \in Texts /\ e.message \in Texts
<1>1. CASE e = ToolCall
  BY <1>1 DEF ToolCall, Failure, FailureTypes
<1>2. CASE e \in Completed
  BY <1>2 DEF Completed, ToolCall, Failure, FailureTypes
<1>3. CASE e \in Failure
  BY <1>3 DEF Failure, FailureTypes, ToolCall
<1> QED BY <1>1, <1>2, <1>3 DEF Event

(* parse_error gives a failure a class and a text. *)
LEMMA FailureHasError ==
  ASSUME NEW e \in Failure
  PROVE  StructuredErrorOf(e) \in StructuredError /\ StructuredErrorOf(e) # NoError
<1>1. e.reason \in Texts /\ e.message \in Texts /\ e.typed \in BOOLEAN
  BY DEF Failure
<1>2. CASE e.reason = "none"
  BY <1>1, <1>2 DEF StructuredErrorOf, StructuredError, NoError
<1>3. CASE e.reason # "none"
  BY <1>1, <1>3 DEF StructuredErrorOf, StructuredError, NoError, Texts
<1> QED BY <1>2, <1>3

(* There is one last event. *)
LEMMA LastEndIs ==
  ASSUME NEW k \in Ends, \A j \in Ends : j <= k, stream \in Seq(Event)
  PROVE  LastEnd = stream[k]
<1>1. Ends \subseteq Nat
  BY DEF Ends
<1>2. \A i \in Ends : (\A j \in Ends : j <= i) => i = k
  BY <1>1
<1> QED BY <1>1, <1>2 DEF LastEnd

(* The loop starts with nothing. *)
LEMMA StartFoldInv ==
  ASSUME stream = <<>>, acc = Start
  PROVE  FoldInv
<1>1. DOMAIN stream = {}
  OBVIOUS
<1>2. Ends = {} /\ Fails = {}
  BY <1>1 DEF Ends, Fails
<1> QED BY <1>1, <1>2 DEF FoldInv, Start

(* One turn of the loop. *)
LEMMA FoldStep ==
  ASSUME EvidenceTypeOK, FoldInv, NEW e \in Event,
         stream' = Append(stream, e), acc' = Fold(acc, e)
  PROVE  FoldInv' /\ (stream' \in Seq(Event)) /\
         acc' \in [status : Statuses, error : StructuredError \union {NoError}, tools : BOOLEAN,
                   endTurn : BOOLEAN, terminal : BOOLEAN]
<1> DEFINE n == Len(stream) + 1
<1>1. /\ n \in Nat /\ DOMAIN stream = 1..(n - 1) /\ DOMAIN stream' = 1..n
      /\ stream'[n] = e /\ \A i \in 1..(n - 1) : stream'[i] = stream[i]
      /\ stream' \in Seq(Event)
  BY DEF EvidenceTypeOK
<1>2. /\ Ends' = IF e = ToolCall THEN Ends ELSE Ends \union {n}
      /\ Fails' = IF e \in Failure THEN Fails \union {n} ELSE Fails
      /\ Ends \subseteq 1..(n - 1) /\ Fails \subseteq 1..(n - 1)
  BY <1>1 DEF Ends, Fails
<1>3. /\ acc.status \in Statuses /\ acc.error \in StructuredError \union {NoError}
      /\ acc.tools \in BOOLEAN /\ acc.endTurn \in BOOLEAN /\ acc.terminal \in BOOLEAN
  BY DEF EvidenceTypeOK
<1> HIDE DEF n
<1>4. CASE e = ToolCall
  <2>1. acc' = [acc EXCEPT !.tools = TRUE]
    BY <1>4 DEF Fold
  <2>2. e \notin Failure
    BY <1>4, EventKinds
  <2>3. Ends' # DOMAIN stream'
    BY <1>1, <1>2, <1>4
  <2>4. /\ acc'.tools = TRUE /\ acc'.terminal = acc.terminal /\ acc'.status = acc.status
        /\ acc'.endTurn = acc.endTurn /\ acc'.error = acc.error
    BY <2>1 DEF EvidenceTypeOK
  <2>5. Ends' = Ends /\ Fails' = Fails
    BY <1>2, <1>4, <2>2
  <2>6. FoldInv'
    BY <1>1, <1>2, <2>3, <2>4, <2>5 DEF FoldInv
  <2> QED BY <1>1, <1>3, <2>1, <2>6 DEF EvidenceTypeOK
<1>5. CASE e # ToolCall /\ e \notin Failure
  <2>1. e.type = "response.completed" /\ e.endTurn \in BOOLEAN
    BY <1>5, EventKinds
  <2>2. acc' = [acc EXCEPT !.status = "completed", !.endTurn = e.endTurn, !.terminal = TRUE]
    BY <1>5, <2>1 DEF Fold
  <2>3. /\ acc'.tools = acc.tools /\ acc'.terminal = TRUE /\ acc'.status = "completed"
        /\ acc'.endTurn = e.endTurn /\ acc'.error = acc.error
    BY <2>2 DEF EvidenceTypeOK
  <2>4. Ends' = Ends \union {n} /\ Fails' = Fails
    BY <1>2, <1>5
  <2>5. Ends' = DOMAIN stream' <=> Ends = DOMAIN stream
    <3>1. n \notin Ends /\ n \notin DOMAIN stream /\ DOMAIN stream' = DOMAIN stream \union {n}
      BY <1>1, <1>2
    <3> QED BY <2>4, <3>1
  <2>6. \A j \in Ends' : j <= n
    BY <1>1, <1>2, <2>4
  <2>7. StatusOf(e.type) = "completed"
    BY <2>1 DEF StatusOf
  <2>8. FoldInv'
    <3>1. n \in Ends'
      BY <2>4
    <3>2. \E k \in Ends' :
            /\ \A j \in Ends' : j <= k
            /\ acc'.status = StatusOf(stream'[k].type)
            /\ stream'[k].type = "response.completed" => acc'.endTurn = stream'[k].endTurn
      BY <1>1, <2>1, <2>3, <2>6, <2>7, <3>1
    <3>3. acc'.error # NoError =>
            \E k \in Fails' : (\A j \in Fails' : j <= k) /\ acc'.error = StructuredErrorOf(stream'[k])
      BY <1>1, <1>2, <2>3, <2>4 DEF FoldInv
    <3> QED BY <2>3, <2>4, <2>5, <3>1, <3>2, <3>3 DEF FoldInv
  <2> QED BY <1>1, <1>3, <2>1, <2>2, <2>8 DEF EvidenceTypeOK, Statuses
<1>6. CASE e \in Failure
  <2>1. e # ToolCall /\ e.type \in FailureTypes /\ e.type # "response.completed"
    BY <1>6, EventKinds DEF FailureTypes
  <2>2. acc' = [acc EXCEPT !.status = StatusOf(e.type), !.error = StructuredErrorOf(e),
                           !.terminal = TRUE]
    BY <2>1 DEF Fold
  <2>3. /\ acc'.tools = acc.tools /\ acc'.terminal = TRUE /\ acc'.status = StatusOf(e.type)
        /\ acc'.endTurn = acc.endTurn /\ acc'.error = StructuredErrorOf(e)
    BY <2>2 DEF EvidenceTypeOK
  <2>4. Ends' = Ends \union {n} /\ Fails' = Fails \union {n}
    BY <1>2, <1>6, <2>1
  <2>5. Ends' = DOMAIN stream' <=> Ends = DOMAIN stream
    <3>1. n \notin Ends /\ n \notin DOMAIN stream /\ DOMAIN stream' = DOMAIN stream \union {n}
      BY <1>1, <1>2
    <3> QED BY <2>4, <3>1
  <2>6. (\A j \in Ends' : j <= n) /\ (\A j \in Fails' : j <= n)
    BY <1>1, <1>2, <2>4
  <2>7. StructuredErrorOf(e) \in StructuredError /\ StructuredErrorOf(e) # NoError
    BY <1>6, FailureHasError
  <2>8. StatusOf(e.type) \in Statuses
    BY <2>1 DEF StatusOf, Statuses, FailureTypes
  <2>9. FoldInv'
    <3>1. n \in Ends' /\ n \in Fails'
      BY <2>4
    <3>2. \E k \in Ends' :
            /\ \A j \in Ends' : j <= k
            /\ acc'.status = StatusOf(stream'[k].type)
            /\ stream'[k].type = "response.completed" => acc'.endTurn = stream'[k].endTurn
      BY <1>1, <2>1, <2>3, <2>6, <3>1
    <3>3. \E k \in Fails' : (\A j \in Fails' : j <= k) /\ acc'.error = StructuredErrorOf(stream'[k])
      BY <1>1, <2>3, <2>6, <3>1
    <3> QED BY <2>3, <2>5, <2>7, <3>1, <3>2, <3>3 DEF FoldInv
  <2> QED BY <1>1, <1>3, <2>2, <2>7, <2>8, <2>9 DEF EvidenceTypeOK
<1> QED BY <1>4, <1>5, <1>6

-----------------------------------------------------------------------------
LEMMA EvidenceStarts == EvidenceInit => EvidenceInv
<1> SUFFICES ASSUME EvidenceInit
             PROVE  EvidenceInv
  OBVIOUS
<1>1. FoldInv
  BY StartFoldInv DEF EvidenceInit
<1>2. EvidenceTypeOK
  BY DEF EvidenceInit, EvidenceTypeOK, Start, Statuses
<1> QED BY <1>1, <1>2 DEF EvidenceInit, EvidenceInv

LEMMA EvidenceStep == EvidenceInv /\ [EvidenceNext]_evidenceVars => EvidenceInv'
<1> SUFFICES ASSUME EvidenceInv, [EvidenceNext]_evidenceVars
             PROVE  EvidenceInv'
  OBVIOUS
<1>1. ASSUME NEW e \in Event, ReadEvent(e)
      PROVE  EvidenceInv'
  <2>1. EvidenceTypeOK /\ FoldInv /\ pc' = "reading"
    BY <1>1 DEF EvidenceInv, ReadEvent
  <2>2. FoldInv' /\ EvidenceTypeOK'
    BY <1>1, <2>1, FoldStep DEF ReadEvent, EvidenceTypeOK
  <2> QED BY <2>1, <2>2 DEF EvidenceInv
<1>2. ASSUME NEW body \in {"text", "blank"}, HttpError(body)
      PROVE  EvidenceInv'
  <2> DEFINE err == [class |-> "http", cancelled |-> FALSE, text |-> body]
  <2>1. /\ EvidenceTypeOK /\ pc' = "answered" /\ stream' = stream /\ stream = <<>>
        /\ acc' = [acc EXCEPT !.status = "failed", !.terminal = TRUE, !.error = err]
    BY <1>2 DEF EvidenceInv, HttpError
  <2>2. err \in StructuredError /\ err.class = "http"
    BY <1>2 DEF StructuredError
  <2> HIDE DEF err
  <2>3. acc'.status = "failed" /\ acc'.terminal = TRUE /\ acc'.error = err
    BY <2>1 DEF EvidenceTypeOK
  <2>4. EvidenceTypeOK'
    BY <2>1, <2>2 DEF EvidenceTypeOK, Statuses
  <2> QED BY <2>1, <2>2, <2>3, <2>4 DEF EvidenceInv, AnsweredInv
<1>3. ASSUME NEW request \in BOOLEAN, NEW response \in BOOLEAN, Project(request, response)
      PROVE  EvidenceInv'
  <2>1. /\ pc' = "projected" /\ stream' = stream /\ acc' = acc
        /\ proj' = Projection(acc', request, response)
    BY <1>3 DEF Project
  <2>2. EvidenceTypeOK'
    BY <2>1 DEF EvidenceInv, EvidenceTypeOK
  <2>3. FoldInv \/ AnsweredInv
    BY <1>3 DEF EvidenceInv, Project
  <2>4. FoldInv' \/ AnsweredInv'
    BY <2>1, <2>3 DEF FoldInv, AnsweredInv, Ends, Fails
  <2> QED BY <2>1, <2>2, <2>4 DEF EvidenceInv
<1>4. CASE NextExchange
  <2>1. pc' = "reading" /\ stream' = <<>> /\ acc' = Start
    BY <1>4 DEF NextExchange
  <2>2. EvidenceTypeOK'
    BY <2>1 DEF EvidenceTypeOK, Start, Statuses
  <2>3. DOMAIN stream' = {}
    BY <2>1
  <2>4. Ends' = {} /\ Fails' = {}
    BY <2>3 DEF Ends, Fails
  <2>5. FoldInv'
    BY <2>1, <2>3, <2>4 DEF FoldInv, Start
  <2> QED BY <2>1, <2>2, <2>5 DEF EvidenceInv
<1>5. CASE UNCHANGED evidenceVars
  BY <1>5 DEF evidenceVars, EvidenceInv, EvidenceTypeOK, FoldInv, AnsweredInv, Ends, Fails
<1> QED BY <1>1, <1>2, <1>3, <1>4, <1>5 DEF EvidenceNext

(* Only a completed response completes an attempt. *)
LEMMA CompletedOnlyByCompletion ==
  ASSUME NEW e \in Event, e # ToolCall, StatusOf(e.type) = "completed"
  PROVE  e.type = "response.completed" /\ e.endTurn \in BOOLEAN
BY EventKinds DEF StatusOf, FailureTypes

(* The three ways in which map_attempt_projection returns. *)
LEMMA ProjectionCases ==
  ASSUME NEW request \in BOOLEAN, NEW response \in BOOLEAN, EvidenceTypeOK,
         proj = Projection(acc, request, response)
  PROVE  \/ proj = Lost
         \/ /\ acc.terminal /\ acc.status = "completed" /\ (acc.tools \/ ~acc.endTurn)
            /\ proj = [status |-> acc.status, phase |-> "awaiting_tool", outcome |-> "none",
                       cause |-> "tool_call_observed", error |-> acc.error]
         \/ /\ acc.terminal /\ acc.status = "completed" /\ ~acc.tools /\ acc.endTurn
            /\ proj = [status |-> acc.status, phase |-> "terminal", outcome |-> "completed",
                       cause |-> "response_end_turn", error |-> acc.error]
         \/ /\ acc.terminal /\ acc.status # "completed"
            /\ proj = [status |-> acc.status, phase |-> "retrying", outcome |-> "none",
                       cause |-> "retry_scheduled", error |-> acc.error]
BY DEF Projection, EvidenceTypeOK

-----------------------------------------------------------------------------
LEMMA EvidenceMatches == EvidenceInv => ProjectionMatchesStream
<1> SUFFICES ASSUME EvidenceInv, pc = "projected", stream # <<>>
             PROVE  /\ proj.status # "transport_lost" =>
                         Ends # {} /\ proj.status = StatusOf(LastEnd.type)
                    /\ Ends = {} => proj.status = "transport_lost"
                    /\ proj.status # "completed" =>
                         proj.phase = "retrying" /\ proj.outcome = "none"
                    /\ proj.phase = "terminal" \/ proj.outcome # "none" =>
                         LastEnd.endTurn /\ Ends = DOMAIN stream
  BY DEF ProjectionMatchesStream
<1>1. EvidenceTypeOK /\ FoldInv
  BY DEF EvidenceInv, AnsweredInv
<1>2. PICK request, response \in BOOLEAN : proj = Projection(acc, request, response)
  BY DEF EvidenceInv
<1>3. CASE proj = Lost
  BY <1>3 DEF Lost
<1>4. CASE proj # Lost
  <2>1. acc.terminal
    BY <1>1, <1>2, <1>4, ProjectionCases
  <2>2. Ends # {}
    BY <1>1, <2>1 DEF FoldInv
  <2>3. PICK k \in Ends :
          /\ \A j \in Ends : j <= k
          /\ acc.status = StatusOf(stream[k].type)
          /\ stream[k].type = "response.completed" => acc.endTurn = stream[k].endTurn
    BY <1>1, <2>2 DEF FoldInv
  <2>4. LastEnd = stream[k]
    BY <1>1, <2>3, LastEndIs DEF EvidenceTypeOK
  <2>5. stream[k] \in Event /\ stream[k] # ToolCall
    BY <1>1 DEF EvidenceTypeOK, Ends
  <2>6. acc.status = StatusOf(LastEnd.type) /\ acc.status \in Statuses
    BY <1>1, <2>3, <2>4 DEF EvidenceTypeOK
  <2>7. acc.status = "completed" => (acc.endTurn <=> LastEnd.endTurn)
    BY <2>3, <2>4, <2>5, CompletedOnlyByCompletion
  <2>8. ~acc.tools <=> Ends = DOMAIN stream
    BY <1>1 DEF FoldInv
  <2>9. /\ proj.status = acc.status
        /\ proj.phase = "terminal" <=>
             acc.status = "completed" /\ ~acc.tools /\ acc.endTurn
        /\ proj.outcome # "none" <=> proj.phase = "terminal"
        /\ acc.status # "completed" => proj.phase = "retrying"
    BY <1>1, <1>2, <1>4, ProjectionCases
  <2> QED BY <2>2, <2>6, <2>7, <2>8, <2>9 DEF Statuses
<1> QED BY <1>3, <1>4

LEMMA EvidenceEncodes == EvidenceInv => ExpectableEncodes
<1> SUFFICES ASSUME EvidenceInv, pc = "projected", Expectable
             PROVE  Encodes(proj)
  BY DEF ExpectableEncodes
<1>1. EvidenceTypeOK /\ (FoldInv \/ AnsweredInv)
  BY DEF EvidenceInv
<1>2. PICK request, response \in BOOLEAN : proj = Projection(acc, request, response)
  BY DEF EvidenceInv
<1>3. CASE proj = Lost
  BY <1>3 DEF Lost, Encodes, ValidError, ValidAttempt, ValidEvent, EventKind, Source, NoError
<1>4. CASE proj # Lost /\ AnsweredInv
  <2>1. proj = [status |-> "failed", phase |-> "retrying", outcome |-> "none",
                cause |-> "retry_scheduled", error |-> acc.error]
    BY <1>1, <1>2, <1>4, ProjectionCases DEF AnsweredInv
  <2>2. acc.error # NoError /\ acc.error.class = "http"
    BY <1>4 DEF AnsweredInv, StructuredError, NoError
  <2>3. acc.error.text # "blank"
    BY <2>2 DEF Expectable
  <2>4. Source(acc.error) = "http_status"
    BY <2>2 DEF Source
  <2>5. ValidAttempt(proj)
    BY <2>1, <2>2, <2>4 DEF ValidAttempt
  <2>6. ValidEvent(proj)
    BY <2>1 DEF ValidEvent, EventKind
  <2> QED BY <2>1, <2>3, <2>5, <2>6 DEF Encodes, ValidError
<1>5. CASE proj # Lost /\ FoldInv
  <2>1. acc.terminal
    BY <1>1, <1>2, <1>5, ProjectionCases
  <2>2. PICK k \in Ends :
          /\ \A j \in Ends : j <= k
          /\ acc.status = StatusOf(stream[k].type)
    BY <1>5, <2>1 DEF FoldInv
  <2>3. /\ k \in DOMAIN stream /\ stream[k] \in Event /\ stream[k] # ToolCall
        /\ WellFormed(stream[k])
    BY <1>1 DEF EvidenceTypeOK, Ends, Expectable
  <2>4. Fails \subseteq Ends /\ Ends \subseteq Nat
    BY <1>1, EventKinds DEF EvidenceTypeOK, Ends, Fails
  <2>5. CASE stream[k] \notin Failure
    <3>1. stream[k].type = "response.completed"
      BY <2>3, <2>5, EventKinds
    <3>2. Fails = {}
      <4> SUFFICES ASSUME NEW i \in Fails
                   PROVE  FALSE
        OBVIOUS
      <4>1. i \in Nat /\ k \in Nat /\ i <= k /\ i # k /\ i \in DOMAIN stream
        BY <2>2, <2>4, <2>5 DEF Fails
      <4> QED BY <2>3, <3>1, <4>1 DEF Expectable, Fails
    <3>3. acc.error = NoError
      BY <1>5, <3>2 DEF FoldInv
    <3>4. acc.status = "completed"
      BY <2>2, <3>1 DEF StatusOf
    <3>5. \/ proj = [status |-> "completed", phase |-> "awaiting_tool", outcome |-> "none",
                     cause |-> "tool_call_observed", error |-> NoError]
          \/ proj = [status |-> "completed", phase |-> "terminal", outcome |-> "completed",
                     cause |-> "response_end_turn", error |-> NoError]
      BY <1>1, <1>2, <1>5, <3>3, <3>4, ProjectionCases
    <3>6. proj.status = "completed" /\ proj.error = NoError
      BY <3>5
    <3>7. ValidAttempt(proj)
      BY <3>6 DEF ValidAttempt
    <3>8. ValidEvent(proj)
      <4>1. CASE proj.cause = "tool_call_observed"
        BY <3>5, <4>1 DEF ValidEvent, EventKind
      <4>2. CASE proj.cause = "response_end_turn"
        BY <3>5, <4>2 DEF ValidEvent, EventKind
      <4> QED BY <3>5, <4>1, <4>2
    <3> QED BY <3>6, <3>7, <3>8 DEF Encodes, ValidError
  <2>6. CASE stream[k] \in Failure
    <3> DEFINE e == stream[k]
    <3>1. k \in Fails
      BY <2>3, <2>6 DEF Fails
    <3>2. \A i \in Fails : (\A j \in Fails : j <= i) => i = k
      BY <2>2, <2>4, <3>1
    <3>3. acc.error # NoError
      BY <1>5, <3>1 DEF FoldInv
    <3>4. acc.error = StructuredErrorOf(e)
      BY <1>5, <3>2, <3>3 DEF FoldInv
    <3>5. e.type \in FailureTypes /\ e.typed \in BOOLEAN /\ e.reason \in Texts /\ e.message \in Texts
      BY <2>6 DEF Failure
    <3>6. /\ e.reason = "text" <=> e.type = "response.incomplete"
          /\ e.reason # "blank" /\ e.message # "blank"
          /\ e.type = "response.cancelled" => ~e.typed
      BY <2>3, <2>6 DEF WellFormed
    <3> HIDE DEF e
    <3>7. acc.status = StatusOf(e.type)
      BY <2>2 DEF e
    <3>8. acc.status # "completed"
      BY <3>5, <3>7 DEF StatusOf, FailureTypes
    <3>9. proj = [status |-> acc.status, phase |-> "retrying", outcome |-> "none",
                  cause |-> "retry_scheduled", error |-> acc.error]
      BY <1>1, <1>2, <1>5, <3>8, ProjectionCases
    <3>10. ValidError(proj.error)
      BY <3>3, <3>9 DEF ValidError, Expectable
    <3>11. ValidEvent(proj)
      BY <3>9 DEF ValidEvent, EventKind
    <3>12. ValidAttempt(proj)
      <4>1. CASE e.type = "response.incomplete"
        BY <3>3, <3>4, <3>6, <3>7, <3>9, <4>1 DEF ValidAttempt, StructuredErrorOf, StatusOf, Source
      <4>2. CASE e.type = "response.cancelled"
        <5>1. e.reason = "none" /\ ~e.typed
          BY <3>5, <3>6, <4>2 DEF Texts
        <5>2. acc.error = [class |-> "provider", cancelled |-> TRUE,
                           text |-> IF e.message = "blank" THEN "blank" ELSE "text"]
          <6>1. (e.type = "response.cancelled" /\ ~e.typed) = TRUE
            BY <4>2, <5>1
          <6> QED BY <3>4, <5>1, <6>1, Zenon DEF StructuredErrorOf
        <5>3. Source(acc.error) = "response_cancelled"
          BY <5>2 DEF Source
        <5>4. proj.status = "cancelled" /\ proj.error = acc.error
          BY <3>7, <3>9, <4>2 DEF StatusOf
        <5> QED BY <3>3, <5>3, <5>4 DEF ValidAttempt
      <4>3. CASE e.type \in {"error", "response.failed"}
        <5>1. e.reason = "none"
          BY <3>5, <3>6, <4>3 DEF Texts
        <5>2. acc.error = [class |-> "provider", cancelled |-> FALSE,
                           text |-> IF e.message = "blank" THEN "blank" ELSE "text"]
          <6>1. (e.type = "response.cancelled" /\ ~e.typed) = FALSE
            BY <4>3
          <6> QED BY <3>4, <5>1, <6>1, Zenon DEF StructuredErrorOf
        <5>3. Source(acc.error) = "response_failed"
          BY <5>2 DEF Source
        <5>4. proj.status = "failed" /\ proj.error = acc.error
          BY <3>7, <3>9, <4>3 DEF StatusOf
        <5> QED BY <3>3, <5>3, <5>4 DEF ValidAttempt
      <4> QED BY <3>5, <4>1, <4>2, <4>3 DEF FailureTypes
    <3> QED BY <3>10, <3>11, <3>12 DEF Encodes
  <2> QED BY <2>5, <2>6
<1> QED BY <1>1, <1>3, <1>4, <1>5

-----------------------------------------------------------------------------
(* map_attempt_projection, for every stream: an attempt has the status of  *)
(* the last event that ends one, or is lost; one that did not complete     *)
(* leaves the task retryable, and only a completed response that ended the *)
(* turn, with no tool call, sets an outcome.                               *)
THEOREM ProjectionFollowsStream == EvidenceSpec => []ProjectionMatchesStream
BY EvidenceStarts, EvidenceStep, EvidenceMatches, PTL DEF EvidenceSpec

(* The evidence that the four parts of the code agree on, for streams of   *)
(* every length: what map_attempt_projection makes of an exchange with     *)
(* well-formed failures, encode_batch accepts.                             *)
THEOREM ExpectableEvidenceEncodes == EvidenceSpec => []ExpectableEncodes
BY EvidenceStarts, EvidenceStep, EvidenceEncodes, PTL DEF EvidenceSpec
=============================================================================
