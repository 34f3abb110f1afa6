--------------------------- MODULE AttemptEvidence ---------------------------
(***************************************************************************)
(* From the events of one Responses exchange to the records of a wire      *)
(* batch: decode_http_exchange reads the stream, map_attempt_projection    *)
(* folds it into an attempt status, a task phase and an error,             *)
(* map_transition_event and map_error_record turn these into wire records, *)
(* and encode_batch validates them.  A batch that does not validate ends   *)
(* the daemon, so which evidence the four parts agree on matters.          *)
(*                                                                         *)
(* A wire event is reduced to its type and to what the parts look at: for  *)
(* a failure, whether its error object has a type, and the reason and the  *)
(* message ("none" when absent, "blank" when empty or white space).        *)
(***************************************************************************)
EXTENDS Naturals, Sequences

CONSTANT MaxEvents   \* bound: events of one stream that the fold looks at

VARIABLES
  pc,       \* "reading", "answered" (an HTTP error) or "projected"
  stream,   \* history: the wire events read so far
  acc,      \* the variables of map_attempt_projection's loop
  proj      \* AttemptProjection, once the loop is done

evidenceVars == <<pc, stream, acc, proj>>

Texts == {"none", "text", "blank"}
FailureTypes == {"error", "response.failed", "response.incomplete", "response.cancelled"}

(* The events of a stream that map_responses_event takes up. *)
ToolCall == [type |-> "tool_call"]
Completed == [type : {"response.completed"}, endTurn : BOOLEAN]
Failure ==
  {e \in [type : FailureTypes, typed : BOOLEAN, reason : Texts, message : Texts] :
     e.type = "error" => e.reason = "none"}
Event == {ToolCall} \union Completed \union Failure

NoError == [class |-> "none"]
NoProjection == [status |-> "none"]

(* A StructuredError: its variant, whether its wire type is               *)
(* response.cancelled, and the text that becomes the message.             *)
StructuredError ==
  [class : {"provider", "http", "incomplete", "capture_lost"}, cancelled : BOOLEAN,
   text : {"text", "blank"}]

Start == [status |-> "running", error |-> NoError, tools |-> FALSE,
          endTurn |-> TRUE, terminal |-> FALSE]

EvidenceInit ==
  /\ pc = "reading"
  /\ stream = <<>>
  /\ acc = Start
  /\ proj = NoProjection

-----------------------------------------------------------------------------
(* Decoding. *)

(* Fault: the reason of an incomplete response is not looked at. *)
StructuredErrorWithoutReason(e) ==
  [class |-> "provider",
   cancelled |-> e.type = "response.cancelled" /\ ~e.typed,
   text |-> IF e.message = "blank" THEN "blank" ELSE "text"]

(* parse_error and structured_error_from_decoded: a reason makes it an     *)
(* incomplete response, whatever the event was; a missing message gets a   *)
(* default, an empty one does not; the type of the error object hides the  *)
(* type of the event.                                                      *)
StructuredErrorOf(e) ==
  IF e.reason # "none"
  THEN [class |-> "incomplete", cancelled |-> FALSE, text |-> e.reason]
  ELSE [class |-> "provider",
        cancelled |-> e.type = "response.cancelled" /\ ~e.typed,
        text |-> IF e.message = "blank" THEN "blank" ELSE "text"]

StatusOf(type) ==
  CASE type = "response.completed" -> "completed"
    [] type = "response.incomplete" -> "incomplete"
    [] type = "response.cancelled" -> "cancelled"
    [] OTHER -> "failed"

(* Fault: once the attempt has ended, later events are ignored. *)
FoldFirstWins(a, e) ==
  IF e = ToolCall THEN [a EXCEPT !.tools = TRUE]
  ELSE IF a.terminal THEN a
  ELSE IF e.type = "response.completed"
  THEN [a EXCEPT !.status = "completed", !.endTurn = e.endTurn, !.terminal = TRUE]
  ELSE [a EXCEPT !.status = StatusOf(e.type), !.error = StructuredErrorOf(e), !.terminal = TRUE]

(* One turn of the loop.  A completed response keeps the error of an       *)
(* earlier event.                                                          *)
Fold(a, e) ==
  IF e = ToolCall THEN [a EXCEPT !.tools = TRUE]
  ELSE IF e.type = "response.completed"
  THEN [a EXCEPT !.status = "completed", !.endTurn = e.endTurn, !.terminal = TRUE]
  ELSE [a EXCEPT !.status = StatusOf(e.type), !.error = StructuredErrorOf(e), !.terminal = TRUE]

(* The next event of a successful response. *)
ReadEvent(e) ==
  /\ pc = "reading"
  /\ Len(stream) < MaxEvents
  /\ stream' = Append(stream, e)
  /\ acc' = Fold(acc, e)
  /\ UNCHANGED <<pc, proj>>

(* A response whose status is not 2xx: no event is read, the body is the   *)
(* message unless it is JSON with one (parse_http_error).                  *)
HttpError(body) ==
  /\ pc = "reading"
  /\ stream = <<>>
  /\ pc' = "answered"
  /\ acc' = [acc EXCEPT !.status = "failed", !.terminal = TRUE,
                        !.error = [class |-> "http", cancelled |-> FALSE, text |-> body]]
  /\ UNCHANGED <<stream, proj>>

-----------------------------------------------------------------------------
(* Projection. *)

Lost == [status |-> "transport_lost", phase |-> "retrying", outcome |-> "none",
         cause |-> "capture_lost",
         error |-> [class |-> "capture_lost", cancelled |-> FALSE, text |-> "text"]]

(* The end of map_attempt_projection; request and response say whether     *)
(* each body is complete.                                                  *)
Projection(a, request, response) ==
  IF ~a.terminal \/ ~(request /\ (response \/ a.terminal)) THEN Lost
  ELSE IF a.status = "completed" /\ (a.tools \/ ~a.endTurn)
  THEN [status |-> a.status, phase |-> "awaiting_tool", outcome |-> "none",
        cause |-> "tool_call_observed", error |-> a.error]
  ELSE IF a.status = "completed"
  THEN [status |-> a.status, phase |-> "terminal", outcome |-> "completed",
        cause |-> "response_end_turn", error |-> a.error]
  ELSE [status |-> a.status, phase |-> "retrying", outcome |-> "none",
        cause |-> "retry_scheduled", error |-> a.error]

Project(request, response) ==
  /\ pc \in {"reading", "answered"}
  /\ pc' = "projected"
  /\ proj' = Projection(acc, request, response)
  /\ UNCHANGED <<stream, acc>>

(* The next exchange is decoded from scratch. *)
NextExchange ==
  /\ pc = "projected"
  /\ pc' = "reading"
  /\ stream' = <<>>
  /\ acc' = Start
  /\ proj' = NoProjection

EvidenceNext ==
  \/ \E e \in Event : ReadEvent(e)
  \/ \E body \in {"text", "blank"} : HttpError(body)
  \/ \E request, response \in BOOLEAN : Project(request, response)
  \/ NextExchange

EvidenceSpec == EvidenceInit /\ [][EvidenceNext]_evidenceVars

-----------------------------------------------------------------------------
(* The wire records and their validation. *)

(* map_error_record *)
Source(error) ==
  CASE error.class = "provider" /\ error.cancelled -> "response_cancelled"
    [] error.class = "provider" /\ ~error.cancelled -> "response_failed"
    [] error.class = "http" -> "http_status"
    [] error.class = "incomplete" -> "response_incomplete"
    [] error.class = "capture_lost" -> "capture_gap"

(* Validate for ErrorRecord: no text may be empty. *)
ValidError(error) == error = NoError \/ error.text # "blank"

(* Validate for AttemptRecord: the sources that prove each status. *)
ValidAttempt(p) ==
  CASE p.status = "completed" -> p.error = NoError
    [] p.status = "failed" -> p.error # NoError /\ Source(p.error) \in {"response_failed", "http_status"}
    [] p.status = "incomplete" -> p.error # NoError /\ Source(p.error) = "response_incomplete"
    [] p.status = "cancelled" -> p.error # NoError /\ Source(p.error) = "response_cancelled"
    [] p.status = "transport_lost" -> p.error # NoError /\ Source(p.error) = "capture_gap"

(* map_transition_event *)
EventKind(p) ==
  CASE p.cause = "response_end_turn" -> "terminal_completed"
    [] p.cause = "tool_call_observed" -> "awaiting_tool"
    [] p.cause = "retry_scheduled" -> "retrying"
    [] p.cause = "capture_lost" -> "capture_gap"

(* validate_event_projection and validate_event_evidence *)
ValidEvent(p) ==
  CASE EventKind(p) = "terminal_completed" ->
         p.phase = "terminal" /\ p.outcome = "completed" /\ p.error = NoError
    [] EventKind(p) = "awaiting_tool" -> p.phase = "awaiting_tool" /\ p.outcome = "none"
    [] EventKind(p) = "retrying" -> p.phase = "retrying" /\ p.outcome = "none"
    [] EventKind(p) = "capture_gap" -> p.phase # "terminal" /\ p.outcome = "none"

(* encode_batch accepts the attempt, its transition and its errors. *)
Encodes(p) == ValidError(p.error) /\ ValidAttempt(p) /\ ValidEvent(p)

-----------------------------------------------------------------------------
Ends == {i \in DOMAIN stream : stream[i] # ToolCall}
LastEnd == stream[CHOOSE i \in Ends : \A j \in Ends : j <= i]

(* The projection says what the whole stream says: lost unless some event  *)
(* ended the attempt, otherwise the status of the last such event          *)
(* (map_attempt_projection).  An attempt that did not complete leaves the  *)
(* task retryable (TECH_SPEC line 17), and the task is over only after a   *)
(* completed response that ends the turn, with no tool call before or      *)
(* after it.  That it is over even then is what TECH_SPEC lines 7 and 17   *)
(* deny: OnlyTurnEventsEnd.                                                *)
ProjectionMatchesStream ==
  pc = "projected" /\ stream # <<>> =>
    /\ proj.status # "transport_lost" => Ends # {} /\ proj.status = StatusOf(LastEnd.type)
    /\ Ends = {} => proj.status = "transport_lost"
    /\ proj.status # "completed" => proj.phase = "retrying" /\ proj.outcome = "none"
    /\ proj.phase = "terminal" \/ proj.outcome # "none" =>
         LastEnd.endTurn /\ Ends = DOMAIN stream

(* TECH_SPEC line 7: "A Responses terminal event ends one model attempt.   *)
(* Only a validated Codex terminal event ends the complete turn."  What is *)
(* projected here comes from Responses events alone; it sets an outcome    *)
(* nevertheless (map_attempt_projection, its last branch).                 *)
OnlyTurnEventsEnd ==
  pc = "projected" => proj.phase # "terminal" /\ proj.outcome = "none"

(* Evidence the provider's documentation would lead one to expect: a       *)
(* reason exactly on incomplete responses, no type on a cancelled one, no  *)
(* empty text or body, nothing completed after a failure.                  *)
WellFormed(e) ==
  e \in Failure =>
    /\ (e.reason = "text") = (e.type = "response.incomplete")
    /\ e.reason # "blank" /\ e.message # "blank"
    /\ e.type = "response.cancelled" => ~e.typed
Expectable ==
  /\ acc.error # NoError => acc.error.text # "blank"
  /\ \A i \in DOMAIN stream : WellFormed(stream[i])
  /\ \A i, j \in DOMAIN stream :
       i < j /\ stream[j].type = "response.completed" => stream[i] \notin Failure

(* Such an exchange, complete or cut off anywhere, always becomes a batch  *)
(* that encode_batch accepts: projection, mapping and validation agree.    *)
ExpectableEncodes ==
  pc = "projected" /\ Expectable => Encodes(proj)
=============================================================================
