--------------------------- MODULE MCStreamDecode ---------------------------
(***************************************************************************)
(* Connections for StreamDecode.  Beside it AttemptEvidence, which is what *)
(* happens inside one exchange and shares no state with it, takes its      *)
(* steps while the connection is Idle, the one on which nothing is sent.   *)
(***************************************************************************)
EXTENDS StreamDecode, AttemptEvidence

U(t, k, flags) == [t |-> t, k |-> k, flags |-> flags]

(* All ways to merge two sequences of frames. *)
Merges(s, t) ==
  {[i \in 1..(Len(s) + Len(t)) |->
      LET n == Cardinality({j \in S : j <= i}) IN IF i \in S THEN s[n] ELSE t[i - n]] :
   S \in kSubset(Len(s), 1..(Len(s) + Len(t)))}

-----------------------------------------------------------------------------
(* Two requests, the first to /responses or not, answered with a length or *)
(* streamed in chunks.                                                     *)
Request(k, flags) == <<U("head", k, flags), U("body", k, {})>>
Plain(k) == <<U("head", k, {}), U("body", k, {})>>
Streamed(k) == <<U("head", k, {"stream"}), U("event", k, {"terminal"}), U("last", k, {})>>

Http1Wires ==
  {[client |-> Request(1, f) \o Request(2, {"/responses"}), server |-> s1 \o s2] :
     f \in {{}, {"/responses"}}, s1 \in {Plain(1), Streamed(1)}, s2 \in {Plain(2), Streamed(2)}}

(* The same with a part that the code refuses: a request with an encoded   *)
(* head, or that does not decode (to /responses or not), an encoded        *)
(* answer, and an answer cut off by an error event that does not decode.   *)
RefusedWires ==
  {[client |-> Request(1, f) \o Request(2, {"/responses"}), server |-> Plain(1) \o Plain(2)] :
     f \in {{"encoded"}, {"undecodable"}, {"/responses", "undecodable"}}}
  \union
  {[client |-> Request(1, {"/responses"}) \o Request(2, {"/responses"}), server |-> Streamed(1) \o s] :
     s \in {<<U("head", 2, {"encoded"}), U("body", 2, {})>>,
            <<U("head", 2, {"stream"}), U("event", 2, {"error", "undecodable"}), U("last", 2, {})>>}}

(* Two HTTP/2 streams: the first with a CONTINUATION and, in its answer,   *)
(* trailers; and a third that is reset.                                    *)
H2Client ==
  <<U("pri", 0, {}), U("sm", 0, {}), U("headers", 1, {"/responses"}),
    U("continuation", 1, {"END_HEADERS"})>>
H2Wires ==
  {[client |-> H2Client \o c,
    server |-> <<U("settings", 0, {})>> \o s] :
     c \in Merges(<<U("data", 1, {"END_STREAM"})>>,
                  <<U("headers", 2, {"/responses", "END_HEADERS"}), U("data", 2, {"END_STREAM"})>>),
     s \in Merges(<<U("headers", 1, {"END_HEADERS"}), U("data", 1, {}),
                    U("headers", 1, {"END_HEADERS", "END_STREAM"})>>,
                  <<U("headers", 2, {"END_HEADERS"}), U("data", 2, {"END_STREAM"})>>)}
  \union
  {[client |-> H2Client \o <<U("headers", 2, {"/responses", "END_HEADERS"}), U("rst", 2, {}),
                             U("data", 1, {"END_STREAM"})>>,
    server |-> <<U("settings", 0, {}), U("headers", 1, {}), U("continuation", 1, {"END_HEADERS"}),
                 U("data", 1, {"END_STREAM"})>>]}
  \union
  {[client |-> H2Client \o <<U("data", 1, {"END_STREAM"} \union f)>>,
    server |-> <<U("settings", 0, {}), U("headers", 1, {"END_HEADERS", "encoded"}),
                 U("data", 1, {"END_STREAM"})>>] : f \in {{}, {"undecodable"}}}

(* A WebSocket with two requests; messages in one or two frames, a ping    *)
(* inside a message, and a ping or a greeting after the handshake.  In two *)
(* more, the first request does not decode, or all it gets is an error.    *)
WsClient ==
  <<U("head", 0, {"upgrade"}), U("text", 1, {"fin", "/responses"}),
    U("text", 2, {"/responses"}), U("cont", 2, {"fin"})>>
WsAnswers ==
  <<U("text", 1, {"fin"}), U("text", 1, {}), U("ping", 0, {"fin"}),
    U("cont", 1, {"fin", "terminal"}), U("text", 2, {"fin", "terminal"})>>
Switch == <<U("head", 0, {"switch"})>>
WsWires ==
  {[client |-> WsClient, server |-> Switch \o p \o WsAnswers] :
     p \in {<<>>, <<U("ping", 0, {"fin"})>>,
            <<U("text", 0, {}), U("cont", 0, {"fin"})>>}}
  \union
  {[client |-> <<Head(WsClient), U("text", 1, {"fin", "/responses", "undecodable"}),
                 U("text", 2, {"/responses", "fin"})>>,
    server |-> Switch \o WsAnswers],
   [client |-> WsClient,
    server |-> Switch \o <<U("text", 1, {"fin", "error"}), U("text", 2, {"fin", "terminal"})>>]}

Idle == [client |-> <<>>, server |-> <<>>]
AllWires == Http1Wires \union RefusedWires \union H2Wires \union WsWires \union {Idle}

-----------------------------------------------------------------------------
MCInit == Init /\ EvidenceInit
MCNext ==
  \/ Next /\ UNCHANGED evidenceVars
  \/ wire = Idle /\ EvidenceNext /\ UNCHANGED vars
MCSpec == MCInit /\ [][MCNext]_<<vars, evidenceVars>>
=============================================================================
