---------------------------- MODULE StreamDecode ----------------------------
(***************************************************************************)
(* process_bytes and what it calls: one connection's two byte streams, cut *)
(* into chunks anywhere and taken in any order of the two directions, are  *)
(* recognised as HTTP/1, HTTP/2 or WebSocket and turned into exchanges.    *)
(*                                                                         *)
(* A stream is a sequence of units (a message's head, its body, a frame),  *)
(* each of two pieces, so that a chunk can end inside a unit.  Piece p is  *)
(* half of unit (p + 1) \div 2; a buffer is a sequence of pieces.          *)
(***************************************************************************)
EXTENDS Integers, Sequences, FiniteSets, FiniteSetsExt, SequencesExt

CONSTANTS
  Wires,     \* the connections: what each side sends
  MaxChunk   \* bound: pieces of one chunk

(* A unit has                                                              *)
(*   t      its type                                                       *)
(*   k      the exchange, HTTP/2 stream or WebSocket request it is part of *)
(*   flags  what the code reads in it: the request's path is "/responses"; *)
(*          the two ends of an "upgrade" and its "switch"; a chunked event *)
(*          "stream"; END_HEADERS, END_STREAM, "fin"; an event that is     *)
(*          "terminal" for its response, or is of the type "error"; a head *)
(*          with a Content-Encoding that is decoded ("encoded"); a part    *)
(*          that makes decode_http_exchange fail ("undecodable": a request *)
(*          that is not JSON or has no turn metadata, an event that is not *)
(*          JSON)                                                          *)
HttpTypes == {"head", "body", "event", "last"}
FrameTypes == {"pri", "sm", "settings", "headers", "continuation", "data", "rst",
               "text", "cont", "ping"}
Flags == {"/responses", "upgrade", "switch", "stream", "END_HEADERS", "END_STREAM",
          "fin", "terminal", "error", "encoded", "undecodable"}
Directions == {"client", "server"}

ASSUME DecodeAssumption ==
  /\ MaxChunk \in Nat
  /\ \A w \in Wires : \A d \in Directions : \A i \in DOMAIN w[d] :
       /\ w[d][i].t \in HttpTypes \union FrameTypes
       /\ w[d][i].k \in Nat
       /\ w[d][i].flags \subseteq Flags

VARIABLES
  wire,      \* the connection, one of Wires
  start,     \* the pieces that passed before the capture began
  pos,       \* the pieces that have passed
  protocol,  \* FlowState.protocol
  buffer,    \* client_buffer and server_buffer
  queue,     \* request_queue: which requests
  decoder,   \* the two directions of the H2Decoder or the WebSocketDecoders
  streams,   \* h2_streams
  current,   \* WebSocketState.current_request
  decoded,   \* history: the exchanges in the batches process_bytes has filled
  missed,    \* history: pieces of the buffers no frame decoder was given
  failed     \* an error of ingest_input has ended the lane

decoderVars == <<decoder, streams, current>>
vars == <<wire, start, pos, protocol, buffer, queue, decoder, streams, current,
          decoded, missed, failed>>

Numbers == UNION {{wire[d][i].k : i \in DOMAIN wire[d]} : d \in Directions}
UnitAt(d, p) == wire[d][(p + 1) \div 2]
IsFirst(p) == p % 2 = 1
IsHead(d, p) == IsFirst(p) /\ UnitAt(d, p).t = "head"
HasFlag(d, k, f) == \E i \in DOMAIN wire[d] : wire[d][i].k = k /\ f \in wire[d][i].flags
EndOfWire(d) == 2 * Len(wire[d])

(* What an exchange is made of; the chunk that ends a body is not.         *)
PayloadTypes == {"head", "body", "event", "headers", "continuation", "data", "text", "cont"}
Units(d, buf) ==
  LET ends == SelectSeq(buf, LAMBDA p : ~IsFirst(p) /\ UnitAt(d, p).t \in PayloadTypes) IN
  [j \in DOMAIN ends |-> ends[j] \div 2]
Payload(d, k) ==
  SelectSeq([i \in DOMAIN wire[d] |-> i],
            LAMBDA i : wire[d][i].k = k /\ wire[d][i].t \in PayloadTypes)

(* The sides take turns: an exchange is answered after it was asked, and   *)
(* the next one is asked after that.  HTTP/2 streams do not wait.          *)
Passed(d, i) == 2 * i <= pos[d]
InTurn(d, p) ==
  LET u == UnitAt(d, p) IN
  IF d = "server"
  THEN \A i \in DOMAIN wire.client : wire.client[i].k = u.k => Passed("client", i)
  ELSE \A i \in DOMAIN wire.server :
         wire.server[i].k < u.k /\ wire.server[i].t # "ping" => Passed("server", i)

NoStream == [req |-> <<>>, reqEnd |-> FALSE, resp |-> <<>>, respEnd |-> FALSE]
NoRequest == [body |-> <<>>, events |-> <<>>]
NewDecoder == [buf |-> <<>>, part |-> <<>>, preface |-> FALSE]

(* The capture may begin at any moment of a connection's life. *)
Init ==
  /\ wire \in Wires
  /\ pos \in [Directions -> 0..Max({EndOfWire(d) : d \in Directions})]
  /\ \A d \in Directions :
       /\ pos[d] <= EndOfWire(d)
       /\ pos[d] > 0 => InTurn(d, pos[d])
  /\ start = pos
  /\ protocol = "unknown"
  /\ buffer = [d \in Directions |-> <<>>]
  /\ queue = <<>>
  /\ decoder = [d \in Directions |-> NewDecoder]
  /\ streams = [k \in Numbers |-> NoStream]
  /\ current = NoRequest
  /\ decoded = <<>>
  /\ missed = {}
  /\ failed = FALSE

-----------------------------------------------------------------------------
(* The next chunk of a direction, and the protocol that reads it. *)

Chunk(d, n) == [i \in 1..n |-> pos[d] + i]
Buffers(d, n) == [buffer EXCEPT ![d] = @ \o Chunk(d, n)]

(* A chunk passes.  On a WebSocket the sides are seen in turn, as the tap  *)
(* on the client's host sees them; for HTTP any order is allowed.          *)
Passes(d, n) ==
  /\ ~failed
  /\ pos[d] + n <= EndOfWire(d)
  /\ \A i \in DOMAIN wire.client :
       "upgrade" \in wire.client[i].flags =>
         \A p \in Range(Chunk(d, n)) : UnitAt(d, p).t = "ping" \/ InTurn(d, p)
  /\ pos' = [pos EXCEPT ![d] = @ + n]
  /\ UNCHANGED <<wire, start>>

(* The Unknown arm of process_bytes.  looks_like_websocket_handshake       *)
(* compares windows of 19 bytes with 18 and never holds.                   *)
Protocol(bufs) ==
  IF protocol # "unknown" THEN protocol
  ELSE IF Len(bufs.client) >= 2 /\ bufs.client[1] = 1 /\ UnitAt("client", 1).t = "pri"
       THEN "http2"
  ELSE IF \E d \in Directions : bufs[d] # <<>> /\ IsHead(d, bufs[d][1])
       THEN "http1"
  ELSE "unknown"

StayUnknown(d, n) ==
  /\ Passes(d, n)
  /\ Protocol(Buffers(d, n)) = "unknown"
  /\ buffer' = Buffers(d, n)
  /\ UNCHANGED <<protocol, queue, decoderVars, decoded, missed, failed>>

(* decode_http_exchange, on an exchange as it was taken. *)
Decodes(x) ==
  /\ \A j \in DOMAIN x.req : "undecodable" \notin wire.client[x.req[j]].flags
  /\ \A j \in DOMAIN x.resp : "undecodable" \notin wire.server[x.resp[j]].flags

(* An error is passed up by `?` through ingest_input: the batch is lost,   *)
(* with the exchanges before, and the loop ends.                           *)
LaneFails ==
  /\ failed' = TRUE
  /\ UNCHANGED <<protocol, buffer, queue, decoderVars, decoded, missed>>

-----------------------------------------------------------------------------
(* HTTP/1. *)

MessageEnd(d, k) ==
  2 * Max({i \in DOMAIN wire[d] : wire[d][i].k = k /\ wire[d][i].t \in HttpTypes})
Heads(d, buf) == {UnitAt(d, p).k : p \in {p \in Range(buf) : IsHead(d, p)}}

(* try_take_http1_message: the head is complete and so is the body that it *)
(* announces.                                                              *)
Complete(d, buf) == {k \in Heads(d, buf) : MessageEnd(d, k) \in Range(buf)}

(* One of the next heads, as many as there are turns of the loop, does not *)
(* parse: the buffer begins inside a message, or the head is encoded.      *)
(* try_take_http1_message parses it alone, and decode_content_encoding     *)
(* fails on the body that is not there.                                    *)
BadHead(d, buf, turns) ==
  \E p \in Range(buf) :
    /\ ~IsFirst(p) /\ UnitAt(d, p).t = "head"
    /\ ~IsHead(d, buf[1]) \/ "encoded" \in UnitAt(d, p).flags
    /\ Cardinality({k \in Complete(d, buf) : MessageEnd(d, k) < p}) < turns

(* Fault: what is left of the previous response is not skipped. *)
AlignNothing(buf) == buf

(* Fault: a buffer that does not begin with a status line is thrown away. *)
AlignDropsAll(buf) == IF buf # <<>> /\ IsHead("server", buf[1]) THEN buf ELSE <<>>

(* align_http1_response: skip to the first status line. *)
AlignHttp1Response(buf) ==
  SelectSeq(buf, LAMBDA p : \E q \in Range(buf) : q <= p /\ IsHead("server", q))

(* try_take_http1_response_or_terminal: an event stream that is not        *)
(* complete but has a terminal event or an error.  The whole buffer is     *)
(* taken.                                                                  *)
TerminalResponse(buf) ==
  {k \in Heads("server", buf) \ Complete("server", buf) :
     HasFlag("server", k, "stream") /\ \E p \in Range(buf) :
       /\ ~IsFirst(p)
       /\ UnitAt("server", p).k = k
       /\ UnitAt("server", p).flags \intersect {"terminal", "error"} # {}}

Dropped(buf, p) == SelectSeq(buf, LAMBDA q : q > p)

TakenResponse(buf, k) ==
  Units("server", SelectSeq(buf, LAMBDA p :
    /\ \E q \in Range(buf) : q <= p /\ IsHead("server", q) /\ UnitAt("server", q).k = k
    /\ k \in Complete("server", buf) => p <= MessageEnd("server", k)))

InOrder(S) == SetToSortSeq(S, <)
Switches(r, s) == HasFlag("client", r, "upgrade") /\ HasFlag("server", s, "switch")

(* consume_http1: queue the complete requests, then give each queued one   *)
(* the next response.  A head that does not parse or an exchange that does *)
(* not decode, at any turn, is an error.                                   *)
ConsumeHttp1(bufs) ==
  LET requests == Complete("client", bufs.client)
      asked == queue \o InOrder(requests)
      server == IF asked = <<>> THEN bufs.server ELSE AlignHttp1Response(bufs.server)
      answers == InOrder(Complete("server", server) \union TerminalResponse(server))
      n == Min({Len(asked), Len(answers)})
      pairs == [i \in 1..n |-> <<asked[i], answers[i]>>]
      wanted == SelectSeq(pairs, LAMBDA p : ~Switches(p[1], p[2]) /\ HasFlag("client", p[1], "/responses"))
      exchanges == [i \in DOMAIN wanted |-> [req |-> Payload("client", wanted[i][1]),
                                             resp |-> TakenResponse(server, wanted[i][2])]]
      error == \/ BadHead("client", bufs.client, Len(bufs.client))
               \/ BadHead("server", server, Len(asked))
               \/ \E i \in DOMAIN exchanges : ~Decodes(exchanges[i])
      rest == IF n = 0 THEN server
              ELSE IF answers[n] \in TerminalResponse(server) THEN <<>>
              ELSE Dropped(server, MessageEnd("server", answers[n])) IN
  \/ error /\ LaneFails
  \/ /\ ~error
     /\ queue' = SubSeq(asked, n + 1, Len(asked))
     /\ buffer' = [client |-> IF requests = {} THEN bufs.client
                              ELSE Dropped(bufs.client, MessageEnd("client", Max(requests))),
                   server |-> IF n = Len(asked) THEN rest ELSE AlignHttp1Response(rest)]
     /\ decoded' = decoded \o exchanges
     /\ \/ /\ \E i \in 1..n : Switches(asked[i], answers[i])
           /\ protocol' = "websocket"
           /\ missed' = missed \union UNION {{d} \X Range(buffer'[d]) : d \in Directions}
        \/ /\ \A i \in 1..n : ~Switches(asked[i], answers[i])
           /\ protocol' = "http1"
           /\ UNCHANGED missed
     /\ UNCHANGED <<decoderVars, failed>>

Http1Bytes(d, n) ==
  /\ Passes(d, n)
  /\ Protocol(Buffers(d, n)) = "http1"
  /\ ConsumeHttp1(Buffers(d, n))

-----------------------------------------------------------------------------
(* Frames: both decoders keep what is not yet a whole frame. *)

Whole(buf) == Len(buf) \div 2
Frames(buf) == [i \in 1..Whole(buf) |-> buf[2 * i] \div 2]

(* Fault: the frames read are not drained. *)
UnreadAll(buf) == buf

Unread(buf) == SubSeq(buf, 2 * Whole(buf) + 1, Len(buf))
Misread(buf) == buf # <<>> /\ ~IsFirst(buf[1])

(* A decoder that begins inside a frame takes what it reads for a header:  *)
(* it waits for a frame that never ends, or meets an invalid one.          *)
MisreadBytes(d, buf) ==
  \/ /\ decoder' = [decoder EXCEPT ![d].buf = buf]
     /\ UNCHANGED <<streams, current, decoded, failed>>
  \/ /\ failed' = TRUE
     /\ UNCHANGED <<decoderVars, decoded>>

-----------------------------------------------------------------------------
(* HTTP/2. *)

(* consume_client_preface: wrong, incomplete, or drained. *)
PrefaceLen == 4
PrefaceDue(d) == d = "client" /\ ~decoder[d].preface
BadPreface(d, buf) == PrefaceDue(d) /\ buf[1] # 1
AfterPreface(d, buf) ==
  IF PrefaceDue(d) THEN SubSeq(buf, PrefaceLen + 1, Len(buf)) ELSE buf

(* h2_streams.entry(stream_id).or_default() and what is added to it. *)
Absorb(st, d, k, frames, end) ==
  IF d = "client" THEN [st EXCEPT ![k].req = @ \o frames, ![k].reqEnd = end]
  ELSE [st EXCEPT ![k].resp = @ \o frames, ![k].respEnd = end]

(* A CONTINUATION belongs to the header block that is pending. *)
Continues(d, part, i) == part # <<>> /\ wire[d][Head(part)].k = wire[d][i].k

(* One frame: parse_headers_frame, parse_continuation_frame,               *)
(* parse_data_frame, and the event of it in consume_h2.  Others are read   *)
(* over.                                                                   *)
ReadH2Frame(s, d, i) ==
  LET u == wire[d][i]
      ended == IF d = "client" THEN s.streams[u.k].reqEnd ELSE s.streams[u.k].respEnd
      block == s.part \o <<i>> IN
  CASE u.t = "headers" /\ "END_HEADERS" \in u.flags ->
         [s EXCEPT !.streams = Absorb(@, d, u.k, <<i>>, "END_STREAM" \in u.flags)]
    [] u.t = "headers" /\ "END_HEADERS" \notin u.flags ->
         [s EXCEPT !.part = <<i>>]
    [] u.t = "continuation" /\ ~Continues(d, s.part, i) ->
         [s EXCEPT !.ok = FALSE]
    [] u.t = "continuation" /\ Continues(d, s.part, i) /\ "END_HEADERS" \notin u.flags ->
         [s EXCEPT !.part = block]
    [] u.t = "continuation" /\ Continues(d, s.part, i) /\ "END_HEADERS" \in u.flags ->
         [s EXCEPT !.part = <<>>,
                   !.streams = Absorb(@, d, u.k, block,
                                      "END_STREAM" \in wire[d][Head(block)].flags)]
    [] u.t = "data" ->
         [s EXCEPT !.streams = Absorb(@, d, u.k, <<i>>, ended \/ "END_STREAM" \in u.flags)]
    [] OTHER -> s

HasHeaders(d, frames) == \E j \in DOMAIN frames : wire[d][frames[j]].t = "headers"

(* Fault: an answer that has ended completes its stream. *)
CompleteOnResponse(st) ==
  {k \in Numbers : st[k].respEnd /\ HasHeaders("client", st[k].req)
                                 /\ HasHeaders("server", st[k].resp)}

CompleteStreams(st) ==
  {k \in Numbers : /\ st[k].reqEnd /\ st[k].respEnd
                   /\ HasHeaders("client", st[k].req)
                   /\ HasHeaders("server", st[k].resp)}

(* Fault: a complete stream is copied and stays. *)
KeepStreams(st, done) == st

RemoveStreams(st, done) == [k \in Numbers |-> IF k \in done THEN NoStream ELSE st[k]]

(* consume_h2.  What it decodes are whole messages, encoded or not. *)
ConsumeH2(d, buf) ==
  LET frames == Frames(AfterPreface(d, buf))
      s == FoldLeft(LAMBDA acc, i : ReadH2Frame(acc, d, i),
                    [streams |-> streams, part |-> decoder[d].part, ok |-> TRUE], frames)
      done == CompleteStreams(s.streams)
      wanted == InOrder({k \in done : HasFlag("client", k, "/responses")})
      exchanges == [i \in DOMAIN wanted |-> [req |-> s.streams[wanted[i]].req,
                                             resp |-> s.streams[wanted[i]].resp]]
      error == ~s.ok \/ \E i \in DOMAIN exchanges : ~Decodes(exchanges[i]) IN
  \/ /\ ~error
     /\ decoder' = [decoder EXCEPT ![d] =
          [buf |-> IF PrefaceDue(d) /\ Len(buf) < PrefaceLen THEN buf
                   ELSE Unread(AfterPreface(d, buf)),
           part |-> s.part,
           preface |-> ~PrefaceDue(d) \/ Len(buf) >= PrefaceLen]]
     /\ streams' = RemoveStreams(s.streams, done)
     /\ decoded' = decoded \o exchanges
     /\ UNCHANGED <<current, failed>>
  \/ /\ error
     /\ failed' = TRUE
     /\ UNCHANGED <<decoderVars, decoded>>

(* The decoder is given the chunk only: what the buffers held when the     *)
(* preface was recognised is not passed on.                                *)
H2Bytes(d, n) ==
  LET buf == decoder[d].buf \o Chunk(d, n) IN
  /\ Passes(d, n)
  /\ Protocol(Buffers(d, n)) = "http2"
  /\ protocol' = "http2"
  /\ buffer' = Buffers(d, n)
  /\ missed' = IF protocol = "http2" THEN missed
               ELSE missed \union UNION {{e} \X Range(buffer[e]) : e \in Directions}
  /\ UNCHANGED queue
  /\ \/ /\ BadPreface(d, buf)
        /\ failed' = TRUE
        /\ UNCHANGED <<decoderVars, decoded>>
     \/ ~BadPreface(d, buf) /\ Misread(AfterPreface(d, buf)) /\ MisreadBytes(d, buf)
     \/ ~BadPreface(d, buf) /\ ~Misread(AfterPreface(d, buf)) /\ ConsumeH2(d, buf)

-----------------------------------------------------------------------------
(* WebSocket. *)

(* WebSocketDecoder::push on one frame; only text messages are looked at. *)
ReadWsFrame(s, d, i) ==
  LET u == wire[d][i] IN
  CASE u.t = "cont" /\ s.part = <<>> -> [s EXCEPT !.ok = FALSE]
    [] u.t = "cont" /\ s.part # <<>> /\ "fin" \in u.flags ->
         [s EXCEPT !.part = <<>>, !.messages = Append(@, s.part \o <<i>>)]
    [] u.t = "cont" /\ s.part # <<>> /\ "fin" \notin u.flags ->
         [s EXCEPT !.part = Append(@, i)]
    [] u.t = "text" /\ "fin" \in u.flags -> [s EXCEPT !.messages = Append(@, <<i>>)]
    [] u.t = "text" /\ "fin" \notin u.flags -> [s EXCEPT !.part = <<i>>]
    [] OTHER -> s

(* The list of terminal events here does not have "error". *)
IsTerminal(d, message) == \E j \in DOMAIN message : "terminal" \in wire[d][message[j]].flags

(* consume_websocket on one message: a request replaces the current one;   *)
(* an event without a request is ignored.                                  *)
ReadMessage(s, d, message) ==
  LET events == s.current.events \o message
      exchange == [req |-> s.current.body, resp |-> events] IN
  IF d = "client" THEN [s EXCEPT !.current = [body |-> message, events |-> <<>>]]
  ELSE IF s.current = NoRequest THEN s
  ELSE IF IsTerminal(d, message)
       THEN [current |-> NoRequest, decoded |-> Append(s.decoded, exchange),
             ok |-> s.ok /\ Decodes(exchange)]
  ELSE [s EXCEPT !.current.events = events]

WsBytes(d, n) ==
  LET buf == decoder[d].buf \o Chunk(d, n)
      s == FoldLeft(LAMBDA acc, i : ReadWsFrame(acc, d, i),
                    [part |-> decoder[d].part, messages |-> <<>>, ok |-> TRUE], Frames(buf))
      t == FoldLeft(LAMBDA acc, m : ReadMessage(acc, d, m),
                    [current |-> current, decoded |-> decoded, ok |-> s.ok], s.messages) IN
  /\ Passes(d, n)
  /\ protocol = "websocket"
  /\ buffer' = Buffers(d, n)
  /\ UNCHANGED <<protocol, queue, missed>>
  /\ \/ Misread(buf) /\ MisreadBytes(d, buf)
     \/ /\ ~Misread(buf) /\ t.ok
        /\ decoder' = [decoder EXCEPT ![d].buf = Unread(buf), ![d].part = s.part]
        /\ current' = t.current
        /\ decoded' = t.decoded
        /\ UNCHANGED <<streams, failed>>
     \/ /\ ~Misread(buf) /\ ~t.ok
        /\ failed' = TRUE
        /\ UNCHANGED <<decoderVars, decoded>>

-----------------------------------------------------------------------------
Next ==
  \E d \in Directions, n \in 1..MaxChunk :
    StayUnknown(d, n) \/ Http1Bytes(d, n) \/ H2Bytes(d, n) \/ WsBytes(d, n)

Spec == Init /\ [][Next]_vars

-----------------------------------------------------------------------------
(* The state of a connection; only HTTP/1 queues requests, no buffer holds *)
(* a piece that has not passed or was there before the capture, and a      *)
(* decoder never keeps a whole frame.                                      *)
TypeOK ==
  /\ wire \in Wires
  /\ protocol \in {"unknown", "http1", "http2", "websocket"}
  /\ queue \in Seq(Numbers)
  /\ queue # <<>> => protocol = "http1"
  /\ \A d \in Directions :
       /\ start[d] <= pos[d] /\ pos[d] <= EndOfWire(d)
       /\ Range(buffer[d]) \union Range(decoder[d].buf) \subseteq (start[d] + 1)..pos[d]
       /\ Range(decoder[d].part) \subseteq DOMAIN wire[d]
       /\ missed = {} /\ ~PrefaceDue(d) => Len(decoder[d].buf) <= 1
  /\ DOMAIN streams = Numbers
  /\ missed \subseteq {<<d, p>> \in Directions \X Nat : p <= EndOfWire(d)}
  /\ failed \in BOOLEAN

(* The capture began between two exchanges of an HTTP/1 connection or      *)
(* before the first, and every byte since went to a decoder.               *)
BetweenExchanges ==
  \A d \in Directions : \A i \in DOMAIN wire[d] : 2 * i <= start[d] + 1 =>
    /\ wire[d][i].t \in HttpTypes
    /\ wire[d][i].flags \intersect {"upgrade", "switch"} = {}
    /\ \A e \in Directions : \A j \in DOMAIN wire[e] :
         wire[e][j].k = wire[d][i].k => 2 * j <= start[e]
Intact == BetweenExchanges /\ missed = {}

(* However the bytes were cut and whichever direction was ahead, an        *)
(* exchange joins a Responses request with its own response, whole, in     *)
(* order and with nothing of another request or HTTP/2 stream              *)
(* (consume_http1, consume_h2, consume_websocket).                         *)
ExchangesFaithful ==
  Intact => \A j \in DOMAIN decoded : \E k \in Numbers :
    /\ HasFlag("client", k, "/responses")
    /\ decoded[j].req = Payload("client", k)
    /\ decoded[j].resp = Payload("server", k)

(* No exchange is projected twice, wherever the capture began: a response  *)
(* taken at its terminal event is not taken again with its last chunk, a   *)
(* complete stream is removed.                                             *)
ExchangesOnce ==
  \A i, j \in DOMAIN decoded : i # j => decoded[i].req # decoded[j].req

(* When all has passed, every answered Responses request that began after  *)
(* the capture has been projected: no decoder keeps one back.  Except a    *)
(* WebSocket request whose only end is an event of type "error": for HTTP  *)
(* that is terminal (has_terminal_sse_event), for consume_websocket not.   *)
Answered(k) ==
  /\ Payload("server", k) # <<>>
  /\ \A i \in DOMAIN wire.server :
       wire.server[i].k = k /\ wire.server[i].t = "text" => HasFlag("server", k, "terminal")
ExchangesAll ==
  Intact /\ ~failed /\ pos = [d \in Directions |-> EndOfWire(d)] =>
    \A k \in Numbers :
      /\ HasFlag("client", k, "/responses")
      /\ Answered(k)
      /\ \A i \in DOMAIN wire.client : wire.client[i].k = k => 2 * i > start.client
      => \E j \in DOMAIN decoded : decoded[j].req = Payload("client", k)

(* What the code refuses in traffic that is valid: an HTTP/1 head with a   *)
(* Content-Encoding, and a Responses exchange that does not decode, once   *)
(* its request and the end of its answer are there.                        *)
EncodedHeadPassed ==
  \E d \in Directions : \E i \in DOMAIN wire[d] :
    /\ wire[d][i].t = "head" /\ "encoded" \in wire[d][i].flags
    /\ Passed(d, i)
UndecodablePassed ==
  \E k \in Numbers :
    /\ \E d \in Directions : HasFlag(d, k, "undecodable")
    /\ HasFlag("client", k, "/responses")
    /\ \A i \in Range(Payload("client", k)) : Passed("client", i)
    /\ \/ \A i \in Range(Payload("server", k)) : Passed("server", i)
       \/ \E i \in Range(Payload("server", k)) :
            Passed("server", i) /\ wire.server[i].flags \intersect {"terminal", "error"} # {}

(* The daemon ends only when bytes did not reach a decoder (the capture    *)
(* began inside an exchange, or a buffer was not handed over), or at one   *)
(* of these two: however the bytes of other traffic are cut, no decoder    *)
(* takes a part of it for an error.  TECH_SPEC line 27 ("It incrementally  *)
(* handles content encodings") has no such first case; the code does       *)
(* (try_take_http1_message, decode_content_encoding).                      *)
FailsOnlyRefused == failed /\ Intact => EncodedHeadPassed \/ UndecodablePassed
=============================================================================
