---------------------------- MODULE TcpAssembler ----------------------------
(***************************************************************************)
(* TcpAssembler: one direction of a TCP connection, put back in order from *)
(* captured segments that come late, twice, cut differently or not at all. *)
(*                                                                         *)
(* A byte is the position it has in the sender's stream, so two bytes are  *)
(* equal when they are the same byte.  Sequence numbers are positions,     *)
(* shifted by the initial number, modulo SeqSpace (u32 in the code), and   *)
(* are compared as the code does, as plain numbers.                        *)
(***************************************************************************)
EXTENDS Integers, Sequences, FiniteSets, SequencesExt

CONSTANTS
  SeqSpace,       \* 2^32 in the code
  Starts,         \* initial sequence numbers
  StreamLen,      \* bound: bytes the sender ever sends
  MaxLen,         \* bound: bytes of one segment
  MaxGap,         \* TcpAssembler.max_gap
  HistoryLimit    \* TcpAssembler.history_limit

ASSUME AssemblerAssumption ==
  /\ StreamLen \in Nat /\ MaxLen \in Nat
  /\ SeqSpace \in Nat /\ StreamLen < SeqSpace /\ 2 * MaxLen < SeqSpace
  /\ Starts \subseteq 0..(SeqSpace - 1)
  /\ MaxGap \in Nat /\ HistoryLimit \in Nat

VARIABLES
  isn,         \* sequence number of the stream's first byte
  next_seq,    \* TcpAssembler.next_seq, NoSeq before the first segment
  pending,     \* TcpAssembler.pending: fragments by sequence number
  delivered,   \* TcpAssembler.delivered: the recent fragments, for overlaps
  degraded,    \* TcpAssembler.degraded
  out,         \* history: the bytes handed to the decoder
  segs         \* history: the segments pushed so far, <<position, length>>

vars == <<isn, next_seq, pending, delivered, degraded, out, segs>>

NoSeq == -1
Positions == 0..(StreamLen - 1)
Number(p) == (isn + p) % SeqSpace
After(seq, bytes) == (seq + Len(bytes)) % SeqSpace
Slice(p, n) == [i \in 1..n |-> p + i - 1]

Init ==
  /\ isn \in Starts
  /\ next_seq = NoSeq
  /\ pending = <<>>
  /\ delivered = <<>>
  /\ degraded = FALSE
  /\ out = <<>>
  /\ segs = {}

-----------------------------------------------------------------------------
(* The history of delivered fragments. *)

HistoryBytes(d) ==
  LET sum[k \in 0..Len(d)] == IF k = 0 THEN 0 ELSE sum[k - 1] + Len(d[k].bytes)
  IN  sum[Len(d)]

(* Fault: old fragments are never forgotten. *)
RecordAll(d, seq, bytes) == Append(d, [seq |-> seq, bytes |-> bytes])

(* record: the oldest fragments go until the limit is kept. *)
Record(d, seq, bytes) ==
  LET all == Append(d, [seq |-> seq, bytes |-> bytes])
      Rest(k) == SubSeq(all, k + 1, Len(all))
      fits == {k \in 0..Len(all) : HistoryBytes(Rest(k)) <= HistoryLimit} IN
  Rest(CHOOSE k \in fits : \A j \in fits : k <= j)

IsExactRetransmit(seq, bytes) ==
  \E i \in DOMAIN delivered : delivered[i].seq = seq /\ delivered[i].bytes = bytes

(* match_overlap: every byte is found, and is the same, in some fragment. *)
MatchOverlap(seq, bytes) ==
  LET end == After(seq, bytes)
      hits == {i \in DOMAIN delivered :
                 end > delivered[i].seq /\ seq < After(delivered[i].seq, delivered[i].bytes)}
      from(i) == IF seq > delivered[i].seq THEN seq ELSE delivered[i].seq
      to(i) == LET stop == After(delivered[i].seq, delivered[i].bytes)
               IN  IF end < stop THEN end ELSE stop
      len(i) == (to(i) - from(i)) % SeqSpace
      part(base, b, i) == SubSeq(b, from(i) - base + 1, from(i) - base + len(i)) IN
  /\ \A i \in hits : part(delivered[i].seq, delivered[i].bytes, i) = part(seq, bytes, i)
  /\ MapThenSumSet(len, hits) = Len(bytes)

-----------------------------------------------------------------------------
(* push_segment of the bytes p .. p + n - 1. *)

(* One round of flush_pending: the fragment that follows on, if it waits. *)
FlushOne(s) ==
  IF s.next \notin DOMAIN s.pending THEN s
  ELSE [next |-> After(s.next, s.pending[s.next]),
        pending |-> [q \in DOMAIN s.pending \ {s.next} |-> s.pending[q]],
        delivered |-> Record(s.delivered, s.next, s.pending[s.next]),
        out |-> s.out \o s.pending[s.next]]

(* Fault: flush_pending takes up one fragment only. *)
FlushPendingOnce(start) == FlushOne(start)

(* flush_pending: the fragments that follow on, as many as there are. *)
FlushPending(start) ==
  LET after[k \in 0..Cardinality(DOMAIN start.pending)] ==
        IF k = 0 THEN start ELSE FlushOne(after[k - 1])
  IN  after[Cardinality(DOMAIN start.pending)]

(* The end of accept_fragment and the flush after it. *)
Advance(seq, bytes) ==
  LET s == FlushPending([next |-> After(seq, bytes), pending |-> pending,
                         delivered |-> Record(delivered, seq, bytes), out |-> out \o bytes]) IN
  /\ next_seq' = s.next
  /\ pending' = s.pending
  /\ delivered' = s.delivered
  /\ out' = s.out
  /\ UNCHANGED degraded

Degrade ==
  /\ degraded' = TRUE
  /\ UNCHANGED <<next_seq, pending, delivered, out>>

Nothing == UNCHANGED <<next_seq, pending, delivered, degraded, out>>

Pushing(p, n) ==
  /\ ~degraded
  /\ segs' = segs \union {<<p, n>>}
  /\ UNCHANGED isn

(* Wherever the capture begins, the first segment starts the stream. *)
FirstSegment(p, n) ==
  /\ next_seq = NoSeq
  /\ Pushing(p, n)
  /\ next_seq' = After(Number(p), Slice(p, n))
  /\ delivered' = Record(delivered, Number(p), Slice(p, n))
  /\ out' = Slice(p, n)
  /\ UNCHANGED <<pending, degraded>>

(* A segment from further on waits, unless the gap is too wide.  A segment *)
(* that waits already is kept.                                             *)
FutureSegment(p, n) ==
  LET gap == (Number(p) - next_seq) % SeqSpace IN
  /\ next_seq # NoSeq /\ n > 0 /\ Number(p) > next_seq
  /\ Pushing(p, n)
  /\ \/ gap > MaxGap /\ Degrade
     \/ /\ gap <= MaxGap
        /\ pending' = [q \in DOMAIN pending \union {Number(p)} |->
                         IF q \in DOMAIN pending THEN pending[q] ELSE Slice(p, n)]
        /\ UNCHANGED <<next_seq, delivered, degraded, out>>

(* Fault: a segment that overlaps is taken up whole. *)
DueSegmentUntrimmed(p, n, closing) ==
  /\ next_seq # NoSeq /\ n > 0 /\ Number(p) <= next_seq
  /\ Pushing(p, n)
  /\ IF IsExactRetransmit(Number(p), Slice(p, n)) /\ ~closing THEN Nothing
     ELSE Advance(Number(p), Slice(p, n))

(* accept_fragment: what was delivered before is compared, what is new is  *)
(* delivered.  closing: the segment has FIN or RST set.                    *)
DueSegment(p, n, closing) ==
  LET seq == Number(p)
      bytes == Slice(p, n)
      overlap == (next_seq - seq) % SeqSpace
      old == IF overlap >= n THEN bytes ELSE SubSeq(bytes, 1, overlap) IN
  /\ next_seq # NoSeq /\ n > 0 /\ seq <= next_seq
  /\ Pushing(p, n)
  /\ IF IsExactRetransmit(seq, bytes) /\ ~closing THEN Nothing
     ELSE IF ~MatchOverlap(seq, old) THEN Degrade
     ELSE IF overlap >= n THEN Nothing
     ELSE Advance(next_seq, SubSeq(bytes, overlap + 1, n))

(* finish, on FIN or RST: fragments that still wait are a gap. *)
Finish ==
  /\ next_seq # NoSeq /\ ~degraded
  /\ degraded' = (pending # <<>>)
  /\ UNCHANGED <<isn, next_seq, pending, delivered, out, segs>>

Next ==
  \/ \E p \in 0..StreamLen, n \in 0..MaxLen :
       /\ p + n <= StreamLen
       /\ \/ FirstSegment(p, n)
          \/ FutureSegment(p, n)
          \/ \E closing \in BOOLEAN : DueSegment(p, n, closing)
  \/ Finish

Spec == Init /\ [][Next]_vars

-----------------------------------------------------------------------------
(* The assembler's state; the history of fragments keeps its limit. *)
TypeOK ==
  /\ isn \in Starts
  /\ next_seq \in -1..(SeqSpace - 1)
  /\ DOMAIN pending \subseteq 0..(SeqSpace - 1)
  /\ \A q \in DOMAIN pending : pending[q] \in Seq(Positions) /\ pending[q] # <<>>
  /\ \A i \in DOMAIN delivered :
       delivered[i].seq \in 0..(SeqSpace - 1) /\ delivered[i].bytes \in Seq(Positions)
  /\ HistoryBytes(delivered) <= HistoryLimit
  /\ degraded \in BOOLEAN
  /\ out \in Seq(Positions)

(* The decoder gets the bytes of the stream in order, none twice, none     *)
(* left out and none from elsewhere, also when sequence numbers wrap: loss *)
(* never becomes a message that was not sent.                              *)
Contiguous == \A i \in DOMAIN out : out[i] = out[1] + i - 1

Arrived == UNION {s[1]..(s[1] + s[2] - 1) : s \in segs}
First == IF out = <<>> THEN StreamLen ELSE out[1]

(* Segments keep their boundaries when they are sent again. *)
Aligned ==
  \A s, t \in segs : s = t \/ s[1] + s[2] <= t[1] \/ t[1] + t[2] <= s[1]
Wraps == isn + StreamLen >= SeqSpace

(* A gap is reported only when a byte is missing or came before the first  *)
(* one, as long as the sender keeps its segment boundaries, the numbers do *)
(* not wrap and nothing was dropped from the history.                      *)
NoFalseGap ==
  degraded /\ Aligned /\ ~Wraps /\ Len(out) <= HistoryLimit =>
    \/ \E p, q \in Positions : First <= p /\ p < q /\ q \in Arrived /\ p \notin Arrived
    \/ \E p \in Arrived : p < First
=============================================================================
