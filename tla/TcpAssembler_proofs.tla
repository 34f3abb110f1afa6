------------------------ MODULE TcpAssembler_proofs ------------------------
(***************************************************************************)
(* Proofs about TcpAssembler, for every space of sequence numbers, every   *)
(* limit and every stream shorter than the space: what is handed on is a   *)
(* part of the stream, in order (DeliveredInOrder), and a gap that is      *)
(* reported is there (GapsAreReal).                                        *)
(***************************************************************************)
EXTENDS TcpAssembler, WellFoundedInduction, FiniteSetTheorems, SequenceTheorems, TLAPS

(* A set of numbers has a least one. *)
LEMMA LeastNumber ==
  ASSUME NEW D, D \subseteq Nat, D # {}
  PROVE  \E d \in D : \A m \in D : d <= m
<1> DEFINE R == OpToRel(<, Nat)
<1>1. IsWellFoundedOn(R, Nat)
  BY NatLessThanWellFounded
<1>2. \A m, k \in Nat : m < k => <<m, k>> \in R
  BY DEF OpToRel
<1> HIDE DEF R
<1>3. PICK d \in D : \A m \in D : ~(<<m, d>> \in R)
  BY <1>1, WFMin
<1>4. ASSUME NEW m \in D
      PROVE  d <= m
  <2>1. m \in Nat /\ d \in Nat /\ ~(<<m, d>> \in R)
    BY <1>3
  <2>2. ~(m < d)
    BY <1>2, <2>1
  <2> QED
    BY <2>1, <2>2
<1> QED
  BY <1>4

-----------------------------------------------------------------------------
(* Sequence numbers: what wraps and what does not. *)

LEMMA Wrap ==
  ASSUME NEW S \in Nat \ {0}, NEW a \in (-S)..(2 * S - 1)
  PROVE  a % S = IF a < 0 THEN a + S ELSE IF a < S THEN a ELSE a - S
<1>1. a % S \in 0..(S - 1)
  OBVIOUS
<1> QED
  OBVIOUS

LEMMA NumberIs ==
  ASSUME isn \in 0..(SeqSpace - 1), NEW p \in 0..StreamLen
  PROVE  Number(p) = IF isn + p < SeqSpace THEN isn + p ELSE isn + p - SeqSpace
<1>1. SeqSpace \in Nat \ {0} /\ StreamLen \in Nat /\ StreamLen < SeqSpace
  BY AssemblerAssumption
<1>2. PICK a : a = isn + p
  OBVIOUS
<1>3. a \in (-SeqSpace)..(2 * SeqSpace - 1) /\ ~(a < 0)
  BY <1>1, <1>2
<1>4. a % SeqSpace = IF a < SeqSpace THEN a ELSE a - SeqSpace
  BY <1>1, <1>3, Wrap
<1>5. Number(p) = a % SeqSpace
  BY <1>2 DEF Number
<1> QED
  BY <1>1, <1>2, <1>3, <1>4, <1>5

(* Two positions of the stream do not share a number. *)
LEMMA NumberOnce ==
  ASSUME isn \in 0..(SeqSpace - 1), NEW p \in 0..StreamLen, NEW q \in 0..StreamLen,
         Number(p) = Number(q)
  PROVE  p = q
<1>1. SeqSpace \in Nat \ {0} /\ StreamLen \in Nat /\ StreamLen < SeqSpace
  BY AssemblerAssumption
<1> QED
  BY <1>1, NumberIs

(* The number after the bytes from p on is that of the byte after them. *)
LEMMA AfterSlice ==
  ASSUME isn \in 0..(SeqSpace - 1), NEW p \in 0..StreamLen, NEW n \in Nat, p + n <= StreamLen
  PROVE  After(Number(p), Slice(p, n)) = Number(p + n)
<1>1. SeqSpace \in Nat \ {0} /\ StreamLen \in Nat /\ StreamLen < SeqSpace
  BY AssemblerAssumption
<1>2. PICK q \in 0..StreamLen : q = p + n
  BY <1>1
<1>3. /\ Number(p) = IF isn + p < SeqSpace THEN isn + p ELSE isn + p - SeqSpace
      /\ Number(q) = IF isn + q < SeqSpace THEN isn + q ELSE isn + q - SeqSpace
  BY NumberIs
<1>4. PICK a : a = Number(p) + n
  OBVIOUS
<1>5. a \in (-SeqSpace)..(2 * SeqSpace - 1) /\ ~(a < 0)
  BY <1>1, <1>3, <1>4
<1>6. a % SeqSpace = IF a < SeqSpace THEN a ELSE a - SeqSpace
  BY <1>1, <1>5, Wrap
<1>7. Len(Slice(p, n)) = n
  BY DEF Slice
<1>8. a % SeqSpace = Number(q)
  BY <1>1, <1>2, <1>3, <1>4, <1>5, <1>6
<1> QED
  BY <1>2, <1>4, <1>7, <1>8 DEF After

(* The overlap that is less than the segment is the distance to its start. *)
LEMMA OverlapIsDistance ==
  ASSUME isn \in 0..(SeqSpace - 1), NEW p \in 0..StreamLen, NEW n \in Nat, p + n <= StreamLen,
         NEW e \in 0..StreamLen, (Number(e) - Number(p)) % SeqSpace < n
  PROVE  (Number(e) - Number(p)) % SeqSpace = e - p /\ e - p \in 0..n
<1>1. SeqSpace \in Nat \ {0} /\ StreamLen \in Nat /\ StreamLen < SeqSpace
  BY AssemblerAssumption
<1>3. /\ Number(p) = IF isn + p < SeqSpace THEN isn + p ELSE isn + p - SeqSpace
      /\ Number(e) = IF isn + e < SeqSpace THEN isn + e ELSE isn + e - SeqSpace
  BY NumberIs
<1>4. Number(e) - Number(p) \in (-SeqSpace)..(2 * SeqSpace - 1)
  BY <1>1, <1>3
<1>5. (Number(e) - Number(p)) % SeqSpace
        = IF Number(e) - Number(p) < 0 THEN Number(e) - Number(p) + SeqSpace
          ELSE IF Number(e) - Number(p) < SeqSpace THEN Number(e) - Number(p)
          ELSE Number(e) - Number(p) - SeqSpace
  BY <1>1, <1>4, Wrap
<1> QED
  BY <1>1, <1>3, <1>5

-----------------------------------------------------------------------------
(* Slices of the stream. *)

LEMMA SliceTypes ==
  ASSUME NEW p \in Nat, NEW n \in Nat, p + n <= StreamLen
  PROVE  /\ Slice(p, n) \in Seq(Positions) /\ Len(Slice(p, n)) = n
         /\ DOMAIN Slice(p, n) = 1..n
         /\ \A i \in 1..n : Slice(p, n)[i] = p + i - 1
  BY AssemblerAssumption DEF Slice, Positions

LEMMA SliceConcat ==
  ASSUME NEW p \in Nat, NEW m \in Nat, NEW n \in Nat, p + m + n <= StreamLen
  PROVE  Slice(p, m) \o Slice(p + m, n) = Slice(p, m + n)
<1>1. /\ Slice(p, m) \in Seq(Positions) /\ Len(Slice(p, m)) = m
      /\ \A i \in 1..m : Slice(p, m)[i] = p + i - 1
  BY SliceTypes, AssemblerAssumption
<1>2. /\ Slice(p + m, n) \in Seq(Positions) /\ Len(Slice(p + m, n)) = n
      /\ \A i \in 1..n : Slice(p + m, n)[i] = p + m + i - 1
  BY SliceTypes, AssemblerAssumption
<1>3. /\ Slice(p, m + n) \in Seq(Positions) /\ Len(Slice(p, m + n)) = m + n
      /\ \A i \in 1..(m + n) : Slice(p, m + n)[i] = p + i - 1
  BY SliceTypes, AssemblerAssumption
<1>4. PICK a, b, c : a = Slice(p, m) /\ b = Slice(p + m, n) /\ c = Slice(p, m + n)
  OBVIOUS
<1>5. a \o b \in Seq(Positions) /\ Len(a \o b) = m + n
  <2>1. a \in Seq(Positions) /\ b \in Seq(Positions) /\ Len(a) = m /\ Len(b) = n
    BY <1>1, <1>2, <1>4
  <2> QED
    BY <2>1, ConcatProperties
<1>6. ASSUME NEW i \in 1..(m + n)
      PROVE  (a \o b)[i] = c[i]
  <2>1. (a \o b)[i] = IF i <= m THEN a[i] ELSE b[i - m]
    BY <1>1, <1>2, <1>4
  <2>2. CASE i <= m
    BY <1>1, <1>3, <1>4, <2>1, <2>2
  <2>3. CASE ~(i <= m)
    <3>1. PICK j \in 1..n : j = i - m
      BY <2>3
    <3>2. b[j] = p + m + j - 1
      BY <1>2, <1>4
    <3>3. (a \o b)[i] = b[j]
      BY <2>1, <2>3, <3>1
    <3>4. c[i] = p + i - 1
      BY <1>3, <1>4
    <3>5. p + m + j - 1 = p + i - 1
      BY <3>1
    <3> QED
      BY <3>2, <3>3, <3>4, <3>5
  <2> QED
    BY <2>2, <2>3
<1> QED
  BY <1>3, <1>4, <1>5, <1>6, SeqEqual

LEMMA SliceRest ==
  ASSUME NEW p \in Nat, NEW n \in Nat, p + n <= StreamLen, NEW k \in 0..n
  PROVE  SubSeq(Slice(p, n), k + 1, n) = Slice(p + k, n - k)
  BY SliceTypes DEF Slice

-----------------------------------------------------------------------------
(* The history of delivered fragments. *)

Fragment == [seq : 0..(SeqSpace - 1), bytes : Seq(Positions)]
History == {d \in Seq(Fragment) : HistoryBytes(d) <= HistoryLimit}

(* The bytes of the first fragments of d, one more at a time. *)
Sums(f, d, N) == f = [k \in 0..N |-> IF k = 0 THEN 0 ELSE f[k - 1] + Len(d[k].bytes)]
SumExists(d, N) == \E f : Sums(f, d, N)

LEMMA SumsExist ==
  ASSUME NEW d, NEW N \in Nat
  PROVE  SumExists(d, N)
<1> DEFINE D == {n \in Nat : ~SumExists(d, n)}
<1>1. SumExists(d, 0)
  <2>1. PICK f : f = [k \in 0..0 |-> 0]
    OBVIOUS
  <2>2. f = [k \in 0..0 |-> IF k = 0 THEN 0 ELSE f[k - 1] + Len(d[k].bytes)]
    BY <2>1
  <2> QED
    BY <2>2 DEF SumExists, Sums
<1>2. ASSUME NEW n \in Nat, SumExists(d, n)
      PROVE  SumExists(d, n + 1)
  <2>1. PICK g : g = [k \in 0..n |-> IF k = 0 THEN 0 ELSE g[k - 1] + Len(d[k].bytes)]
    BY <1>2 DEF SumExists, Sums
  <2>2. PICK f : f = [k \in 0..(n + 1) |-> IF k = n + 1 THEN g[n] + Len(d[n + 1].bytes) ELSE g[k]]
    OBVIOUS
  <2>3. ASSUME NEW k \in 0..(n + 1)
        PROVE  f[k] = IF k = 0 THEN 0 ELSE f[k - 1] + Len(d[k].bytes)
    <3>1. CASE k = 0
      BY <2>1, <2>2, <3>1
    <3>2. CASE k = n + 1
      <4>1. f[k] = g[n] + Len(d[k].bytes) /\ f[n] = g[n] /\ k - 1 = n
        BY <2>2, <3>2
      <4> QED
        BY <3>2, <4>1
    <3>3. CASE k # 0 /\ k # n + 1
      <4>1. PICK j \in 0..n : j = k - 1
        BY <3>3
      <4>2. f[k] = g[k] /\ f[j] = g[j] /\ g[k] = g[j] + Len(d[k].bytes)
        BY <2>1, <2>2, <3>3, <4>1
      <4> QED
        BY <3>3, <4>1, <4>2
    <3> QED
      BY <3>1, <3>2, <3>3
  <2>4. f = [k \in 0..(n + 1) |-> IF k = 0 THEN 0 ELSE f[k - 1] + Len(d[k].bytes)]
    BY <2>2, <2>3
  <2> QED
    BY <2>4 DEF SumExists, Sums
<1>3. D = {}
  <2> SUFFICES ASSUME D # {}
               PROVE  FALSE
    OBVIOUS
  <2>1. PICK e \in D : \A m \in D : e <= m
    <3>1. D \subseteq Nat
      OBVIOUS
    <3> HIDE DEF D
    <3> QED
      BY <3>1, LeastNumber
  <2>2. e \in Nat /\ e # 0
    BY <1>1
  <2>3. PICK b \in Nat : b + 1 = e
    BY <2>2
  <2>4. ~(b \in D)
    BY <2>1, <2>3
  <2> QED
    BY <1>2, <2>3, <2>4
<1> QED
  BY <1>3

(* The sums over two histories that begin alike. *)
Alike(f, g, d, c, N) ==
  /\ f[0] = 0 /\ g[0] = 0
  /\ \A k \in 1..N : d[k] = c[k] /\ f[k] = f[k - 1] + Len(d[k].bytes) /\ g[k] = g[k - 1] + Len(c[k].bytes)

LEMMA SumsAgree ==
  ASSUME NEW N \in Nat, NEW f, NEW g, NEW d, NEW c, Alike(f, g, d, c, N)
  PROVE  \A k \in 0..N : f[k] = g[k]
<1> USE DEF Alike
<1> DEFINE D == {k \in 0..N : f[k] # g[k]}
<1> SUFFICES ASSUME D # {}
             PROVE  FALSE
  OBVIOUS
<1>1. PICK b \in D : \A m \in D : b <= m
  <2>1. D \subseteq Nat
    OBVIOUS
  <2> HIDE DEF D
  <2> QED
    BY <2>1, LeastNumber
<1>2. b \in 0..N /\ b # 0 /\ f[b] # g[b]
  OBVIOUS
<1>3. PICK e \in 0..N : e = b - 1
  BY <1>2
<1>4. ~(e \in D)
  BY <1>1, <1>2, <1>3
<1>5. f[e] = g[e]
  BY <1>4
<1>6. b \in 1..N
  BY <1>2
<1> QED
  BY <1>2, <1>3, <1>5, <1>6

LEMMA HistoryBytesIs ==
  ASSUME NEW S, NEW d \in Seq(S), NEW N \in Nat, N = Len(d)
  PROVE  \E f : Sums(f, d, N) /\ HistoryBytes(d) = f[N]
<1>1. PICK f : f = CHOOSE h : Sums(h, d, N)
  OBVIOUS
<1>2. Sums(f, d, N)
  BY <1>1, SumsExist DEF SumExists
<1>3. HistoryBytes(d) = f[N]
  BY <1>1 DEF HistoryBytes, Sums
<1> QED
  BY <1>2, <1>3

LEMMA EmptyHistory == HistoryBytes(<<>>) = 0
<1>1. <<>> \in Seq({}) /\ Len(<<>>) = 0
  OBVIOUS
<1>2. PICK f : Sums(f, <<>>, 0) /\ HistoryBytes(<<>>) = f[0]
  BY <1>1, HistoryBytesIs
<1> QED
  BY <1>2 DEF Sums

LEMMA LongerHistory ==
  ASSUME NEW d \in Seq(Fragment), NEW b \in Fragment
  PROVE  HistoryBytes(Append(d, b)) = HistoryBytes(d) + Len(b.bytes)
<1>1. PICK N \in Nat : N = Len(d)
  OBVIOUS
<1>2. PICK c : c = Append(d, b)
  OBVIOUS
<1>3. c \in Seq(Fragment) /\ Len(c) = N + 1 /\ c[N + 1] = b /\ \A k \in 1..N : c[k] = d[k]
  BY <1>1, <1>2
<1>4. PICK f : Sums(f, d, N) /\ HistoryBytes(d) = f[N]
  BY <1>1, HistoryBytesIs
<1>5. PICK g : Sums(g, c, N + 1) /\ HistoryBytes(c) = g[N + 1]
  BY <1>3, HistoryBytesIs
<1>6. f[0] = 0 /\ \A k \in 1..N : f[k] = f[k - 1] + Len(d[k].bytes)
  BY <1>4 DEF Sums
<1>7. g[0] = 0 /\ \A k \in 1..(N + 1) : g[k] = g[k - 1] + Len(c[k].bytes)
  BY <1>5 DEF Sums
<1>8. Alike(f, g, d, c, N)
  BY <1>3, <1>6, <1>7 DEF Alike
<1>9. f[N] = g[N]
  BY <1>8, SumsAgree
<1>10. g[N + 1] = g[N] + Len(b.bytes)
  <2>1. N + 1 \in 1..(N + 1) /\ (N + 1) - 1 = N
    OBVIOUS
  <2> QED
    BY <1>3, <1>7, <2>1
<1> QED
  BY <1>2, <1>4, <1>5, <1>9, <1>10

(* record: the new fragment is the last, and the limit is kept. *)
LEMMA RecordTypes ==
  ASSUME NEW d \in Seq(Fragment), NEW seq \in 0..(SeqSpace - 1), NEW bytes \in Seq(Positions)
  PROVE  Record(d, seq, bytes) \in History
<1> DEFINE all == Append(d, [seq |-> seq, bytes |-> bytes])
           Rest(k) == SubSeq(all, k + 1, Len(all))
           fits == {k \in 0..Len(all) : HistoryBytes(Rest(k)) <= HistoryLimit}
           k0 == CHOOSE k \in fits : \A j \in fits : k <= j
<1>1. all \in Seq(Fragment) /\ Len(all) \in Nat
  <2>1. [seq |-> seq, bytes |-> bytes] \in Fragment
    BY DEF Fragment
  <2> QED
    BY <2>1
<1> HIDE DEF all
<1>2. Rest(Len(all)) = <<>>
  BY <1>1
<1>3. fits \subseteq Nat /\ fits # {}
  <2>1. 0 <= HistoryLimit
    BY AssemblerAssumption
  <2>2. Len(all) \in fits
    <3>1. HistoryBytes(Rest(Len(all))) <= HistoryLimit
      <4> HIDE DEF Rest
      <4> QED
        BY <1>2, <2>1, EmptyHistory
    <3>2. Len(all) \in 0..Len(all)
      BY <1>1
    <3> HIDE DEF Rest
    <3> QED
      BY <3>1, <3>2
  <2> QED
    BY <1>1, <2>2
<1>4. k0 \in fits
  <2>1. \E k \in fits : \A j \in fits : k <= j
    <3> HIDE DEF fits
    <3> QED
      BY <1>3, LeastNumber
  <2> HIDE DEF fits
  <2> QED
    BY <2>1
<1>5. Record(d, seq, bytes) = Rest(k0)
  BY DEF Record, all
<1> HIDE DEF k0
<1>6. Rest(k0) \in Seq(Fragment)
  BY <1>1, <1>4
<1> QED
  BY <1>4, <1>5, <1>6 DEF History

-----------------------------------------------------------------------------
(* flush_pending, round by round. *)

(* The rounds are defined: for each number of them there is a run. *)
LEMMA RoundsExist ==
  ASSUME NEW start, NEW N \in Nat
  PROVE  \E f : f = [k \in 0..N |-> IF k = 0 THEN start ELSE FlushOne(f[k - 1])]
<1> DEFINE Runs(n) == \E f : f = [k \in 0..n |-> IF k = 0 THEN start ELSE FlushOne(f[k - 1])]
           D == {n \in Nat : ~Runs(n)}
<1>1. Runs(0)
  <2>1. PICK f : f = [k \in 0..0 |-> start]
    OBVIOUS
  <2>2. f = [k \in 0..0 |-> IF k = 0 THEN start ELSE FlushOne(f[k - 1])]
    BY <2>1
  <2> QED
    BY <2>2
<1>2. ASSUME NEW n \in Nat, Runs(n)
      PROVE  Runs(n + 1)
  <2>1. PICK g : g = [k \in 0..n |-> IF k = 0 THEN start ELSE FlushOne(g[k - 1])]
    BY <1>2
  <2>2. PICK f : f = [k \in 0..(n + 1) |-> IF k = n + 1 THEN FlushOne(g[n]) ELSE g[k]]
    OBVIOUS
  <2>3. ASSUME NEW k \in 0..(n + 1)
        PROVE  f[k] = IF k = 0 THEN start ELSE FlushOne(f[k - 1])
    <3>1. CASE k = 0
      BY <2>1, <2>2, <3>1
    <3>2. CASE k = n + 1
      <4>1. f[k] = FlushOne(g[n]) /\ f[n] = g[n] /\ k - 1 = n
        BY <2>2, <3>2
      <4> QED
        BY <3>2, <4>1
    <3>3. CASE k # 0 /\ k # n + 1
      <4>1. PICK j \in 0..n : j = k - 1
        BY <3>3
      <4>2. f[k] = g[k] /\ f[j] = g[j] /\ g[k] = FlushOne(g[j])
        BY <2>1, <2>2, <3>3, <4>1
      <4> QED
        BY <3>3, <4>1, <4>2
    <3> QED
      BY <3>1, <3>2, <3>3
  <2>4. f = [k \in 0..(n + 1) |-> IF k = 0 THEN start ELSE FlushOne(f[k - 1])]
    BY <2>2, <2>3
  <2> QED
    BY <2>4
<1> HIDE DEF Runs
<1>3. D = {}
  <2> SUFFICES ASSUME D # {}
               PROVE  FALSE
    OBVIOUS
  <2>1. PICK d \in D : \A m \in D : d <= m
    <3>1. D \subseteq Nat
      OBVIOUS
    <3> HIDE DEF D
    <3> QED
      BY <3>1, LeastNumber
  <2>2. d \in Nat /\ d # 0
    BY <1>1
  <2>3. PICK e \in Nat : e + 1 = d
    BY <2>2
  <2>4. ~(e \in D)
    BY <2>1, <2>3
  <2> QED
    BY <1>2, <2>3, <2>4
<1>4. Runs(N)
  BY <1>3
<1> QED
  BY <1>4 DEF Runs

(* What every round keeps, flush_pending keeps. *)
LEMMA FlushRounds ==
  ASSUME NEW start, NEW G, IsFiniteSet(DOMAIN start.pending), start \in G,
         \A s \in G : FlushOne(s) \in G
  PROVE  FlushPending(start) \in G
<1> DEFINE N == Cardinality(DOMAIN start.pending)
           rounds == CHOOSE f : f = [k \in 0..N |-> IF k = 0 THEN start ELSE FlushOne(f[k - 1])]
<1>1. N \in Nat
  BY FS_CardinalityType
<1>2. FlushPending(start) = rounds[N]
  BY DEF FlushPending
<1>3. rounds = [k \in 0..N |-> IF k = 0 THEN start ELSE FlushOne(rounds[k - 1])]
  <2> HIDE DEF N
  <2>1. \E f : f = [k \in 0..N |-> IF k = 0 THEN start ELSE FlushOne(f[k - 1])]
    BY <1>1, RoundsExist
  <2> QED
    BY <2>1
<1> HIDE DEF N, rounds
<1> DEFINE D == {k \in 0..N : rounds[k] \notin G}
<1>4. ASSUME D # {}
      PROVE  FALSE
  <2>1. PICK d \in D : \A m \in D : d <= m
    <3>1. D \subseteq Nat
      BY <1>1
    <3> HIDE DEF D
    <3> QED
      BY <1>4, <3>1, LeastNumber
  <2>2. d \in 0..N /\ rounds[d] \notin G
    OBVIOUS
  <2>3. d # 0
    BY <1>3, <2>2
  <2>4. PICK e \in 0..N : e = d - 1
    BY <1>1, <2>2, <2>3
  <2>5. rounds[d] = FlushOne(rounds[e])
    BY <1>3, <2>2, <2>3, <2>4
  <2>6. rounds[e] \notin G
    BY <2>2, <2>5
  <2> QED
    BY <1>1, <2>1, <2>2, <2>4, <2>6
<1> QED
  BY <1>1, <1>2, <1>4

-----------------------------------------------------------------------------
(* What holds of the assembler. *)

(* Bytes o were handed on, and next is the number of the one after them. *)
Follows(next, o) ==
  \E a, e \in 0..StreamLen : a <= e /\ o = Slice(a, e - a) /\ next = Number(e)

(* Every fragment that waits is the part of the stream its number says. *)
Waiting(q, bytes) ==
  \E p \in 0..StreamLen, n \in Nat \ {0} :
    p + n <= StreamLen /\ q = Number(p) /\ bytes = Slice(p, n)

Fragments == UNION {[D -> Seq(Positions)] : D \in SUBSET (0..(SeqSpace - 1))}

Sound(s) ==
  /\ Follows(s.next, s.out)
  /\ \A q \in DOMAIN s.pending : Waiting(q, s.pending[q])

(* The states that flush_pending goes through. *)
Flushing ==
  {s \in [next : 0..(SeqSpace - 1), pending : Fragments, delivered : History, out : Seq(Positions)] :
     Sound(s)}

StreamInv ==
  /\ isn \in 0..(SeqSpace - 1)
  /\ next_seq \in -1..(SeqSpace - 1)
  /\ pending \in Fragments
  /\ delivered \in History
  /\ degraded \in BOOLEAN
  /\ out \in Seq(Positions)
  /\ next_seq = NoSeq => out = <<>>
  /\ next_seq # NoSeq => Follows(next_seq, out)
  /\ \A q \in DOMAIN pending : Waiting(q, pending[q])

LEMMA FragmentsTypes ==
  ASSUME NEW f \in Fragments
  PROVE  /\ DOMAIN f \subseteq 0..(SeqSpace - 1) /\ IsFiniteSet(DOMAIN f)
         /\ \A q \in DOMAIN f : f[q] \in Seq(Positions)
         /\ f = [q \in DOMAIN f |-> f[q]]
<1>1. PICK D \in SUBSET (0..(SeqSpace - 1)) : f \in [D -> Seq(Positions)]
  BY DEF Fragments
<1>2. IsFiniteSet(D)
  <2>1. IsFiniteSet(0..(SeqSpace - 1))
    BY FS_Interval, AssemblerAssumption
  <2> QED
    BY <2>1, FS_Subset
<1> QED
  BY <1>1, <1>2

LEMMA NumberTypes ==
  ASSUME isn \in 0..(SeqSpace - 1), NEW p \in 0..StreamLen
  PROVE  Number(p) \in 0..(SeqSpace - 1)
  BY NumberIs, AssemblerAssumption

(* A part of the stream that follows on lengthens what was handed on. *)
LEMMA FollowsOn ==
  ASSUME isn \in 0..(SeqSpace - 1), NEW o, NEW next, Follows(next, o),
         NEW p \in 0..StreamLen, NEW n \in Nat, p + n <= StreamLen, next = Number(p)
  PROVE  /\ Follows(After(next, Slice(p, n)), o \o Slice(p, n))
         /\ After(next, Slice(p, n)) \in 0..(SeqSpace - 1)
         /\ o \o Slice(p, n) \in Seq(Positions)
<1>1. PICK a, e \in 0..StreamLen : a <= e /\ o = Slice(a, e - a) /\ next = Number(e)
  BY DEF Follows
<1>2. e = p
  BY <1>1, NumberOnce
<1>3. StreamLen \in Nat
  BY AssemblerAssumption
<1>4. PICK m \in Nat : m = e - a /\ p = a + m
  BY <1>1, <1>2, <1>3
<1>5. o \o Slice(p, n) = Slice(a, m + n)
  <2>1. a \in Nat /\ a + m + n <= StreamLen
    BY <1>3, <1>4
  <2> QED
    BY <1>1, <1>4, <2>1, SliceConcat
<1>6. PICK b \in 0..StreamLen : b = p + n /\ b - a = m + n /\ a <= b
  BY <1>3, <1>4
<1>7. After(next, Slice(p, n)) = Number(b)
  BY <1>6, AfterSlice
<1>8. Slice(a, m + n) \in Seq(Positions)
  <2>1. a \in Nat /\ m + n \in Nat /\ a + (m + n) <= StreamLen
    BY <1>3, <1>4
  <2> QED
    BY <2>1, SliceTypes
<1> QED
  BY <1>5, <1>6, <1>7, <1>8, NumberTypes DEF Follows

(* One round of flush_pending. *)
LEMMA RoundSound ==
  ASSUME isn \in 0..(SeqSpace - 1), NEW s \in Flushing
  PROVE  FlushOne(s) \in Flushing
<1>1. /\ s.next \in 0..(SeqSpace - 1) /\ s.pending \in Fragments /\ s.delivered \in History
      /\ s.out \in Seq(Positions) /\ Sound(s)
  BY DEF Flushing
<1>2. CASE s.next \notin DOMAIN s.pending
  BY <1>2 DEF FlushOne
<1>3. CASE s.next \in DOMAIN s.pending
  <2> DEFINE bytes == s.pending[s.next]
             left == [q \in DOMAIN s.pending \ {s.next} |-> s.pending[q]]
             t == [next |-> After(s.next, bytes), pending |-> left,
                   delivered |-> Record(s.delivered, s.next, bytes), out |-> s.out \o bytes]
  <2>1. FlushOne(s) = t
    BY <1>3 DEF FlushOne
  <2>2. /\ DOMAIN s.pending \subseteq 0..(SeqSpace - 1)
        /\ \A q \in DOMAIN s.pending : s.pending[q] \in Seq(Positions)
    BY <1>1, FragmentsTypes
  <2>3. PICK p \in 0..StreamLen, n \in Nat \ {0} :
          p + n <= StreamLen /\ s.next = Number(p) /\ bytes = Slice(p, n)
    BY <1>1, <1>3 DEF Sound, Waiting
  <2>4. /\ Follows(After(s.next, bytes), s.out \o bytes)
        /\ After(s.next, bytes) \in 0..(SeqSpace - 1)
        /\ s.out \o bytes \in Seq(Positions)
    <3>1. Follows(s.next, s.out)
      BY <1>1 DEF Sound
    <3> HIDE DEF bytes
    <3> QED
      BY <2>3, <3>1, FollowsOn
  <2>5. left \in Fragments /\ \A q \in DOMAIN left : Waiting(q, left[q])
    <3>1. left \in [DOMAIN s.pending \ {s.next} -> Seq(Positions)]
      BY <2>2
    <3>2. DOMAIN s.pending \ {s.next} \in SUBSET (0..(SeqSpace - 1))
      BY <2>2
    <3> QED
      BY <1>1, <3>1, <3>2 DEF Fragments, Sound
  <2>6. Record(s.delivered, s.next, bytes) \in History
    <3>1. s.delivered \in Seq(Fragment)
      BY <1>1 DEF History
    <3> QED
      BY <1>1, <1>3, <2>2, <3>1, RecordTypes
  <2> HIDE DEF bytes, left
  <2>7. t \in Flushing
    BY <2>4, <2>5, <2>6 DEF Flushing, Sound
  <2> QED
    BY <2>1, <2>7
<1> QED
  BY <1>2, <1>3

-----------------------------------------------------------------------------
(* The steps. *)

(* Where flush_pending begins after a part of the stream that follows on. *)
StartOf(bytes) ==
  [next |-> After(next_seq, bytes), pending |-> pending,
   delivered |-> Record(delivered, next_seq, bytes), out |-> out \o bytes]

LEMMA AdvanceStart ==
  ASSUME StreamInv, next_seq # NoSeq, NEW p \in 0..StreamLen, NEW n \in Nat, p + n <= StreamLen,
         next_seq = Number(p)
  PROVE  StartOf(Slice(p, n)) \in Flushing
<1> DEFINE bytes == Slice(p, n)
<1>1. /\ isn \in 0..(SeqSpace - 1) /\ next_seq \in 0..(SeqSpace - 1)
      /\ Follows(next_seq, out)
  BY DEF StreamInv, NoSeq
<1>2. /\ Follows(After(next_seq, bytes), out \o bytes)
      /\ After(next_seq, bytes) \in 0..(SeqSpace - 1)
      /\ out \o bytes \in Seq(Positions)
  BY <1>1, FollowsOn
<1>3. Record(delivered, next_seq, bytes) \in History
  <2>1. delivered \in Seq(Fragment) /\ bytes \in Seq(Positions)
    BY SliceTypes, AssemblerAssumption DEF StreamInv, History
  <2> HIDE DEF bytes
  <2> QED
    BY <1>1, <2>1, RecordTypes
<1> HIDE DEF bytes
<1>4. StartOf(bytes) \in Flushing
  BY <1>2, <1>3 DEF Flushing, Sound, StreamInv, StartOf
<1> QED
  BY <1>4 DEF bytes

(* The end of accept_fragment, with all that flush_pending adds. *)
LEMMA AdvanceSound ==
  ASSUME StreamInv, next_seq # NoSeq, NEW p \in 0..StreamLen, NEW n \in Nat, p + n <= StreamLen,
         next_seq = Number(p), Advance(next_seq, Slice(p, n)), UNCHANGED isn
  PROVE  StreamInv' /\ next_seq' # NoSeq
<1> DEFINE start == StartOf(Slice(p, n))
           s == FlushPending(start)
<1>1. isn \in 0..(SeqSpace - 1) /\ degraded \in BOOLEAN
  BY DEF StreamInv
<1>2. start \in Flushing
  BY AdvanceStart
<1>3. /\ next_seq' = s.next /\ pending' = s.pending /\ delivered' = s.delivered
      /\ out' = s.out /\ UNCHANGED degraded
  BY DEF Advance, StartOf
<1>4. s \in Flushing
  <2>1. IsFiniteSet(DOMAIN start.pending)
    BY FragmentsTypes DEF StreamInv, StartOf
  <2> HIDE DEF start
  <2> QED
    BY <1>1, <1>2, <2>1, RoundSound, FlushRounds
<1> HIDE DEF s
<1>5. /\ s.next \in 0..(SeqSpace - 1) /\ s.pending \in Fragments /\ s.delivered \in History
      /\ s.out \in Seq(Positions) /\ Follows(s.next, s.out)
      /\ \A q \in DOMAIN s.pending : Waiting(q, s.pending[q])
  BY <1>4 DEF Flushing, Sound
<1>6. /\ Follows(next_seq, out)'
      /\ (\A q \in DOMAIN pending : Waiting(q, pending[q]))'
  BY <1>3, <1>5 DEF Follows, Waiting, Number
<1> QED
  BY <1>1, <1>3, <1>5, <1>6 DEF StreamInv, NoSeq

(* What leaves the stream as it is. *)
LEMMA QuietSound ==
  ASSUME StreamInv, UNCHANGED <<isn, next_seq, pending, delivered, out>>, degraded' \in BOOLEAN
  PROVE  StreamInv'
<1>1. Follows(next_seq, out)' <=> Follows(next_seq, out)
  BY DEF Follows, Number
<1>2. (\A q \in DOMAIN pending : Waiting(q, pending[q])) =>
        (\A q \in DOMAIN pending : Waiting(q, pending[q]))'
  BY DEF Waiting, Number
<1> QED
  BY <1>1, <1>2 DEF StreamInv

LEMMA FirstSound ==
  ASSUME StreamInv, NEW p \in 0..StreamLen, NEW n \in 0..MaxLen, p + n <= StreamLen,
         FirstSegment(p, n)
  PROVE  StreamInv'
<1>1. /\ UNCHANGED <<isn, pending, degraded>> /\ out' = Slice(p, n)
      /\ next_seq' = After(Number(p), Slice(p, n))
      /\ delivered' = Record(delivered, Number(p), Slice(p, n))
  BY DEF FirstSegment, Pushing
<1>2. StreamLen \in Nat /\ n \in Nat /\ isn \in 0..(SeqSpace - 1) /\ Number(p) \in 0..(SeqSpace - 1)
  BY NumberTypes, AssemblerAssumption DEF StreamInv
<1>3. PICK e \in 0..StreamLen : e = p + n /\ n = e - p /\ p <= e
  BY <1>2
<1>4. Slice(p, n) \in Seq(Positions)
  BY <1>2, SliceTypes
<1>5. next_seq' = Number(e) /\ next_seq' \in 0..(SeqSpace - 1)
  BY <1>1, <1>2, <1>3, AfterSlice, NumberTypes
<1>6. delivered' \in History
  BY <1>1, <1>2, <1>4, RecordTypes DEF StreamInv, History
<1>7. Follows(next_seq, out)'
  <2>1. Number(e)' = Number(e)
    BY <1>1 DEF Number
  <2> QED
    BY <1>1, <1>3, <1>5, <2>1 DEF Follows
<1>8. (\A q \in DOMAIN pending : Waiting(q, pending[q]))'
  BY <1>1 DEF StreamInv, Waiting, Number
<1> QED
  BY <1>1, <1>4, <1>5, <1>6, <1>7, <1>8 DEF StreamInv, NoSeq

LEMMA FutureSound ==
  ASSUME StreamInv, NEW p \in 0..StreamLen, NEW n \in 0..MaxLen, p + n <= StreamLen,
         FutureSegment(p, n)
  PROVE  StreamInv'
<1>1. UNCHANGED isn /\ n \in Nat \ {0} /\ isn \in 0..(SeqSpace - 1)
  BY AssemblerAssumption DEF FutureSegment, Pushing, StreamInv
<1>2. CASE Degrade
  BY <1>1, <1>2, QuietSound DEF Degrade
<1>3. CASE /\ pending' = [q \in DOMAIN pending \union {Number(p)} |->
                            IF q \in DOMAIN pending THEN pending[q] ELSE Slice(p, n)]
           /\ UNCHANGED <<next_seq, delivered, degraded, out>>
  <2>1. Slice(p, n) \in Seq(Positions) /\ Number(p) \in 0..(SeqSpace - 1)
    BY <1>1, SliceTypes, NumberTypes, AssemblerAssumption
  <2>2. DOMAIN pending \subseteq 0..(SeqSpace - 1) /\ \A q \in DOMAIN pending : pending[q] \in Seq(Positions)
    BY FragmentsTypes DEF StreamInv
  <2>3. pending' \in Fragments
    <3>1. pending' \in [DOMAIN pending \union {Number(p)} -> Seq(Positions)]
      BY <1>3, <2>1, <2>2
    <3>2. DOMAIN pending \union {Number(p)} \in SUBSET (0..(SeqSpace - 1))
      BY <2>1, <2>2
    <3> QED
      BY <3>1, <3>2 DEF Fragments
  <2>4. \A q \in DOMAIN pending' : Waiting(q, pending'[q])
    <3>1. Waiting(Number(p), Slice(p, n))
      BY <1>1 DEF Waiting
    <3> QED
      BY <1>3, <3>1 DEF StreamInv
  <2>5. (\A q \in DOMAIN pending : Waiting(q, pending[q]))'
    BY <1>1, <2>4 DEF Waiting, Number
  <2>6. Follows(next_seq, out)' <=> Follows(next_seq, out)
    BY <1>1, <1>3 DEF Follows, Number
  <2> QED
    BY <1>1, <1>3, <2>3, <2>5, <2>6 DEF StreamInv
<1> QED
  BY <1>2, <1>3 DEF FutureSegment

(* What is new of a segment is the part of the stream that follows on. *)
LEMMA NewPart ==
  ASSUME StreamInv, next_seq # NoSeq, NEW p \in 0..StreamLen, NEW n \in Nat, p + n <= StreamLen,
         ~((next_seq - Number(p)) % SeqSpace >= n)
  PROVE  \E e \in 0..StreamLen, m \in Nat :
           /\ next_seq = Number(e) /\ e + m <= StreamLen
           /\ SubSeq(Slice(p, n), ((next_seq - Number(p)) % SeqSpace) + 1, n) = Slice(e, m)
<1> DEFINE bytes == Slice(p, n)
           overlap == (next_seq - Number(p)) % SeqSpace
<1>0. isn \in 0..(SeqSpace - 1)
  BY DEF StreamInv
<1>1. PICK e \in 0..StreamLen : next_seq = Number(e)
  BY DEF StreamInv, Follows
<1>2. overlap < n
  BY <1>0, <1>1, NumberTypes, AssemblerAssumption
<1>3. overlap = e - p /\ e - p \in 0..n
  BY <1>0, <1>1, <1>2, OverlapIsDistance
<1>4. PICK k \in 0..n : k = overlap /\ e = p + k
  BY <1>3, AssemblerAssumption
<1>5. SubSeq(bytes, overlap + 1, n) = Slice(e, n - k)
  <2>1. p \in Nat
    BY AssemblerAssumption
  <2>2. SubSeq(Slice(p, n), k + 1, n) = Slice(p + k, n - k)
    BY <2>1, SliceRest
  <2> HIDE DEF overlap
  <2> QED
    BY <1>4, <2>2
<1>6. n - k \in Nat /\ e + (n - k) <= StreamLen
  BY <1>4, AssemblerAssumption
<1> QED
  BY <1>1, <1>5, <1>6

LEMMA DueSound ==
  ASSUME StreamInv, NEW p \in 0..StreamLen, NEW n \in 0..MaxLen, p + n <= StreamLen,
         NEW closing, DueSegment(p, n, closing)
  PROVE  StreamInv' /\ next_seq' # NoSeq
<1> DEFINE bytes == Slice(p, n)
           overlap == (next_seq - Number(p)) % SeqSpace
<1>1. UNCHANGED isn /\ next_seq # NoSeq /\ n \in Nat
  BY AssemblerAssumption DEF DueSegment, Pushing
<1>2. Nothing \/ Degrade \/ (~(overlap >= n) /\ Advance(next_seq, SubSeq(bytes, overlap + 1, n)))
  BY DEF DueSegment
<1>3. CASE Nothing
  BY <1>1, <1>3, QuietSound DEF Nothing, StreamInv
<1>4. CASE Degrade
  BY <1>1, <1>4, QuietSound DEF Degrade
<1>5. CASE ~(overlap >= n) /\ Advance(next_seq, SubSeq(bytes, overlap + 1, n))
  <2>1. PICK e \in 0..StreamLen, m \in Nat :
          /\ next_seq = Number(e) /\ e + m <= StreamLen
          /\ SubSeq(bytes, overlap + 1, n) = Slice(e, m)
    BY <1>1, <1>5, NewPart
  <2> QED
    BY <1>1, <1>5, <2>1, AdvanceSound
<1> QED
  BY <1>2, <1>3, <1>4, <1>5

LEMMA StreamStep ==
  ASSUME StreamInv, [Next]_vars
  PROVE  StreamInv'
<1>1. CASE Finish
  <2>1. degraded' \in BOOLEAN
    BY <1>1 DEF Finish
  <2> QED
    BY <1>1, <2>1, QuietSound DEF Finish
<1>2. CASE UNCHANGED vars
  BY <1>2, QuietSound DEF vars, StreamInv
<1> QED
  BY <1>1, <1>2, FirstSound, FutureSound, DueSound DEF Next

LEMMA StreamInit == Init => StreamInv
<1> SUFFICES ASSUME Init
             PROVE  StreamInv
  OBVIOUS
<1>1. <<>> \in Fragments
  <2>1. <<>> \in [{} -> Seq(Positions)]
    OBVIOUS
  <2> QED
    BY <2>1 DEF Fragments
<1>2. <<>> \in History
  BY EmptyHistory, AssemblerAssumption DEF History
<1>3. isn \in 0..(SeqSpace - 1) /\ next_seq = -1 /\ -1 \in -1..(SeqSpace - 1)
  BY AssemblerAssumption DEF Init, NoSeq
<1>4. pending = <<>> /\ delivered = <<>> /\ degraded = FALSE /\ out = <<>> /\ out \in Seq(Positions)
      /\ DOMAIN pending = {}
  BY DEF Init
<1> QED
  BY <1>1, <1>2, <1>3, <1>4 DEF StreamInv, NoSeq

-----------------------------------------------------------------------------
(* The assembler keeps its state in its types and its history of fragments *)
(* within history_limit, for every way of cutting, repeating and           *)
(* reordering segments (push_segment, finish, record).                     *)
THEOREM AssemblerTypeOK == Spec => []TypeOK
<1>1. Init => isn \in Starts
  BY DEF Init
<1>2. isn \in Starts /\ [Next]_vars => (isn \in Starts)'
  BY DEF Next, vars, FirstSegment, FutureSegment, DueSegment, Pushing, Finish
<1>3. StreamInv /\ isn \in Starts => TypeOK
  <2> SUFFICES ASSUME StreamInv, isn \in Starts
               PROVE  TypeOK
    OBVIOUS
  <2>1. /\ DOMAIN pending \subseteq 0..(SeqSpace - 1)
        /\ \A q \in DOMAIN pending : pending[q] \in Seq(Positions)
    BY FragmentsTypes DEF StreamInv
  <2>2. ASSUME NEW q \in DOMAIN pending
        PROVE  pending[q] # <<>>
    <3>1. PICK p \in 0..StreamLen, n \in Nat \ {0} :
            p + n <= StreamLen /\ q = Number(p) /\ pending[q] = Slice(p, n)
      BY DEF StreamInv, Waiting
    <3>2. Len(Slice(p, n)) = n
      BY <3>1, SliceTypes, AssemblerAssumption
    <3> QED
      BY <3>1, <3>2
  <2>3. delivered \in Seq(Fragment) /\ HistoryBytes(delivered) <= HistoryLimit
    BY DEF StreamInv, History
  <2>4. \A i \in DOMAIN delivered : delivered[i] \in Fragment
    BY <2>3
  <2>5. \A i \in DOMAIN delivered :
          delivered[i].seq \in 0..(SeqSpace - 1) /\ delivered[i].bytes \in Seq(Positions)
    BY <2>4 DEF Fragment
  <2> QED
    BY <2>1, <2>2, <2>3, <2>5 DEF StreamInv, TypeOK
<1> QED
  BY <1>1, <1>2, <1>3, StreamInit, StreamStep, PTL DEF Spec

(* What is handed to the decoder is a part of the sender's stream: in      *)
(* order, nothing twice and nothing left out, however segments are cut,    *)
(* repeated, lost or reordered and wherever their numbers wrap             *)
(* (accept_fragment, flush_pending).                                       *)
THEOREM DeliveredInOrder == Spec => []Contiguous
<1>1. StreamInv => Contiguous
  <2> SUFFICES ASSUME StreamInv, NEW i \in DOMAIN out
               PROVE  out[i] = out[1] + i - 1
    BY DEF Contiguous
  <2>1. next_seq # NoSeq
    BY DEF StreamInv
  <2>2. PICK a, e \in 0..StreamLen : a <= e /\ out = Slice(a, e - a)
    BY <2>1 DEF StreamInv, Follows
  <2>3. PICK n \in Nat : n = e - a /\ a \in Nat /\ a + n <= StreamLen
    BY <2>2, AssemblerAssumption
  <2>4. /\ out = Slice(a, n) /\ DOMAIN out = 1..n
        /\ \A j \in 1..n : out[j] = a + j - 1
    BY <2>2, <2>3, SliceTypes
  <2>5. i \in 1..n /\ 1 \in 1..n
    BY <2>3, <2>4
  <2> QED
    BY <2>3, <2>4, <2>5
<1> QED
  BY <1>1, StreamInit, StreamStep, PTL DEF Spec

-----------------------------------------------------------------------------
(* What holds as long as segments keep their boundaries, the numbers do    *)
(* not wrap and the history has everything: the bytes a .. e - 1 were      *)
(* handed on, z is the number of the stream's first byte, d the history, w *)
(* the fragments that wait and sg the segments that came.                  *)

Segments == {t \in (0..StreamLen) \X (0..MaxLen) : t[1] + t[2] <= StreamLen}
Without(w, q) == [x \in DOMAIN w \ {q} |-> w[x]]
Apart(sg) == \A s, t \in sg : s = t \/ s[1] + s[2] <= t[1] \/ t[1] + t[2] <= s[1]
Whole(z, t) == [seq |-> z + t[1], bytes |-> Slice(t[1], t[2])]

(* The history is the segments handed on, one after the other and without  *)
(* a gap.                                                                  *)
Laid(z, a, e, d, sg) ==
  /\ \A i \in DOMAIN d : \E t \in sg : d[i] = Whole(z, t) /\ a <= t[1] /\ t[1] + t[2] <= e
  /\ \A i, j \in DOMAIN d : i < j => d[i].seq + Len(d[i].bytes) <= d[j].seq
  /\ \A x \in a..(e - 1) :
       \E i \in DOMAIN d : d[i].seq <= z + x /\ z + x < d[i].seq + Len(d[i].bytes)

(* What waits are segments from further on. *)
Ahead(z, e, w, sg) ==
  \A q \in DOMAIN w :
    \E t \in sg : t[2] > 0 /\ q = z + t[1] /\ w[q] = Slice(t[1], t[2]) /\ e <= t[1]

(* A segment that came, unless it begins before the first byte handed on,  *)
(* was handed on or waits.                                                 *)
PlacedOne(z, a, d, w, t) ==
  \/ t[2] = 0
  \/ t[1] < a
  \/ \E i \in DOMAIN d : d[i] = Whole(z, t)
  \/ z + t[1] \in DOMAIN w /\ w[z + t[1]] = Slice(t[1], t[2])
Placed(z, a, d, w, sg) == \A t \in sg : PlacedOne(z, a, d, w, t)

Kept(z, a, e, s, sg) ==
  /\ a <= e /\ s.out = Slice(a, e - a) /\ s.next = z + e
  /\ HistoryBytes(s.delivered) = e - a
  /\ Laid(z, a, e, s.delivered, sg)
  /\ Ahead(z, e, s.pending, sg)
  /\ Placed(z, a, s.delivered, s.pending, sg)
KeptSomewhere(z, s, sg) == \E a, e \in 0..StreamLen : Kept(z, a, e, s, sg)

(* record drops nothing while there is room. *)
LEMMA RecordAppends ==
  ASSUME NEW d \in Seq(Fragment), NEW seq \in 0..(SeqSpace - 1), NEW bytes \in Seq(Positions),
         HistoryBytes(d) + Len(bytes) <= HistoryLimit
  PROVE  Record(d, seq, bytes) = Append(d, [seq |-> seq, bytes |-> bytes])
<1> DEFINE all == Append(d, [seq |-> seq, bytes |-> bytes])
           Rest(k) == SubSeq(all, k + 1, Len(all))
           fits == {k \in 0..Len(all) : HistoryBytes(Rest(k)) <= HistoryLimit}
           k0 == CHOOSE k \in fits : \A j \in fits : k <= j
<1>1. [seq |-> seq, bytes |-> bytes] \in Fragment
  BY DEF Fragment
<1>2. HistoryBytes(all) <= HistoryLimit
  BY <1>1, LongerHistory
<1>3. Record(d, seq, bytes) = Rest(k0)
  BY DEF Record
<1>4. all \in Seq(Fragment) /\ Len(all) \in Nat
  BY <1>1
<1> HIDE DEF all
<1>5. Rest(0) = all
  BY <1>4
<1> HIDE DEF Rest
<1>6. 0 \in fits /\ fits \subseteq Nat
  BY <1>2, <1>4, <1>5
<1>7. k0 = 0
  <2> HIDE DEF fits
  <2>1. k0 \in fits /\ \A j \in fits : k0 <= j
    <3>1. \E k \in fits : \A j \in fits : k <= j
      BY <1>6, LeastNumber
    <3> QED
      BY <3>1
  <2> HIDE DEF k0
  <2> QED
    BY <1>6, <2>1
<1> HIDE DEF k0
<1> QED
  BY <1>3, <1>5, <1>7 DEF all

LEMMA WholeTypes ==
  ASSUME NEW z \in Nat, NEW t \in Segments, z + StreamLen < SeqSpace
  PROVE  /\ Whole(z, t) \in Fragment /\ Whole(z, t).seq = z + t[1]
         /\ Whole(z, t).bytes = Slice(t[1], t[2]) /\ Len(Whole(z, t).bytes) = t[2]
         /\ t[1] \in Nat /\ t[2] \in Nat /\ t = <<t[1], t[2]>> /\ t[1] + t[2] <= StreamLen
<1>1. t[1] \in Nat /\ t[2] \in Nat /\ t = <<t[1], t[2]>> /\ t[1] + t[2] <= StreamLen
  BY AssemblerAssumption DEF Segments
<1>2. Slice(t[1], t[2]) \in Seq(Positions) /\ Len(Slice(t[1], t[2])) = t[2]
  BY <1>1, SliceTypes
<1>3. z + t[1] \in 0..(SeqSpace - 1)
  BY <1>1, AssemblerAssumption
<1> QED
  BY <1>1, <1>2, <1>3 DEF Whole, Fragment

(* A segment that follows on is handed on. *)
LEMMA TakeUp ==
  ASSUME NEW z \in Nat, z + StreamLen < SeqSpace, NEW sg, sg \subseteq Segments, Apart(sg),
         NEW a \in Nat, NEW e \in Nat, NEW t \in sg, t[1] = e,
         NEW d \in Seq(Fragment), NEW w,
         Laid(z, a, e, d, sg), Ahead(z, e, w, sg), Placed(z, a, d, w, sg \ {t}), a <= e,
         t[2] > 0 \/ DOMAIN w = {}
  PROVE  /\ Laid(z, a, e + t[2], Append(d, Whole(z, t)), sg)
         /\ Ahead(z, e + t[2], Without(w, z + e), sg)
         /\ Placed(z, a, Append(d, Whole(z, t)), Without(w, z + e), sg)
<1>0. PICK left, b : left = Without(w, z + e) /\ b = Append(d, Whole(z, t))
  OBVIOUS
<1>8. left = [q \in DOMAIN w \ {z + e} |-> w[q]]
  BY <1>0 DEF Without
<1>1. /\ Whole(z, t) \in Fragment /\ Whole(z, t).seq = z + e /\ Len(Whole(z, t).bytes) = t[2]
      /\ t[2] \in Nat /\ e + t[2] <= StreamLen
  BY WholeTypes
<1>2. PICK N \in Nat : N = Len(d) /\ DOMAIN d = 1..N
  OBVIOUS
<1>3. DOMAIN b = 1..(N + 1) /\ b[N + 1] = Whole(z, t) /\ \A i \in 1..N : b[i] = d[i]
  BY <1>0, <1>1, <1>2
<1>4. \A u \in sg : u[1] \in Nat /\ u[2] \in Nat /\ u[1] + u[2] <= StreamLen
  BY WholeTypes
<1>5. Laid(z, a, e + t[2], b, sg)
  <2>1. ASSUME NEW i \in 1..(N + 1)
        PROVE  \E u \in sg : b[i] = Whole(z, u) /\ a <= u[1] /\ u[1] + u[2] <= e + t[2]
    <3>1. CASE i = N + 1
      BY <1>1, <1>3, <3>1
    <3>2. CASE i # N + 1
      <4>1. i \in 1..N
        BY <3>2
      <4>2. PICK u \in sg : d[i] = Whole(z, u) /\ a <= u[1] /\ u[1] + u[2] <= e
        BY <1>2, <4>1 DEF Laid
      <4>3. u[1] + u[2] <= e + t[2]
        <5>1. \A x, y, v \in Nat : x <= y => x <= y + v
          OBVIOUS
        <5>2. u[1] + u[2] \in Nat
          BY <1>4
        <5> QED
          BY <1>1, <4>2, <5>1, <5>2
      <4>4. b[i] = Whole(z, u)
        BY <1>3, <4>1, <4>2
      <4> QED
        BY <4>2, <4>3, <4>4
    <3> QED
      BY <3>1, <3>2
  <2>2. ASSUME NEW i \in 1..(N + 1), NEW j \in 1..(N + 1), i < j
        PROVE  b[i].seq + Len(b[i].bytes) <= b[j].seq
    <3>1. i \in 1..N
      BY <2>2
    <3>2. CASE j = N + 1
      <4>1. PICK u \in sg : d[i] = Whole(z, u) /\ a <= u[1] /\ u[1] + u[2] <= e
        BY <1>2, <3>1 DEF Laid
      <4>2. d[i].seq = z + u[1] /\ Len(d[i].bytes) = u[2]
        BY <4>1, WholeTypes
      <4>3. b[j].seq = z + e /\ b[i] = d[i]
        BY <1>1, <1>3, <3>1, <3>2
      <4> QED
        BY <1>4, <4>1, <4>2, <4>3
    <3>3. CASE j # N + 1
      <4>1. j \in 1..N
        BY <3>3
      <4>2. d[i].seq + Len(d[i].bytes) <= d[j].seq
        BY <1>2, <2>2, <3>1, <4>1 DEF Laid
      <4> QED
        BY <1>3, <3>1, <4>1, <4>2
    <3> QED
      BY <3>2, <3>3
  <2>3. ASSUME NEW x \in a..((e + t[2]) - 1)
        PROVE  \E i \in 1..(N + 1) : b[i].seq <= z + x /\ z + x < b[i].seq + Len(b[i].bytes)
    <3>1. CASE x < e
      <4>1. x \in a..(e - 1)
        BY <1>1, <3>1
      <4>2. PICK i \in 1..N : d[i].seq <= z + x /\ z + x < d[i].seq + Len(d[i].bytes)
        BY <1>2, <4>1 DEF Laid
      <4>3. b[i] = d[i] /\ i \in 1..(N + 1)
        BY <1>3
      <4> QED
        BY <4>2, <4>3
    <3>2. CASE ~(x < e)
      <4>1. z + e <= z + x /\ z + x < z + e + t[2]
        BY <1>1, <3>2
      <4>2. N + 1 \in 1..(N + 1)
        OBVIOUS
      <4> QED
        BY <1>1, <1>3, <4>1, <4>2
    <3> QED
      BY <3>1, <3>2
  <2>4. \A i \in DOMAIN b : \E u \in sg : b[i] = Whole(z, u) /\ a <= u[1] /\ u[1] + u[2] <= e + t[2]
    BY <1>3, <2>1
  <2>5. \A i, j \in DOMAIN b : i < j => b[i].seq + Len(b[i].bytes) <= b[j].seq
    BY <1>3, <2>2
  <2>6. \A x \in a..((e + t[2]) - 1) :
          \E i \in DOMAIN b : b[i].seq <= z + x /\ z + x < b[i].seq + Len(b[i].bytes)
    BY <1>3, <2>3
  <2>7. PICK h : h = e + t[2]
    OBVIOUS
  <2>8. Laid(z, a, h, b, sg)
    BY <2>4, <2>5, <2>6, <2>7, Zenon DEF Laid
  <2> QED
    BY <2>7, <2>8
<1>6. Ahead(z, e + t[2], left, sg)
  <2> SUFFICES ASSUME NEW q \in DOMAIN w \ {z + e}
               PROVE  \E u \in sg : u[2] > 0 /\ q = z + u[1] /\ left[q] = Slice(u[1], u[2]) /\ e + t[2] <= u[1]
    BY <1>8 DEF Ahead
  <2>1. PICK u \in sg : u[2] > 0 /\ q = z + u[1] /\ w[q] = Slice(u[1], u[2]) /\ e <= u[1]
    BY DEF Ahead
  <2>2. u # t /\ (t[1] + t[2] <= u[1] \/ u[1] + u[2] <= t[1])
    BY <2>1 DEF Apart
  <2>3. e + t[2] <= u[1]
    BY <1>4, <2>1, <2>2
  <2> QED
    BY <1>8, <2>1, <2>3
<1>7. Placed(z, a, b, left, sg)
  <2> SUFFICES ASSUME NEW u \in sg
               PROVE  PlacedOne(z, a, b, left, u)
    BY DEF Placed
  <2>1. CASE u = t
    <3>1. N + 1 \in DOMAIN b
      BY <1>3
    <3> QED
      BY <1>3, <2>1, <3>1 DEF PlacedOne
  <2>2. CASE u # t
    <3>1. PlacedOne(z, a, d, w, u)
      BY <2>2 DEF Placed
    <3>2. ASSUME NEW i \in DOMAIN d, d[i] = Whole(z, u)
          PROVE  PlacedOne(z, a, b, left, u)
      <4>1. i \in DOMAIN b /\ b[i] = d[i]
        BY <1>2, <1>3
      <4> QED
        BY <3>2, <4>1 DEF PlacedOne
    <3>3. ASSUME u[2] # 0, z + u[1] \in DOMAIN w, w[z + u[1]] = Slice(u[1], u[2])
          PROVE  PlacedOne(z, a, b, left, u)
      <4>1. t[1] + t[2] <= u[1] \/ u[1] + u[2] <= t[1]
        BY <2>2 DEF Apart
      <4>2. PICK v \in sg : z + u[1] = z + v[1] /\ e <= v[1]
        BY <3>3 DEF Ahead
      <4>3. CASE u[1] = e
        <5>1. t[2] = 0
          BY <1>1, <1>4, <3>3, <4>1, <4>3
        <5> QED
          BY <3>3, <5>1
      <4>4. CASE u[1] # e
        <5>1. z + u[1] \in DOMAIN left /\ left[z + u[1]] = Slice(u[1], u[2])
          BY <1>4, <1>8, <3>3, <4>4
        <5> QED
          BY <5>1 DEF PlacedOne
      <4> QED
        BY <4>3, <4>4
    <3> QED
      BY <3>1, <3>2, <3>3 DEF PlacedOne
  <2> QED
    BY <2>1, <2>2
<1> QED
  BY <1>0, <1>5, <1>6, <1>7

LEMMA HandOn ==
  ASSUME NEW z \in Nat, z + StreamLen < SeqSpace, NEW sg, sg \subseteq Segments, Apart(sg),
         NEW a \in 0..StreamLen, NEW e \in 0..StreamLen, NEW t \in sg, t[1] = e,
         NEW d \in Seq(Fragment), NEW w,
         Laid(z, a, e, d, sg), Ahead(z, e, w, sg), Placed(z, a, d, w, sg \ {t}), a <= e,
         t[2] > 0 \/ DOMAIN w = {},
         HistoryBytes(d) = e - a, (e - a) + t[2] <= HistoryLimit
  PROVE  KeptSomewhere(z, [next |-> After(z + e, Slice(e, t[2])), pending |-> Without(w, z + e),
                           delivered |-> Record(d, z + e, Slice(e, t[2])),
                           out |-> Slice(a, e - a) \o Slice(e, t[2])], sg)
<1>1. /\ Whole(z, t) \in Fragment /\ t[2] \in Nat /\ e + t[2] <= StreamLen /\ a \in Nat /\ e \in Nat
      /\ Whole(z, t) = [seq |-> z + e, bytes |-> Slice(e, t[2])]
  BY WholeTypes, AssemblerAssumption DEF Whole
<1>2. PICK n \in Nat, m \in Nat : n = t[2] /\ m = e - a /\ a + m = e
  BY <1>1
<1>3. PICK h \in 0..StreamLen : h = e + n /\ h - a = m + n /\ a <= h
  BY <1>1, <1>2, AssemblerAssumption
<1>4. Slice(e, n) \in Seq(Positions) /\ Len(Slice(e, n)) = n /\ z + e \in 0..(SeqSpace - 1)
  <2>1. e + n <= StreamLen
    BY <1>1, <1>2
  <2>2. Slice(e, n) \in Seq(Positions) /\ Len(Slice(e, n)) = n
    BY <1>1, <2>1, SliceTypes
  <2>3. z + e \in 0..(SeqSpace - 1)
    BY <1>1, AssemblerAssumption
  <2> QED
    BY <2>2, <2>3
<1>5. After(z + e, Slice(e, n)) = z + h
  <2>1. PICK x : x = z + e + n
    OBVIOUS
  <2>2. x = z + h /\ x \in 0..(SeqSpace - 1) /\ SeqSpace \in Nat \ {0} /\ x \in (-SeqSpace)..(2 * SeqSpace - 1)
    BY <1>1, <1>3, <2>1, AssemblerAssumption
  <2>3. x % SeqSpace = IF x < 0 THEN x + SeqSpace ELSE IF x < SeqSpace THEN x ELSE x - SeqSpace
    BY <2>2, Wrap
  <2>4. x % SeqSpace = x
    BY <2>2, <2>3
  <2> QED
    BY <1>4, <2>1, <2>2, <2>4 DEF After
<1>6. Record(d, z + e, Slice(e, n)) = Append(d, Whole(z, t))
  <2>1. HistoryBytes(d) + Len(Slice(e, n)) <= HistoryLimit
    BY <1>2, <1>4
  <2> QED
    BY <1>1, <1>2, <1>4, <2>1, RecordAppends
<1>7. HistoryBytes(Append(d, Whole(z, t))) = h - a
  <2>1. Len(Whole(z, t).bytes) = n
    BY <1>2, WholeTypes
  <2> QED
    BY <1>1, <1>2, <1>3, <2>1, LongerHistory
<1>8. Slice(a, e - a) \o Slice(e, n) = Slice(a, h - a)
  <2>1. Slice(a, m) \o Slice(a + m, n) = Slice(a, m + n)
    <3>1. a + m + n <= StreamLen /\ a \in Nat
      BY <1>1, <1>2
    <3> QED
      BY <3>1, SliceConcat
  <2> QED
    BY <1>2, <1>3, <2>1
<1>9. /\ Laid(z, a, h, Append(d, Whole(z, t)), sg)
      /\ Ahead(z, h, Without(w, z + e), sg)
      /\ Placed(z, a, Append(d, Whole(z, t)), Without(w, z + e), sg)
  BY <1>1, <1>2, <1>3, TakeUp
<1>10. PICK s : s = [next |-> After(z + e, Slice(e, n)), pending |-> Without(w, z + e),
                     delivered |-> Record(d, z + e, Slice(e, n)),
                     out |-> Slice(a, e - a) \o Slice(e, n)]
  OBVIOUS
<1>11. Kept(z, a, h, s, sg)
  BY <1>3, <1>5, <1>6, <1>7, <1>8, <1>9, <1>10 DEF Kept
<1>12. KeptSomewhere(z, s, sg)
  BY <1>11 DEF KeptSomewhere
<1> QED
  BY <1>2, <1>10, <1>12

(* One round of flush_pending keeps it so. *)
InOrder(z, s, sg) == Len(s.out) <= HistoryLimit => KeptSomewhere(z, s, sg)

LEMMA RoundInOrder ==
  ASSUME isn \in 0..(SeqSpace - 1), isn + StreamLen < SeqSpace, NEW sg, sg \subseteq Segments, Apart(sg),
         NEW s \in Flushing, InOrder(isn, s, sg)
  PROVE  InOrder(isn, FlushOne(s), sg)
<1>1. CASE s.next \notin DOMAIN s.pending
  BY <1>1 DEF FlushOne
<1>2. CASE s.next \in DOMAIN s.pending
  <2> DEFINE bytes == s.pending[s.next]
             r == [next |-> After(s.next, bytes),
                   pending |-> [q \in DOMAIN s.pending \ {s.next} |-> s.pending[q]],
                   delivered |-> Record(s.delivered, s.next, bytes), out |-> s.out \o bytes]
  <2>1. FlushOne(s) = r
    BY <1>2 DEF FlushOne
  <2>2. /\ s.out \in Seq(Positions) /\ bytes \in Seq(Positions) /\ s.delivered \in Seq(Fragment)
    BY <1>2, FragmentsTypes DEF Flushing, History
  <2> SUFFICES ASSUME Len(r.out) <= HistoryLimit
               PROVE  KeptSomewhere(isn, r, sg)
    BY <2>1 DEF InOrder
  <2>3. Len(s.out \o bytes) = Len(s.out) + Len(bytes) /\ Len(s.out) \in Nat /\ Len(bytes) \in Nat
    <3> HIDE DEF bytes
    <3> QED
      BY <2>2, ConcatProperties, LenProperties
  <2>4. Len(s.out) + Len(bytes) <= HistoryLimit /\ Len(s.out) <= HistoryLimit
    <3>1. r.out = s.out \o bytes
      OBVIOUS
    <3> HIDE DEF r, bytes
    <3> QED
      BY <2>3, <3>1, AssemblerAssumption
  <2>5. PICK a, e \in 0..StreamLen : Kept(isn, a, e, s, sg)
    BY <2>4 DEF InOrder, KeptSomewhere
  <2>6. /\ a <= e /\ s.out = Slice(a, e - a) /\ s.next = isn + e
        /\ HistoryBytes(s.delivered) = e - a
        /\ Laid(isn, a, e, s.delivered, sg)
        /\ Ahead(isn, e, s.pending, sg)
        /\ Placed(isn, a, s.delivered, s.pending, sg)
    BY <2>5 DEF Kept
  <2>7. PICK t \in sg : t[2] > 0 /\ s.next = isn + t[1] /\ bytes = Slice(t[1], t[2])
    BY <1>2, <2>6 DEF Ahead
  <2>8. t[1] \in Nat /\ t[2] \in Nat /\ isn \in Nat /\ t[1] + t[2] <= StreamLen
    BY WholeTypes, AssemblerAssumption
  <2>9. t[1] = e
    BY <2>6, <2>7, <2>8, AssemblerAssumption
  <2>10. Len(bytes) = t[2] /\ Len(s.out) = e - a
    <3>1. PICK m \in Nat : m = e - a /\ a \in Nat /\ a + m <= StreamLen
      BY <2>6, AssemblerAssumption
    <3>2. s.out = Slice(a, m) /\ Len(Slice(a, m)) = m
      BY <2>6, <3>1, SliceTypes
    <3>3. Len(Slice(t[1], t[2])) = t[2]
      BY <2>8, SliceTypes
    <3> QED
      BY <2>7, <3>1, <3>2, <3>3
  <2>11. Placed(isn, a, s.delivered, s.pending, sg \ {t})
    BY <2>6 DEF Placed
  <2>12. r = [next |-> After(isn + e, Slice(e, t[2])), pending |-> Without(s.pending, isn + e),
              delivered |-> Record(s.delivered, isn + e, Slice(e, t[2])),
              out |-> Slice(a, e - a) \o Slice(e, t[2])]
    BY <2>6, <2>7, <2>9 DEF Without
  <2> HIDE DEF r, bytes
  <2>13. (e - a) + t[2] <= HistoryLimit
    BY <2>4, <2>10
  <2> QED
    BY <2>2, <2>6, <2>7, <2>8, <2>9, <2>11, <2>12, <2>13, HandOn
<1> QED
  BY <1>1, <1>2

(* flush_pending leaves nothing that follows on: each round takes one      *)
(* fragment, until none follows.                                           *)
LEMMA FlushComplete ==
  ASSUME NEW start, IsFiniteSet(DOMAIN start.pending)
  PROVE  FlushPending(start).next \notin DOMAIN FlushPending(start).pending
<1> DEFINE N == Cardinality(DOMAIN start.pending)
           rounds == CHOOSE f : f = [k \in 0..N |-> IF k = 0 THEN start ELSE FlushOne(f[k - 1])]
           Settled(s, k) == /\ IsFiniteSet(DOMAIN s.pending)
                            /\ \/ s.next \notin DOMAIN s.pending
                               \/ Cardinality(DOMAIN s.pending) + k <= N
<1>1. N \in Nat
  BY FS_CardinalityType
<1>2. FlushPending(start) = rounds[N]
  BY DEF FlushPending
<1>3. rounds = [k \in 0..N |-> IF k = 0 THEN start ELSE FlushOne(rounds[k - 1])]
  <2> HIDE DEF N
  <2>1. \E f : f = [k \in 0..N |-> IF k = 0 THEN start ELSE FlushOne(f[k - 1])]
    BY <1>1, RoundsExist
  <2> QED
    BY <2>1
<1>4. Settled(start, 0)
  BY <1>1
<1>5. ASSUME NEW s, NEW k \in Nat, Settled(s, k)
      PROVE  Settled(FlushOne(s), k + 1)
  <2>1. CASE s.next \notin DOMAIN s.pending
    BY <1>5, <2>1 DEF FlushOne
  <2>2. CASE s.next \in DOMAIN s.pending
    <3>1. DOMAIN FlushOne(s).pending = DOMAIN s.pending \ {s.next}
      BY <2>2 DEF FlushOne
    <3>2. /\ IsFiniteSet(DOMAIN s.pending \ {s.next})
          /\ Cardinality(DOMAIN s.pending \ {s.next}) = Cardinality(DOMAIN s.pending) - 1
      BY <1>5, <2>2, FS_RemoveElement
    <3>3. Cardinality(DOMAIN s.pending) \in Nat /\ Cardinality(DOMAIN s.pending) + k <= N
      BY <1>5, <2>2, FS_CardinalityType
    <3> HIDE DEF N
    <3>4. Cardinality(DOMAIN FlushOne(s).pending) + (k + 1) <= N
      BY <1>1, <3>1, <3>2, <3>3
    <3> QED
      BY <3>1, <3>2, <3>4
  <2> QED
    BY <2>1, <2>2
<1> HIDE DEF N, rounds
<1> DEFINE D == {k \in 0..N : ~Settled(rounds[k], k)}
<1>6. ASSUME D # {}
      PROVE  FALSE
  <2>1. PICK d \in D : \A m \in D : d <= m
    <3>1. D \subseteq Nat
      BY <1>1
    <3> HIDE DEF D
    <3> QED
      BY <1>6, <3>1, LeastNumber
  <2> HIDE DEF Settled
  <2>2. d \in 0..N /\ ~Settled(rounds[d], d)
    OBVIOUS
  <2>3. d # 0
    <3>1. rounds[0] = start
      BY <1>1, <1>3
    <3> QED
      BY <1>4, <2>2, <3>1
  <2>4. PICK e \in 0..N : e = d - 1 /\ e + 1 = d
    BY <1>1, <2>2, <2>3
  <2>5. rounds[d] = FlushOne(rounds[e])
    BY <1>3, <2>2, <2>3, <2>4
  <2>6. ~Settled(rounds[e], e)
    BY <1>5, <2>2, <2>4, <2>5
  <2> QED
    BY <1>1, <2>1, <2>2, <2>4, <2>6
<1>7. Settled(rounds[N], N)
  <2> HIDE DEF Settled
  <2> QED
    BY <1>1, <1>6
<1>8. ASSUME Cardinality(DOMAIN rounds[N].pending) + N <= N
      PROVE  DOMAIN rounds[N].pending = {}
  <2>1. Cardinality(DOMAIN rounds[N].pending) \in Nat
    BY <1>7, FS_CardinalityType
  <2>2. Cardinality(DOMAIN rounds[N].pending) = 0
    BY <1>1, <1>8, <2>1
  <2> QED
    BY <1>7, <2>2, FS_EmptySet
<1> QED
  BY <1>2, <1>7, <1>8

-----------------------------------------------------------------------------
(* A gap that is there: a byte did not arrive though a later one did, or   *)
(* one came from before the first byte handed on.                          *)
ArrivedIn(sg) == UNION {s[1]..(s[1] + s[2] - 1) : s \in sg}
FirstOf(o) == IF o = <<>> THEN StreamLen ELSE o[1]
Gap(o, sg) ==
  \/ \E p, q \in Positions : FirstOf(o) <= p /\ p < q /\ q \in ArrivedIn(sg) /\ p \notin ArrivedIn(sg)
  \/ \E p \in ArrivedIn(sg) : p < FirstOf(o)

LEMMA SegmentTypes ==
  ASSUME NEW t \in Segments
  PROVE  t[1] \in Nat /\ t[2] \in Nat /\ t = <<t[1], t[2]>> /\ t[1] + t[2] <= StreamLen
BY AssemblerAssumption DEF Segments

LEMMA BytesArrive ==
  ASSUME NEW sg, sg \subseteq Segments, NEW t \in sg, NEW x \in Nat, t[1] <= x, x < t[1] + t[2]
  PROVE  x \in ArrivedIn(sg)
<1>1. t[1] \in Nat /\ t[2] \in Nat
  BY SegmentTypes
<1>2. x \in t[1]..(t[1] + t[2] - 1)
  BY <1>1
<1> QED
  BY <1>2 DEF ArrivedIn

LEMMA BytesCome ==
  ASSUME NEW sg, sg \subseteq Segments, NEW x \in ArrivedIn(sg)
  PROVE  \E t \in sg : t[1] <= x /\ x < t[1] + t[2]
<1>1. PICK t \in sg : x \in t[1]..(t[1] + t[2] - 1)
  BY DEF ArrivedIn
<1>2. t[1] \in Nat /\ t[2] \in Nat
  BY SegmentTypes
<1>3. t[1] <= x /\ x < t[1] + t[2]
  BY <1>1, <1>2
<1> QED
  BY <1>3

(* A segment from before the first byte handed on. *)
LEMMA EarlySeen ==
  ASSUME NEW sg, sg \subseteq Segments, NEW t \in sg, t[2] > 0, NEW o, o = <<>> \/ t[1] < o[1]
  PROVE  Gap(o, sg)
<1>1. t[1] \in Nat /\ t[2] \in Nat /\ t[1] + t[2] <= StreamLen /\ StreamLen \in Nat
  BY SegmentTypes, AssemblerAssumption
<1>2. t[1] \in ArrivedIn(sg)
  BY <1>1, BytesArrive
<1>3. t[1] < FirstOf(o)
  BY <1>1 DEF FirstOf
<1> QED
  BY <1>2, <1>3 DEF Gap

LEMMA SliceFirst ==
  ASSUME NEW a \in 0..StreamLen, NEW e \in 0..StreamLen, a <= e
  PROVE  IF a = e THEN Slice(a, e - a) = <<>> ELSE Slice(a, e - a) # <<>> /\ Slice(a, e - a)[1] = a
<1>1. PICK m \in Nat : m = e - a /\ a \in Nat /\ a + m <= StreamLen
  BY AssemblerAssumption
<1>2. /\ Slice(a, m) \in Seq(Positions) /\ Len(Slice(a, m)) = m
      /\ \A i \in 1..m : Slice(a, m)[i] = a + i - 1
  BY <1>1, SliceTypes
<1>3. CASE m = 0
  <2>1. Slice(a, m) = <<>>
    BY <1>2, <1>3, EmptySeq
  <2> QED
    BY <1>1, <1>3, <2>1
<1>4. CASE m # 0
  <2>1. 1 \in 1..m /\ a + 1 - 1 = a
    BY <1>1, <1>4
  <2>2. Slice(a, m)[1] = a
    BY <1>2, <2>1
  <2>3. Slice(a, m) # <<>>
    BY <1>2, <1>4
  <2> QED
    BY <1>1, <1>4, <2>2, <2>3
<1> QED
  BY <1>3, <1>4

(* A segment from further on, while the byte that follows on did not come. *)
LEMMA GapSeen ==
  ASSUME NEW z \in Nat, z + StreamLen < SeqSpace, NEW sg, sg \subseteq Segments,
         NEW a \in 0..StreamLen, NEW e \in 0..StreamLen, a <= e,
         NEW t \in Segments, t[2] > 0, e < t[1], NEW d, NEW w,
         Laid(z, a, e, d, sg), Ahead(z, e, w, sg), Placed(z, a, d, w, sg), z + e \notin DOMAIN w
  PROVE  Gap(Slice(a, e - a), sg \union {t})
<1> DEFINE all == sg \union {t}
           o == Slice(a, e - a)
<1>1. all \subseteq Segments /\ t \in all
  OBVIOUS
<1>2. /\ t[1] \in Nat /\ t[2] \in Nat /\ t[1] + t[2] <= StreamLen /\ StreamLen \in Nat
      /\ a \in Nat /\ e \in Nat
  BY SegmentTypes, AssemblerAssumption
<1>3. CASE a = e
  <2>1. o = <<>>
    BY <1>3, SliceFirst
  <2> HIDE DEF all, o
  <2> QED
    BY <1>1, <2>1, EarlySeen DEF all, o
<1>4. CASE a # e
  <2>1. o # <<>> /\ o[1] = a
    BY <1>4, SliceFirst
  <2>2. FirstOf(o) = a
    BY <2>1 DEF FirstOf
  <2>3. t[1] \in ArrivedIn(all)
    <3> HIDE DEF all
    <3> QED
      BY <1>1, <1>2, BytesArrive
  <2>4. e \in Positions /\ t[1] \in Positions
    BY <1>2 DEF Positions
  <2>5. CASE e \notin ArrivedIn(all)
    <3> HIDE DEF all, o
    <3>1. FirstOf(o) <= e /\ e < t[1]
      BY <1>2, <2>2
    <3>2. Gap(o, all)
      BY <2>3, <2>4, <2>5, <3>1 DEF Gap
    <3> QED
      BY <3>2 DEF o, all
  <2>6. CASE e \in ArrivedIn(all)
    <3>1. PICK u \in all : u[1] <= e /\ e < u[1] + u[2]
      <4> HIDE DEF all
      <4> QED
        BY <1>1, <2>6, BytesCome
    <3>2. u \in sg
      BY <1>2, <3>1
    <3>3. u[1] \in Nat /\ u[2] \in Nat
      BY <3>2, SegmentTypes
    <3>4. PlacedOne(z, a, d, w, u)
      BY <3>2 DEF Placed
    <3>5. ASSUME NEW i \in DOMAIN d, d[i] = Whole(z, u)
          PROVE  FALSE
      <4>1. PICK v \in sg : d[i] = Whole(z, v) /\ v[1] + v[2] <= e
        BY DEF Laid
      <4>2. z + u[1] = z + v[1] /\ u[2] = v[2] /\ v[1] \in Nat
        <5>1. Whole(z, u).seq = z + u[1] /\ Len(Whole(z, u).bytes) = u[2]
          BY <3>2, WholeTypes
        <5>2. Whole(z, v).seq = z + v[1] /\ Len(Whole(z, v).bytes) = v[2] /\ v[1] \in Nat
          BY WholeTypes
        <5> QED
          BY <3>5, <4>1, <5>1, <5>2
      <4> QED
        BY <1>2, <3>1, <3>3, <4>1, <4>2
    <3>6. ASSUME z + u[1] \in DOMAIN w
          PROVE  FALSE
      <4>1. PICK v \in sg : z + u[1] = z + v[1] /\ e <= v[1]
        BY <3>6 DEF Ahead
      <4>2. v[1] \in Nat
        BY SegmentTypes
      <4>3. u[1] = e
        BY <1>2, <3>1, <3>3, <4>1, <4>2
      <4> QED
        BY <3>6, <4>3
    <3>7. u[1] < a /\ u[2] > 0
      BY <3>1, <3>3, <3>4, <3>5, <3>6 DEF PlacedOne
    <3> HIDE DEF all, o
    <3>8. u[1] < o[1]
      BY <2>1, <3>7
    <3>9. Gap(o, all)
      BY <1>1, <3>7, <3>8, EarlySeen
    <3> QED
      BY <3>9 DEF o, all
  <2> QED
    BY <2>5, <2>6
<1> QED
  BY <1>3, <1>4

-----------------------------------------------------------------------------
(* match_overlap. *)

LEMMA AfterPlain ==
  ASSUME NEW x \in Nat, NEW bytes \in Seq(Positions), x + Len(bytes) < SeqSpace
  PROVE  After(x, bytes) = x + Len(bytes)
<1>1. PICK y : y = x + Len(bytes)
  OBVIOUS
<1>2. y \in 0..(SeqSpace - 1) /\ SeqSpace \in Nat \ {0} /\ y \in (-SeqSpace)..(2 * SeqSpace - 1)
  <2>1. Len(bytes) \in Nat
    OBVIOUS
  <2> QED
    BY <1>1, <2>1, AssemblerAssumption
<1>3. y % SeqSpace = IF y < 0 THEN y + SeqSpace ELSE IF y < SeqSpace THEN y ELSE y - SeqSpace
  BY <1>2, Wrap
<1>4. y % SeqSpace = y
  BY <1>2, <1>3
<1> QED
  BY <1>1, <1>4 DEF After

(* The fragments that a segment overlaps, and the part of each. *)
Hits(seq, bytes) ==
  {i \in DOMAIN delivered :
     After(seq, bytes) > delivered[i].seq /\ seq < After(delivered[i].seq, delivered[i].bytes)}
HitFrom(seq, i) == IF seq > delivered[i].seq THEN seq ELSE delivered[i].seq
HitTo(seq, bytes, i) ==
  IF After(seq, bytes) < After(delivered[i].seq, delivered[i].bytes) THEN After(seq, bytes)
  ELSE After(delivered[i].seq, delivered[i].bytes)
HitLen(seq, bytes, i) == (HitTo(seq, bytes, i) - HitFrom(seq, i)) % SeqSpace
HitPart(seq, bytes, base, b, i) ==
  SubSeq(b, HitFrom(seq, i) - base + 1, HitFrom(seq, i) - base + HitLen(seq, bytes, i))
Adds(f, seq, bytes, S) ==
  f = [s \in SUBSET S |->
         IF s = {} THEN 0
         ELSE HitLen(seq, bytes, CHOOSE x \in s : TRUE) + f[s \ {CHOOSE x \in s : TRUE}]]
Total(seq, bytes, S) == (CHOOSE f : Adds(f, seq, bytes, S))[S]

LEMMA MatchIs ==
  ASSUME NEW seq, NEW bytes
  PROVE  MatchOverlap(seq, bytes) <=>
           /\ \A i \in Hits(seq, bytes) :
                HitPart(seq, bytes, delivered[i].seq, delivered[i].bytes, i) = HitPart(seq, bytes, seq, bytes, i)
           /\ Total(seq, bytes, Hits(seq, bytes)) = Len(bytes)
BY DEF MatchOverlap, MapThenSumSet, MapThenFoldSet, Hits, HitFrom, HitTo, HitLen, HitPart, Adds, Total

LEMMA NoHits ==
  ASSUME NEW seq, NEW bytes, Hits(seq, bytes) = {}
  PROVE  MatchOverlap(seq, bytes) <=> Len(bytes) = 0
<1>1. PICK f : f = [s \in SUBSET {} |-> 0]
  OBVIOUS
<1>2. Adds(f, seq, bytes, {})
  BY <1>1 DEF Adds
<1>3. PICK g : g = CHOOSE h : Adds(h, seq, bytes, {})
  OBVIOUS
<1>4. Adds(g, seq, bytes, {})
  BY <1>2, <1>3
<1>5. g[{}] = 0
  BY <1>4 DEF Adds
<1>6. Total(seq, bytes, {}) = 0
  BY <1>3, <1>5 DEF Total
<1> QED
  BY <1>6, MatchIs

LEMMA OneHit ==
  ASSUME NEW i \in DOMAIN delivered, NEW seq \in Nat, NEW bytes \in Seq(Positions),
         Hits(seq, bytes) = {i}, seq + Len(bytes) < SeqSpace,
         delivered[i].seq = seq, delivered[i].bytes = bytes
  PROVE  MatchOverlap(seq, bytes)
<1>1. PICK n \in Nat : n = Len(bytes)
  OBVIOUS
<1>2. HitLen(seq, bytes, i) = n
  <2>1. After(seq, bytes) = seq + n
    BY <1>1, AfterPlain
  <2>2. HitFrom(seq, i) = seq /\ HitTo(seq, bytes, i) = seq + n
    BY <2>1 DEF HitFrom, HitTo
  <2>3. (seq + n) - seq = n /\ n \in 0..(SeqSpace - 1) /\ SeqSpace \in Nat \ {0}
        /\ n \in (-SeqSpace)..(2 * SeqSpace - 1)
    BY <1>1, AssemblerAssumption
  <2>4. n % SeqSpace = IF n < 0 THEN n + SeqSpace ELSE IF n < SeqSpace THEN n ELSE n - SeqSpace
    BY <2>3, Wrap
  <2>5. n % SeqSpace = n
    BY <2>3, <2>4
  <2> QED
    BY <2>2, <2>3, <2>5 DEF HitLen
<1>3. PICK l : l = HitLen(seq, bytes, i)
  OBVIOUS
<1>4. PICK f : f = [s \in SUBSET {i} |-> IF s = {} THEN 0 ELSE l]
  OBVIOUS
<1>5. Adds(f, seq, bytes, {i})
  <2>1. ASSUME NEW s \in SUBSET {i}
        PROVE  f[s] = IF s = {} THEN 0
                      ELSE HitLen(seq, bytes, CHOOSE x \in s : TRUE) + f[s \ {CHOOSE x \in s : TRUE}]
    <3>1. CASE s = {}
      BY <1>4, <3>1
    <3>2. CASE s # {}
      <4>1. s = {i}
        BY <3>2
      <4>2. (CHOOSE x \in s : TRUE) = i
        BY <4>1
      <4>3. s \ {i} = {} /\ {} \in SUBSET {i}
        BY <4>1
      <4>4. f[{}] = 0 /\ f[s] = l
        BY <1>4, <3>2, <4>3
      <4>5. l + 0 = l
        BY <1>2, <1>3
      <4> QED
        BY <1>3, <3>2, <4>2, <4>3, <4>4, <4>5
    <3> QED
      BY <3>1, <3>2
  <2> QED
    BY <1>4, <2>1 DEF Adds
<1>6. PICK g : g = CHOOSE h : Adds(h, seq, bytes, {i})
  OBVIOUS
<1>7. Adds(g, seq, bytes, {i})
  BY <1>5, <1>6
<1>8. g[{i}] = n
  <2>1. {i} \in SUBSET {i} /\ {} \in SUBSET {i} /\ {i} # {}
    OBVIOUS
  <2>2. (CHOOSE x \in {i} : TRUE) = i
    OBVIOUS
  <2>3. {i} \ {i} = {}
    OBVIOUS
  <2>4. g[{}] = 0
    BY <1>7, <2>1 DEF Adds
  <2>5. g[{i}] = HitLen(seq, bytes, i) + g[{}]
    BY <1>7, <2>1, <2>2, <2>3 DEF Adds
  <2> QED
    BY <1>2, <2>4, <2>5
<1>9. Total(seq, bytes, {i}) = Len(bytes)
  BY <1>1, <1>6, <1>8 DEF Total
<1> QED
  BY <1>9, MatchIs

-----------------------------------------------------------------------------
(* A segment that starts no later than what follows on. *)

(* One of its bytes was handed on: it was handed on whole. *)
LEMMA CoveredWhole ==
  ASSUME NEW z \in Nat, z + StreamLen < SeqSpace, NEW sg, NEW t \in Segments,
         sg \subseteq Segments, Apart(sg \union {t}),
         NEW a \in 0..StreamLen, NEW e \in 0..StreamLen, NEW d, Laid(z, a, e, d, sg),
         NEW x \in a..(e - 1), t[1] <= x, x < t[1] + t[2]
  PROVE  \E i \in DOMAIN d : d[i] = Whole(z, t) /\ t[1] + t[2] <= e
<1>1. PICK i \in DOMAIN d : d[i].seq <= z + x /\ z + x < d[i].seq + Len(d[i].bytes)
  BY DEF Laid
<1>2. PICK u \in sg : d[i] = Whole(z, u) /\ a <= u[1] /\ u[1] + u[2] <= e
  BY DEF Laid
<1>3. d[i].seq = z + u[1] /\ Len(d[i].bytes) = u[2] /\ u[1] \in Nat /\ u[2] \in Nat
  BY <1>2, WholeTypes
<1>4. t[1] \in Nat /\ t[2] \in Nat /\ x \in Nat
  BY SegmentTypes, AssemblerAssumption
<1>5. u[1] <= x /\ x < u[1] + u[2]
  BY <1>1, <1>3, <1>4
<1>6. u = t \/ u[1] + u[2] <= t[1] \/ t[1] + t[2] <= u[1]
  BY DEF Apart
<1>7. u = t
  <2>1. \A b, c, g, h, y \in Nat :
          b <= y /\ y < b + c /\ g <= y /\ y < g + h => ~(b + c <= g) /\ ~(g + h <= b)
    OBVIOUS
  <2>2. ~(u[1] + u[2] <= t[1]) /\ ~(t[1] + t[2] <= u[1])
    BY <1>3, <1>4, <1>5, <2>1
  <2> QED
    BY <1>6, <2>2
<1> QED
  BY <1>2, <1>7

(* What is known of the assembler before such a segment t. *)
Before(a, e, t) ==
  /\ isn \in Nat /\ isn + StreamLen < SeqSpace
  /\ segs \subseteq Segments /\ t \in Segments /\ t[2] > 0
  /\ Apart(segs \union {t})
  /\ a \in 0..StreamLen /\ e \in 0..StreamLen /\ a <= e /\ t[1] <= e
  /\ delivered \in Seq(Fragment)
  /\ Laid(isn, a, e, delivered, segs)

LEMMA HitBounds ==
  ASSUME NEW a, NEW e, NEW t, Before(a, e, t), NEW i \in DOMAIN delivered
  PROVE  \E u \in segs :
           /\ delivered[i] = Whole(isn, u) /\ delivered[i].seq = isn + u[1]
           /\ Len(delivered[i].bytes) = u[2]
           /\ After(delivered[i].seq, delivered[i].bytes) = isn + u[1] + u[2]
           /\ u[1] \in Nat /\ u[2] \in Nat /\ a <= u[1] /\ u[1] + u[2] <= e
<1>1. PICK u \in segs : delivered[i] = Whole(isn, u) /\ a <= u[1] /\ u[1] + u[2] <= e
  BY DEF Before, Laid
<1>2. /\ delivered[i].seq = isn + u[1] /\ Len(delivered[i].bytes) = u[2]
      /\ u[1] \in Nat /\ u[2] \in Nat /\ u[1] + u[2] <= StreamLen /\ delivered[i] \in Fragment
  BY <1>1, WholeTypes DEF Before
<1>3. After(delivered[i].seq, delivered[i].bytes) = isn + u[1] + u[2]
  <2>1. /\ delivered[i].seq \in Nat /\ delivered[i].bytes \in Seq(Positions)
        /\ delivered[i].seq + Len(delivered[i].bytes) < SeqSpace
    <3>1. delivered[i].bytes \in Seq(Positions)
      BY <1>2 DEF Fragment
    <3>2. isn \in Nat /\ isn + StreamLen < SeqSpace /\ SeqSpace \in Nat /\ StreamLen \in Nat
      BY AssemblerAssumption DEF Before
    <3> QED
      BY <1>2, <3>1, <3>2
  <2>2. After(delivered[i].seq, delivered[i].bytes) = delivered[i].seq + Len(delivered[i].bytes)
    BY <2>1, AfterPlain
  <2> QED
    BY <1>2, <2>2 DEF Before
<1> QED
  BY <1>1, <1>2, <1>3

(* The bytes that the segment has in common with what was handed on match, *)
(* unless it began before.                                                 *)
OldPart(t, e) ==
  IF e - t[1] >= t[2] THEN Slice(t[1], t[2]) ELSE SubSeq(Slice(t[1], t[2]), 1, e - t[1])

LEMMA OverlapMatches ==
  ASSUME NEW a, NEW e, NEW t, Before(a, e, t), a <= t[1]
  PROVE  MatchOverlap(isn + t[1], OldPart(t, e))
<1>0. /\ isn \in Nat /\ isn + StreamLen < SeqSpace /\ StreamLen \in Nat /\ a \in Nat /\ e \in Nat
      /\ t[1] \in Nat /\ t[2] \in Nat /\ t[1] + t[2] <= StreamLen /\ t[2] > 0 /\ t[1] <= e
      /\ isn + t[1] \in Nat /\ e <= StreamLen /\ SeqSpace \in Nat
  BY SegmentTypes, AssemblerAssumption DEF Before
<1>1. /\ Slice(t[1], t[2]) \in Seq(Positions) /\ Len(Slice(t[1], t[2])) = t[2]
  BY <1>0, SliceTypes
<1>2. CASE t[1] = e
  <2>1. OldPart(t, e) = <<>>
    <3>1. e - t[1] = 0 /\ ~(0 >= t[2])
      BY <1>0, <1>2
    <3>2. SubSeq(Slice(t[1], t[2]), 1, 0) = <<>>
      BY <1>1
    <3> QED
      BY <3>1, <3>2 DEF OldPart
  <2>2. <<>> \in Seq(Positions) /\ Len(<<>>) = 0
    OBVIOUS
  <2>3. After(isn + t[1], <<>>) = isn + e
    <3>1. (isn + t[1]) + Len(<<>>) < SeqSpace
      BY <1>0, <2>2
    <3>2. After(isn + t[1], <<>>) = isn + t[1] + Len(<<>>)
      BY <1>0, <2>2, <3>1, AfterPlain
    <3> QED
      BY <1>0, <1>2, <2>2, <3>2
  <2>4. Hits(isn + t[1], <<>>) = {}
    <3> SUFFICES ASSUME NEW i \in DOMAIN delivered
                 PROVE  ~(isn + t[1] < After(delivered[i].seq, delivered[i].bytes))
      BY DEF Hits
    <3>1. PICK u \in segs :
           /\ After(delivered[i].seq, delivered[i].bytes) = isn + u[1] + u[2]
           /\ u[1] \in Nat /\ u[2] \in Nat /\ u[1] + u[2] <= e
      BY HitBounds
    <3> QED
      BY <1>0, <1>2, <3>1
  <2> QED
    BY <2>1, <2>2, <2>4, NoHits
<1>3. CASE t[1] # e
  <2>1. t[1] \in a..(e - 1) /\ t[1] < t[1] + t[2]
    BY <1>0, <1>3
  <2>2. PICK i \in DOMAIN delivered : delivered[i] = Whole(isn, t) /\ t[1] + t[2] <= e
    <3>1. /\ t \in Segments /\ segs \subseteq Segments /\ Apart(segs \union {t})
          /\ a \in 0..StreamLen /\ e \in 0..StreamLen /\ Laid(isn, a, e, delivered, segs)
      BY DEF Before
    <3>2. t[1] <= t[1]
      BY <1>0
    <3> QED
      BY <1>0, <2>1, <3>1, <3>2, CoveredWhole
  <2>3. OldPart(t, e) = Slice(t[1], t[2])
    BY <1>0, <2>2 DEF OldPart
  <2>4. PICK seq, bytes : seq = isn + t[1] /\ bytes = Slice(t[1], t[2])
    OBVIOUS
  <2>5. seq \in Nat /\ bytes \in Seq(Positions) /\ Len(bytes) = t[2] /\ seq + Len(bytes) < SeqSpace
    BY <1>0, <1>1, <2>4
  <2>6. After(seq, bytes) = isn + t[1] + t[2]
    <3>1. After(seq, bytes) = seq + Len(bytes)
      BY <2>5, AfterPlain
    <3> QED
      BY <1>0, <2>4, <2>5, <3>1
  <2>7. /\ delivered[i].seq = seq /\ delivered[i].bytes = bytes
        /\ After(delivered[i].seq, delivered[i].bytes) = isn + t[1] + t[2]
    BY <2>2, <2>4, <2>6 DEF Whole
  <2>8. Hits(seq, bytes) = {i}
    <3>1. i \in Hits(seq, bytes)
      BY <1>0, <2>4, <2>6, <2>7 DEF Hits
    <3>2. ASSUME NEW j \in Hits(seq, bytes), j # i
          PROVE  FALSE
      <4>1. /\ j \in DOMAIN delivered /\ isn + t[1] + t[2] > delivered[j].seq
            /\ isn + t[1] < After(delivered[j].seq, delivered[j].bytes)
        BY <2>4, <2>6 DEF Hits
      <4>2. PICK u \in segs :
              /\ delivered[j].seq = isn + u[1] /\ Len(delivered[j].bytes) = u[2]
              /\ After(delivered[j].seq, delivered[j].bytes) = isn + u[1] + u[2]
              /\ u[1] \in Nat /\ u[2] \in Nat
        BY <4>1, HitBounds
      <4>3. i \in Nat /\ j \in Nat
        BY <4>1 DEF Before
      <4>4. CASE i < j
        <5>1. delivered[i].seq + Len(delivered[i].bytes) <= delivered[j].seq
          BY <4>1, <4>4 DEF Before, Laid
        <5>2. isn + t[1] + t[2] <= isn + u[1]
          BY <1>0, <2>4, <2>5, <2>7, <4>2, <5>1
        <5>3. \A x, y \in Int : x <= y => ~(x > y)
          OBVIOUS
        <5>4. isn + t[1] + t[2] \in Int /\ isn + u[1] \in Int
          <6>1. \A x, y, v \in Nat : x + y + v \in Int /\ x + y \in Int
            OBVIOUS
          <6>2. isn \in Nat /\ t[1] \in Nat /\ t[2] \in Nat /\ u[1] \in Nat
            BY <1>0, <4>2, Zenon
          <6> QED
            BY <6>1, <6>2
        <5>5. isn + t[1] + t[2] > isn + u[1]
          BY <4>1, <4>2, Zenon
        <5> QED
          BY <5>2, <5>3, <5>4, <5>5
      <4>5. CASE j < i
        <5>1. delivered[j].seq + Len(delivered[j].bytes) <= delivered[i].seq
          BY <4>1, <4>5 DEF Before, Laid
        <5>2. isn + u[1] + u[2] <= isn + t[1]
          BY <1>0, <2>4, <2>7, <4>2, <5>1
        <5>3. \A x, y, v, c \in Nat : x + y + v <= x + c => ~(x + c < x + y + v)
          OBVIOUS
        <5> QED
          BY <1>0, <4>1, <4>2, <5>2, <5>3
      <4> QED
        BY <3>2, <4>3, <4>4, <4>5
    <3> QED
      BY <3>1, <3>2
  <2> QED
    BY <2>3, <2>4, <2>5, <2>7, <2>8, OneHit
<1> QED
  BY <1>2, <1>3

(* A segment that goes on after what was handed on starts there. *)
LEMMA StartsThere ==
  ASSUME NEW a, NEW e, NEW t, Before(a, e, t), e < t[1] + t[2],
         MatchOverlap(isn + t[1], OldPart(t, e))
  PROVE  t[1] = e
<1>0. /\ isn \in Nat /\ isn + StreamLen < SeqSpace /\ StreamLen \in Nat /\ a \in Nat /\ e \in Nat
      /\ t[1] \in Nat /\ t[2] \in Nat /\ t[1] + t[2] <= StreamLen /\ t[2] > 0 /\ t[1] <= e /\ a <= e
      /\ isn + t[1] \in Nat /\ e <= StreamLen /\ SeqSpace \in Nat
  BY SegmentTypes, AssemblerAssumption DEF Before
<1> SUFFICES ASSUME t[1] # e
             PROVE  FALSE
  OBVIOUS
<1>1. PICK k \in Nat : k = e - t[1] /\ k # 0 /\ k < t[2] /\ t[1] + k = e
  BY <1>0
<1>2. OldPart(t, e) = SubSeq(Slice(t[1], t[2]), 1, k)
  <2>1. ~(e - t[1] >= t[2]) /\ e - t[1] = k
    BY <1>0, <1>1
  <2> QED
    BY <2>1 DEF OldPart
<1>3. PICK b : b = OldPart(t, e)
  OBVIOUS
<1>4. b \in Seq(Positions) /\ Len(b) = k
  <2>1. Slice(t[1], t[2]) \in Seq(Positions) /\ Len(Slice(t[1], t[2])) = t[2]
    BY <1>0, SliceTypes
  <2>2. 1 \in 1..(Len(Slice(t[1], t[2])) + 1) /\ k \in 0..Len(Slice(t[1], t[2]))
    BY <1>0, <1>1, <2>1
  <2> QED
    <3>1. PICK c : c = Slice(t[1], t[2])
      OBVIOUS
    <3>2. c \in Seq(Positions) /\ Len(c) = t[2] /\ k <= Len(c) /\ b = SubSeq(c, 1, k)
      BY <1>0, <1>1, <1>2, <1>3, <2>1, <2>2, <3>1
    <3>3. \A i \in 1..k : c[i] \in Positions
      BY <3>2
    <3>4. b \in Seq(Positions) /\ Len(b) = IF 1 <= k THEN k - 1 + 1 ELSE 0
      BY <3>2, <3>3, SubSeqProperties
    <3> QED
      BY <1>1, <3>4
<1>5. CASE a = e
  <2>1. After(isn + t[1], b) = isn + e
    <3>0. \A x, y, v, m, g \in Nat : y + v <= m /\ x + m < g => (x + y) + v < g
      OBVIOUS
    <3>3. t[1] + k <= StreamLen /\ Len(b) = k
      BY <1>0, <1>1, <1>4, Zenon
    <3>4. isn \in Nat /\ t[1] \in Nat /\ k \in Nat /\ StreamLen \in Nat /\ SeqSpace \in Nat
          /\ isn + StreamLen < SeqSpace
      BY <1>0, <1>1, Zenon
    <3>1. (isn + t[1]) + Len(b) < SeqSpace
      BY <3>0, <3>3, <3>4
    <3>2. After(isn + t[1], b) = (isn + t[1]) + Len(b)
      BY <1>0, <1>4, <3>1, AfterPlain
    <3> QED
      BY <1>0, <1>1, <1>4, <3>2
  <2>2. Hits(isn + t[1], b) = {}
    <3> SUFFICES ASSUME NEW i \in DOMAIN delivered
                 PROVE  ~(After(isn + t[1], b) > delivered[i].seq)
      BY DEF Hits
    <3>1. PICK u \in segs : delivered[i].seq = isn + u[1] /\ u[1] \in Nat /\ a <= u[1]
      BY HitBounds
    <3> QED
      BY <1>0, <1>5, <2>1, <3>1
  <2> QED
    BY <1>1, <1>3, <1>4, <2>2, NoHits
<1>6. CASE a # e
  <2>1. PICK x \in a..(e - 1) : x = e - 1
    BY <1>0, <1>6
  <2>2. t[1] <= x /\ x < t[1] + t[2]
    BY <1>0, <1>1, <2>1
  <2>3. t[1] + t[2] <= e
    BY <1>0, <2>2, CoveredWhole DEF Before
  <2> QED
    BY <1>0, <2>3
<1> QED
  BY <1>5, <1>6

-----------------------------------------------------------------------------
(* The inductive invariant: nothing that follows on waits; and as long as  *)
(* the segments keep their boundaries, the numbers do not wrap and the     *)
(* history has everything, the segments that came are in their place, or   *)
(* else a gap was reported that is there.                                  *)

State == [next |-> next_seq, pending |-> pending, delivered |-> delivered, out |-> out]
Usual(z, o, sg) == Apart(sg) /\ z + StreamLen < SeqSpace /\ Len(o) <= HistoryLimit

InPlace(z, s, sg, reported) ==
  /\ sg \subseteq Segments
  /\ s.next \notin DOMAIN s.pending
  /\ Usual(z, s.out, sg) => IF reported THEN Gap(s.out, sg) ELSE KeptSomewhere(z, s, sg)

GapInv ==
  IF next_seq = NoSeq THEN pending = <<>> /\ delivered = <<>> /\ segs = {} /\ ~degraded
  ELSE InPlace(isn, State, segs, degraded)

LEMMA PlainNumber ==
  ASSUME isn \in 0..(SeqSpace - 1), isn + StreamLen < SeqSpace, NEW p \in 0..StreamLen
  PROVE  Number(p) = isn + p /\ isn \in Nat
<1>1. SeqSpace \in Nat /\ StreamLen \in Nat /\ isn + p < SeqSpace
  BY AssemblerAssumption
<1> QED
  BY <1>1, NumberIs

LEMMA OneSegment ==
  ASSUME NEW p \in 0..StreamLen, NEW n \in 0..MaxLen, p + n <= StreamLen
  PROVE  <<p, n>> \in Segments /\ <<p, n>>[1] = p /\ <<p, n>>[2] = n
BY DEF Segments

LEMMA FewerApart ==
  ASSUME NEW sg, NEW t, Apart(sg \union {t})
  PROVE  Apart(sg)
BY DEF Apart

LEMMA MoreLaid ==
  ASSUME NEW z, NEW a, NEW e, NEW d, NEW sg, NEW t, Laid(z, a, e, d, sg)
  PROVE  Laid(z, a, e, d, sg \union {t})
<1>1. /\ \A i \in DOMAIN d : \E u \in sg : d[i] = Whole(z, u) /\ a <= u[1] /\ u[1] + u[2] <= e
      /\ \A i, j \in DOMAIN d : i < j => d[i].seq + Len(d[i].bytes) <= d[j].seq
      /\ \A x \in a..(e - 1) :
           \E i \in DOMAIN d : d[i].seq <= z + x /\ z + x < d[i].seq + Len(d[i].bytes)
  BY DEF Laid
<1>2. \A i \in DOMAIN d : \E u \in sg \union {t} : d[i] = Whole(z, u) /\ a <= u[1] /\ u[1] + u[2] <= e
  BY <1>1
<1> QED
  BY <1>1, <1>2 DEF Laid

(* Another segment that is in its place. *)
LEMMA MoreKept ==
  ASSUME NEW z, NEW a, NEW e, NEW s, NEW sg, NEW t, Kept(z, a, e, s, sg),
         PlacedOne(z, a, s.delivered, s.pending, t)
  PROVE  Kept(z, a, e, s, sg \union {t})
<1>1. Placed(z, a, s.delivered, s.pending, sg \union {t})
  BY DEF Kept, Placed
<1>2. Ahead(z, e, s.pending, sg \union {t})
  BY DEF Kept, Ahead
<1>3. Laid(z, a, e, s.delivered, sg \union {t})
  BY MoreLaid DEF Kept
<1> QED
  BY <1>1, <1>2, <1>3 DEF Kept

LEMMA FirstInPlace ==
  ASSUME StreamInv, GapInv, NEW p \in 0..StreamLen, NEW n \in 0..MaxLen, p + n <= StreamLen,
         FirstSegment(p, n)
  PROVE  GapInv'
<1>1. PICK t : t = <<p, n>>
  OBVIOUS
<1>2. t \in Segments /\ t[1] = p /\ t[2] = n /\ n \in Nat /\ p \in Nat /\ StreamLen \in Nat
  BY <1>1, OneSegment, AssemblerAssumption
<1>3. /\ next_seq = NoSeq /\ pending = <<>> /\ delivered = <<>> /\ segs = {} /\ ~degraded
      /\ pending' = <<>> /\ degraded' = degraded /\ segs' = {t} /\ isn' = isn
      /\ next_seq' = After(Number(p), Slice(p, n))
      /\ delivered' = Record(<<>>, Number(p), Slice(p, n)) /\ out' = Slice(p, n)
      /\ isn \in 0..(SeqSpace - 1)
  BY <1>1 DEF FirstSegment, Pushing, GapInv, StreamInv
<1>4. next_seq' # NoSeq
  <2>1. next_seq' = Number(p + n)
    BY <1>2, <1>3, AfterSlice
  <2>2. Number(p + n) \in 0..(SeqSpace - 1)
    BY <1>2, <1>3, NumberTypes
  <2> QED
    BY <2>1, <2>2, AssemblerAssumption DEF NoSeq
<1>5. PICK s : s = State'
  OBVIOUS
<1>6. /\ s.next = After(Number(p), Slice(p, n)) /\ s.pending = <<>>
      /\ s.delivered = Record(<<>>, Number(p), Slice(p, n)) /\ s.out = Slice(p, n)
      /\ s = [next |-> s.next, pending |-> s.pending, delivered |-> s.delivered, out |-> s.out]
  BY <1>3, <1>5 DEF State
<1>7. ASSUME Usual(isn, s.out, {t})
      PROVE  KeptSomewhere(isn, s, {t})
  <2>1. Number(p) = isn + p /\ isn \in Nat /\ isn + StreamLen < SeqSpace
    BY <1>3, <1>7, PlainNumber DEF Usual
  <2>2. n <= HistoryLimit
    <3>1. Len(Slice(p, n)) = n
      BY <1>2, SliceTypes
    <3> QED
      BY <1>6, <1>7, <3>1 DEF Usual
  <2>3. p - p = 0 /\ <<>> \in Seq(Fragment) /\ DOMAIN <<>> = {} /\ HistoryBytes(<<>>) = 0
    BY <1>2, EmptyHistory
  <2>4. Laid(isn, p, p, <<>>, {t}) /\ Ahead(isn, p, <<>>, {t}) /\ Placed(isn, p, <<>>, <<>>, {t} \ {t})
    <3>1. p..(p - 1) = {}
      BY <1>2
    <3> QED
      BY <2>3, <3>1 DEF Laid, Ahead, Placed
  <2>5. PICK r : r = [next |-> After(isn + p, Slice(p, n)), pending |-> Without(<<>>, isn + p),
                      delivered |-> Record(<<>>, isn + p, Slice(p, n)),
                      out |-> Slice(p, p - p) \o Slice(p, n)]
    OBVIOUS
  <2>6. KeptSomewhere(isn, r, {t})
    <3>1. /\ {t} \subseteq Segments /\ Apart({t}) /\ t \in {t} /\ p <= p
          /\ t[2] > 0 \/ DOMAIN <<>> = {}
          /\ HistoryBytes(<<>>) = p - p /\ (p - p) + t[2] <= HistoryLimit
      BY <1>2, <1>7, <2>2, <2>3 DEF Usual
    <3>2. KeptSomewhere(isn, [next |-> After(isn + p, Slice(p, t[2])), pending |-> Without(<<>>, isn + p),
                      delivered |-> Record(<<>>, isn + p, Slice(p, t[2])),
                      out |-> Slice(p, p - p) \o Slice(p, t[2])], {t})
      BY <1>2, <2>1, <2>3, <2>4, <3>1, HandOn
    <3> QED
      BY <1>2, <2>5, <3>2
  <2>7. Without(<<>>, isn + p) = <<>>
    BY DEF Without
  <2>8. Slice(p, p - p) \o Slice(p, n) = Slice(p, n)
    <3>1. Slice(p, 0) \in Seq(Positions) /\ Len(Slice(p, 0)) = 0 /\ Slice(p, n) \in Seq(Positions)
      BY <1>2, SliceTypes
    <3>2. Slice(p, 0) = <<>>
      BY <3>1, EmptySeq
    <3>3. <<>> \o Slice(p, n) = Slice(p, n)
      BY <3>1, ConcatEmptySeq
    <3> QED
      BY <2>3, <3>2, <3>3
  <2>9. r = s
    BY <1>6, <2>1, <2>5, <2>7, <2>8
  <2> QED
    BY <2>6, <2>9
<1>8. InPlace(isn, s, {t}, FALSE)
  <2>1. s.next \notin DOMAIN s.pending
    BY <1>6
  <2> QED
    BY <1>2, <1>7, <2>1 DEF InPlace
<1>9. degraded' = FALSE
  BY <1>3 DEF StreamInv
<1> QED
  BY <1>3, <1>4, <1>5, <1>8, <1>9 DEF GapInv

LEMMA FutureInPlace ==
  ASSUME StreamInv, GapInv, NEW p \in 0..StreamLen, NEW n \in 0..MaxLen, p + n <= StreamLen,
         FutureSegment(p, n)
  PROVE  GapInv'
<1>1. PICK t : t = <<p, n>>
  OBVIOUS
<1>2. t \in Segments /\ t[1] = p /\ t[2] = n /\ n \in Nat /\ p \in Nat /\ StreamLen \in Nat /\ n > 0
  BY <1>1, OneSegment, AssemblerAssumption DEF FutureSegment
<1>3. /\ next_seq # NoSeq /\ ~degraded /\ segs' = segs \union {t} /\ isn' = isn /\ isn \in 0..(SeqSpace - 1)
      /\ next_seq' = next_seq /\ out' = out /\ delivered' = delivered /\ Number(p) > next_seq
      /\ next_seq \in Int
  BY <1>1, AssemblerAssumption DEF FutureSegment, Pushing, StreamInv, Degrade
<1>4. PICK s : s = State
  OBVIOUS
<1>5. InPlace(isn, s, segs, FALSE)
  <2>1. degraded = FALSE
    BY <1>3 DEF StreamInv
  <2> QED
    BY <1>3, <1>4, <2>1 DEF GapInv
<1>6. ASSUME Usual(isn, out, segs \union {t})
      PROVE  \E a, e \in 0..StreamLen : Kept(isn, a, e, s, segs) /\ e < p /\ Number(p) = isn + p
                                        /\ isn \in Nat /\ isn + StreamLen < SeqSpace
  <2>1. Usual(isn, s.out, segs)
    BY <1>4, <1>6, FewerApart DEF Usual, State
  <2>2. PICK a, e \in 0..StreamLen : Kept(isn, a, e, s, segs)
    BY <1>5, <2>1 DEF InPlace, KeptSomewhere
  <2>3. Number(p) = isn + p /\ isn \in Nat /\ isn + StreamLen < SeqSpace
    BY <1>3, <1>6, PlainNumber DEF Usual
  <2>4. next_seq = isn + e
    BY <1>4, <2>2 DEF Kept, State
  <2>5. e < p
    <3>1. \A x, y, v \in Nat : x + y > x + v => v < y
      OBVIOUS
    <3>2. e \in Nat
      BY <1>2
    <3> QED
      BY <1>2, <1>3, <2>3, <2>4, <3>1, <3>2
  <2> QED
    BY <2>2, <2>3, <2>5
<1>7. segs \union {t} \subseteq Segments /\ next_seq \notin DOMAIN pending
  BY <1>2, <1>4, <1>5 DEF InPlace, State
<1>8. CASE Degrade
  <2>1. ASSUME Usual(isn, out, segs \union {t})
        PROVE  Gap(out, segs \union {t})
    <3>1. PICK a, e \in 0..StreamLen : Kept(isn, a, e, s, segs) /\ e < p
                                        /\ isn \in Nat /\ isn + StreamLen < SeqSpace
      BY <1>6, <2>1
    <3>2. /\ a <= e /\ out = Slice(a, e - a) /\ next_seq = isn + e
          /\ Laid(isn, a, e, delivered, segs) /\ Ahead(isn, e, pending, segs)
          /\ Placed(isn, a, delivered, pending, segs)
      BY <1>4, <3>1 DEF Kept, State
    <3>3. isn + e \notin DOMAIN pending /\ segs \subseteq Segments /\ e < t[1] /\ t[2] > 0
      BY <1>2, <1>7, <3>1, <3>2
    <3>4. Gap(Slice(a, e - a), segs \union {t})
      BY <1>2, <3>1, <3>2, <3>3, GapSeen
    <3> QED
      BY <3>2, <3>4
  <2>2. State' = s /\ s.out = out /\ s.next = next_seq /\ s.pending = pending /\ degraded' = TRUE
    BY <1>4, <1>8 DEF State, Degrade
  <2>3. InPlace(isn, s, segs \union {t}, TRUE)
    BY <1>7, <2>1, <2>2 DEF InPlace
  <2> QED
    BY <1>3, <2>2, <2>3 DEF GapInv
<1>9. CASE /\ pending' = [q \in DOMAIN pending \union {Number(p)} |->
                            IF q \in DOMAIN pending THEN pending[q] ELSE Slice(p, n)]
           /\ degraded' = degraded
  <2>1. PICK r : r = State'
    OBVIOUS
  <2>2. PICK w : w = pending'
    OBVIOUS
  <2>3. r.out = out /\ r.next = next_seq /\ r.pending = w /\ r.delivered = delivered
    BY <1>3, <2>1, <2>2 DEF State
  <2>4. /\ DOMAIN w = DOMAIN pending \union {Number(p)}
        /\ \A q \in DOMAIN pending : w[q] = pending[q]
        /\ Number(p) \notin DOMAIN pending => w[Number(p)] = Slice(p, n)
    BY <1>9, <2>2
  <2>5. next_seq \notin DOMAIN w
    <3>1. Number(p) # next_seq
      <4>1. \A x \in Int : ~(x > x)
        OBVIOUS
      <4> QED
        BY <1>3, <4>1
    <3> QED
      BY <1>7, <2>4, <3>1
  <2>6. ASSUME Usual(isn, out, segs \union {t})
        PROVE  KeptSomewhere(isn, r, segs \union {t})
    <3>1. PICK a, e \in 0..StreamLen : Kept(isn, a, e, s, segs) /\ e < p /\ Number(p) = isn + p
                                        /\ isn \in Nat /\ isn + StreamLen < SeqSpace
      BY <1>6, <2>6
    <3>2. /\ a <= e /\ out = Slice(a, e - a) /\ next_seq = isn + e /\ HistoryBytes(delivered) = e - a
          /\ Laid(isn, a, e, delivered, segs) /\ Ahead(isn, e, pending, segs)
          /\ Placed(isn, a, delivered, pending, segs)
      BY <1>4, <3>1 DEF Kept, State
    <3>3. w[Number(p)] = Slice(p, n)
      <4>1. CASE Number(p) \in DOMAIN pending
        <5>1. PICK u \in segs : u[2] > 0 /\ Number(p) = isn + u[1] /\ pending[Number(p)] = Slice(u[1], u[2])
          BY <3>2, <4>1 DEF Ahead
        <5>2. u[1] \in Nat /\ u[2] \in Nat /\ u = <<u[1], u[2]>>
          BY <1>7, SegmentTypes
        <5>3. u[1] = p
          <6>1. \A x, y, v \in Nat : x + y = x + v => y = v
            OBVIOUS
          <6> QED
            BY <1>2, <3>1, <5>1, <5>2, <6>1
        <5>4. u = t \/ u[1] + u[2] <= t[1] \/ t[1] + t[2] <= u[1]
          BY <2>6 DEF Usual, Apart
        <5>5. u = t
          BY <1>2, <5>1, <5>2, <5>3, <5>4
        <5> QED
          BY <1>2, <2>4, <4>1, <5>1, <5>5
      <4> QED
        BY <2>4, <4>1
    <3>4. PlacedOne(isn, a, delivered, w, t)
      BY <1>2, <2>4, <3>1, <3>3 DEF PlacedOne
    <3>5. Placed(isn, a, delivered, w, segs)
      BY <2>4, <3>2 DEF Placed, PlacedOne
    <3>6. Ahead(isn, e, w, segs \union {t})
      <4> SUFFICES ASSUME NEW q \in DOMAIN w
                   PROVE  \E u \in segs \union {t} :
                            u[2] > 0 /\ q = isn + u[1] /\ w[q] = Slice(u[1], u[2]) /\ e <= u[1]
        BY DEF Ahead
      <4>1. CASE q = Number(p)
        <5>1. e <= p
          BY <1>2, <3>1
        <5> QED
          BY <1>2, <3>1, <3>3, <4>1, <5>1
      <4>2. CASE q # Number(p)
        <5>1. q \in DOMAIN pending /\ w[q] = pending[q]
          BY <2>4, <4>2
        <5> QED
          BY <3>2, <5>1 DEF Ahead
      <4> QED
        BY <4>1, <4>2
    <3>8. Laid(isn, a, e, delivered, segs \union {t})
      BY <3>2, MoreLaid
    <3>9. Placed(isn, a, delivered, w, segs \union {t})
      BY <3>4, <3>5 DEF Placed
    <3>10. Kept(isn, a, e, r, segs \union {t})
      BY <2>3, <3>2, <3>6, <3>8, <3>9 DEF Kept
    <3> QED
      BY <3>10 DEF KeptSomewhere
  <2>7. InPlace(isn, r, segs \union {t}, FALSE)
    BY <1>7, <2>3, <2>5, <2>6 DEF InPlace
  <2>8. degraded' = FALSE
    BY <1>3, <1>9 DEF StreamInv
  <2> QED
    BY <1>3, <2>1, <2>7, <2>8 DEF GapInv
<1> QED
  BY <1>8, <1>9 DEF FutureSegment

(* What is known before a segment that starts no later than what follows   *)
(* on, and the overlap that the code computes.                             *)
LEMMA DueUsual ==
  ASSUME StreamInv, GapInv, next_seq # NoSeq, ~degraded, NEW t \in Segments, t[2] > 0,
         Number(t[1]) <= next_seq, Usual(isn, out, segs \union {t})
  PROVE  \E a, e \in 0..StreamLen :
           /\ Kept(isn, a, e, State, segs) /\ Before(a, e, t)
           /\ next_seq = isn + e /\ Number(t[1]) = isn + t[1]
           /\ (next_seq - Number(t[1])) % SeqSpace = e - t[1]
<1>1. degraded = FALSE /\ delivered \in Seq(Fragment) /\ isn \in 0..(SeqSpace - 1)
  BY DEF StreamInv, History
<1>2. InPlace(isn, State, segs, FALSE)
  BY <1>1 DEF GapInv
<1>3. Usual(isn, State.out, segs) /\ isn + StreamLen < SeqSpace /\ Apart(segs \union {t})
  BY FewerApart DEF Usual, State
<1>4. PICK a, e \in 0..StreamLen : Kept(isn, a, e, State, segs)
  BY <1>2, <1>3 DEF InPlace, KeptSomewhere
<1>5. /\ a <= e /\ next_seq = isn + e /\ Laid(isn, a, e, delivered, segs)
  BY <1>4 DEF Kept, State
<1>6. /\ t[1] \in Nat /\ t[2] \in Nat /\ t[1] + t[2] <= StreamLen /\ t[1] \in 0..StreamLen
      /\ StreamLen \in Nat /\ SeqSpace \in Nat \ {0} /\ StreamLen < SeqSpace
  BY SegmentTypes, AssemblerAssumption
<1>7. Number(t[1]) = isn + t[1] /\ isn \in Nat
  BY <1>1, <1>3, <1>6, PlainNumber
<1>8. t[1] <= e
  <2>1. \A x, y, v \in Nat : x + y <= x + v => y <= v
    OBVIOUS
  <2>2. e \in Nat
    BY <1>6
  <2> QED
    BY <1>5, <1>6, <1>7, <2>1, <2>2
<1>9. Before(a, e, t)
  BY <1>1, <1>2, <1>3, <1>5, <1>7, <1>8 DEF Before, InPlace
<1>10. (next_seq - Number(t[1])) % SeqSpace = e - t[1]
  <2>1. PICK x : x = e - t[1]
    OBVIOUS
  <2>2. next_seq - Number(t[1]) = x
    BY <1>5, <1>6, <1>7, <2>1
  <2>3. x \in 0..(SeqSpace - 1) /\ x \in (-SeqSpace)..(2 * SeqSpace - 1)
    BY <1>6, <1>8, <2>1
  <2>4. x % SeqSpace = IF x < 0 THEN x + SeqSpace ELSE IF x < SeqSpace THEN x ELSE x - SeqSpace
    BY <1>6, <2>3, Wrap
  <2>5. x % SeqSpace = x
    BY <1>6, <2>3, <2>4
  <2> QED
    BY <2>1, <2>2, <2>5
<1> QED
  BY <1>4, <1>5, <1>7, <1>9, <1>10

(* A segment of which nothing is new. *)
LEMMA OldInPlace ==
  ASSUME StreamInv, GapInv, next_seq # NoSeq, ~degraded, NEW t \in Segments, t[2] > 0,
         Number(t[1]) <= next_seq, segs' = segs \union {t}, Nothing, UNCHANGED isn,
         \/ IsExactRetransmit(Number(t[1]), Slice(t[1], t[2]))
         \/ (next_seq - Number(t[1])) % SeqSpace >= t[2]
  PROVE  GapInv'
<1>1. degraded = FALSE /\ degraded' = FALSE /\ State' = State /\ next_seq' = next_seq
  BY DEF StreamInv, Nothing, State
<1>2. InPlace(isn, State, segs, FALSE)
  BY <1>1 DEF GapInv
<1>3. ASSUME Usual(isn, State.out, segs \union {t})
      PROVE  KeptSomewhere(isn, State, segs \union {t})
  <2>0. Usual(isn, out, segs \union {t})
    BY <1>3 DEF State
  <2>1. PICK a, e \in 0..StreamLen :
           /\ Kept(isn, a, e, State, segs) /\ Before(a, e, t)
           /\ next_seq = isn + e /\ Number(t[1]) = isn + t[1]
           /\ (next_seq - Number(t[1])) % SeqSpace = e - t[1]
    BY <2>0, DueUsual
  <2>2. PlacedOne(isn, a, delivered, pending, t)
    <3>1. CASE IsExactRetransmit(Number(t[1]), Slice(t[1], t[2]))
      <4>1. PICK i \in DOMAIN delivered :
              delivered[i].seq = isn + t[1] /\ delivered[i].bytes = Slice(t[1], t[2])
        BY <2>1, <3>1 DEF IsExactRetransmit
      <4>2. delivered[i] \in Fragment
        BY DEF StreamInv, History
      <4>3. delivered[i] = Whole(isn, t)
        BY <4>1, <4>2 DEF Fragment, Whole
      <4> QED
        BY <4>3 DEF PlacedOne
    <3>2. CASE e - t[1] >= t[2]
      <4>1. t[1] \in Nat /\ t[2] \in Nat /\ isn \in Nat /\ isn + StreamLen < SeqSpace /\ a \in Nat /\ e \in Nat
        BY <2>1, SegmentTypes, AssemblerAssumption DEF Before
      <4>2. CASE t[1] < a
        BY <4>2 DEF PlacedOne
      <4>3. CASE ~(t[1] < a)
        <5>1. t[1] \in a..(e - 1) /\ t[1] <= t[1] /\ t[1] < t[1] + t[2]
          BY <3>2, <4>1, <4>3
        <5>2. \E i \in DOMAIN delivered : delivered[i] = Whole(isn, t) /\ t[1] + t[2] <= e
          <6>1. /\ segs \subseteq Segments /\ Apart(segs \union {t}) /\ Laid(isn, a, e, delivered, segs)
            BY <2>1 DEF Before
          <6> QED
            BY <4>1, <5>1, <6>1, CoveredWhole
        <5> QED
          BY <5>2 DEF PlacedOne
      <4> QED
        BY <4>2, <4>3
    <3> QED
      BY <2>1, <3>1, <3>2
  <2>3. State.delivered = delivered /\ State.pending = pending
    BY DEF State
  <2>4. Kept(isn, a, e, State, segs \union {t})
    BY <2>1, <2>2, <2>3, MoreKept
  <2> QED
    BY <2>4 DEF KeptSomewhere
<1>4. InPlace(isn, State, segs \union {t}, FALSE)
  BY <1>2, <1>3 DEF InPlace
<1> QED
  BY <1>1, <1>4 DEF GapInv

(* A segment whose old part does not match. *)
LEMMA MismatchInPlace ==
  ASSUME StreamInv, GapInv, next_seq # NoSeq, ~degraded, NEW t \in Segments, t[2] > 0,
         Number(t[1]) <= next_seq, segs' = segs \union {t}, Degrade, UNCHANGED isn,
         ~MatchOverlap(Number(t[1]),
                       IF (next_seq - Number(t[1])) % SeqSpace >= t[2] THEN Slice(t[1], t[2])
                       ELSE SubSeq(Slice(t[1], t[2]), 1, (next_seq - Number(t[1])) % SeqSpace))
  PROVE  GapInv'
<1>1. degraded = FALSE /\ degraded' = TRUE /\ State' = State /\ next_seq' = next_seq
  BY DEF StreamInv, Degrade, State
<1>2. InPlace(isn, State, segs, FALSE)
  BY <1>1 DEF GapInv
<1>3. ASSUME Usual(isn, State.out, segs \union {t})
      PROVE  Gap(State.out, segs \union {t})
  <2>0. Usual(isn, out, segs \union {t})
    BY <1>3 DEF State
  <2>1. PICK a, e \in 0..StreamLen :
           /\ Kept(isn, a, e, State, segs) /\ Before(a, e, t)
           /\ next_seq = isn + e /\ Number(t[1]) = isn + t[1]
           /\ (next_seq - Number(t[1])) % SeqSpace = e - t[1]
    BY <2>0, DueUsual
  <2>2. ~MatchOverlap(isn + t[1], OldPart(t, e))
    BY <2>1 DEF OldPart
  <2>3. t[1] < a
    <3>1. t[1] \in Nat /\ a \in Nat
      BY SegmentTypes, AssemblerAssumption
    <3>2. ~(a <= t[1])
      BY <2>1, <2>2, OverlapMatches
    <3> QED
      BY <3>1, <3>2
  <2>4. State.out = Slice(a, e - a) /\ a <= e
    BY <2>1 DEF Kept
  <2>5. State.out = <<>> \/ t[1] < State.out[1]
    <3>1. CASE a = e
      BY <2>4, <3>1, SliceFirst
    <3>2. CASE a # e
      <4>1. State.out[1] = a
        BY <2>4, <3>2, SliceFirst
      <4> QED
        BY <2>3, <4>1
    <3> QED
      BY <3>1, <3>2
  <2>6. segs \union {t} \subseteq Segments
    BY <1>2 DEF InPlace
  <2> QED
    BY <2>5, <2>6, EarlySeen
<1>4. InPlace(isn, State, segs \union {t}, TRUE)
  BY <1>2, <1>3 DEF InPlace
<1> QED
  BY <1>1, <1>4 DEF GapInv

(* A segment that has something new. *)
LEMMA NewInPlace ==
  ASSUME StreamInv, GapInv, next_seq # NoSeq, ~degraded, NEW t \in Segments, t[2] > 0,
         Number(t[1]) <= next_seq, segs' = segs \union {t}, UNCHANGED isn,
         ~((next_seq - Number(t[1])) % SeqSpace >= t[2]),
         MatchOverlap(Number(t[1]), SubSeq(Slice(t[1], t[2]), 1, (next_seq - Number(t[1])) % SeqSpace)),
         Advance(next_seq, SubSeq(Slice(t[1], t[2]), ((next_seq - Number(t[1])) % SeqSpace) + 1, t[2]))
  PROVE  GapInv'
<1> DEFINE overlap == (next_seq - Number(t[1])) % SeqSpace
           sg == segs \union {t}
<1>0. PICK bytes : bytes = SubSeq(Slice(t[1], t[2]), overlap + 1, t[2])
  OBVIOUS
<1>1. /\ t[1] \in Nat /\ t[2] \in Nat /\ t[1] + t[2] <= StreamLen /\ t[1] \in 0..StreamLen
      /\ isn \in 0..(SeqSpace - 1) /\ StreamLen \in Nat
  BY SegmentTypes, AssemblerAssumption DEF StreamInv
<1>2. PICK b \in 0..StreamLen, m \in Nat : next_seq = Number(b) /\ b + m <= StreamLen /\ bytes = Slice(b, m)
  BY <1>0, <1>1, NewPart
<1>3. PICK start : start = StartOf(bytes)
  OBVIOUS
<1>4. start \in Flushing /\ IsFiniteSet(DOMAIN start.pending)
  <2>1. start \in Flushing
    BY <1>2, <1>3, AdvanceStart
  <2>2. start.pending \in Fragments
    BY <2>1 DEF Flushing
  <2> QED
    BY <2>1, <2>2, FragmentsTypes
<1>5. PICK s : s = FlushPending(start)
  OBVIOUS
<1>6. /\ next_seq' = s.next /\ pending' = s.pending /\ delivered' = s.delivered
      /\ out' = s.out /\ degraded' = degraded
  BY <1>0, <1>3, <1>5 DEF Advance, StartOf
<1>7. next_seq' # NoSeq
  BY <1>0, <1>2, AdvanceSound
<1>8. degraded = FALSE /\ degraded' = FALSE /\ InPlace(isn, State, segs, FALSE)
  <2>1. degraded = FALSE
    BY DEF StreamInv
  <2> QED
    BY <1>6, <2>1 DEF GapInv
<1>9. s.next \notin DOMAIN s.pending
  BY <1>4, <1>5, FlushComplete
<1>10. sg \subseteq Segments
  BY <1>8 DEF InPlace
<1>11. ASSUME Apart(sg), isn + StreamLen < SeqSpace
       PROVE  InOrder(isn, start, sg)
  <2> SUFFICES ASSUME Len(start.out) <= HistoryLimit
               PROVE  KeptSomewhere(isn, start, sg)
    BY DEF InOrder
  <2>1. start.out = out \o bytes /\ out \in Seq(Positions) /\ bytes \in Seq(Positions)
    <3>1. bytes \in Seq(Positions)
      BY <1>2, SliceTypes, AssemblerAssumption
    <3> QED
      BY <1>3, <3>1 DEF StartOf, StreamInv
  <2>2. Len(start.out) = Len(out) + Len(bytes) /\ Len(out) \in Nat /\ Len(bytes) \in Nat
    BY <2>1, ConcatProperties, LenProperties
  <2>3. Len(out) <= HistoryLimit /\ Len(out) + Len(bytes) <= HistoryLimit
    BY <2>2, AssemblerAssumption
  <2>4. Usual(isn, out, sg)
    BY <1>11, <2>3 DEF Usual
  <2>5. PICK a, e \in 0..StreamLen :
           /\ Kept(isn, a, e, State, segs) /\ Before(a, e, t)
           /\ next_seq = isn + e /\ Number(t[1]) = isn + t[1]
           /\ overlap = e - t[1]
    BY <2>4, DueUsual
  <2>6. e \in Nat /\ a \in Nat /\ a <= e /\ isn \in Nat
    BY <1>1, <2>5 DEF Before
  <2>7. t[1] = e
    <3>1. ~(e - t[1] >= t[2])
      BY <2>5
    <3>2. e < t[1] + t[2]
      BY <1>1, <2>6, <3>1
    <3>3. MatchOverlap(isn + t[1], OldPart(t, e))
      BY <2>5, <3>1 DEF OldPart
    <3> QED
      BY <2>5, <3>2, <3>3, StartsThere
  <2>8. bytes = Slice(e, t[2]) /\ Len(bytes) = t[2]
    <3>1. overlap = 0 /\ 0 \in 0..t[2] /\ e + 0 = e /\ t[2] - 0 = t[2]
      BY <1>1, <2>5, <2>6, <2>7
    <3>2. SubSeq(Slice(e, t[2]), 0 + 1, t[2]) = Slice(e + 0, t[2] - 0)
      BY <1>1, <2>6, <2>7, <3>1, SliceRest
    <3>3. Len(Slice(e, t[2])) = t[2]
      BY <1>1, <2>6, <2>7, SliceTypes
    <3> HIDE DEF overlap
    <3> QED
      BY <1>0, <2>7, <3>1, <3>2, <3>3
  <2>9. /\ out = Slice(a, e - a) /\ HistoryBytes(delivered) = e - a
        /\ Laid(isn, a, e, delivered, segs) /\ Ahead(isn, e, pending, segs)
        /\ Placed(isn, a, delivered, pending, segs)
    BY <2>5 DEF Kept, State
  <2>10. /\ Laid(isn, a, e, delivered, sg) /\ Ahead(isn, e, pending, sg)
         /\ Placed(isn, a, delivered, pending, sg \ {t})
    <3>1. Laid(isn, a, e, delivered, sg)
      BY <2>9, MoreLaid
    <3>2. Ahead(isn, e, pending, sg)
      BY <2>9 DEF Ahead
    <3>3. Placed(isn, a, delivered, pending, sg \ {t})
      BY <2>9 DEF Placed
    <3> QED
      BY <3>1, <3>2, <3>3
  <2>11. (e - a) + t[2] <= HistoryLimit
    <3>1. PICK g \in Nat : g = e - a /\ a + g <= StreamLen
      BY <1>1, <2>6
    <3>2. Len(out) = g
      BY <2>6, <2>9, <3>1, SliceTypes
    <3> QED
      BY <2>3, <2>8, <3>1, <3>2
  <2>12. Without(pending, isn + e) = pending
    <3>1. isn + e \notin DOMAIN pending
      BY <1>8, <2>5 DEF InPlace, State
    <3>2. pending = [q \in DOMAIN pending |-> pending[q]]
      BY FragmentsTypes DEF StreamInv
    <3>3. DOMAIN pending \ {isn + e} = DOMAIN pending
      BY <3>1
    <3> QED
      BY <3>2, <3>3 DEF Without
  <2>13. delivered \in Seq(Fragment) /\ t \in sg
    BY DEF StreamInv, History
  <2>14. KeptSomewhere(isn, [next |-> After(isn + e, Slice(e, t[2])), pending |-> Without(pending, isn + e),
                             delivered |-> Record(delivered, isn + e, Slice(e, t[2])),
                             out |-> Slice(a, e - a) \o Slice(e, t[2])], sg)
    <3> HIDE DEF sg
    <3> QED
      BY <1>10, <1>11, <2>6, <2>7, <2>9, <2>10, <2>11, <2>13, HandOn
  <2>15. start = [next |-> After(isn + e, Slice(e, t[2])), pending |-> Without(pending, isn + e),
                  delivered |-> Record(delivered, isn + e, Slice(e, t[2])),
                  out |-> Slice(a, e - a) \o Slice(e, t[2])]
    BY <1>3, <2>5, <2>8, <2>9, <2>12 DEF StartOf
  <2> QED
    BY <2>14, <2>15
<1>12. ASSUME Usual(isn, s.out, sg)
       PROVE  KeptSomewhere(isn, s, sg)
  <2>1. Apart(sg) /\ isn + StreamLen < SeqSpace /\ Len(s.out) <= HistoryLimit
    BY <1>12 DEF Usual
  <2> DEFINE G == {r \in Flushing : InOrder(isn, r, sg)}
  <2>2. start \in G
    BY <1>4, <1>11, <2>1
  <2>3. ASSUME NEW r \in G
        PROVE  FlushOne(r) \in G
    <3>1. r \in Flushing /\ InOrder(isn, r, sg)
      OBVIOUS
    <3>2. FlushOne(r) \in Flushing
      BY <1>1, <3>1, RoundSound
    <3>3. InOrder(isn, FlushOne(r), sg)
      <4> HIDE DEF sg
      <4> QED
        BY <1>1, <1>10, <2>1, <3>1, RoundInOrder
    <3> QED
      BY <3>2, <3>3
  <2>4. s \in G
    <3> HIDE DEF G
    <3> QED
      BY <1>4, <1>5, <2>2, <2>3, FlushRounds
  <2> QED
    BY <2>1, <2>4 DEF InOrder
<1>13. PICK r : r = State'
  OBVIOUS
<1>14. r = s
  <2>1. s \in Flushing
    BY <1>1, <1>4, <1>5, RoundSound, FlushRounds
  <2>2. s = [next |-> s.next, pending |-> s.pending, delivered |-> s.delivered, out |-> s.out]
    BY <2>1 DEF Flushing
  <2> QED
    BY <1>6, <1>13, <2>2 DEF State
<1>15. InPlace(isn, s, sg, FALSE)
  BY <1>9, <1>10, <1>12 DEF InPlace
<1> QED
  BY <1>7, <1>8, <1>13, <1>14, <1>15 DEF GapInv

LEMMA DueInPlace ==
  ASSUME StreamInv, GapInv, NEW p \in 0..StreamLen, NEW n \in 0..MaxLen, p + n <= StreamLen,
         NEW closing, DueSegment(p, n, closing)
  PROVE  GapInv'
<1>1. PICK t : t = <<p, n>>
  OBVIOUS
<1>2. t \in Segments /\ t[1] = p /\ t[2] = n /\ n > 0
  BY <1>1, OneSegment DEF DueSegment
<1>3. /\ next_seq # NoSeq /\ ~degraded /\ segs' = segs \union {t} /\ UNCHANGED isn
      /\ Number(t[1]) <= next_seq
  BY <1>1, <1>2 DEF DueSegment, Pushing
<1> DEFINE overlap == (next_seq - Number(t[1])) % SeqSpace
           bytes == Slice(t[1], t[2])
           old == IF overlap >= t[2] THEN bytes ELSE SubSeq(bytes, 1, overlap)
<1>4. \/ IsExactRetransmit(Number(t[1]), bytes) /\ Nothing
      \/ ~MatchOverlap(Number(t[1]), old) /\ Degrade
      \/ overlap >= t[2] /\ Nothing
      \/ /\ ~(overlap >= t[2]) /\ MatchOverlap(Number(t[1]), old)
         /\ Advance(next_seq, SubSeq(bytes, overlap + 1, t[2]))
  BY <1>2 DEF DueSegment
<1>5. CASE Nothing /\ (IsExactRetransmit(Number(t[1]), bytes) \/ overlap >= t[2])
  BY <1>2, <1>3, <1>5, OldInPlace
<1>6. CASE ~MatchOverlap(Number(t[1]), old) /\ Degrade
  BY <1>2, <1>3, <1>6, MismatchInPlace
<1>7. CASE /\ ~(overlap >= t[2]) /\ MatchOverlap(Number(t[1]), old)
           /\ Advance(next_seq, SubSeq(bytes, overlap + 1, t[2]))
  <2>1. MatchOverlap(Number(t[1]), SubSeq(bytes, 1, overlap))
    BY <1>7
  <2> QED
    BY <1>2, <1>3, <1>7, <2>1, NewInPlace
<1> QED
  BY <1>4, <1>5, <1>6, <1>7

LEMMA FinishInPlace ==
  ASSUME StreamInv, GapInv, Finish
  PROVE  GapInv'
<1>1. /\ next_seq # NoSeq /\ degraded = FALSE /\ degraded' = (pending # <<>>) /\ next_seq' = next_seq
      /\ State' = State /\ isn' = isn /\ segs' = segs
  BY DEF Finish, StreamInv, State
<1>2. InPlace(isn, State, segs, FALSE)
  BY <1>1 DEF GapInv
<1>3. CASE pending = <<>>
  <2>1. degraded' = FALSE
    BY <1>1, <1>3
  <2> QED
    BY <1>1, <1>2, <2>1 DEF GapInv
<1>4. CASE pending # <<>>
  <2>1. ASSUME Usual(isn, State.out, segs)
        PROVE  Gap(State.out, segs)
    <3>1. PICK a, e \in 0..StreamLen : Kept(isn, a, e, State, segs)
      BY <1>2, <2>1 DEF InPlace, KeptSomewhere
    <3>2. /\ a <= e /\ State.out = Slice(a, e - a) /\ next_seq = isn + e
          /\ Laid(isn, a, e, delivered, segs) /\ Ahead(isn, e, pending, segs)
          /\ Placed(isn, a, delivered, pending, segs)
      BY <3>1 DEF Kept, State
    <3>3. PICK q : q \in DOMAIN pending
      <4>1. pending = [x \in DOMAIN pending |-> pending[x]]
        BY FragmentsTypes DEF StreamInv
      <4>2. DOMAIN pending = {} => pending = <<>>
        BY <4>1
      <4> QED
        BY <1>4, <4>2
    <3>4. PICK t \in segs : t[2] > 0 /\ q = isn + t[1] /\ e <= t[1]
      BY <3>2, <3>3 DEF Ahead
    <3>5. /\ segs \subseteq Segments /\ isn + e \notin DOMAIN pending /\ isn + StreamLen < SeqSpace
          /\ isn \in Nat
      BY <1>2, <2>1, <3>2, AssemblerAssumption DEF InPlace, State, Usual, StreamInv
    <3>6. e < t[1] /\ t \in Segments
      <4>1. t[1] \in Nat /\ e \in Nat /\ t[1] # e
        BY <3>3, <3>4, <3>5, SegmentTypes, AssemblerAssumption
      <4> QED
        BY <3>4, <3>5, <4>1
    <3>7. Gap(Slice(a, e - a), segs \union {t})
      BY <3>2, <3>4, <3>5, <3>6, GapSeen
    <3>8. segs \union {t} = segs
      OBVIOUS
    <3> QED
      BY <3>2, <3>7, <3>8
  <2>2. InPlace(isn, State, segs, TRUE)
    BY <1>2, <2>1 DEF InPlace
  <2>3. degraded' = TRUE
    BY <1>1, <1>4
  <2> QED
    BY <1>1, <2>2, <2>3 DEF GapInv
<1> QED
  BY <1>3, <1>4

LEMMA GapStep ==
  ASSUME StreamInv, GapInv, [Next]_vars
  PROVE  GapInv'
<1>1. CASE UNCHANGED vars
  <2>1. /\ isn' = isn /\ segs' = segs /\ degraded' = degraded /\ next_seq' = next_seq
        /\ pending' = pending /\ delivered' = delivered /\ State' = State
    BY <1>1 DEF vars, State
  <2> QED
    BY <2>1 DEF GapInv
<1> QED
  BY <1>1, FirstInPlace, FutureInPlace, DueInPlace, FinishInPlace DEF Next

(* As long as the sender keeps its segment boundaries, sequence numbers do *)
(* not wrap and nothing was dropped from the history, the assembler calls  *)
(* the stream degraded only for a gap that is there: segments that come    *)
(* late, twice or in another order never make it give up (push_segment,    *)
(* match_overlap, flush_pending, finish).                                  *)
THEOREM GapsAreReal == Spec => []NoFalseGap
<1>1. Init => GapInv
  BY DEF Init, GapInv
<1>2. StreamInv /\ GapInv => NoFalseGap
  <2> SUFFICES ASSUME StreamInv, GapInv, degraded, Aligned, ~Wraps, Len(out) <= HistoryLimit
               PROVE  \/ \E p, q \in Positions : First <= p /\ p < q /\ q \in Arrived /\ p \notin Arrived
                      \/ \E p \in Arrived : p < First
    BY DEF NoFalseGap
  <2>1. next_seq # NoSeq /\ degraded = TRUE
    BY DEF GapInv, StreamInv
  <2>2. Usual(isn, out, segs)
    <3>1. isn + StreamLen < SeqSpace
      BY AssemblerAssumption DEF Wraps, StreamInv
    <3> QED
      BY <3>1 DEF Usual, Aligned, Apart
  <2>3. Gap(out, segs)
    <3>1. InPlace(isn, State, segs, TRUE) /\ State.out = out
      BY <2>1 DEF GapInv, State
    <3> QED
      BY <2>2, <3>1 DEF InPlace
  <2>4. Arrived = ArrivedIn(segs) /\ First = FirstOf(out)
    BY DEF Arrived, ArrivedIn, First, FirstOf
  <2> QED
    BY <2>3, <2>4 DEF Gap
<1> QED
  BY <1>1, <1>2, StreamInit, StreamStep, GapStep, PTL DEF Spec
=============================================================================
