-------------------------- MODULE Notifier_proofs --------------------------
(***************************************************************************)
(* Two arguments, and the types that follow from both.  The titles: the    *)
(* index, the rows and the batches follow session_index.jsonl, however its *)
(* pieces arrive and whenever it is replaced or rewritten.  The notices: every one that *)
(* reached Feishu is recorded in the state file exactly once, except those *)
(* after which the process ended before the save; nothing is assumed there *)
(* of the client that feeds the task list.                                 *)
(***************************************************************************)
EXTENDS Notifier, WellFoundedInduction, SequenceTheorems, TLAPS

-----------------------------------------------------------------------------
(* A set of numbers has a least one. *)
LEMMA LeastNumber ==
  ASSUME NEW D, D \subseteq Nat, D # {}
  PROVE  \E d \in D : \A m \in D : d <= m
<1> DEFINE R == OpToRel(<, Nat)
<1>1. IsWellFoundedOn(R, Nat)
  BY NatLessThanWellFounded
<1>2. \A m, k \in Nat : m < k => <<m, k>> \in R
  BY DEF OpToRel
<1> HIDE DEF R
<1>3. PICK d \in D : \A m \in D : ~(<<m, d>> \in R)
  BY <1>1, WFMin
<1>4. ASSUME NEW m \in D
      PROVE  d <= m
  <2>1. m \in Nat /\ d \in Nat /\ ~(<<m, d>> \in R)
    BY <1>3
  <2>2. ~(m < d)
    BY <1>2, <2>1
  <2> QED
    BY <2>1, <2>2
<1> QED
  BY <1>4

-----------------------------------------------------------------------------
(* The inductive invariant of the titles. *)

Title == Titles \union {NoTitle}
Row == [exists : BOOLEAN, title : Title, status : Statuses]
WatcherPcs == {"open", "openRead", "sync", "synced", "watch", "stat", "read"}

LaneSummary == [pc : {"persist"}, task : Tasks, status : Statuses, title : Title, known : Title]

TitleTypes ==
  /\ bound \in Bounds
  /\ inodes \in Nat /\ file \in [inode : {inodes}, content : Seq(Piece)]
  /\ idx \in [title : Title, inode : 0..inodes, offset : Nat, partial : Seq(Piece)]
  /\ Ends(idx.partial) = {}
  /\ wake \in BOOLEAN /\ missed \in BOOLEAN /\ rewritten \in BOOLEAN
  /\ watcher \in [pc : WatcherPcs, inode : 0..inodes, len : Nat]
  /\ queue \in Seq(Titles)
  /\ sync \in [pc : {"idle", "update", "persist"}, title : Title, rows : SUBSET Tasks]
  /\ lane = NoSummary \/ lane \in LaneSummary
  /\ rows \in [Tasks -> Row] /\ uploaded \in [Tasks -> Row]
  /\ recent \in Seq(Tasks) /\ IsInjective(recent) /\ Range(recent) = {t \in Tasks : rows[t].exists}

(* Lines are written whole: a piece that ends one follows the piece that   *)
(* began it.                                                               *)
Lines(content) ==
  \A k \in DOMAIN content :
    IF content[k].end THEN Whole(content, k) ELSE k > 1 => content[k - 1].end

(* An index that has read content up to its offset: the line that is not   *)
(* complete is kept, and the title is that of the line before it.          *)
HasRead(ix, content) ==
  LET e == ix.offset - Len(ix.partial) IN
  /\ ix.offset \in 0..Len(content) /\ e \in 0..ix.offset
  /\ ix.partial = SubSeq(content, e + 1, ix.offset)
  /\ \A k \in (e + 1)..ix.offset : ~content[k].end
  /\ IF e = 0 THEN ix.title = NoTitle ELSE content[e].end /\ ix.title = content[e].title

Current == idx.inode = file.inode /\ idx.offset = Len(file.content)
StatCurrent == watcher.inode = file.inode /\ watcher.len = Len(file.content)

(* A file that is replaced has a new number, so what was read of another   *)
(* file is never taken for what was read of this one, unless this one was  *)
(* rewritten under the number that it has; and whatever the                *)
(* index has not read yet has an event, or was missed.                     *)
FileInv ==
  /\ Lines(file.content)
  /\ idx.inode = 0 => idx = Empty
  /\ idx.inode = file.inode => rewritten \/ HasRead(idx, file.content)
  /\ wake => Watching
  /\ watcher.pc \in {"open", "openRead"} => idx = Empty
  /\ watcher.pc \in {"read", "openRead"} => watcher.inode # 0
  /\ watcher.pc = "openRead" => missed \/ StatCurrent
  /\ watcher.pc = "read" => wake \/ StatCurrent
  /\ watcher.pc \in {"sync", "synced"} => file.inode = 0 \/ missed \/ Current
  /\ watcher.pc = "watch" => file.inode = 0 \/ missed \/ wake \/ Current

Settled == watcher.pc \notin {"open", "openRead", "sync"}

(* The last change on its way is the title of the index; once it has       *)
(* arrived, the rows have it, and so has the batch, or sync is about to.   *)
RowInv ==
  /\ ~Settled => queue = <<>> /\ sync.pc = "idle"
  /\ idx.title # NoTitle /\ queue # <<>> => Last(queue) = idx.title
  /\ idx.title # NoTitle /\ queue = <<>> /\ sync.pc # "idle" => sync.title = idx.title
  /\ Settled /\ idx.title # NoTitle /\ queue = <<>> /\ sync.pc # "update" =>
       \A t \in Tasks \ raced : rows[t].exists => rows[t].title = idx.title
  /\ \A t \in Tasks \ raced :
       rows[t].exists /\ ~(sync.pc = "persist" /\ t \in sync.rows) =>
         uploaded[t].title = rows[t].title
  /\ lane.pc = "persist" /\ lane.known # NoTitle => lane.title = lane.known

TitleInv == TitleTypes /\ FileInv /\ RowInv
-----------------------------------------------------------------------------
(* apply_complete_lines *)

(* Its loop over the pieces is well defined. *)
LinesRun(title, pieces, N) ==
  \E f : f = [k \in 0..N |-> IF k = 0 THEN <<title>> ELSE ApplyLine(f[k - 1], pieces, k)]

LEMMA LinesExist ==
  ASSUME NEW title, NEW pieces, NEW N \in Nat
  PROVE  LinesRun(title, pieces, N)
<1> DEFINE Runs(n) == LinesRun(title, pieces, n)
           D == {n \in Nat : ~Runs(n)}
<1>1. Runs(0)
  <2>1. PICK f : f = [k \in 0..0 |-> <<title>>]
    OBVIOUS
  <2>2. f = [k \in 0..0 |-> IF k = 0 THEN <<title>> ELSE ApplyLine(f[k - 1], pieces, k)]
    BY <2>1
  <2> QED
    BY <2>2 DEF LinesRun
<1>2. ASSUME NEW n \in Nat, Runs(n)
      PROVE  Runs(n + 1)
  <2>1. PICK g : g = [k \in 0..n |-> IF k = 0 THEN <<title>> ELSE ApplyLine(g[k - 1], pieces, k)]
    BY <1>2 DEF LinesRun
  <2>2. PICK f : f = [k \in 0..(n + 1) |-> IF k = n + 1 THEN ApplyLine(g[n], pieces, n + 1) ELSE g[k]]
    OBVIOUS
  <2>3. ASSUME NEW k \in 0..(n + 1)
        PROVE  f[k] = IF k = 0 THEN <<title>> ELSE ApplyLine(f[k - 1], pieces, k)
    <3>1. CASE k = 0
      BY <2>1, <2>2, <3>1
    <3>2. CASE k = n + 1
      <4>1. f[k] = ApplyLine(g[n], pieces, n + 1) /\ f[n] = g[n] /\ k - 1 = n
        BY <2>2, <3>2
      <4> QED
        BY <3>2, <4>1
    <3>3. CASE k # 0 /\ k # n + 1
      <4>1. PICK j \in 0..n : j = k - 1
        BY <3>3
      <4>2. f[k] = g[k] /\ f[j] = g[j] /\ g[k] = ApplyLine(g[j], pieces, k)
        BY <2>1, <2>2, <3>3, <4>1
      <4> QED
        BY <3>3, <4>1, <4>2
    <3> QED
      BY <3>1, <3>2, <3>3
  <2>4. f = [k \in 0..(n + 1) |-> IF k = 0 THEN <<title>> ELSE ApplyLine(f[k - 1], pieces, k)]
    BY <2>2, <2>3
  <2> QED
    BY <2>4 DEF LinesRun
<1> HIDE DEF Runs
<1>3. D = {}
  <2> SUFFICES ASSUME D # {}
               PROVE  FALSE
    OBVIOUS
  <2>1. PICK d \in D : \A m \in D : d <= m
    <3>1. D \subseteq Nat
      OBVIOUS
    <3> HIDE DEF D
    <3> QED
      BY <3>1, LeastNumber
  <2>2. d \in Nat /\ d # 0
    BY <1>1
  <2>3. PICK e \in Nat : e + 1 = d
    BY <2>2
  <2>4. ~(e \in D)
    BY <2>1, <2>3
  <2> QED
    BY <1>2, <2>3, <2>4
<1>4. Runs(N)
  BY <1>3
<1> QED
  BY <1>4 DEF Runs

(* What the loop may have found: the title known before, then titles. *)
Found(title) == {s \in Seq(Title) : Len(s) > 0 /\ s[1] = title /\ \A i \in 2..Len(s) : s[i] \in Titles}

LEMMA ApplyLineFinds ==
  ASSUME NEW title, NEW pieces \in Seq(Piece), NEW k \in 1..Len(pieces), NEW s \in Found(title)
  PROVE  /\ ApplyLine(s, pieces, k) \in Found(title)
         /\ Whole(pieces, k) => Last(ApplyLine(s, pieces, k)) = pieces[k].title
<1>1. /\ pieces[k].title \in Titles /\ s \in Seq(Title) /\ Len(s) \in Nat \ {0} /\ s[1] = title
      /\ \A i \in 2..Len(s) : s[i] \in Titles
  <2>1. pieces[k] \in Piece
    OBVIOUS
  <2>2. pieces[k].title \in Titles
    BY <2>1 DEF Piece
  <2> QED
    BY <2>2 DEF Found
<1>2. CASE Whole(pieces, k) /\ pieces[k].title # Last(s)
  <2>1. PICK t : t = Append(s, pieces[k].title)
    OBVIOUS
  <2>2. /\ t \in Seq(Title) /\ Len(t) = Len(s) + 1
        /\ \A i \in 1..Len(s) : t[i] = s[i]
        /\ t[Len(s) + 1] = pieces[k].title
    BY <1>1, <2>1 DEF Title
  <2>3. t \in Found(title) /\ Last(t) = pieces[k].title
    BY <1>1, <2>2 DEF Found, Last
  <2> QED
    BY <1>2, <2>1, <2>3 DEF ApplyLine
<1>3. CASE ~(Whole(pieces, k) /\ pieces[k].title # Last(s))
  BY <1>3 DEF ApplyLine
<1> QED
  BY <1>2, <1>3

LEMMA ChangesFound ==
  ASSUME NEW title \in Title, NEW pieces \in Seq(Piece)
  PROVE  /\ Changes(title, pieces) \in Found(title)
         /\ pieces = <<>> => Changes(title, pieces) = <<title>>
         /\ pieces # <<>> /\ Whole(pieces, Len(pieces)) =>
              Last(Changes(title, pieces)) = pieces[Len(pieces)].title
<1>1. PICK N \in Nat : N = Len(pieces)
  OBVIOUS
<1> DEFINE after == CHOOSE f : f = [k \in 0..N |-> IF k = 0 THEN <<title>> ELSE ApplyLine(f[k - 1], pieces, k)]
<1>2. Changes(title, pieces) = after[N]
  BY <1>1 DEF Changes
<1>3. after = [k \in 0..N |-> IF k = 0 THEN <<title>> ELSE ApplyLine(after[k - 1], pieces, k)]
  <2>1. \E f : f = [k \in 0..N |-> IF k = 0 THEN <<title>> ELSE ApplyLine(f[k - 1], pieces, k)]
    <3>1. LinesRun(title, pieces, N)
      BY LinesExist
    <3> QED
      BY <3>1 DEF LinesRun
  <2> QED
    BY <2>1
<1> HIDE DEF after
<1>4. after[0] = <<title>> /\ <<title>> \in Found(title)
  BY <1>1, <1>3 DEF Found
<1>5. ASSUME NEW k \in 1..N
      PROVE  k - 1 \in 0..N /\ after[k] = ApplyLine(after[k - 1], pieces, k)
  <2>1. k \in 0..N /\ k # 0 /\ k - 1 \in 0..N
    OBVIOUS
  <2> QED
    BY <1>3, <2>1
<1> DEFINE D == {k \in 0..N : after[k] \notin Found(title)}
<1>6. ASSUME D # {}
      PROVE  FALSE
  <2>1. PICK d \in D : \A m \in D : d <= m
    <3>1. D \subseteq Nat
      BY <1>1
    <3> HIDE DEF D
    <3> QED
      BY <1>6, <3>1, LeastNumber
  <2>2. d \in 1..N /\ after[d] \notin Found(title)
    BY <1>1, <1>4
  <2>3. after[d - 1] \in Found(title)
    BY <1>1, <2>1, <2>2
  <2> QED
    BY <1>1, <1>5, <2>2, <2>3, ApplyLineFinds
<1>7. \A k \in 0..N : after[k] \in Found(title)
  BY <1>6
<1>8. pieces = <<>> => N = 0
  BY <1>1
<1>9. ASSUME pieces # <<>>, Whole(pieces, N)
      PROVE  Last(after[N]) = pieces[N].title
  <2>1. N \in 1..N
    BY <1>1, <1>9
  <2>2. after[N - 1] \in Found(title) /\ after[N] = ApplyLine(after[N - 1], pieces, N)
    BY <2>1, <1>5, <1>7
  <2> QED
    BY <1>1, <1>9, <2>1, <2>2, ApplyLineFinds
<1> QED
  BY <1>1, <1>2, <1>4, <1>7, <1>8, <1>9

-----------------------------------------------------------------------------
(* refresh *)

(* A set of positions has a last one. *)
LEMMA LastPosition ==
  ASSUME NEW n \in Nat, NEW S, S \subseteq 1..n, S # {}
  PROVE  \E k \in S : \A j \in S : j <= k
<1> DEFINE D == {n - k : k \in S}
<1>1. D \subseteq Nat /\ D # {}
  <2>1. \A i \in S : n - i \in Nat
    OBVIOUS
  <2>2. PICK i \in S : TRUE
    OBVIOUS
  <2>3. n - i \in D
    OBVIOUS
  <2> QED
    BY <2>1, <2>3
<1>2. PICK d \in D : \A m \in D : d <= m
  <2> HIDE DEF D
  <2> QED
    BY <1>1, LeastNumber
<1>3. PICK k \in S : d = n - k
  OBVIOUS
<1>4. ASSUME NEW j \in S
      PROVE  j <= k
  <2>1. n - j \in D
    OBVIOUS
  <2>2. n - k <= n - j
    BY <1>2, <1>3, <2>1
  <2>3. j \in 1..n /\ k \in 1..n
    OBVIOUS
  <2> QED
    BY <2>2, <2>3
<1> QED
  BY <1>4

(* The part of a sequence after position a, up to b. *)
LEMMA PartIs ==
  ASSUME NEW S, NEW s \in Seq(S), NEW a \in 0..Len(s), NEW b \in a..Len(s)
  PROVE  /\ SubSeq(s, a + 1, b) \in Seq(S) /\ Len(SubSeq(s, a + 1, b)) = b - a
         /\ \A k \in 1..(b - a) : SubSeq(s, a + 1, b)[k] = s[a + k]
<1>1. a \in Nat /\ b \in Nat /\ a + 1 \in Nat /\ Len(s) \in Nat
  OBVIOUS
<1>2. SubSeq(s, a + 1, b) \in Seq(S)
  BY <1>1
<1>3. Len(SubSeq(s, a + 1, b)) = b - a
  BY <1>1
<1>4. ASSUME NEW k \in 1..(b - a)
      PROVE  SubSeq(s, a + 1, b)[k] = s[a + k]
  BY <1>1
<1> QED
  BY <1>2, <1>3, <1>4

LEMMA ConcatIs ==
  ASSUME NEW S, NEW s \in Seq(S), NEW t \in Seq(S)
  PROVE  /\ s \o t \in Seq(S) /\ Len(s \o t) = Len(s) + Len(t)
         /\ \A k \in 1..Len(s) : (s \o t)[k] = s[k]
         /\ \A k \in 1..Len(t) : (s \o t)[Len(s) + k] = t[k]
<1>1. Len(s) \in Nat /\ Len(t) \in Nat
  OBVIOUS
<1>2. ASSUME NEW k \in 1..Len(t)
      PROVE  (s \o t)[Len(s) + k] = t[k]
  <2>1. Len(s) + k \in 1..(Len(s) + Len(t)) /\ ~(Len(s) + k <= Len(s)) /\ Len(s) + k - Len(s) = k
    BY <1>1
  <2>2. (s \o t)[Len(s) + k] = t[Len(s) + k - Len(s)]
    BY <1>1, <2>1
  <2> QED
    BY <2>1, <2>2
<1> QED
  BY <1>1, <1>2

Complete(text) == IF Ends(text) = {} THEN 0 ELSE LastEnd(text)

LEMMA CompleteIs ==
  ASSUME NEW text \in Seq(Piece)
  PROVE  /\ Complete(text) \in 0..Len(text)
         /\ Complete(text) > 0 => text[Complete(text)].end
         /\ \A k \in (Complete(text) + 1)..Len(text) : ~text[k].end
<1>1. Ends(text) \subseteq 1..Len(text) /\ Len(text) \in Nat
  BY DEF Ends
<1>2. CASE Ends(text) = {}
  BY <1>2 DEF Complete, Ends
<1>3. CASE Ends(text) # {}
  <2>1. \E k \in Ends(text) : \A j \in Ends(text) : j <= k
    <3> HIDE DEF Ends
    <3> QED
      BY <1>1, <1>3, LastPosition
  <2>2. /\ LastEnd(text) \in Ends(text)
        /\ \A j \in Ends(text) : j <= LastEnd(text)
    BY <2>1 DEF LastEnd
  <2>3. Complete(text) = LastEnd(text)
    BY <1>3 DEF Complete
  <2>4. Complete(text) \in 1..Len(text) /\ text[Complete(text)].end
    BY <1>1, <2>2, <2>3 DEF Ends
  <2>5. ASSUME NEW k \in (Complete(text) + 1)..Len(text)
        PROVE  ~text[k].end
    <3>1. k \in 1..Len(text) /\ ~(k <= Complete(text))
      BY <1>1, <2>4
    <3>2. k \notin Ends(text)
      BY <2>2, <2>3, <3>1
    <3> QED
      BY <3>1, <3>2 DEF Ends
  <2> QED
    BY <2>4, <2>5
<1> QED
  BY <1>2, <1>3

IndexState == [title : Title, inode : Nat, offset : Nat, partial : Seq(Piece)]

(* What is read from ix.offset on, with the line kept so far. *)
Text(ix, appended) == ix.partial \o appended

(* The index after text was read. *)
ReadTo(ix, inode, appended) ==
  [title |-> Last(Changes(ix.title, SubSeq(Text(ix, appended), 1, Complete(Text(ix, appended))))),
   inode |-> inode,
   offset |-> ix.offset + Len(appended),
   partial |-> SubSeq(Text(ix, appended), Complete(Text(ix, appended)) + 1, Len(Text(ix, appended)))]

LEMMA ReadToTypes ==
  ASSUME NEW ix \in IndexState, NEW inode \in Nat, NEW appended \in Seq(Piece)
  PROVE  /\ ReadTo(ix, inode, appended) \in IndexState
         /\ Ends(ReadTo(ix, inode, appended).partial) = {}
         /\ Changes(ix.title, SubSeq(Text(ix, appended), 1, Complete(Text(ix, appended)))) \in Found(ix.title)
<1>1. PICK text : text = Text(ix, appended)
  OBVIOUS
<1>2. text \in Seq(Piece) /\ ix.title \in Title /\ ix.offset \in Nat
  BY <1>1 DEF Text, IndexState
<1>3. PICK c \in 0..Len(text) : c = Complete(text) /\ \A k \in (c + 1)..Len(text) : ~text[k].end
  BY <1>2, CompleteIs
<1>4. SubSeq(text, 1, c) \in Seq(Piece)
  BY <1>2
<1>5. Changes(ix.title, SubSeq(text, 1, c)) \in Found(ix.title)
  BY <1>2, <1>4, ChangesFound
<1>6. Last(Changes(ix.title, SubSeq(text, 1, c))) \in Title
  BY <1>5 DEF Found, Last
<1>7. PICK rest : rest = SubSeq(text, c + 1, Len(text))
  OBVIOUS
<1>8. rest \in Seq(Piece)
  BY <1>2, <1>7
<1>9. \A k \in 1..Len(rest) : rest[k] = text[c + k] /\ c + k \in (c + 1)..Len(text)
  BY <1>2, <1>7
<1>10. Ends(rest) = {}
  BY <1>3, <1>8, <1>9 DEF Ends
<1>11. ReadTo(ix, inode, appended)
         = [title |-> Last(Changes(ix.title, SubSeq(text, 1, c))), inode |-> inode,
            offset |-> ix.offset + Len(appended), partial |-> rest]
  BY <1>1, <1>3, <1>7 DEF ReadTo
<1>12. ix.offset + Len(appended) \in Nat
  BY <1>2
<1>13. ReadTo(ix, inode, appended).partial = rest /\ ReadTo(ix, inode, appended) \in IndexState
  BY <1>6, <1>8, <1>11, <1>12 DEF IndexState
<1> QED
  BY <1>1, <1>3, <1>5, <1>10, <1>13

(* Reading on to the end of a file, from where the index had read. *)
LEMMA ReadToFollows ==
  ASSUME NEW ix \in IndexState, NEW inode \in Nat, NEW c \in Seq(Piece), Lines(c), HasRead(ix, c)
  PROVE  /\ HasRead(ReadTo(ix, inode, SubSeq(c, ix.offset + 1, Len(c))), c)
         /\ ReadTo(ix, inode, SubSeq(c, ix.offset + 1, Len(c))).offset = Len(c)
<1> SUFFICES ASSUME NEW appended, appended = SubSeq(c, ix.offset + 1, Len(c))
             PROVE  /\ HasRead(ReadTo(ix, inode, appended), c)
                    /\ ReadTo(ix, inode, appended).offset = Len(c)
  OBVIOUS
<1>0. PICK N \in Nat : N = Len(c)
  OBVIOUS
<1>1. PICK o \in 0..N, e \in 0..N : o = ix.offset /\ e = ix.offset - Len(ix.partial) /\ e <= o
  BY <1>0 DEF HasRead
<1>2. /\ N \in Nat /\ o \in 0..N /\ e \in 0..o
      /\ ix.partial = SubSeq(c, e + 1, o)
      /\ e # 0 => c[e].end /\ ix.title = c[e].title
      /\ e = 0 => ix.title = NoTitle
      /\ ix.title \in Title
  <2>1. ix.title \in Title
    BY DEF IndexState
  <2> QED
    BY <1>1, <2>1 DEF HasRead
<1>3. appended = SubSeq(c, o + 1, N)
  BY <1>0, <1>1
<1>4. /\ appended \in Seq(Piece) /\ Len(appended) = N - o
      /\ \A k \in 1..(N - o) : appended[k] = c[o + k]
  <2>1. o \in 0..Len(c) /\ N \in o..Len(c)
    BY <1>0
  <2> QED
    BY <1>3, <2>1, PartIs
<1>5. /\ ix.partial \in Seq(Piece) /\ Len(ix.partial) = o - e
      /\ \A k \in 1..(o - e) : ix.partial[k] = c[e + k]
  <2>1. e \in 0..Len(c) /\ o \in e..Len(c)
    BY <1>0, <1>2
  <2> QED
    BY <1>2, <2>1, PartIs
<1>6. PICK text : text = Text(ix, appended)
  OBVIOUS
<1>7. PICK M \in Nat : M = N - e
  BY <1>2
<1>71. /\ text \in Seq(Piece) /\ Len(text) = M
       /\ \A k \in 1..M : text[k] = c[e + k]
  <2>1. /\ text \in Seq(Piece) /\ Len(text) = Len(ix.partial) + Len(appended)
        /\ \A k \in 1..Len(ix.partial) : text[k] = ix.partial[k]
        /\ \A k \in 1..Len(appended) : text[Len(ix.partial) + k] = appended[k]
    <3>1. PICK a \in Seq(Piece) : a = ix.partial
      BY <1>5
    <3>11. appended \in Seq(Piece)
      BY <1>4
    <3>2. /\ a \o appended \in Seq(Piece) /\ Len(a \o appended) = Len(a) + Len(appended)
          /\ \A k \in 1..Len(a) : (a \o appended)[k] = a[k]
          /\ \A k \in 1..Len(appended) : (a \o appended)[Len(a) + k] = appended[k]
      BY <3>11, ConcatIs
    <3>3. text = a \o appended
      BY <1>6, <3>1 DEF Text
    <3> QED
      BY <3>1, <3>2, <3>3
  <2>2. ASSUME NEW k \in 1..M
        PROVE  text[k] = c[e + k]
    <3>1. CASE k <= o - e
      <4>1. k \in 1..(o - e)
        BY <1>2, <3>1
      <4> QED
        BY <1>5, <2>1, <4>1
    <3>2. CASE ~(k <= o - e)
      <4>1. PICK j \in 1..(N - o) : j = k - (o - e)
        <5>1. k - (o - e) \in 1..(N - o)
          BY <1>2, <1>7, <3>2
        <5> QED
          BY <5>1
      <4>2. o - e + j = k /\ o + j = e + k
        BY <1>2, <4>1
      <4>3. text[o - e + j] = appended[j]
        BY <1>4, <1>5, <2>1
      <4>4. appended[j] = c[o + j]
        BY <1>4
      <4> QED
        BY <4>2, <4>3, <4>4
    <3> QED
      BY <3>1, <3>2
  <2>3. Len(text) = M
    BY <1>2, <1>4, <1>5, <1>7, <2>1
  <2> QED
    BY <2>1, <2>2, <2>3
<1>8. PICK n \in 0..M :
        /\ n = Complete(text)
        /\ n > 0 => text[n].end
        /\ \A k \in (n + 1)..M : ~text[k].end
  BY <1>71, CompleteIs
<1>81. PICK f \in 0..N : f = e + n
  BY <1>2, <1>7
<1>9. PICK jx : jx = ReadTo(ix, inode, appended)
  OBVIOUS
<1>10. PICK head : head = SubSeq(text, 1, n)
  OBVIOUS
<1>11. /\ head \in Seq(Piece) /\ Len(head) = n
       /\ \A k \in 1..n : head[k] = c[e + k]
  <2>1. 0 \in 0..Len(text) /\ n \in 0..Len(text)
    BY <1>71
  <2>2. head = SubSeq(text, 0 + 1, n) /\ n - 0 = n
    BY <1>10
  <2>3. head \in Seq(Piece) /\ Len(head) = n /\ \A k \in 1..n : head[k] = text[0 + k]
    BY <1>71, <2>1, <2>2, PartIs
  <2>4. \A k \in 1..n : 0 + k = k /\ k \in 1..M
    OBVIOUS
  <2> QED
    BY <1>71, <2>3, <2>4
<1>12. /\ jx.title = Last(Changes(ix.title, head))
       /\ jx.offset = N
       /\ jx.partial = SubSeq(text, n + 1, M)
  <2>1. jx = [title |-> Last(Changes(ix.title, head)), inode |-> inode,
              offset |-> o + Len(appended), partial |-> SubSeq(text, n + 1, M)]
    BY <1>1, <1>6, <1>71, <1>8, <1>9, <1>10 DEF ReadTo
  <2>2. o + Len(appended) = N
    BY <1>2, <1>4
  <2> QED
    BY <2>1, <2>2
<1>13. jx.partial = SubSeq(c, f + 1, N) /\ Len(jx.partial) = N - f
  <2>1. PICK a, b : a = jx.partial /\ b = SubSeq(c, f + 1, N)
    OBVIOUS
  <2>2. /\ a \in Seq(Piece) /\ Len(a) = M - n
        /\ \A k \in 1..(M - n) : a[k] = text[n + k]
    <3>1. n \in 0..Len(text) /\ M \in n..Len(text)
      BY <1>71
    <3> QED
      <4>1. /\ SubSeq(text, n + 1, M) \in Seq(Piece) /\ Len(SubSeq(text, n + 1, M)) = M - n
            /\ \A k \in 1..(M - n) : SubSeq(text, n + 1, M)[k] = text[n + k]
        BY <1>71, <3>1, PartIs
      <4>2. a = SubSeq(text, n + 1, M)
        BY <1>12, <2>1
      <4> QED
        BY <4>1, <4>2
  <2>3. /\ b \in Seq(Piece) /\ Len(b) = N - f
        /\ \A k \in 1..(N - f) : b[k] = c[f + k]
    <3>1. f \in 0..Len(c) /\ N \in f..Len(c)
      BY <1>0
    <3> QED
      BY <2>1, <3>1, PartIs
  <2>4. M - n = N - f
    BY <1>2, <1>7, <1>81
  <2>5. ASSUME NEW k \in 1..(N - f)
        PROVE  a[k] = b[k]
    <3>1. n + k \in 1..M /\ e + (n + k) = f + k
      BY <1>2, <1>7, <1>81
    <3>2. a[k] = text[n + k]
      BY <2>2, <2>4
    <3>3. text[n + k] = c[e + (n + k)]
      BY <1>71, <3>1
    <3> QED
      BY <2>3, <3>1, <3>2, <3>3
  <2>6. a = b
    BY <2>2, <2>3, <2>4, <2>5
  <2> QED
    BY <2>1, <2>3, <2>6
<1>14. ASSUME NEW k \in (f + 1)..N
       PROVE  ~c[k].end
  <2>1. k - e \in (n + 1)..M /\ k - e \in 1..M /\ e + (k - e) = k
    BY <1>2, <1>7, <1>81
  <2>2. text[k - e] = c[k]
    BY <1>71, <2>1
  <2> QED
    BY <1>8, <2>1, <2>2
<1>15. CASE n = 0
  <2>1. head = <<>>
    BY <1>11, <1>15
  <2>2. Changes(ix.title, head) = <<ix.title>>
    BY <1>2, <1>11, <2>1, ChangesFound
  <2>3. jx.title = ix.title
    BY <1>12, <2>2 DEF Last
  <2>4. jx.offset - Len(jx.partial) = f /\ f = e
    BY <1>2, <1>12, <1>13, <1>15, <1>81
  <2>5. HasRead(jx, c)
    <3>1. jx.offset \in 0..Len(c) /\ f \in 0..jx.offset
      BY <1>0, <1>12
    <3>2. \A k \in (f + 1)..jx.offset : ~c[k].end
      BY <1>12, <1>14
    <3>3. IF f = 0 THEN jx.title = NoTitle ELSE c[f].end /\ jx.title = c[f].title
      BY <1>2, <2>3, <2>4
    <3> QED
      BY <1>12, <1>13, <2>4, <3>1, <3>2, <3>3 DEF HasRead
  <2> QED
    BY <1>0, <1>9, <1>12, <2>5
<1>16. CASE n # 0
  <2>1. n \in 1..M /\ e + n \in 1..N /\ f = e + n
    BY <1>2, <1>7, <1>8, <1>16, <1>81
  <2>2. c[e + n].end /\ head[n] = c[e + n]
    BY <1>71, <1>8, <1>11, <2>1
  <2>3. Whole(c, e + n)
    BY <1>0, <2>1, <2>2 DEF Lines
  <2>4. n > 1
    <3> SUFFICES ASSUME n = 1
                 PROVE  FALSE
      BY <2>1
    <3>1. e + n > 1 /\ c[e + n - 1] = [c[e + n] EXCEPT !.end = FALSE]
      BY <2>3 DEF Whole
    <3>2. e # 0 /\ e + n - 1 = e
      BY <1>2, <3>1
    <3>3. c[e + n] \in Piece
      BY <1>0, <2>1
    <3>4. c[e].end = FALSE
      BY <3>1, <3>2, <3>3 DEF Piece
    <3> QED
      BY <1>2, <3>2, <3>4
  <2>5. Whole(head, n)
    <3>1. PICK a \in 1..n : a = n - 1
      BY <2>1, <2>4
    <3>2. head[a] = c[e + a] /\ e + a = e + n - 1
      BY <1>2, <1>11, <2>1, <3>1
    <3>3. head[n - 1] = [head[n] EXCEPT !.end = FALSE]
      BY <2>2, <2>3, <3>1, <3>2 DEF Whole
    <3>4. n > 2 => head[n - 2].end
      <4> SUFFICES ASSUME n > 2
                   PROVE  head[n - 2].end
        OBVIOUS
      <4>1. PICK b \in 1..n : b = n - 2
        BY <2>1
      <4>2. head[b] = c[e + b] /\ e + b = e + n - 2 /\ e + n > 2
        BY <1>2, <1>11, <2>1, <4>1
      <4> QED
        <5>1. PICK k \in Nat : k = e + n
          BY <1>2, <2>1
        <5>2. Whole(c, k) /\ k > 2
          BY <2>3, <4>2, <5>1
        <5>3. c[k - 2].end
          BY <5>2 DEF Whole
        <5> QED
          BY <4>1, <4>2, <5>1, <5>3
    <3> QED
      BY <2>2, <2>4, <3>3, <3>4 DEF Whole
  <2>6. head # <<>>
    BY <1>11, <2>1
  <2>7. Last(Changes(ix.title, head)) = head[n].title
    BY <1>2, <1>11, <2>5, <2>6, ChangesFound
  <2>8. jx.title = c[e + n].title
    BY <1>12, <2>2, <2>7
  <2>9. jx.offset - Len(jx.partial) = f
    BY <1>12, <1>13
  <2>10. HasRead(jx, c)
    <3>1. jx.offset \in 0..Len(c) /\ f \in 0..jx.offset /\ f # 0
      BY <1>0, <1>12, <2>1
    <3>2. \A k \in (f + 1)..jx.offset : ~c[k].end
      BY <1>12, <1>14
    <3>3. c[f].end /\ jx.title = c[f].title
      BY <2>1, <2>2, <2>8
    <3> QED
      BY <1>12, <1>13, <2>9, <3>1, <3>2, <3>3 DEF HasRead
  <2> QED
    BY <1>0, <1>9, <1>12, <2>10
<1> QED
  BY <1>8, <1>15, <1>16

(* Nothing to read: the index stays as it is, but for the number of the    *)
(* file.                                                                   *)
LEMMA ReadToNothing ==
  ASSUME NEW ix \in IndexState, NEW inode \in Nat, Ends(ix.partial) = {}
  PROVE  ReadTo(ix, inode, <<>>)
           = [title |-> ix.title, inode |-> inode, offset |-> ix.offset, partial |-> ix.partial]
<1>1. PICK text : text = Text(ix, <<>>)
  OBVIOUS
<1>2. text = ix.partial /\ text \in Seq(Piece) /\ ix.title \in Title /\ ix.offset \in Nat
  BY <1>1 DEF Text, IndexState
<1>3. Complete(text) = 0
  BY <1>2 DEF Complete
<1>4. SubSeq(text, 1, 0) = <<>> /\ SubSeq(text, 0 + 1, Len(text)) = text
  BY <1>2
<1>5. Last(Changes(ix.title, <<>>)) = ix.title
  <2>1. <<>> \in Seq(Piece)
    OBVIOUS
  <2>2. Changes(ix.title, <<>>) = <<ix.title>>
    BY <1>2, <2>1, ChangesFound
  <2> QED
    BY <2>2 DEF Last
<1>6. ix.offset + Len(<<>>) = ix.offset
  BY <1>2
<1> QED
  BY <1>1, <1>2, <1>3, <1>4, <1>5, <1>6 DEF ReadTo

(* What the changes say about the title, and that they are titles. *)
LEMMA ChangesTail ==
  ASSUME NEW title, NEW s \in Found(title)
  PROVE  /\ Tail(s) \in Seq(Titles)
         /\ Tail(s) = <<>> => Last(s) = title
         /\ Tail(s) # <<>> => Last(Tail(s)) = Last(s)
<1>1. s \in Seq(Title) /\ Len(s) \in Nat \ {0} /\ s[1] = title /\ \A i \in 2..Len(s) : s[i] \in Titles
  BY DEF Found
<1>2. PICK t : t = Tail(s)
  OBVIOUS
<1>3. t \in Seq(Title) /\ Len(t) = Len(s) - 1 /\ \A i \in 1..Len(t) : t[i] = s[i + 1]
  BY <1>1, <1>2
<1>4. \A i \in 1..Len(t) : t[i] \in Titles
  BY <1>1, <1>3
<1>5. t \in Seq(Titles)
  BY <1>3, <1>4
<1>6. CASE Len(s) = 1
  BY <1>1, <1>2, <1>3, <1>5, <1>6 DEF Last
<1>7. CASE Len(s) # 1
  <2>1. Len(t) \in 1..Len(t) /\ Len(t) + 1 = Len(s)
    BY <1>1, <1>3, <1>7
  <2>2. t # <<>> /\ t[Len(t)] = s[Len(s)]
    BY <1>3, <2>1
  <2> QED
    BY <1>2, <1>5, <2>2 DEF Last
<1> QED
  BY <1>6, <1>7

-----------------------------------------------------------------------------
(* The task list. *)
LEMMA MovesToFront ==
  ASSUME NEW s \in Seq(Tasks), IsInjective(s), NEW t \in Tasks
  PROVE  /\ <<t>> \o RemoveFirst(s, t) \in Seq(Tasks)
         /\ IsInjective(<<t>> \o RemoveFirst(s, t))
         /\ Range(<<t>> \o RemoveFirst(s, t)) = Range(s) \union {t}
<1>1. PICK r : r = RemoveFirst(s, t)
  OBVIOUS
<1>2. PICK n \in Nat : n = Len(s)
  OBVIOUS
<1>3. /\ r \in Seq(Tasks) /\ IsInjective(r)
      /\ Range(r) = Range(s) \ {t}
  <2>1. CASE \E i \in 1..Len(s) : s[i] = t
    <3>1. PICK i \in 1..n : s[i] = t
      BY <1>2, <2>1
    <3>2. {j \in 1..n : s[j] = t} = {i}
      BY <1>2, <3>1 DEF IsInjective
    <3>3. SelectInSeq(s, LAMBDA v : v = t) = i
      BY <1>2, <3>2 DEF SelectInSeq, Min
    <3>4. r = SubSeq(s, 1, i - 1) \o SubSeq(s, i + 1, n)
      BY <1>1, <1>2, <2>1, <3>3 DEF RemoveFirst, RemoveAt
    <3>5. PICK a, b : a = SubSeq(s, 1, i - 1) /\ b = SubSeq(s, i + 1, n)
      OBVIOUS
    <3>6. /\ a \in Seq(Tasks) /\ Len(a) = i - 1 /\ \A k \in 1..(i - 1) : a[k] = s[k]
          /\ b \in Seq(Tasks) /\ Len(b) = n - i /\ \A k \in 1..(n - i) : b[k] = s[i + k]
      BY <1>2, <3>1, <3>5
    <3>7. r \in Seq(Tasks) /\ Len(r) = n - 1
      BY <3>1, <3>4, <3>5, <3>6
    <3>8. ASSUME NEW k \in 1..(n - 1)
          PROVE  r[k] = s[IF k < i THEN k ELSE k + 1]
      <4>1. CASE k < i
        BY <3>1, <3>4, <3>5, <3>6, <4>1
      <4>2. CASE ~(k < i)
        <5>1. PICK j \in 1..(n - i) : j = k - (i - 1)
          BY <3>1, <4>2
        <5>2. r[k] = b[j]
          BY <3>1, <3>4, <3>5, <3>6, <4>2, <5>1
        <5>3. i + j = k + 1
          BY <3>1, <5>1
        <5> QED
          BY <3>6, <4>2, <5>2, <5>3
      <4> QED
        BY <4>1, <4>2
    <3>9. IsInjective(r)
      <4> SUFFICES ASSUME NEW a1 \in 1..(n - 1), NEW b1 \in 1..(n - 1), r[a1] = r[b1]
                   PROVE  a1 = b1
        BY <3>7 DEF IsInjective
      <4>1. \A x, y \in 1..n : s[x] = s[y] => x = y
        BY <1>2 DEF IsInjective
      <4>2. PICK x \in 1..n : x = IF a1 < i THEN a1 ELSE a1 + 1
        BY <3>1
      <4>3. PICK y \in 1..n : y = IF b1 < i THEN b1 ELSE b1 + 1
        BY <3>1
      <4>4. s[x] = s[y]
        BY <3>8, <4>2, <4>3
      <4>5. x = y
        BY <4>1, <4>4
      <4> QED
        BY <3>1, <4>2, <4>3, <4>5
    <3>10. \A k \in 1..(n - 1) : r[k] # t
      BY <1>2, <3>1, <3>8 DEF IsInjective
    <3>11. \A j \in 1..n : j # i => \E k \in 1..(n - 1) : r[k] = s[j]
      <4> SUFFICES ASSUME NEW j \in 1..n, j # i
                   PROVE  \E k \in 1..(n - 1) : r[k] = s[j]
        OBVIOUS
      <4>1. CASE j < i
        BY <3>1, <3>8, <4>1
      <4>2. CASE ~(j < i)
        <5>1. PICK k \in 1..(n - 1) : k = j - 1
          BY <3>1, <4>2
        <5>2. ~(k < i) /\ k + 1 = j
          BY <3>1, <4>2, <5>1
        <5> QED
          BY <3>8, <5>1, <5>2
      <4> QED
        BY <4>1, <4>2
    <3>12. Range(r) = Range(s) \ {t}
      <4>1. DOMAIN r = 1..(n - 1) /\ DOMAIN s = 1..n
        BY <1>2, <3>7
      <4>2. \A k \in 1..(n - 1) : \E j \in 1..n : r[k] = s[j]
        BY <3>1, <3>8
      <4>3. Range(r) = {r[k] : k \in 1..(n - 1)} /\ Range(s) = {s[k] : k \in 1..n}
        BY <4>1 DEF Range
      <4>4. \A x : x \in Range(r) => x \in Range(s) /\ x # t
        BY <3>10, <4>2, <4>3
      <4>5. ASSUME NEW x \in Range(s), x # t
            PROVE  x \in Range(r)
        <5>1. PICK j \in 1..n : x = s[j]
          BY <4>3
        <5>2. j # i
          BY <3>1, <4>5, <5>1
        <5> QED
          BY <3>11, <4>3, <5>1, <5>2
      <4> QED
        BY <4>4, <4>5
    <3> QED
      BY <3>7, <3>9, <3>12
  <2>2. CASE ~\E i \in 1..Len(s) : s[i] = t
    BY <1>1, <2>2 DEF RemoveFirst, Range
  <2> QED
    BY <2>1, <2>2
<1>4. PICK m \in Nat : m = Len(r)
  BY <1>3
<1>5. PICK q : q = <<t>> \o r
  OBVIOUS
<1>6. /\ q \in Seq(Tasks) /\ Len(q) = m + 1 /\ q[1] = t
      /\ \A k \in 2..(m + 1) : q[k] = r[k - 1]
  BY <1>3, <1>4, <1>5
<1>7. \A k \in 1..m : r[k] \in Range(r) /\ r[k] # t
  <2>1. DOMAIN r = 1..m
    BY <1>3, <1>4
  <2>2. \A k \in 1..m : r[k] \in Range(r)
    BY <2>1 DEF Range
  <2> QED
    BY <1>3, <2>2
<1>8. IsInjective(q)
  <2> SUFFICES ASSUME NEW a \in 1..(m + 1), NEW b \in 1..(m + 1), q[a] = q[b]
               PROVE  a = b
    BY <1>6 DEF IsInjective
  <2>1. CASE a = 1 \/ b = 1
    <3>1. ASSUME NEW k \in 2..(m + 1)
          PROVE  q[k] # t
      <4>1. PICK j \in 1..m : j = k - 1
        OBVIOUS
      <4> QED
        BY <1>6, <1>7, <4>1
    <3> QED
      BY <1>6, <2>1, <3>1
  <2>2. CASE a # 1 /\ b # 1
    <3>1. a - 1 \in 1..m /\ b - 1 \in 1..m /\ r[a - 1] = r[b - 1]
      BY <1>6, <2>2
    <3>2. a - 1 = b - 1
      BY <1>3, <1>4, <3>1 DEF IsInjective
    <3> QED
      BY <3>2
  <2> QED
    BY <2>1, <2>2
<1>9. Range(q) = Range(r) \union {t}
  <2>1. DOMAIN q = 1..(m + 1) /\ DOMAIN r = 1..m
    BY <1>3, <1>4, <1>6
  <2>2. \A k \in 1..m : k + 1 \in 2..(m + 1) /\ q[k + 1] = r[k]
    BY <1>6
  <2>3. Range(q) \subseteq Range(r) \union {t}
    <3> SUFFICES ASSUME NEW k \in 1..(m + 1)
                 PROVE  q[k] = t \/ \E j \in 1..m : q[k] = r[j]
      BY <2>1 DEF Range
    <3> QED
      BY <1>6
  <2>4. Range(r) \subseteq Range(q)
    <3> SUFFICES ASSUME NEW k \in 1..m
                 PROVE  r[k] \in Range(q)
      BY <2>1 DEF Range
    <3>1. k + 1 \in DOMAIN q /\ q[k + 1] = r[k]
      BY <2>1, <2>2
    <3> QED
      BY <3>1 DEF Range
  <2>5. t \in Range(q)
    BY <1>6, <2>1 DEF Range
  <2> QED
    BY <2>3, <2>4, <2>5
<1> QED
  BY <1>1, <1>3, <1>5, <1>6, <1>8, <1>9

-----------------------------------------------------------------------------
(* The file. *)

LEMMA LinesAppend ==
  ASSUME NEW c \in Seq(Piece), Lines(c), NEW t \in Titles, NEW open \in BOOLEAN,
         open <=> c # <<>> /\ ~Last(c).end,
         open => t = Last(c).title
  PROVE  /\ Append(c, [title |-> t, end |-> open]) \in Seq(Piece)
         /\ Lines(Append(c, [title |-> t, end |-> open]))
<1>1. PICK N \in Nat : N = Len(c)
  OBVIOUS
<1>2. PICK x \in Piece : x = [title |-> t, end |-> open]
  BY DEF Piece
<1>3. PICK d : d = Append(c, x)
  OBVIOUS
<1>4. /\ d \in Seq(Piece) /\ Len(d) = N + 1 /\ d[N + 1] = x
      /\ \A k \in 1..N : d[k] = c[k]
  BY <1>1, <1>3
<1>5. ASSUME NEW k \in 1..N
      PROVE  IF d[k].end THEN Whole(d, k) ELSE k > 1 => d[k - 1].end
  <2>1. IF c[k].end THEN Whole(c, k) ELSE k > 1 => c[k - 1].end
    <3>1. k \in DOMAIN c
      BY <1>1
    <3> QED
      BY <3>1 DEF Lines
  <2>2. /\ d[k] = c[k]
        /\ k > 1 => k - 1 \in 1..N /\ d[k - 1] = c[k - 1]
        /\ k > 2 => k - 2 \in 1..N /\ d[k - 2] = c[k - 2]
    BY <1>4
  <2> QED
    BY <2>1, <2>2 DEF Whole
<1>6. IF d[N + 1].end THEN Whole(d, N + 1) ELSE N + 1 > 1 => d[N].end
  <2>1. CASE N = 0
    <3>1. c = <<>>
      BY <1>1, <2>1, EmptySeq
    <3>2. ~open
      BY <3>1
    <3>3. ~d[N + 1].end
      BY <1>2, <1>4, <3>2
    <3> QED
      BY <2>1, <3>3
  <2>2. CASE N # 0
    <3>1. N \in 1..N /\ c # <<>> /\ Last(c) = c[N] /\ d[N] = c[N] /\ N + 1 - 1 = N
      BY <1>1, <1>4, <2>2 DEF Last
    <3>2. CASE ~open
      <4>1. c[N].end
        BY <3>1, <3>2
      <4> QED
        BY <1>2, <1>4, <3>1, <3>2, <4>1
    <3>3. CASE open
      <4>1. ~c[N].end /\ c[N].title = t /\ c[N] \in Piece
        BY <1>1, <3>1, <3>3
      <4>2. c[N] = [x EXCEPT !.end = FALSE]
        <5>1. c[N].end = FALSE /\ x.title = t
          BY <1>2, <4>1 DEF Piece
        <5> QED
          BY <4>1, <5>1 DEF Piece
      <4>3. N > 1 => N + 1 - 2 = N - 1 /\ N - 1 \in 1..N /\ d[N - 1] = c[N - 1] /\ c[N - 1].end
        <5>1. N > 1 => c[N - 1].end
          BY <1>1, <3>1, <4>1 DEF Lines
        <5> QED
          BY <1>4, <5>1
      <4>4. d[N + 1].end
        BY <1>2, <1>4, <3>3
      <4>5. Whole(d, N + 1)
        <5>1. N + 1 > 1 /\ d[N + 1 - 1] = [d[N + 1] EXCEPT !.end = FALSE]
          BY <1>4, <2>2, <3>1, <4>2
        <5>2. N + 1 > 2 => d[N + 1 - 2].end
          BY <4>3
        <5> QED
          BY <4>4, <5>1, <5>2 DEF Whole
      <4> QED
        BY <4>4, <4>5
    <3> QED
      BY <3>2, <3>3
  <2> QED
    BY <2>1, <2>2
<1>7. Lines(d)
  <2> SUFFICES ASSUME NEW k \in 1..(N + 1)
               PROVE  IF d[k].end THEN Whole(d, k) ELSE k > 1 => d[k - 1].end
    BY <1>4 DEF Lines
  <2>1. CASE k = N + 1
    <3>1. N + 1 - 1 = N
      OBVIOUS
    <3> QED
      BY <1>6, <2>1, <3>1
  <2>2. CASE k # N + 1
    <3>1. k \in 1..N
      BY <2>2
    <3> QED
      BY <1>5, <3>1
  <2> QED
    BY <2>1, <2>2
<1> QED
  BY <1>2, <1>3, <1>4, <1>7

(* What was read stays what it is when the file grows. *)
LEMMA HasReadMore ==
  ASSUME NEW ix, NEW c \in Seq(Piece), NEW x \in Piece, HasRead(ix, c)
  PROVE  HasRead(ix, Append(c, x))
<1>1. PICK N \in Nat : N = Len(c)
  OBVIOUS
<1>2. PICK o \in 0..N, e \in 0..N : o = ix.offset /\ e = ix.offset - Len(ix.partial) /\ e <= o
  BY <1>1 DEF HasRead
<1>3. PICK d : d = Append(c, x)
  OBVIOUS
<1>4. /\ d \in Seq(Piece) /\ Len(d) = N + 1
      /\ \A k \in 1..N : d[k] = c[k]
  BY <1>1, <1>3
<1>5. SubSeq(d, e + 1, o) = SubSeq(c, e + 1, o)
  <2>1. PICK a, b : a = SubSeq(d, e + 1, o) /\ b = SubSeq(c, e + 1, o)
    OBVIOUS
  <2>2. a \in Seq(Piece) /\ Len(a) = o - e /\ \A k \in 1..(o - e) : a[k] = d[e + k]
    <3>1. e \in 0..Len(d) /\ o \in e..Len(d)
      BY <1>2, <1>4
    <3> QED
      BY <1>4, <2>1, <3>1, PartIs
  <2>3. b \in Seq(Piece) /\ Len(b) = o - e /\ \A k \in 1..(o - e) : b[k] = c[e + k]
    <3>1. e \in 0..Len(c) /\ o \in e..Len(c)
      BY <1>1, <1>2
    <3> QED
      BY <2>1, <3>1, PartIs
  <2>4. \A k \in 1..(o - e) : e + k \in 1..N
    BY <1>2
  <2>5. \A k \in 1..(o - e) : a[k] = b[k]
    BY <1>4, <2>2, <2>3, <2>4
  <2>6. o - e \in Nat
    BY <1>2
  <2>7. a = b
    BY <2>2, <2>3, <2>5, <2>6
  <2> QED
    BY <2>1, <2>7
<1>6. ix.partial = SubSeq(c, e + 1, o)
  BY <1>2 DEF HasRead
<1>7. \A k \in (e + 1)..o : ~d[k].end
  <2>1. \A k \in (e + 1)..o : k \in 1..N /\ ~c[k].end
    BY <1>2 DEF HasRead
  <2> QED
    BY <1>4, <2>1
<1>8. IF e = 0 THEN ix.title = NoTitle ELSE d[e].end /\ ix.title = d[e].title
  <2>1. IF e = 0 THEN ix.title = NoTitle ELSE c[e].end /\ ix.title = c[e].title
    BY <1>2 DEF HasRead
  <2>2. e # 0 => d[e] = c[e]
    BY <1>4
  <2> QED
    BY <2>1, <2>2
<1>9. ix.offset \in 0..Len(d) /\ e \in 0..ix.offset
  BY <1>2, <1>4
<1> QED
  BY <1>2, <1>3, <1>5, <1>6, <1>7, <1>8, <1>9 DEF HasRead

LEMMA EmptyHasRead ==
  ASSUME NEW c \in Seq(Piece)
  PROVE  HasRead(Empty, c) /\ Empty \in IndexState /\ Ends(Empty.partial) = {}
<1>1. /\ Empty.offset = 0 /\ Empty.partial = <<>> /\ Empty.title = NoTitle
      /\ Len(<<>>) = 0 /\ 0 - 0 = 0 /\ 0 \in 0..Len(c) /\ 0 \in 0..0
      /\ SubSeq(c, 0 + 1, 0) = <<>>
  BY DEF Empty
<1>2. HasRead(Empty, c)
  <2>1. \A k \in (0 + 1)..0 : ~c[k].end
    OBVIOUS
  <2>2. Empty.offset - Len(Empty.partial) = 0
    BY <1>1
  <2> QED
    BY <1>1, <2>1, <2>2 DEF HasRead
<1>3. Empty \in IndexState
  BY DEF Empty, IndexState, Title
<1>4. Ends(<<>>) = {}
  BY DEF Ends
<1> QED
  BY <1>1, <1>2, <1>3, <1>4

LEMMA LineIs ==
  ASSUME NEW t \in Titles
  PROVE  Line(t) \in Seq(Piece) /\ Lines(Line(t)) /\ Len(Line(t)) = 2
<1>1. PICK x \in Piece, y \in Piece : x = [title |-> t, end |-> FALSE] /\ y = [title |-> t, end |-> TRUE]
  BY DEF Piece
<1>2. PICK c : c = <<x, y>>
  OBVIOUS
<1>3. c \in Seq(Piece) /\ Len(c) = 2 /\ c[1] = x /\ c[2] = y /\ DOMAIN c = 1..2
  BY <1>2
<1>4. ~c[1].end /\ c[2].end /\ c[2 - 1] = [c[2] EXCEPT !.end = FALSE]
  BY <1>1, <1>3
<1>5. Whole(c, 2)
  BY <1>4 DEF Whole
<1>6. \A k \in 1..2 : k = 1 \/ k = 2
  OBVIOUS
<1>7. Lines(c)
  BY <1>3, <1>4, <1>5, <1>6 DEF Lines
<1> QED
  BY <1>1, <1>2, <1>3, <1>7 DEF Line

(* A change of the file has an event, or is missed. *)
LEMMA AppendPieceKeeps ==
  ASSUME TitleInv, NEW t \in bound.titles, AppendPiece(t)
  PROVE  TitleInv'
<1> USE DEF TitleInv
<1>1. t \in Titles
  BY TitleAssumption DEF TitleTypes
<1>2. PICK c \in Seq(Piece) : c = file.content
  BY DEF TitleTypes
<1>3. PICK open \in BOOLEAN : open = (file.content # <<>> /\ ~Last(file.content).end)
  OBVIOUS
<1>4. PICK x \in Piece : x = [title |-> t, end |-> open]
  BY <1>1 DEF Piece
<1>5. /\ file' = [inode |-> inodes, content |-> Append(c, x)]
      /\ file = [inode |-> inodes, content |-> c]
      /\ open => t = Last(c).title
      /\ UNCHANGED <<bound, inodes, idx, watcher, rewritten, queue, sync, lane, rows, uploaded, recent, raced>>
  BY <1>2, <1>3, <1>4 DEF AppendPiece, indexVars, storeVars, TitleTypes
<1>6. Append(c, x) \in Seq(Piece) /\ Lines(Append(c, x))
  BY <1>1, <1>2, <1>3, <1>4, <1>5, LinesAppend DEF FileInv
<1>7. Len(Append(c, x)) = Len(c) + 1 /\ Len(c) \in Nat
  OBVIOUS
<1>8. wake' = (wake \/ Watching) /\ missed' = (missed \/ ~Watching)
  BY DEF AppendPiece, Changed
<1>9. TitleTypes'
  BY <1>5, <1>6, <1>8 DEF TitleTypes, Watching
<1>10. FileInv'
  <2>1. HasRead(idx, c) => HasRead(idx, Append(c, x))
    BY HasReadMore
  <2>2. file'.content = Append(c, x) /\ file'.inode = inodes /\ file.inode = inodes /\ file.content = c
    BY <1>5
  <2>4. Lines(file'.content)
    BY <1>6, <2>2
  <2>5. idx'.inode = file'.inode => rewritten' \/ HasRead(idx', file'.content)
    BY <1>5, <2>1, <2>2 DEF FileInv
  <2>6. watcher'.pc \in {"read", "openRead"} => watcher'.inode # 0
    BY <1>5 DEF FileInv
  <2>7. /\ watcher.pc \in {"watch", "read"} => wake'
        /\ watcher.pc \in {"openRead", "sync", "synced"} => missed'
        /\ wake' => Watching
    BY <1>8 DEF FileInv, Watching
  <2> QED
    BY <1>5, <2>4, <2>5, <2>6, <2>7 DEF FileInv, Watching
<1>11. RowInv'
  BY <1>5 DEF RowInv, Settled
<1> QED
  BY <1>9, <1>10, <1>11

LEMMA ContentsTyped ==
  ASSUME TitleInv, NEW content \in Contents
  PROVE  content \in Seq(Piece) /\ Lines(content) /\ Len(content) \in Nat
<1> USE DEF TitleInv
<1>1. CASE content = <<>>
  BY <1>1 DEF Lines
<1>2. CASE content # <<>>
  <2>1. PICK t \in bound.titles : content = Line(t)
    BY <1>2 DEF Contents
  <2>2. t \in Titles
    BY TitleAssumption DEF TitleTypes
  <2> QED
    BY <2>1, <2>2, LineIs
<1> QED
  BY <1>1, <1>2

LEMMA ReplaceKeeps ==
  ASSUME TitleInv, NEW content \in Contents, Replace(content)
  PROVE  TitleInv'
<1> USE DEF TitleInv
<1>1. content \in Seq(Piece) /\ Lines(content) /\ Len(content) \in Nat
  BY ContentsTyped
<1>2. /\ file' = [inode |-> inodes + 1, content |-> content] /\ inodes' = inodes + 1
      /\ UNCHANGED <<bound, idx, watcher, rewritten, queue, sync, lane, rows, uploaded, recent, raced>>
  BY DEF Replace, indexVars, storeVars
<1>3. wake' = (wake \/ Watching) /\ missed' = (missed \/ ~Watching)
  BY DEF Replace, Changed
<1>4. /\ inodes \in Nat /\ idx.inode \in 0..inodes /\ watcher.inode \in 0..inodes
      /\ idx.inode # inodes + 1 /\ watcher.inode # inodes + 1
  BY DEF TitleTypes
<1>5. TitleTypes'
  <2>1. 0..inodes \subseteq 0..(inodes + 1) /\ inodes + 1 \in Nat
    BY <1>4
  <2> QED
    BY <1>1, <1>2, <1>3, <2>1 DEF TitleTypes, Watching
<1>6. FileInv'
  <2>1. file'.inode = inodes + 1 /\ file'.content = content
    BY <1>2
  <2> QED
    BY <1>1, <1>2, <1>3, <1>4, <2>1 DEF FileInv, Watching, StatCurrent, Current
<1>7. RowInv'
  BY <1>2 DEF RowInv, Settled
<1> QED
  BY <1>5, <1>6, <1>7

LEMMA RewriteKeeps ==
  ASSUME TitleInv, NEW content \in Contents, Rewrite(content)
  PROVE  TitleInv'
<1> USE DEF TitleInv
<1>1. content \in Seq(Piece) /\ Lines(content) /\ Len(content) \in Nat
  BY ContentsTyped
<1>2. /\ file' = [inode |-> inodes, content |-> content] /\ file.inode = inodes
      /\ rewritten' = (rewritten \/ (idx.inode = file.inode /\ idx.offset > 0))
      /\ UNCHANGED <<bound, inodes, idx, watcher, queue, sync, lane, rows, uploaded, recent, raced>>
  BY DEF Rewrite, indexVars, storeVars, TitleTypes
<1>3. wake' = (wake \/ Watching) /\ missed' = (missed \/ ~Watching)
  BY DEF Rewrite, Changed
<1>4. TitleTypes'
  BY <1>1, <1>2, <1>3 DEF TitleTypes, Watching
<1>5. file'.inode = inodes /\ file'.content = content
  BY <1>2
<1>6. ASSUME idx.inode = file.inode, ~rewritten, ~(idx.offset > 0)
      PROVE  HasRead(idx, content)
  <2>1. HasRead(idx, file.content) /\ idx.offset \in Nat /\ idx.partial \in Seq(Piece)
    BY <1>6 DEF FileInv, TitleTypes
  <2>2. idx.offset = 0 /\ Len(idx.partial) \in Nat
    BY <1>6, <2>1
  <2>3. idx.offset - Len(idx.partial) \in 0..idx.offset
    BY <2>1 DEF HasRead
  <2>4. Len(idx.partial) = 0
    BY <2>2, <2>3
  <2>5. idx.partial = <<>> /\ idx.title = NoTitle
    <3>1. idx.partial = <<>>
      BY <2>1, <2>4, EmptySeq
    <3>2. idx.offset - Len(idx.partial) = 0
      BY <2>2, <2>4
    <3> QED
      BY <2>1, <3>1, <3>2 DEF HasRead
  <2>6. SubSeq(content, 0 + 1, 0) = <<>>
    BY <1>1
  <2> QED
    BY <1>1, <2>2, <2>4, <2>5, <2>6 DEF HasRead
<1>7. FileInv'
  <2>1. idx'.inode = file'.inode => rewritten' \/ HasRead(idx', file'.content)
    BY <1>2, <1>5, <1>6
  <2> QED
    BY <1>1, <1>2, <1>3, <1>5, <2>1 DEF FileInv, Watching, StatCurrent, Current
<1>8. RowInv'
  BY <1>2 DEF RowInv, Settled
<1> QED
  BY <1>4, <1>7, <1>8

-----------------------------------------------------------------------------
(* The index and its watcher. *)

LEMMA RefreshStatKeeps ==
  ASSUME TitleInv, RefreshStat
  PROVE  TitleInv'
<1> USE DEF TitleInv
<1>1. UNCHANGED <<bound, file, inodes, rewritten, idx, wake, queue, sync, lane, rows, uploaded, recent, raced>>
  BY DEF RefreshStat, fileVars, storeVars
<1>2. /\ file \in [inode : {inodes}, content : Seq(Piece)] /\ inodes \in Nat
      /\ watcher.pc \in {"open", "stat"} /\ missed' = (missed /\ watcher.pc # "open")
  BY DEF RefreshStat, TitleTypes
<1>3. Len(file.content) \in Nat /\ file.inode = inodes
  BY <1>2
<1>4. CASE file.inode = 0
  <2>1. /\ watcher' = Stat(IF watcher.pc = "open" THEN "sync" ELSE "watch")
        /\ watcher'.pc = IF watcher.pc = "open" THEN "sync" ELSE "watch"
    BY <1>4 DEF RefreshStat, Stat
  <2>2. TitleTypes'
    BY <1>1, <1>2, <2>1 DEF TitleTypes, Stat, WatcherPcs
  <2>3. FileInv'
    BY <1>1, <1>2, <1>4, <2>1 DEF FileInv, Watching
  <2>4. RowInv'
    BY <1>1, <1>2, <2>1 DEF RowInv, Settled
  <2> QED
    BY <2>2, <2>3, <2>4
<1>5. CASE file.inode # 0
  <2>1. watcher' = [pc |-> IF watcher.pc = "open" THEN "openRead" ELSE "read",
                    inode |-> file.inode, len |-> Len(file.content)]
    BY <1>5 DEF RefreshStat
  <2>2. TitleTypes'
    <3>1. watcher' \in [pc : WatcherPcs, inode : 0..inodes, len : Nat]
      BY <1>2, <1>3, <2>1 DEF WatcherPcs
    <3> QED
      BY <1>1, <1>2, <3>1 DEF TitleTypes
  <2>4. FileInv'
    BY <1>1, <1>2, <1>3, <1>5, <2>1 DEF FileInv, Watching, StatCurrent
  <2>5. RowInv'
    BY <1>1, <1>2, <2>1 DEF RowInv, Settled
  <2> QED
    BY <2>2, <2>4, <2>5
<1> QED
  BY <1>4, <1>5

(* A file that changed since the look at its metadata has another number,  *)
(* or an event.                                                            *)
LEMMA RefreshReadKeeps ==
  ASSUME TitleInv, RefreshRead
  PROVE  TitleInv'
<1> USE DEF TitleInv
<1>1. /\ UNCHANGED <<bound, file, inodes, wake, sync, lane, rows, uploaded, recent, raced>>
      /\ watcher.pc \in {"openRead", "read"}
  BY DEF RefreshRead, fileVars, storeVars
<1>2. PICK c \in Seq(Piece) : c = file.content
  BY DEF TitleTypes
<1>3. PICK from : from = StartOver
  OBVIOUS
<1>0. rewritten' = (rewritten /\ from # Empty) /\ rewritten \in BOOLEAN
  BY <1>3 DEF RefreshRead, TitleTypes
<1>4. idx \in IndexState /\ idx.offset \in Nat /\ watcher.inode \in Nat /\ watcher.inode \in 0..inodes /\ inodes \in Nat
  BY DEF TitleTypes, IndexState
<1>5. from \in IndexState /\ Ends(from.partial) = {} /\ from \in {idx, Empty}
  <2>1. Empty \in IndexState /\ Ends(Empty.partial) = {}
    BY <1>2, EmptyHasRead
  <2> QED
    BY <1>3, <1>4, <2>1 DEF StartOver, TitleTypes
<1>6. PICK appended \in Seq(Piece) :
        /\ watcher.len # from.offset => appended = SubSeq(c, from.offset + 1, Len(c))
        /\ watcher.len = from.offset => appended = <<>>
  <2>1. SubSeq(c, from.offset + 1, Len(c)) \in Seq(Piece)
    <3>1. PICK m \in Int, n \in Int : m = from.offset + 1 /\ m >= 1 /\ n = Len(c)
      BY <1>5 DEF IndexState
    <3>2. \A i \in m..n : c[i] \in Piece
      BY <3>1
    <3> QED
      BY <3>1, <3>2, SubSeqProperties
  <2>2. <<>> \in Seq(Piece)
    OBVIOUS
  <2> QED
    BY <2>1, <2>2
<1>7. PICK changes : changes = Changes(from.title, SubSeq(Text(from, appended), 1, Complete(Text(from, appended))))
  OBVIOUS
<1>8. /\ idx' = ReadTo(from, watcher.inode, appended)
      /\ idx'.title = Last(changes)
      /\ IF watcher.pc = "openRead"
         THEN watcher' = Stat("sync") /\ UNCHANGED <<queue, missed>>
         ELSE watcher' = Stat("watch") /\ queue' = queue \o Tail(changes) /\ missed' = FALSE
  <2>1. appended = IF watcher.len # from.offset THEN SubSeq(file.content, from.offset + 1, Len(file.content))
                   ELSE <<>>
    BY <1>2, <1>6
  <2> QED
    BY <1>3, <1>7, <2>1 DEF RefreshRead, ReadTo, Text, Complete
<1>9. /\ idx' \in IndexState /\ Ends(idx'.partial) = {} /\ changes \in Found(from.title)
      /\ idx'.inode = watcher.inode
  <2>1. ReadTo(from, watcher.inode, appended).inode = watcher.inode
    BY DEF ReadTo
  <2> QED
    BY <1>4, <1>5, <1>7, <1>8, <2>1, ReadToTypes
<1>10. /\ Tail(changes) \in Seq(Titles)
       /\ Tail(changes) = <<>> => Last(changes) = from.title
       /\ Tail(changes) # <<>> => Last(Tail(changes)) = Last(changes)
  BY <1>9, ChangesTail
<1>11. TitleTypes'
  <2>1. idx' \in [title : Title, inode : 0..inodes, offset : Nat, partial : Seq(Piece)]
    BY <1>4, <1>9 DEF IndexState
  <2>2. watcher' \in [pc : WatcherPcs, inode : 0..inodes, len : Nat]
    BY <1>4, <1>8 DEF Stat, WatcherPcs
  <2>3. queue' \in Seq(Titles) /\ missed' \in BOOLEAN
    <3>1. queue \in Seq(Titles) /\ missed \in BOOLEAN
      BY DEF TitleTypes
    <3>2. queue \o Tail(changes) \in Seq(Titles)
      BY <1>10, <3>1, ConcatProperties
    <3> QED
      BY <1>8, <3>1, <3>2
  <2> QED
    BY <1>0, <1>1, <1>9, <2>1, <2>2, <2>3 DEF TitleTypes
<1>12. ASSUME watcher.inode = file.inode
       PROVE  (rewritten' \/ HasRead(idx', c)) /\ (StatCurrent => idx'.offset = Len(c))
  <2>1. from = Empty \/ (from = idx /\ idx.inode = file.inode /\ idx.offset <= watcher.len)
    <3>1. watcher.len \in Nat
      BY DEF TitleTypes
    <3> QED
      BY <1>1, <1>3, <1>4, <1>12, <3>1 DEF StartOver, FileInv
  <2>0. CASE rewritten'
    <3>1. StatCurrent => idx'.offset = Len(c)
      <4> SUFFICES ASSUME StatCurrent
                   PROVE  idx'.offset = Len(c)
        OBVIOUS
      <4>1. from.offset \in Nat /\ from.offset <= Len(c) /\ watcher.len = Len(c)
        BY <1>0, <1>2, <1>4, <2>0, <2>1 DEF StatCurrent
      <4>2. Len(appended) = Len(c) - from.offset
        <5>1. CASE Len(c) # from.offset
          BY <1>6, <4>1, <5>1
        <5>2. CASE Len(c) = from.offset
          BY <1>6, <4>1, <5>2
        <5> QED
          BY <5>1, <5>2
      <4>3. idx'.offset = from.offset + Len(appended)
        BY <1>8 DEF ReadTo
      <4> QED
        BY <4>1, <4>2, <4>3
    <3> QED
      BY <2>0, <3>1
  <2> SUFFICES ASSUME ~rewritten'
               PROVE  HasRead(idx', c) /\ (StatCurrent => idx'.offset = Len(c))
    BY <2>0
  <2>2. HasRead(from, c)
    BY <1>0, <1>2, <2>1, EmptyHasRead DEF FileInv
  <2>3. CASE watcher.len # from.offset
    <3>1. appended = SubSeq(c, from.offset + 1, Len(c))
      BY <1>6, <2>3
    <3>2. Lines(c)
      BY <1>2 DEF FileInv
    <3>3. HasRead(ReadTo(from, watcher.inode, appended), c) /\ ReadTo(from, watcher.inode, appended).offset = Len(c)
      <4>1. PICK w \in Nat : w = watcher.inode
        BY <1>4
      <4>2. from \in IndexState
        BY <1>5
      <4>3. /\ HasRead(ReadTo(from, w, SubSeq(c, from.offset + 1, Len(c))), c)
            /\ ReadTo(from, w, SubSeq(c, from.offset + 1, Len(c))).offset = Len(c)
        BY <2>2, <3>2, <4>2, ReadToFollows
      <4> QED
        BY <3>1, <4>1, <4>3
    <3> QED
      BY <1>8, <3>3
  <2>4. CASE watcher.len = from.offset
    <3>1. appended = <<>>
      BY <1>6, <2>4
    <3>2. idx' = [title |-> from.title, inode |-> watcher.inode, offset |-> from.offset, partial |-> from.partial]
      BY <1>4, <1>5, <1>8, <3>1, ReadToNothing
    <3>3. /\ idx'.title = from.title /\ idx'.offset = from.offset /\ idx'.partial = from.partial
      BY <3>2
    <3>4. HasRead(idx', c)
      BY <2>2, <3>3 DEF HasRead
    <3>5. StatCurrent => idx'.offset = Len(c)
      BY <1>2, <2>4, <3>3 DEF StatCurrent
    <3> QED
      BY <3>4, <3>5
  <2> QED
    BY <2>3, <2>4
<1>13. watcher.inode # 0
  BY <1>1 DEF FileInv
<1>14. FileInv'
  <2>1. watcher'.pc = IF watcher.pc = "openRead" THEN "sync" ELSE "watch"
    BY <1>8 DEF Stat
  <2>2. idx'.inode = file'.inode => rewritten' \/ HasRead(idx', file'.content)
    BY <1>1, <1>2, <1>9, <1>12
  <2>3. StatCurrent => Current'
    BY <1>1, <1>2, <1>9, <1>12 DEF StatCurrent, Current
  <2>4. watcher'.pc = "sync" => missed' \/ Current'
    BY <1>1, <1>8, <2>1, <2>3 DEF FileInv
  <2>5. watcher'.pc = "watch" => wake' \/ Current'
    BY <1>1, <2>1, <2>3 DEF FileInv
  <2>6. wake' => Watching'
    BY <1>1, <2>1 DEF FileInv, Watching
  <2> QED
    BY <1>1, <1>9, <1>13, <2>1, <2>2, <2>4, <2>5, <2>6 DEF FileInv
<1>15. RowInv'
  <2>1. CASE watcher.pc = "openRead"
    <3>1. watcher'.pc = "sync" /\ queue' = queue
      BY <1>8, <2>1 DEF Stat
    <3> QED
      BY <1>1, <2>1, <3>1 DEF RowInv, Settled
  <2>2. CASE watcher.pc = "read"
    <3>1. watcher'.pc = "watch" /\ queue' = queue \o Tail(changes)
      BY <1>8, <2>2 DEF Stat
    <3>2. queue \in Seq(Titles)
      BY DEF TitleTypes
    <3>3. CASE Tail(changes) = <<>>
      <4>1. queue' = queue
        BY <3>1, <3>2, <3>3, ConcatEmptySeq
      <4>2. idx'.title # NoTitle => idx'.title = idx.title
        BY <1>5, <1>8, <1>10, <3>3 DEF Empty
      <4> QED
        BY <1>1, <2>2, <3>1, <4>1, <4>2 DEF RowInv, Settled
    <3>4. CASE Tail(changes) # <<>>
      <4>1. PICK t \in Seq(Titles) : t = Tail(changes) /\ Len(t) \in Nat \ {0} /\ t[Len(t)] = idx'.title
        <5>1. Len(Tail(changes)) \in Nat \ {0}
          BY <1>10, <3>4, EmptySeq
        <5> QED
          BY <1>8, <1>10, <3>4, <5>1 DEF Last
      <4>2. PICK m \in Nat, n \in Nat \ {0} : m = Len(queue) /\ n = Len(t)
        <5>1. Len(queue) \in Nat
          BY <3>2
        <5> QED
          BY <4>1, <5>1
      <4>3. /\ queue \o t \in Seq(Titles) /\ Len(queue \o t) = m + n
            /\ \A k \in 1..n : (queue \o t)[m + k] = t[k]
        BY <3>2, <4>2, ConcatIs
      <4>4. Len(queue') = m + n /\ queue'[m + n] = t[n] /\ queue' \in Seq(Titles)
        <5>1. queue' = queue \o t
          BY <3>1, <4>1
        <5>2. n \in 1..n
          OBVIOUS
        <5> QED
          BY <4>3, <5>1, <5>2
      <4>5. m + n # 0
        OBVIOUS
      <4>6. queue' # <<>> /\ Last(queue') = idx'.title
        BY <4>1, <4>2, <4>4, <4>5 DEF Last
      <4> QED
        BY <1>1, <2>2, <3>1, <4>6 DEF RowInv, Settled
    <3> QED
      BY <3>3, <3>4
  <2> QED
    BY <1>1, <2>1, <2>2
<1> QED
  BY <1>11, <1>14, <1>15

LEMMA StartupKeeps ==
  ASSUME TitleInv, StartupSync \/ AddWatch \/ ReadEvent
  PROVE  TitleInv'
<1> USE DEF TitleInv
<1>1. UNCHANGED <<bound, file, inodes, idx, sync, lane, rows, uploaded, recent, raced, missed, rewritten>>
  BY DEF StartupSync, AddWatch, ReadEvent, fileVars, storeVars
<1>2. CASE StartupSync
  <2>1. /\ watcher.pc = "sync" /\ watcher' = Stat("synced") /\ watcher'.pc = "synced" /\ wake' = wake
        /\ queue' = IF idx.title = NoTitle THEN <<>> ELSE <<idx.title>>
    BY <1>2 DEF StartupSync, Stat
  <2>2. idx.title \in Title
    BY DEF TitleTypes
  <2>3. queue' \in Seq(Titles)
    BY <2>1, <2>2 DEF Title
  <2>4. TitleTypes'
    <3>1. watcher' \in [pc : WatcherPcs, inode : 0..inodes, len : Nat]
      BY <2>1 DEF TitleTypes, Stat, WatcherPcs
    <3> QED
      BY <1>1, <2>1, <2>3, <3>1 DEF TitleTypes
  <2>5. FileInv'
    BY <1>1, <2>1 DEF FileInv, Watching, Current
  <2>6. idx.title # NoTitle => queue' # <<>> /\ Last(queue') = idx.title
    BY <2>1 DEF Last
  <2>7. RowInv'
    BY <1>1, <2>1, <2>6 DEF RowInv, Settled
  <2> QED
    BY <2>4, <2>5, <2>7
<1>3. CASE AddWatch
  <2>1. /\ watcher.pc = "synced" /\ watcher' = Stat("watch") /\ watcher'.pc = "watch" /\ wake' = wake
        /\ queue' = queue
    BY <1>3 DEF AddWatch, Started, Stat
  <2>2. TitleTypes'
    <3>1. watcher' \in [pc : WatcherPcs, inode : 0..inodes, len : Nat]
      BY <2>1 DEF TitleTypes, Stat, WatcherPcs
    <3> QED
      BY <1>1, <2>1, <3>1 DEF TitleTypes
  <2>3. FileInv'
    BY <1>1, <2>1 DEF FileInv, Watching, Current
  <2>4. RowInv'
    BY <1>1, <2>1 DEF RowInv, Settled
  <2> QED
    BY <2>2, <2>3, <2>4
<1>4. CASE ReadEvent
  <2>1. /\ watcher.pc = "watch" /\ watcher' = Stat("stat") /\ watcher'.pc = "stat" /\ wake' = FALSE
        /\ queue' = queue
    BY <1>4 DEF ReadEvent, Stat
  <2>2. TitleTypes'
    <3>1. watcher' \in [pc : WatcherPcs, inode : 0..inodes, len : Nat]
      BY <2>1 DEF TitleTypes, Stat, WatcherPcs
    <3> QED
      BY <1>1, <2>1, <3>1 DEF TitleTypes
  <2>3. FileInv'
    BY <1>1, <2>1 DEF FileInv, Watching
  <2>4. RowInv'
    BY <1>1, <2>1 DEF RowInv, Settled
  <2> QED
    BY <2>2, <2>3, <2>4
<1> QED
  BY <1>2, <1>3, <1>4

-----------------------------------------------------------------------------
(* sync_conversation_title, the lane, and the end of the daemon. *)

(* The steps that leave the file and the index alone. *)
IndexFrame == UNCHANGED <<bound, file, inodes, idx, watcher, wake, missed, rewritten>>

LEMMA IndexFrameKeeps ==
  ASSUME FileInv, IndexFrame
  PROVE  FileInv'
  BY DEF FileInv, IndexFrame, Watching, Current, StatCurrent

LEMMA SyncSelectKeeps ==
  ASSUME TitleInv, SyncSelect
  PROVE  TitleInv'
<1> USE DEF TitleInv
<1>1. /\ IndexFrame /\ UNCHANGED <<lane, rows, uploaded, recent, raced>>
      /\ sync.pc = "idle" /\ queue # <<>> /\ queue' = Tail(queue)
  BY DEF SyncSelect, IndexFrame, fileVars, indexVars, storeVars
<1>2. FileInv'
  BY <1>1, IndexFrameKeeps
<1>3. PICK found : found = {t \in Tasks : OtherTitle(t)}
  OBVIOUS
<1>4. sync' = IF found = {} THEN NoSync ELSE [pc |-> "update", title |-> Head(queue), rows |-> found]
  BY <1>3 DEF SyncSelect
<1>5. /\ queue \in Seq(Titles) /\ Head(queue) \in Titles /\ queue' \in Seq(Titles)
      /\ queue' = <<>> => Last(queue) = Head(queue)
      /\ queue' # <<>> => Last(queue') = Last(queue)
  <2>1. queue \in Seq(Titles) /\ Len(queue) \in Nat \ {0}
    BY <1>1, EmptySeq DEF TitleTypes
  <2>2. /\ Head(queue) \in Titles /\ queue' \in Seq(Titles) /\ Len(queue') = Len(queue) - 1
        /\ \A i \in 1..Len(queue') : queue'[i] = queue[i + 1]
    BY <1>1, <2>1, HeadTailProperties
  <2>3. CASE Len(queue) = 1
    <3>1. queue' = <<>>
      BY <2>2, <2>3, EmptySeq
    <3>2. Last(queue) = Head(queue)
      BY <2>1, <2>3 DEF Last
    <3> QED
      BY <2>1, <2>2, <3>1, <3>2
  <2>4. CASE Len(queue) # 1
    <3>1. Len(queue') \in 1..Len(queue') /\ Len(queue') + 1 = Len(queue)
      BY <2>1, <2>2, <2>4
    <3>2. queue'[Len(queue')] = queue[Len(queue)]
      BY <2>2, <3>1
    <3>3. queue' # <<>>
      BY <3>1
    <3> QED
      BY <2>1, <2>2, <3>2, <3>3 DEF Last
  <2> QED
    BY <2>3, <2>4
<1>6. TitleTypes'
  <2>1. sync' \in [pc : {"idle", "update", "persist"}, title : Title, rows : SUBSET Tasks]
    BY <1>3, <1>4, <1>5 DEF NoSync, Title
  <2> QED
    BY <1>1, <1>5, <2>1 DEF TitleTypes, IndexFrame
<1>7. Settled
  BY <1>1 DEF RowInv
<1>8. RowInv'
  <2>1. CASE found = {}
    <3>1. sync'.pc = "idle"
      BY <1>4, <2>1 DEF NoSync
    <3>2. \A t \in Tasks : rows[t].exists => rows[t].title = Head(queue)
      BY <1>3, <2>1 DEF OtherTitle
    <3> QED
      BY <1>1, <1>5, <1>7, <3>1, <3>2 DEF RowInv, IndexFrame, Settled
  <2>2. CASE found # {}
    <3>1. sync'.pc = "update" /\ sync'.title = Head(queue)
      BY <1>4, <2>2
    <3> QED
      BY <1>1, <1>5, <1>7, <3>1 DEF RowInv, IndexFrame, Settled
  <2> QED
    BY <2>1, <2>2
<1> QED
  BY <1>2, <1>6, <1>8

LEMMA SyncUpdateKeeps ==
  ASSUME TitleInv, SyncUpdate
  PROVE  TitleInv'
<1> USE DEF TitleInv
<1>1. /\ IndexFrame /\ UNCHANGED <<queue, lane, uploaded, recent>>
      /\ sync.pc = "update" /\ sync' = [sync EXCEPT !.pc = "persist"]
      /\ rows' = [t \in Tasks |-> IF rows[t].exists THEN [rows[t] EXCEPT !.title = sync.title] ELSE rows[t]]
      /\ raced' = (raced \ sync.rows)
                    \union {t \in Tasks \ sync.rows : rows[t].exists /\ rows[t].title # sync.title}
  BY DEF SyncUpdate, IndexFrame, fileVars, indexVars
<1>2. FileInv'
  BY <1>1, IndexFrameKeeps
<1>3. /\ sync \in [pc : {"idle", "update", "persist"}, title : Title, rows : SUBSET Tasks]
      /\ rows \in [Tasks -> Row]
  BY DEF TitleTypes
<1>4. /\ sync' \in [pc : {"idle", "update", "persist"}, title : Title, rows : SUBSET Tasks]
      /\ sync'.pc = "persist" /\ sync'.title = sync.title /\ sync'.rows = sync.rows
  BY <1>1, <1>3
<1>5. ASSUME NEW t \in Tasks
      PROVE  /\ rows'[t] \in Row
             /\ rows'[t].exists <=> rows[t].exists
             /\ rows[t].exists => rows'[t].title = sync.title
  <2>1. rows[t] \in Row /\ sync.title \in Title
    BY <1>3
  <2>2. CASE rows[t].exists
    <3>1. rows'[t] = [rows[t] EXCEPT !.title = sync.title]
      BY <1>1, <2>2
    <3> QED
      BY <2>1, <3>1 DEF Row
  <2>3. CASE ~rows[t].exists
    BY <1>1, <2>1, <2>3
  <2> QED
    BY <2>2, <2>3
<1>6. TitleTypes'
  <2>1. rows' \in [Tasks -> Row]
    BY <1>1, <1>5
  <2>2. {t \in Tasks : rows'[t].exists} = {t \in Tasks : rows[t].exists}
    BY <1>5
  <2> QED
    BY <1>1, <1>4, <2>1, <2>2 DEF TitleTypes, IndexFrame
<1>7. RowInv'
  <2>1. Settled /\ Settled'
    BY <1>1 DEF RowInv, Settled, IndexFrame
  <2>2. idx'.title # NoTitle /\ queue' # <<>> => Last(queue') = idx'.title
    BY <1>1 DEF RowInv, IndexFrame
  <2>3. idx'.title # NoTitle /\ queue' = <<>> => sync'.title = idx'.title
    BY <1>1, <1>4 DEF RowInv, IndexFrame
  <2>4. idx'.title # NoTitle /\ queue' = <<>> => \A t \in Tasks \ raced' : rows'[t].exists => rows'[t].title = idx'.title
    BY <1>4, <1>5, <2>3
  <2>5. ASSUME NEW t \in Tasks \ raced', rows'[t].exists, t \notin sync.rows
        PROVE  uploaded'[t].title = rows'[t].title
    <3>1. t \notin raced /\ rows[t].exists /\ rows[t].title = sync.title
      BY <1>1, <1>5, <2>5
    <3>2. uploaded[t].title = rows[t].title
      BY <1>1, <3>1 DEF RowInv
    <3> QED
      BY <1>1, <1>5, <3>1, <3>2
  <2> QED
    BY <1>1, <1>4, <2>1, <2>2, <2>3, <2>4, <2>5 DEF RowInv
<1> QED
  BY <1>2, <1>6, <1>7

LEMMA SyncPersistKeeps ==
  ASSUME TitleInv, SyncPersist
  PROVE  TitleInv'
<1> USE DEF TitleInv
<1>1. /\ IndexFrame /\ UNCHANGED <<queue, lane, rows, recent, raced>>
      /\ sync.pc = "persist" /\ sync' = NoSync
      /\ uploaded' = [t \in Tasks |-> IF t \in sync.rows THEN rows[t] ELSE uploaded[t]]
  BY DEF SyncPersist, IndexFrame, fileVars, indexVars
<1>2. FileInv'
  BY <1>1, IndexFrameKeeps
<1>3. TitleTypes'
  <2>1. rows \in [Tasks -> Row] /\ uploaded \in [Tasks -> Row]
    BY DEF TitleTypes
  <2>2. uploaded' \in [Tasks -> Row]
    BY <1>1, <2>1
  <2>3. sync' \in [pc : {"idle", "update", "persist"}, title : Title, rows : SUBSET Tasks]
    BY <1>1 DEF NoSync, Title
  <2> QED
    BY <1>1, <2>2, <2>3 DEF TitleTypes, IndexFrame
<1>4. RowInv'
  <2>1. Settled /\ Settled' /\ sync'.pc = "idle"
    BY <1>1 DEF RowInv, Settled, IndexFrame, NoSync
  <2>2. ASSUME NEW t \in Tasks \ raced, rows[t].exists
        PROVE  uploaded'[t].title = rows[t].title
    BY <1>1, <2>2 DEF RowInv
  <2> QED
    BY <1>1, <2>1, <2>2 DEF RowInv, IndexFrame
<1> QED
  BY <1>2, <1>3, <1>4

LEMMA LaneLooksKeeps ==
  ASSUME TitleInv, NEW t \in Tasks, NEW status \in bound.statuses, LaneLooks(t, status)
  PROVE  TitleInv'
<1> USE DEF TitleInv
<1>1. /\ IndexFrame /\ UNCHANGED <<queue, sync, rows, uploaded, recent, raced>>
      /\ lane' = [pc |-> "persist", task |-> t, status |-> status, title |-> Or(idx.title, rows[t].title),
                  known |-> idx.title]
  BY DEF LaneLooks, IndexFrame, fileVars, indexVars, storeVars
<1>2. FileInv'
  BY <1>1, IndexFrameKeeps
<1>3. TitleTypes'
  <2>1. bound.statuses \subseteq Statuses
    BY TitleAssumption DEF TitleTypes
  <2>2. idx.title \in Title /\ rows[t] \in Row
    BY DEF TitleTypes
  <2>3. Or(idx.title, rows[t].title) \in Title
    BY <2>2 DEF Or, Row
  <2>4. lane' \in LaneSummary
    BY <1>1, <2>1, <2>2, <2>3 DEF LaneSummary
  <2> QED
    BY <1>1, <2>4 DEF TitleTypes, IndexFrame
<1>4. RowInv'
  BY <1>1 DEF RowInv, IndexFrame, Settled, Or
<1> QED
  BY <1>2, <1>3, <1>4

LEMMA LanePersistsKeeps ==
  ASSUME TitleInv, LanePersists
  PROVE  TitleInv'
<1> USE DEF TitleInv
<1>1. PICK t, row : t = lane.task /\ row = [exists |-> TRUE, title |-> Or(lane.title, rows[t].title), status |-> lane.status]
  OBVIOUS
<1>2. /\ IndexFrame /\ UNCHANGED <<queue, sync>> /\ lane.pc = "persist"
      /\ rows' = [rows EXCEPT ![t] = row]
      /\ uploaded' = [uploaded EXCEPT ![t] = row]
      /\ recent' = <<t>> \o RemoveFirst(recent, t)
      /\ lane' = NoSummary
      /\ raced' = IF lane.known = idx.title \/ row.title = Or(idx.title, row.title)
                  THEN raced ELSE raced \union {t}
  BY <1>1 DEF LanePersists, IndexFrame, fileVars, indexVars
<1>3. FileInv'
  BY <1>2, IndexFrameKeeps
<1>4. lane \in LaneSummary
  BY <1>2 DEF TitleTypes, NoSummary, LaneSummary
<1>5. t \in Tasks /\ rows \in [Tasks -> Row] /\ uploaded \in [Tasks -> Row]
  BY <1>1, <1>4 DEF TitleTypes, LaneSummary
<1>6. row \in Row /\ row.exists = TRUE
  <2>1. rows[t].title \in Title /\ lane.title \in Title /\ lane.status \in Statuses
    BY <1>4, <1>5 DEF Row, LaneSummary
  <2>2. Or(lane.title, rows[t].title) \in Title
    BY <2>1 DEF Or
  <2> QED
    BY <1>1, <2>1, <2>2 DEF Row
<1>7. /\ rows' \in [Tasks -> Row] /\ uploaded' \in [Tasks -> Row]
      /\ rows'[t] = row /\ uploaded'[t] = row
      /\ \A u \in Tasks : u # t => rows'[u] = rows[u] /\ uploaded'[u] = uploaded[u]
  BY <1>2, <1>5, <1>6
<1>8. TitleTypes'
  <2>1. recent \in Seq(Tasks) /\ IsInjective(recent) /\ Range(recent) = {u \in Tasks : rows[u].exists}
    BY DEF TitleTypes
  <2>2. recent' \in Seq(Tasks) /\ IsInjective(recent') /\ Range(recent') = Range(recent) \union {t}
    BY <1>2, <1>5, <2>1, MovesToFront
  <2>3. {u \in Tasks : rows'[u].exists} = {u \in Tasks : rows[u].exists} \union {t}
    BY <1>5, <1>6, <1>7
  <2> QED
    BY <1>2, <1>7, <2>1, <2>2, <2>3 DEF TitleTypes, IndexFrame
<1>9. RowInv'
  <2>1. t \notin raced' /\ idx.title # NoTitle => row.title = idx.title
    <3>1. lane.known = idx.title /\ idx.title # NoTitle => row.title = idx.title
      BY <1>1, <1>2 DEF RowInv, Or
    <3> QED
      BY <1>2, <3>1 DEF Or
  <2>2. raced \subseteq raced' /\ idx' = idx /\ watcher' = watcher
    BY <1>2 DEF IndexFrame
  <2>3. ASSUME NEW u \in Tasks \ raced', rows'[u].exists,
               Settled /\ idx.title # NoTitle /\ queue = <<>> /\ sync.pc # "update"
        PROVE  rows'[u].title = idx.title
    <3>1. CASE u = t
      BY <1>7, <2>1, <2>3, <3>1
    <3>2. CASE u # t
      BY <1>7, <2>2, <2>3, <3>2 DEF RowInv
    <3> QED
      BY <3>1, <3>2
  <2>4. ASSUME NEW u \in Tasks \ raced', rows'[u].exists, ~(sync.pc = "persist" /\ u \in sync.rows)
        PROVE  uploaded'[u].title = rows'[u].title
    <3>1. CASE u = t
      BY <1>7, <3>1
    <3>2. CASE u # t
      BY <1>7, <2>2, <2>4, <3>2 DEF RowInv
    <3> QED
      BY <3>1, <3>2
  <2> QED
    BY <1>2, <2>2, <2>3, <2>4 DEF RowInv, Settled, NoSummary
<1> QED
  BY <1>3, <1>8, <1>9

LEMMA ClientRestartKeeps ==
  ASSUME TitleInv, ClientRestart
  PROVE  TitleInv'
<1> USE DEF TitleInv
<1>1. /\ UNCHANGED <<bound, file, inodes, rows, uploaded, recent>>
      /\ idx' = Empty /\ wake' = FALSE /\ watcher' = Stat("open") /\ queue' = <<>>
      /\ sync' = NoSync /\ lane' = NoSummary /\ missed' = FALSE /\ rewritten' = FALSE
      /\ raced' = IF sync.pc = "persist" THEN raced \union sync.rows ELSE raced
  BY DEF ClientRestart, fileVars, storeVars
<1>2. file.content \in Seq(Piece) /\ inodes \in Nat
  BY DEF TitleTypes
<1>3. HasRead(Empty, file.content) /\ Ends(Empty.partial) = {}
  BY <1>2, EmptyHasRead
<1>4. watcher'.pc = "open" /\ sync'.pc = "idle" /\ Empty.title = NoTitle /\ Empty.inode = 0
  BY <1>1 DEF Stat, NoSync, Empty
<1>5. TitleTypes'
  <2>1. idx' \in [title : Title, inode : 0..inodes, offset : Nat, partial : Seq(Piece)]
    BY <1>1, <1>2 DEF Empty, Title
  <2>2. watcher' \in [pc : WatcherPcs, inode : 0..inodes, len : Nat]
    BY <1>1, <1>2 DEF Stat, WatcherPcs
  <2>3. sync' \in [pc : {"idle", "update", "persist"}, title : Title, rows : SUBSET Tasks]
    BY <1>1 DEF NoSync, Title
  <2>4. queue' \in Seq(Titles)
    BY <1>1
  <2> QED
    BY <1>1, <1>3, <2>1, <2>2, <2>3, <2>4 DEF TitleTypes
<1>6. FileInv'
  BY <1>1, <1>3, <1>4 DEF FileInv
<1>7. RowInv'
  BY <1>1, <1>4 DEF RowInv, Settled, NoSummary
<1> QED
  BY <1>5, <1>6, <1>7

LEMMA TitleInitInv == TitleInit => TitleInv
<1> SUFFICES ASSUME TitleInit
             PROVE  TitleInv
  OBVIOUS
<1>1. /\ bound \in Bounds /\ file = [inode |-> 0, content |-> <<>>] /\ inodes = 0
      /\ idx = Empty /\ wake = FALSE /\ watcher = Stat("open") /\ queue = <<>> /\ sync = NoSync
      /\ lane = NoSummary /\ rows = [t \in Tasks |-> NoRow] /\ uploaded = [t \in Tasks |-> NoRow]
      /\ recent = <<>> /\ missed = FALSE /\ rewritten = FALSE /\ raced = {}
  BY DEF TitleInit
<1>2. <<>> \in Seq(Piece) /\ Lines(<<>>) /\ <<>> \in Seq(Tasks) /\ <<>> \in Seq(Titles) /\ DOMAIN <<>> = {}
  BY DEF Lines
<1>3. HasRead(Empty, <<>>) /\ Ends(Empty.partial) = {}
  BY <1>2, EmptyHasRead
<1>4. watcher.pc = "open" /\ sync.pc = "idle" /\ Empty.title = NoTitle /\ Empty.inode = 0
  BY <1>1 DEF Stat, NoSync, Empty
<1>5. NoRow \in Row /\ ~NoRow.exists
  BY DEF NoRow, Row, Title, Statuses
<1>6. TitleTypes
  <2>1. idx \in [title : Title, inode : 0..inodes, offset : Nat, partial : Seq(Piece)]
    BY <1>1, <1>2 DEF Empty, Title
  <2>2. watcher \in [pc : WatcherPcs, inode : 0..inodes, len : Nat]
    BY <1>1 DEF Stat, WatcherPcs
  <2>3. sync \in [pc : {"idle", "update", "persist"}, title : Title, rows : SUBSET Tasks]
    BY <1>1 DEF NoSync, Title
  <2>4. IsInjective(recent) /\ Range(recent) = {t \in Tasks : rows[t].exists}
    BY <1>1, <1>2, <1>5 DEF IsInjective, Range
  <2>5. rows \in [Tasks -> Row] /\ uploaded \in [Tasks -> Row]
    BY <1>1, <1>5
  <2>6. inodes \in Nat /\ file \in [inode : {inodes}, content : Seq(Piece)]
    BY <1>1, <1>2
  <2> QED
    BY <1>1, <1>2, <1>3, <2>1, <2>2, <2>3, <2>4, <2>5, <2>6 DEF TitleTypes
<1>7. FileInv
  BY <1>1, <1>2, <1>3, <1>4 DEF FileInv
<1>8. RowInv
  BY <1>1, <1>4, <1>5 DEF RowInv, Settled, NoSummary
<1> QED
  BY <1>6, <1>7, <1>8 DEF TitleInv

LEMMA TitleStepKeeps ==
  ASSUME TitleInv, TitleNext
  PROVE  TitleInv'
<1>1. CASE \E t \in bound.titles : AppendPiece(t)
  BY <1>1, AppendPieceKeeps
<1>2. CASE \E content \in Contents : Replace(content)
  BY <1>2, ReplaceKeeps
<1>4. CASE \E content \in Contents : Rewrite(content)
  BY <1>4, RewriteKeeps
<1>3. CASE \E t \in Tasks, status \in bound.statuses : LaneLooks(t, status)
  BY <1>3, LaneLooksKeeps
<1> QED
  BY <1>1, <1>2, <1>3, <1>4, RefreshStatKeeps, RefreshReadKeeps, StartupKeeps, SyncSelectKeeps, SyncUpdateKeeps,
     SyncPersistKeeps, LanePersistsKeeps, ClientRestartKeeps DEF TitleNext

LEMMA TitleInvAlways == Spec => []TitleInv
<1>1. Init => TitleInv
  BY TitleInitInv DEF Init
<1>2. TitleInv /\ [Next]_vars => TitleInv'
  <2> SUFFICES ASSUME TitleInv, [Next]_vars
               PROVE  TitleInv'
    OBVIOUS
  <2>1. CASE TitleNext
    BY <2>1, TitleStepKeeps
  <2>2. CASE UNCHANGED titleVars
    BY <2>2 DEF titleVars, fileVars, indexVars, storeVars, TitleInv, TitleTypes, FileInv, RowInv, Watching,
         Current, StatCurrent, Settled
  <2>3. NoticeNext \/ Fail => UNCHANGED titleVars
    BY DEF NoticeNext, Fail, Start, Fetch, SkipTask, SendNotice, RecordSent, RecordSilently, EndPass
  <2> QED
    BY <2>1, <2>2, <2>3 DEF Next, vars
<1> QED
  BY <1>1, <1>2, PTL DEF Spec

(* The index that has read the whole file has the title of its last line. *)
LEMMA ReferenceIs ==
  ASSUME NEW c \in Seq(Piece), Lines(c), NEW ix, HasRead(ix, c), ix.offset = Len(c)
  PROVE  ix.title = Reference(c)
<1>1. PICK N \in Nat : N = Len(c)
  OBVIOUS
<1>2. PICK e \in 0..N :
        /\ \A k \in (e + 1)..N : ~c[k].end
        /\ IF e = 0 THEN ix.title = NoTitle ELSE c[e].end /\ ix.title = c[e].title
  BY <1>1 DEF HasRead
<1>3. PICK whole : whole = {k \in DOMAIN c : Whole(c, k)}
  OBVIOUS
<1>4. whole \subseteq 1..N /\ \A k \in whole : c[k].end
  BY <1>1, <1>3 DEF Whole
<1>5. ASSUME NEW k \in whole
      PROVE  k <= e
  <2>1. k \in 1..N /\ c[k].end
    BY <1>4
  <2>2. k \notin (e + 1)..N
    BY <1>2, <2>1
  <2> QED
    BY <2>1, <2>2
<1>6. CASE e = 0
  BY <1>2, <1>3, <1>4, <1>5, <1>6 DEF Reference
<1>7. CASE e # 0
  <2>1. e \in whole
    BY <1>1, <1>2, <1>3, <1>7 DEF Lines
  <2>2. (CHOOSE k \in whole : \A j \in whole : j <= k) = e
    <3>1. PICK m : m = CHOOSE k \in whole : \A j \in whole : j <= k
      OBVIOUS
    <3>2. m \in whole /\ \A j \in whole : j <= m
      BY <1>5, <2>1, <3>1
    <3>3. m <= e /\ e <= m /\ m \in 1..N
      BY <1>4, <1>5, <2>1, <3>2
    <3> QED
      BY <3>1, <3>3
  <2> QED
    BY <1>2, <1>3, <1>7, <2>1, <2>2 DEF Reference
<1> QED
  BY <1>6, <1>7

(* Whatever pieces the file grows by, whenever it is replaced or truncated *)
(* and whenever the daemon ends, a quiet client has the title of the last complete line *)
(* of session_index.jsonl in its index, in the rows of the session's tasks *)
(* and in their last batches, but for the changes that were missed before  *)
(* the watch, a file that was rewritten to no less than had been read of   *)
(* it, and the tasks that the lane or a crash raced with             *)
(* (ConversationTitleIndex, sync_conversation_title).                      *)
THEOREM TitlesAlwaysFollow == Spec => []TitlesFollowFile
<1>1. TitleInv => TitlesFollowFile
  <2> SUFFICES ASSUME TitleInv, Quiet, ~missed, ~Regrown, file.inode # 0
               PROVE  /\ idx.title = Reference(file.content)
                      /\ idx.title # NoTitle =>
                           \A t \in Tasks \ raced :
                             rows[t].exists => rows[t].title = idx.title /\ uploaded[t].title = idx.title
    BY DEF TitlesFollowFile
  <2>1. Current /\ HasRead(idx, file.content) /\ Lines(file.content) /\ file.content \in Seq(Piece)
    <3>1. Current /\ Lines(file.content) /\ file.content \in Seq(Piece)
      BY DEF TitleInv, FileInv, Quiet, TitleTypes, Current
    <3>2. ~rewritten
      <4>1. Len(file.content) \in Nat /\ idx.offset = Len(file.content)
        BY <3>1 DEF Current
      <4> QED
        BY <4>1 DEF Regrown
    <3> QED
      BY <3>1, <3>2 DEF TitleInv, FileInv, Current
  <2>2. idx.title = Reference(file.content)
    BY <2>1, ReferenceIs DEF Current
  <2>3. ASSUME idx.title # NoTitle, NEW t \in Tasks \ raced, rows[t].exists
        PROVE  rows[t].title = idx.title /\ uploaded[t].title = idx.title
    BY <2>3 DEF TitleInv, RowInv, Quiet, Settled
  <2> QED
    BY <2>2, <2>3
<1> QED
  BY <1>1, TitleInvAlways, PTL

-----------------------------------------------------------------------------
(* The inductive invariant of the notices. *)

(* The records of the daemon and its counts. *)
BooksTyped ==
  /\ pass = [pc |-> pass.pc, tasks |-> pass.tasks]
  /\ memory = [initialized |-> memory.initialized, seen |-> memory.seen]
  /\ saved = [initialized |-> saved.initialized, seen |-> saved.seen]
  /\ sent \in [Notices -> Int]
  /\ cut \in [Notices -> Int]

(* The file is the memory while the daemon runs; a notice that was just    *)
(* sent is not in it yet; what was recorded in silence is.                 *)
BooksInv ==
  /\ pass.pc # "down" => saved = memory
  /\ pass.pc = "sent" => ThisNotice \notin saved.seen
  /\ silent \subseteq saved.seen

NoticeInv == BooksTyped /\ BooksInv /\ SentAccounted

-----------------------------------------------------------------------------
(* A count that goes up by one stays a count, whatever notice it is for. *)
LEMMA CountUp ==
  ASSUME NEW f \in [Notices -> Int], NEW n
  PROVE  [f EXCEPT ![n] = @ + 1] \in [Notices -> Int]
<1>1. CASE n \in Notices
  <2>1. f[n] + 1 \in Int
    BY <1>1
  <2> QED
    BY <2>1
<1>2. CASE n \notin Notices
  BY <1>2
<1> QED
  BY <1>1, <1>2

(* Every error and every end of the process leaves the books balanced:     *)
(* what was on its way is counted as cut.                                  *)
LEMMA FailKeepsBooks ==
  ASSUME NoticeInv, Fail
  PROVE  NoticeInv'
<1> USE DEF NoticeInv
<1>0. /\ pass.pc # "down"
      /\ pass' = Down
      /\ memory' = memory /\ saved' = saved /\ silent' = silent
  BY DEF Fail
<1>1. pass'.pc = "down"
  BY <1>0 DEF Down
<1>2. CASE /\ AtTask /\ ~Skips /\ Delivers
           /\ sent' = [sent EXCEPT ![ThisNotice] = @ + 1]
           /\ cut' = [cut EXCEPT ![ThisNotice] = @ + 1]
  <2>1. BooksTyped'
    <3>1. sent' \in [Notices -> Int] /\ cut' \in [Notices -> Int]
      BY <1>2, CountUp DEF BooksTyped
    <3> QED
      BY <1>0, <3>1 DEF BooksTyped, Down
  <2>2. BooksInv'
    BY <1>0, <1>1 DEF BooksInv
  <2>3. \A n \in Notices : sent'[n] - cut'[n] = sent[n] - cut[n]
    BY <1>2 DEF BooksTyped
  <2>4. pass.pc # "sent"
    BY <1>2 DEF AtTask
  <2>5. SentAccounted'
    BY <1>0, <1>1, <2>3, <2>4 DEF SentAccounted
  <2> QED
    BY <2>1, <2>2, <2>5
<1>3. CASE /\ pass.pc = "sent"
           /\ cut' = [cut EXCEPT ![ThisNotice] = @ + 1]
           /\ UNCHANGED sent
  <2>1. BooksTyped'
    <3>1. sent' \in [Notices -> Int] /\ cut' \in [Notices -> Int]
      BY <1>3, CountUp DEF BooksTyped
    <3> QED
      BY <1>0, <3>1 DEF BooksTyped, Down
  <2>2. BooksInv'
    BY <1>0, <1>1 DEF BooksInv
  <2>3. SentAccounted'
    <3>1. SUFFICES ASSUME NEW n \in Notices
                   PROVE  sent'[n] - cut'[n] = IF n \in saved'.seen \ silent' THEN 1 ELSE 0
      BY <1>1 DEF SentAccounted
    <3>2. CASE ThisNotice = n
      <4>1. sent[n] - cut[n] = 1
        BY <1>3, <3>2 DEF SentAccounted
      <4>2. cut'[n] = cut[n] + 1 /\ sent'[n] = sent[n]
        BY <1>3, <3>2 DEF BooksTyped
      <4>3. n \notin saved'.seen
        BY <1>0, <1>3, <3>2 DEF BooksInv
      <4> QED
        BY <4>1, <4>2, <4>3 DEF BooksTyped
    <3>3. CASE ThisNotice # n
      BY <1>0, <1>3, <3>3 DEF BooksTyped, SentAccounted
    <3> QED
      BY <3>2, <3>3
  <2> QED
    BY <2>1, <2>2, <2>3
<1>4. CASE pass.pc # "sent" /\ UNCHANGED <<sent, cut>>
  BY <1>0, <1>1, <1>4 DEF BooksTyped, BooksInv, SentAccounted, Down
<1> QED
  BY <1>2, <1>3, <1>4 DEF Fail

(* A notice is sent, and then recorded, or recorded in silence. *)
LEMMA NoticeKeepsBooks ==
  ASSUME NoticeInv, NoticeNext
  PROVE  NoticeInv'
<1> USE DEF NoticeInv
<1>1. CASE Start
  BY <1>1 DEF Start, BooksTyped, BooksInv, SentAccounted, Idle
<1>2. CASE Fetch
  BY <1>2 DEF Fetch, BooksTyped, BooksInv, SentAccounted
<1>3. CASE SkipTask
  BY <1>3 DEF SkipTask, AtTask, NextTask, BooksTyped, BooksInv, SentAccounted
<1>4. CASE SendNotice
  <2>1. /\ pass.pc = "pass" /\ pass' = [pc |-> "sent", tasks |-> pass.tasks]
        /\ ThisNotice \notin memory.seen
        /\ sent' = [sent EXCEPT ![ThisNotice] = @ + 1]
        /\ memory' = memory /\ saved' = saved /\ cut' = cut /\ silent' = silent
    BY <1>4 DEF SendNotice, AtTask, Skips, BooksTyped
  <2>2. ThisNotice' = ThisNotice /\ pass'.pc = "sent"
    BY <2>1 DEF ThisNotice, This
  <2>3. BooksTyped'
    <3>1. sent' \in [Notices -> Int] /\ cut' \in [Notices -> Int]
      BY <2>1, CountUp DEF BooksTyped
    <3> QED
      BY <2>1, <3>1 DEF BooksTyped
  <2>4. BooksInv'
    BY <2>1, <2>2 DEF BooksInv
  <2>5. SentAccounted'
    <3>1. SUFFICES ASSUME NEW n \in Notices
                   PROVE  sent'[n] - cut'[n] =
                            IF n \in saved'.seen \ silent' \/ ThisNotice = n THEN 1 ELSE 0
      BY <2>2 DEF SentAccounted
    <3>2. sent[n] - cut[n] = IF n \in saved.seen \ silent THEN 1 ELSE 0
      BY <2>1 DEF SentAccounted
    <3>3. ThisNotice \notin saved.seen
      BY <2>1 DEF BooksInv
    <3>4. CASE ThisNotice = n
      BY <2>1, <3>2, <3>3, <3>4 DEF BooksTyped
    <3>5. CASE ThisNotice # n
      BY <2>1, <3>2, <3>5 DEF BooksTyped
    <3> QED
      BY <3>4, <3>5
  <2> QED
    BY <2>3, <2>4, <2>5
<1>5. CASE RecordSent
  <2>1. /\ pass.pc = "sent" /\ pass'.pc = "pass"
        /\ pass' = [pc |-> "pass", tasks |-> pass'.tasks]
        /\ saved = memory
        /\ memory' = [initialized |-> saved.initialized, seen |-> saved.seen \union {ThisNotice}]
        /\ saved' = memory'
        /\ sent' = sent /\ cut' = cut /\ silent' = silent
    BY <1>5 DEF RecordSent, Record, MarkSeen, NextTask, BooksTyped, BooksInv
  <2>2. BooksTyped'
    BY <2>1 DEF BooksTyped
  <2>3. BooksInv'
    BY <2>1 DEF BooksInv
  <2>4. SentAccounted'
    BY <2>1 DEF SentAccounted, BooksInv
  <2> QED
    BY <2>2, <2>3, <2>4
<1>6. CASE RecordSilently
  <2>1. /\ pass.pc = "pass" /\ pass'.pc = "pass"
        /\ pass' = [pc |-> "pass", tasks |-> pass'.tasks]
        /\ saved = memory
        /\ ThisNotice \notin saved.seen
        /\ memory' = [initialized |-> saved.initialized, seen |-> saved.seen \union {ThisNotice}]
        /\ saved' = memory'
        /\ sent' = sent /\ cut' = cut /\ silent' = silent \union {ThisNotice}
    BY <1>6 DEF RecordSilently, AtTask, Skips, Record, MarkSeen, NextTask, BooksTyped, BooksInv
  <2>2. BooksTyped'
    BY <2>1 DEF BooksTyped
  <2>3. BooksInv'
    BY <2>1 DEF BooksInv
  <2>4. SentAccounted'
    BY <2>1 DEF SentAccounted
  <2> QED
    BY <2>2, <2>3, <2>4
<1>7. CASE EndPass
  <2>1. /\ pass.pc = "pass" /\ pass' = Idle
        /\ sent' = sent /\ cut' = cut /\ silent' = silent
        /\ saved = memory
    BY <1>7 DEF EndPass, BooksInv
  <2>2. /\ saved' = memory'
        /\ saved' = [initialized |-> saved'.initialized, seen |-> saved.seen]
    <3>1. CASE memory.initialized
      BY <1>7, <2>1, <3>1 DEF EndPass, BooksTyped
    <3>2. CASE ~memory.initialized
      <4>1. saved' = [saved EXCEPT !.initialized = TRUE] /\ memory' = saved'
        BY <1>7, <2>1, <3>2 DEF EndPass, Record
      <4>2. saved = [initialized |-> saved.initialized, seen |-> saved.seen]
        BY DEF BooksTyped
      <4>3. saved' = [initialized |-> TRUE, seen |-> saved.seen]
        BY <4>1, <4>2
      <4> QED
        BY <4>1, <4>3
    <3> QED
      BY <3>1, <3>2
  <2> QED
    BY <2>1, <2>2 DEF BooksTyped, BooksInv, SentAccounted, Idle
<1> QED
  BY <1>1, <1>2, <1>3, <1>4, <1>5, <1>6, <1>7 DEF NoticeNext

-----------------------------------------------------------------------------
LEMMA NoticeInvAlways == Spec => []NoticeInv
<1>1. Init => NoticeInv
  BY DEF Init, NoticeInv, BooksTyped, BooksInv, SentAccounted, Down
<1>2. NoticeInv /\ [Next]_vars => NoticeInv'
  <2> SUFFICES ASSUME NoticeInv, [Next]_vars
               PROVE  NoticeInv'
    OBVIOUS
  <2>1. CASE UNCHANGED noticeVars
    BY <2>1 DEF noticeVars, NoticeInv, BooksTyped, BooksInv, SentAccounted, ThisNotice, This
  <2>2. CASE NoticeNext
    BY <2>2, NoticeKeepsBooks
  <2>3. CASE Fail
    BY <2>3, FailKeepsBooks
  <2> QED
    BY <2>1, <2>2, <2>3 DEF Next, vars
<1> QED
  BY <1>1, <1>2, PTL DEF Spec

(* Every notice is sent exactly once and recorded then, plus once for each *)
(* time that the daemon ended between its arrival and the save of its      *)
(* state file, whatever the task list shows, however passes are cut and    *)
(* for every number of tasks, window and bound (process_tasks and the loop *)
(* of run_daemon).                                                         *)
THEOREM NoticesBalance == Spec => []SentAccounted
<1>1. NoticeInv => SentAccounted
  BY DEF NoticeInv
<1> QED
  BY <1>1, NoticeInvAlways, PTL

-----------------------------------------------------------------------------
(* What the daemon holds: tasks of the list, and what it has recorded; and *)
(* each notice was cut by a failure of its own.                            *)
Listed == [task : Tasks, row : Row]

DaemonTypes ==
  /\ pass \in [pc : {"down", "idle", "pass", "sent"}, tasks : Seq(Listed)]
  /\ pass.pc = "sent" => pass.tasks # <<>> /\ ThisNotice \in Notices
  /\ memory \in NotificationState /\ saved \in NotificationState
  /\ failures \in 0..bound.failures
  /\ cut \in [Notices -> 0..failures]

(* The list is fetched as records of tasks, the oldest first. *)
LEMMA FetchedListed ==
  ASSUME TitleInv
  PROVE  Reverse([i \in DOMAIN TaskList |-> [task |-> TaskList[i], row |-> uploaded[TaskList[i]]]]) \in Seq(Listed)
<1>1. recent \in Seq(Tasks) /\ uploaded \in [Tasks -> Row]
  BY DEF TitleInv, TitleTypes
<1>2. PICK tasks : tasks = TaskList
  OBVIOUS
<1>3. tasks \in Seq(Tasks)
  <2>1. PICK m \in Nat : m <= Len(recent) /\ tasks = SubSeq(recent, 1, m)
    BY <1>1, <1>2, NotifierAssumption DEF TaskList
  <2> QED
    BY <1>1, <2>1, SubSeqProperties
<1>4. PICK s : s = [i \in DOMAIN tasks |-> [task |-> tasks[i], row |-> uploaded[tasks[i]]]]
  OBVIOUS
<1>5. PICK N \in Nat : N = Len(tasks) /\ DOMAIN tasks = 1..N
  BY <1>3
<1>6. \A i \in 1..N : s[i] \in Listed
  BY <1>1, <1>3, <1>4, <1>5 DEF Listed
<1>7. s \in Seq(Listed) /\ Len(s) = N
  BY <1>4, <1>5, <1>6
<1>8. Reverse(s) \in Seq(Listed)
  <2>1. \A i \in 1..N : s[(N - i) + 1] \in Listed
    BY <1>6
  <2> QED
    BY <1>7, <2>1 DEF Reverse
<1> QED
  BY <1>2, <1>4, <1>8

(* What is about to be sent or recorded is a notice. *)
LEMMA TaskHasNotice ==
  ASSUME DaemonTypes, AtTask, ~Skips
  PROVE  ThisNotice \in Notices
<1>1. pass.tasks \in Seq(Listed) /\ pass.tasks # <<>>
  BY DEF DaemonTypes, AtTask
<1>2. This \in Listed
  BY <1>1 DEF This
<1>3. NoticeKind(This.row) \in Kinds
  BY DEF Skips, NoticeKind, Kinds, NoKind
<1> QED
  BY <1>2, <1>3 DEF ThisNotice, Notices, Listed

LEMMA TailListed ==
  ASSUME DaemonTypes, pass.tasks # <<>>
  PROVE  NextTask \in [pc : {"down", "idle", "pass", "sent"}, tasks : Seq(Listed)] /\ NextTask.pc = "pass"
<1>1. pass.tasks \in Seq(Listed)
  BY DEF DaemonTypes
<1>2. Tail(pass.tasks) \in Seq(Listed)
  BY <1>1, HeadTailProperties
<1> QED
  BY <1>2 DEF NextTask

LEMMA DaemonStepTypes ==
  ASSUME TitleInv, DaemonTypes, NoticeNext
  PROVE  DaemonTypes'
<1>0. bound' = bound /\ failures' = failures /\ cut' = cut
  BY DEF NoticeNext, Start, Fetch, SkipTask, SendNotice, RecordSent, RecordSilently, EndPass, titleVars
<1>1. CASE Start
  BY <1>0, <1>1 DEF Start, DaemonTypes, Idle
<1>2. CASE Fetch
  <2>1. pass'.tasks \in Seq(Listed) /\ pass' = [pc |-> "pass", tasks |-> pass'.tasks]
    BY <1>2, FetchedListed DEF Fetch
  <2> QED
    BY <1>0, <1>2, <2>1 DEF Fetch, DaemonTypes
<1>3. CASE SkipTask
  <2>1. pass' = NextTask /\ pass.tasks # <<>> /\ memory' = memory /\ saved' = saved
    BY <1>3 DEF SkipTask, AtTask
  <2> QED
    BY <1>0, <2>1, TailListed DEF DaemonTypes
<1>4. CASE SendNotice
  <2>1. /\ pass' = [pass EXCEPT !.pc = "sent"] /\ pass.tasks # <<>>
        /\ memory' = memory /\ saved' = saved /\ ThisNotice \in Notices
    BY <1>4, TaskHasNotice DEF SendNotice, AtTask
  <2>2. pass'.tasks = pass.tasks /\ pass' \in [pc : {"down", "idle", "pass", "sent"}, tasks : Seq(Listed)]
    BY <2>1 DEF DaemonTypes
  <2>3. ThisNotice' = ThisNotice
    BY <2>2 DEF ThisNotice, This
  <2> QED
    BY <1>0, <2>1, <2>2, <2>3 DEF DaemonTypes
<1>5. ASSUME ThisNotice \in Notices
      PROVE  MarkSeen \in NotificationState
  BY <1>5 DEF MarkSeen, DaemonTypes, NotificationState
<1>6. CASE RecordSent
  <2>1. /\ pass' = NextTask /\ pass.tasks # <<>> /\ ThisNotice \in Notices
        /\ memory' = MarkSeen /\ saved' = MarkSeen
    BY <1>6 DEF RecordSent, Record, DaemonTypes
  <2> QED
    BY <1>0, <1>5, <2>1, TailListed DEF DaemonTypes
<1>7. CASE RecordSilently
  <2>1. /\ pass' = NextTask /\ pass.tasks # <<>> /\ ThisNotice \in Notices
        /\ memory' = MarkSeen /\ saved' = MarkSeen
    BY <1>7, TaskHasNotice DEF RecordSilently, Record, AtTask
  <2> QED
    BY <1>0, <1>5, <2>1, TailListed DEF DaemonTypes
<1>8. CASE EndPass
  <2>1. pass' = Idle
    BY <1>8 DEF EndPass
  <2>2. memory' \in NotificationState /\ saved' \in NotificationState
    BY <1>8 DEF EndPass, Record, DaemonTypes, NotificationState
  <2> QED
    BY <1>0, <2>1, <2>2 DEF DaemonTypes, Idle
<1> QED
  BY <1>1, <1>2, <1>3, <1>4, <1>6, <1>7, <1>8 DEF NoticeNext

LEMMA FailTypes ==
  ASSUME TitleInv, DaemonTypes, Fail
  PROVE  DaemonTypes'
<1>1. /\ bound' = bound /\ pass' = Down /\ memory' = memory /\ saved' = saved
      /\ failures < bound.failures /\ failures' = failures + 1
  BY DEF Fail, titleVars
<1>2. bound.failures \in Nat
  BY TitleAssumption DEF TitleInv, TitleTypes
<1>3. failures \in Nat /\ cut \in [Notices -> 0..failures]
  BY <1>2 DEF DaemonTypes
<1>4. cut' = cut \/ \E n : cut' = [cut EXCEPT ![n] = @ + 1]
  BY DEF Fail
<1>5. cut' \in [Notices -> 0..(failures + 1)]
  BY <1>3, <1>4
<1> QED
  BY <1>1, <1>2, <1>3, <1>5 DEF DaemonTypes, Down

LEMMA TitleStepKeepsBound == TitleNext => bound' = bound
  BY DEF TitleNext, AppendPiece, Replace, Rewrite, RefreshStat, RefreshRead, StartupSync, AddWatch, ReadEvent,
       SyncSelect, SyncUpdate, SyncPersist, LaneLooks, LanePersists, ClientRestart

(* The index, the rows, the batches and the list keep their types; the     *)
(* state file is what the running daemon has in memory; and no notice is   *)
(* sent more often than the process ended, plus once (conversation_title,  *)
(* process_tasks).                                                         *)
THEOREM NoticesTyped == Spec => []TypeOK
<1>1. Init => DaemonTypes
  <2> SUFFICES ASSUME Init
               PROVE  DaemonTypes
    OBVIOUS
  <2>1. bound.failures \in Nat
    BY TitleAssumption DEF Init, TitleInit
  <2> QED
    BY <2>1 DEF Init, DaemonTypes, Down, NotificationState
<1>2. TitleInv /\ DaemonTypes /\ [Next]_vars => DaemonTypes'
  <2> SUFFICES ASSUME TitleInv, DaemonTypes, [Next]_vars
               PROVE  DaemonTypes'
    OBVIOUS
  <2>1. CASE UNCHANGED noticeVars /\ bound' = bound
    BY <2>1 DEF noticeVars, DaemonTypes, ThisNotice, This
  <2>2. CASE NoticeNext
    BY <2>2, DaemonStepTypes
  <2>3. CASE Fail
    BY <2>3, FailTypes
  <2> QED
    BY <2>1, <2>2, <2>3, TitleStepKeepsBound DEF Next, vars, titleVars
<1>3. TitleInv /\ NoticeInv /\ DaemonTypes => TypeOK
  <2> SUFFICES ASSUME TitleInv, NoticeInv, DaemonTypes
               PROVE  TypeOK
    OBVIOUS
  <2>1. TitleTypeOK
    <3>1. Range(queue) \subseteq Titles
      BY DEF TitleInv, TitleTypes, Range
    <3>2. /\ file.inode \in 0..inodes /\ file.content \in Seq(Piece)
          /\ idx.title \in Titles \union {NoTitle} /\ idx.inode \in 0..inodes
          /\ idx.partial \in Seq(Piece) /\ Ends(idx.partial) = {}
      BY DEF TitleInv, TitleTypes, Title
    <3> QED
      BY <3>1, <3>2 DEF TitleTypeOK, TitleInv, TitleTypes, Title, Row, WatcherPcs
  <2>2. bound.failures \in Nat
    BY TitleAssumption DEF TitleInv, TitleTypes
  <2>3. cut \in [Notices -> 0..(bound.failures + 1)]
    BY <2>2 DEF DaemonTypes
  <2>4. \A n \in Notices : sent[n] \in 0..(bound.failures + 1)
    <3>1. SUFFICES ASSUME NEW n \in Notices
                   PROVE  sent[n] \in 0..(bound.failures + 1)
      OBVIOUS
    <3>2. sent[n] \in Int /\ cut[n] \in 0..failures /\ failures \in 0..bound.failures
      BY DEF NoticeInv, BooksTyped, DaemonTypes
    <3>3. sent[n] - cut[n] \in {0, 1}
      BY DEF NoticeInv, SentAccounted
    <3> QED
      BY <2>2, <3>2, <3>3
  <2>5. sent \in [Notices -> 0..(bound.failures + 1)]
    BY <2>4 DEF NoticeInv, BooksTyped
  <2> QED
    BY <2>1, <2>3, <2>5 DEF TypeOK, DaemonTypes, NoticeInv, BooksInv
<1> QED
  BY <1>1, <1>2, <1>3, TitleInvAlways, NoticeInvAlways, PTL DEF Spec
=============================================================================
