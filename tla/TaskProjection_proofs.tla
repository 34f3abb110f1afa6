------------------------ MODULE TaskProjection_proofs ------------------------
(***************************************************************************)
(* What the capture lane commits, for any number of tasks, connections,    *)
(* processes, instances and exchanges, in whatever order segments, gaps    *)
(* and exits reach it: numbering, attempts, responses, the phases that     *)
(* follow one another and the tasks that an exit settles.                  *)
(***************************************************************************)
EXTENDS TaskProjection, FiniteSetTheorems, WellFoundedInduction, TLAPS

Own(t) == {a \in attempts : a.task = t}

(* The transitions of a task, and the phase its row ends with. *)
Numbered ==
  \A t \in Tasks :
    /\ rows[t].sequence = Len(events[t])
    /\ Seen(t) => events[t][Len(events[t])].phase = rows[t].phase

Counted ==
  \A t \in Tasks :
    /\ IsFiniteSet(Own(t))
    /\ Cardinality(Own(t)) = rows[t].count
    /\ \A a \in Own(t) : a.ordinal <= rows[t].count
    /\ \A n \in 1..rows[t].count : \E a \in Own(t) : a.ordinal = n

StoreInv ==
  /\ TypeOK
  /\ Numbered
  /\ Counted
  /\ ResponseOnce
  /\ PhasesFollow

(* What the lane's memory knows of a task captured on a connection of the  *)
(* present instance of its process.                                        *)
Attribution ==
  \A t \in Tasks : captured[t] = "present" =>
    LET p == TaskProc[t] IN index[p] # 0 /\ t \in procTasks[<<p, index[p]>>]

LaneInv == Attribution /\ ExitSettles

-----------------------------------------------------------------------------
(* A set of naturals with an upper bound has a greatest element. *)
LEMMA GreatestIndex ==
  ASSUME NEW n \in Nat, NEW S, S \subseteq 1..n, S # {}
  PROVE  \E i \in S : \A j \in S : j <= i
<1> DEFINE R == OpToRel(<, Nat)
           D == {n - i : i \in S}
<1>1. IsWellFoundedOn(R, Nat)
  BY NatLessThanWellFounded
<1>2. D \subseteq Nat /\ D # {}
  <2>1. \A i \in S : n - i \in Nat
    OBVIOUS
  <2>2. PICK i \in S : TRUE
    OBVIOUS
  <2>3. n - i \in D
    OBVIOUS
  <2> QED BY <2>1, <2>3
<1>3. \A m, k \in Nat : m < k => <<m, k>> \in R
  BY DEF OpToRel
<1> HIDE DEF R, D
<1>4. PICK d \in D : \A m \in D : ~(<<m, d>> \in R)
  BY <1>1, <1>2, WFMin
<1>5. ASSUME NEW m \in D
      PROVE  d <= m
  <2>1. m \in Nat /\ d \in Nat /\ ~(<<m, d>> \in R)
    BY <1>2, <1>4
  <2>2. ~(m < d)
    BY <1>3, <2>1
  <2> QED BY <2>1, <2>2
<1>6. PICK i \in S : d = n - i
  BY DEF D
<1>7. \A j \in S : n - j \in D
  BY DEF D
<1>8. \A j \in S : n - i <= n - j
  BY <1>5, <1>6, <1>7
<1>9. \A j \in S : j <= i
  BY <1>8
<1> QED BY <1>9

(* persist_ingress writes the row and the event of each task it touches,   *)
(* and counts the attempts of exchanges.                                   *)
Step(cause) == IF cause = "exchange" THEN 1 ELSE 0
Causes == {"exchange", "gap", "exit"}

Writes(T, phase, cause) ==
  /\ rows' \in [Tasks -> Row]
  /\ \A t \in Tasks : events'[t] \in Seq(Transition)
  /\ \A t \in T : /\ rows'[t].sequence = rows[t].sequence + 1
                  /\ rows'[t].phase = phase[t]
                  /\ rows'[t].count = rows[t].count + Step(cause)
                  /\ events'[t] = Append(events[t], [phase |-> phase[t], cause |-> cause])
  /\ \A t \in Tasks \ T : rows'[t] = rows[t] /\ events'[t] = events[t]

LEMMA CommitWrites ==
  ASSUME TypeOK, NEW T \in SUBSET Tasks, NEW phase \in [T -> Phases], NEW cause \in Causes,
         CommitTransitions(T, phase, cause)
  PROVE  Writes(T, phase, cause)
<1>1. rows \in [Tasks -> Row] /\ \A t \in Tasks : events[t] \in Seq(Transition)
  BY DEF TypeOK
<1>2. \A t \in Tasks \ T : rows'[t] = rows[t] /\ events'[t] = events[t]
  BY DEF CommitTransitions
<1>3. \A t \in T :
        /\ rows'[t] = [sequence |-> rows[t].sequence + 1,
                       count |-> IF cause = "exchange" THEN rows[t].count + 1 ELSE rows[t].count,
                       phase |-> phase[t]]
        /\ events'[t] = Append(events[t], [phase |-> phase[t], cause |-> cause])
  BY DEF CommitTransitions
<1>4. ASSUME NEW t \in T
      PROVE  /\ rows'[t] \in Row
             /\ rows'[t].sequence = rows[t].sequence + 1
             /\ rows'[t].phase = phase[t]
             /\ rows'[t].count = rows[t].count + Step(cause)
  <2>1. rows[t].sequence \in Nat /\ rows[t].count \in Nat
    BY <1>1 DEF Row
  <2> DEFINE c == IF cause = "exchange" THEN rows[t].count + 1 ELSE rows[t].count
  <2>2. c \in Nat /\ c = rows[t].count + Step(cause) /\ phase[t] \in Phases
    BY <2>1 DEF Step
  <2>3. rows'[t] = [sequence |-> rows[t].sequence + 1, count |-> c, phase |-> phase[t]]
    BY <1>3
  <2> HIDE DEF c
  <2> QED BY <2>1, <2>2, <2>3 DEF Row
<1>5. \A t \in Tasks : rows'[t] \in Row
  BY <1>1, <1>2, <1>4
<1>6. rows' \in [Tasks -> Row]
  BY <1>5 DEF CommitTransitions
<1>7. \A t \in Tasks : events'[t] \in Seq(Transition)
  <2>1. ASSUME NEW t \in T
        PROVE  events'[t] \in Seq(Transition)
    <3>1. events[t] \in Seq(Transition)
          /\ [phase |-> phase[t], cause |-> cause] \in Transition
      BY <1>1 DEF Transition, Causes
    <3>2. events'[t] = Append(events[t], [phase |-> phase[t], cause |-> cause])
      BY <1>3
    <3> QED BY <3>1, <3>2
  <2> QED BY <1>1, <1>2, <2>1
<1> QED BY <1>2, <1>3, <1>4, <1>6, <1>7 DEF Writes

LEMMA WritesNumbered ==
  ASSUME TypeOK, Numbered, NEW T \in SUBSET Tasks, NEW phase \in [T -> Phases],
         NEW cause \in Causes, Writes(T, phase, cause)
  PROVE  Numbered'
<1> SUFFICES ASSUME NEW t \in Tasks
             PROVE  /\ rows'[t].sequence = Len(events'[t])
                    /\ rows'[t].sequence > 0 => events'[t][Len(events'[t])].phase = rows'[t].phase
  BY DEF Numbered, Seen
<1>1. events[t] \in Seq(Transition) /\ rows[t].sequence = Len(events[t])
  BY DEF TypeOK, Numbered
<1>2. CASE t \in T
  <2> DEFINE e == [phase |-> phase[t], cause |-> cause]
  <2>1. /\ rows'[t].sequence = rows[t].sequence + 1 /\ rows'[t].phase = phase[t]
        /\ events'[t] = Append(events[t], e)
    BY <1>2 DEF Writes
  <2>2. e \in Transition /\ e.phase = phase[t]
    BY <1>2 DEF Transition, Causes
  <2> HIDE DEF e
  <2>3. Len(events'[t]) = Len(events[t]) + 1 /\ events'[t][Len(events[t]) + 1] = e
    BY <1>1, <2>1, <2>2
  <2> QED BY <1>1, <2>1, <2>2, <2>3
<1>3. CASE t \notin T
  <2>1. rows'[t] = rows[t] /\ events'[t] = events[t]
    BY <1>3 DEF Writes
  <2> QED BY <2>1 DEF Numbered, Seen
<1> QED BY <1>2, <1>3

(* Gaps and exits touch open tasks only; a gap repeats the phase. *)
Follows(T, phase, cause) ==
  \A t \in T :
    /\ cause # "exchange" => Open(t)
    /\ cause = "gap" => phase[t] = rows[t].phase
    /\ cause = "exit" => phase[t] = "terminal"

LEMMA WritesFollow ==
  ASSUME TypeOK, Numbered, PhasesFollow, NEW T \in SUBSET Tasks, NEW phase \in [T -> Phases],
         NEW cause \in Causes, Writes(T, phase, cause), Follows(T, phase, cause)
  PROVE  PhasesFollow'
<1> SUFFICES ASSUME NEW t \in Tasks
             PROVE  /\ rows'[t].sequence = Len(events'[t])
                    /\ \A i \in 2..Len(events'[t]) :
                         /\ events'[t][i - 1].phase = "terminal" => events'[t][i].cause = "exchange"
                         /\ events'[t][i].cause = "gap" => events'[t][i].phase = events'[t][i - 1].phase
                         /\ events'[t][i].cause = "exit" => events'[t][i].phase = "terminal"
  BY DEF PhasesFollow
<1>0. rows'[t].sequence = Len(events'[t])
  BY WritesNumbered DEF Numbered
<1>1. /\ events[t] \in Seq(Transition)
      /\ rows[t].sequence = Len(events[t])
      /\ Seen(t) => events[t][Len(events[t])].phase = rows[t].phase
      /\ \A i \in 2..Len(events[t]) :
           /\ events[t][i - 1].phase = "terminal" => events[t][i].cause = "exchange"
           /\ events[t][i].cause = "gap" => events[t][i].phase = events[t][i - 1].phase
           /\ events[t][i].cause = "exit" => events[t][i].phase = "terminal"
  BY DEF TypeOK, Numbered, PhasesFollow
<1>2. CASE t \notin T
  <2>1. events'[t] = events[t]
    BY <1>2 DEF Writes
  <2> QED BY <1>0, <1>1, <2>1
<1>3. CASE t \in T
  <2> DEFINE e == [phase |-> phase[t], cause |-> cause]
             n == Len(events[t])
  <2>1. events'[t] = Append(events[t], e) /\ n \in Nat
    BY <1>1, <1>3 DEF Writes
  <2>2. e \in Transition /\ e.phase = phase[t] /\ e.cause = cause
    BY <1>3 DEF Transition, Causes
  <2> HIDE DEF e
  <2>3. /\ Len(events'[t]) = n + 1 /\ events'[t][n + 1] = e
        /\ \A i \in 1..n : events'[t][i] = events[t][i]
    BY <1>1, <2>1, <2>2
  <2>4. ASSUME NEW i \in 2..n
        PROVE  /\ events'[t][i - 1].phase = "terminal" => events'[t][i].cause = "exchange"
               /\ events'[t][i].cause = "gap" => events'[t][i].phase = events'[t][i - 1].phase
               /\ events'[t][i].cause = "exit" => events'[t][i].phase = "terminal"
    <3>1. i \in 1..n /\ i - 1 \in 1..n
      BY <2>1
    <3> QED BY <1>1, <2>3, <2>4, <3>1
  <2>5. ASSUME n >= 1
        PROVE  /\ events'[t][n].phase = "terminal" => events'[t][n + 1].cause = "exchange"
               /\ events'[t][n + 1].cause = "gap" => events'[t][n + 1].phase = events'[t][n].phase
               /\ events'[t][n + 1].cause = "exit" => events'[t][n + 1].phase = "terminal"
    <3>1. Seen(t) /\ n \in 1..n
      BY <1>1, <2>1, <2>5 DEF Seen
    <3>2. events'[t][n].phase = rows[t].phase
      BY <1>1, <2>3, <3>1
    <3>3. /\ cause # "exchange" => rows[t].phase # "terminal"
          /\ cause = "gap" => phase[t] = rows[t].phase
          /\ cause = "exit" => phase[t] = "terminal"
      BY <1>3 DEF Follows, Open
    <3> QED BY <2>2, <2>3, <3>2, <3>3
  <2>6. ASSUME NEW i \in 2..Len(events'[t])
        PROVE  /\ events'[t][i - 1].phase = "terminal" => events'[t][i].cause = "exchange"
               /\ events'[t][i].cause = "gap" => events'[t][i].phase = events'[t][i - 1].phase
               /\ events'[t][i].cause = "exit" => events'[t][i].phase = "terminal"
    <3>1. CASE i \in 2..n
      BY <2>4, <3>1
    <3>2. CASE i \notin 2..n
      <4>1. i = n + 1 /\ i - 1 = n /\ n >= 1
        BY <2>1, <2>3, <2>6, <3>2
      <4> QED BY <2>5, <4>1
    <3> QED BY <3>1, <3>2
  <2> QED BY <1>0, <2>6
<1> QED BY <1>2, <1>3

(* Whether a task is open after a transition. *)
LEMMA WritesOpen ==
  ASSUME TypeOK, NEW T \in SUBSET Tasks, NEW phase \in [T -> Phases],
         NEW cause \in Causes, Writes(T, phase, cause)
  PROVE  /\ \A t \in T : Open(t)' <=> phase[t] # "terminal"
         /\ \A t \in Tasks \ T : Open(t)' <=> Open(t)
<1>1. \A t \in Tasks : rows[t].sequence \in Nat
  BY DEF TypeOK, Row
<1>2. \A t \in T : rows'[t].sequence = rows[t].sequence + 1 /\ rows'[t].phase = phase[t]
  BY DEF Writes
<1>3. \A t \in Tasks \ T : rows'[t] = rows[t]
  BY DEF Writes
<1> QED BY <1>1, <1>2, <1>3 DEF Seen, Open

(* What a segment that completes exchanges does: it ends the daemon, or    *)
(* commits one transition and one attempt for each of some tasks.          *)
Committed(f, d, n, T, phase, response, last) ==
  /\ \A t \in T : TaskProc[t] = FlowProc[f] /\ ~HasAttemptResponse(t, response[t])
  /\ Writes(T, phase, "exchange")
  /\ attempts' = attempts \union
       {[task |-> t, ordinal |-> Ordinal(t), response |-> response[t]] : t \in T}
  /\ \/ flowTask' = [flowTask EXCEPT ![f] = last]
     \/ flowTask' = [flowTask EXCEPT ![f] = NoTask]
  /\ \/ owner' = [owner EXCEPT ![f] = Owner(f, n)]
     \/ owner' = [owner EXCEPT ![f] = NoOwner]
  /\ degraded' \subseteq degraded \union {<<f, d>>}
  /\ procTasks' = [procTasks EXCEPT ![FlowInstance(f, n)] = @ \union T]
  /\ Capture(T, FlowInstance(f, n))
  /\ UNCHANGED <<observed, index, up>>

LEMMA SegmentCommits ==
  ASSUME TypeOK, NEW f \in Flows, NEW d \in Directions, NEW n, NEW xs \in Exchanges,
         Possible(f, xs), NEW fin \in BOOLEAN, NEW gap \in BOOLEAN, Segment(f, d, n, xs, fin, gap)
  PROVE  \/ LaneFails
         \/ \E T \in SUBSET Tasks :
              \E phase \in [T -> Phases], response \in [T -> Responses \union {NoResponse}],
                 last \in T :
                Committed(f, d, n, T, phase, response, last)
<1> DEFINE kept == {i \in DOMAIN xs : ~HasAttemptResponse(xs[i].task, xs[i].response)}
           of(t) == xs[CHOOSE i \in kept : xs[i].task = t]
           touched == {xs[i].task : i \in kept}
           last == xs[CHOOSE i \in kept : \A j \in kept : j <= i].task
           broken == IF gap THEN degraded \union {<<f, d>>} ELSE degraded
           phase == [t \in touched |-> of(t).phase]
           response == [t \in touched |-> of(t).response]
<1>1. PICK m \in 1..MaxPerSegment : xs \in [1..m -> Exchange]
  BY DEF Exchanges
<1>2. /\ kept # {}
      /\ \/ LaneFails
         \/ /\ CommitTransitions(touched, phase, "exchange")
            /\ attempts' = attempts \union
                 {[task |-> t, ordinal |-> Ordinal(t), response |-> of(t).response] : t \in touched}
            /\ EndSegment(f, n, fin, last, broken)
            /\ procTasks' = [procTasks EXCEPT ![FlowInstance(f, n)] = @ \union touched]
            /\ Capture(touched, FlowInstance(f, n))
            /\ UNCHANGED <<observed, index, up>>
  BY DEF Segment
<1>3. kept \subseteq 1..m /\ DOMAIN xs = 1..m /\ m \in Nat
  BY <1>1, ProjectionAssumption
<1>4. \A i \in 1..m : /\ xs[i] \in Exchange
                      /\ xs[i].task \in Tasks /\ xs[i].phase \in Phases
                      /\ xs[i].response \in Responses \union {NoResponse}
  BY <1>1, ProjectionAssumption DEF Exchange, Phases
<1>5. last \in touched
  <2>1. \E i \in kept : \A j \in kept : j <= i
    BY <1>2, <1>3, GreatestIndex
  <2> QED BY <2>1
<1>6. ASSUME NEW t \in touched
      PROVE  \E i \in kept : of(t) = xs[i] /\ xs[i].task = t
  OBVIOUS
<1>7. touched \in SUBSET Tasks /\ phase \in [touched -> Phases]
      /\ response \in [touched -> Responses \union {NoResponse}]
  <2>1. touched \subseteq Tasks
    BY <1>3, <1>4
  <2>2. \A t \in touched : of(t).phase \in Phases /\ of(t).response \in Responses \union {NoResponse}
    BY <1>3, <1>4, <1>6
  <2> QED BY <2>1, <2>2
<1>8. ASSUME NEW t \in touched
      PROVE  TaskProc[t] = FlowProc[f] /\ ~HasAttemptResponse(t, response[t])
  <2>1. PICK i \in kept : of(t) = xs[i] /\ xs[i].task = t
    BY <1>6
  <2>2. response[t] = xs[i].response
    BY <2>1
  <2>3. ~HasAttemptResponse(xs[i].task, xs[i].response) /\ i \in DOMAIN xs
    OBVIOUS
  <2> QED BY <2>1, <2>2, <2>3 DEF Possible
<1>9. CASE ~LaneFails
  <2>1. attempts' = attempts \union
          {[task |-> t, ordinal |-> Ordinal(t), response |-> response[t]] : t \in touched}
    BY <1>2, <1>9
  <2> HIDE DEF kept, of, touched, phase, response, last
  <2>2. /\ CommitTransitions(touched, phase, "exchange")
        /\ EndSegment(f, n, fin, last, broken)
        /\ procTasks' = [procTasks EXCEPT ![FlowInstance(f, n)] = @ \union touched]
        /\ Capture(touched, FlowInstance(f, n))
        /\ UNCHANGED <<observed, index, up>>
    BY <1>2, <1>9
  <2>3. Writes(touched, phase, "exchange")
    BY <1>7, <2>2, CommitWrites DEF Causes
  <2>4. \/ flowTask' = [flowTask EXCEPT ![f] = last]
        \/ flowTask' = [flowTask EXCEPT ![f] = NoTask]
    BY <2>2 DEF EndSegment
  <2>5. \/ owner' = [owner EXCEPT ![f] = Owner(f, n)]
        \/ owner' = [owner EXCEPT ![f] = NoOwner]
    BY <2>2 DEF EndSegment
  <2>6. degraded' \subseteq degraded \union {<<f, d>>}
    BY <2>2 DEF EndSegment
  <2>7. Committed(f, d, n, touched, phase, response, last)
    BY <1>8, <2>1, <2>2, <2>3, <2>4, <2>5, <2>6 DEF Committed
  <2> QED BY <1>5, <1>7, <2>7
<1> QED BY <1>9

-----------------------------------------------------------------------------
(* Gaps and exits leave the attempts alone. *)
LEMMA UncountedStore ==
  ASSUME TypeOK, Counted, ResponseOnce, NEW T \in SUBSET Tasks, NEW phase \in [T -> Phases],
         NEW cause \in {"gap", "exit"}, Writes(T, phase, cause), attempts' = attempts
  PROVE  Counted' /\ ResponseOnce'
<1>1. \A t \in Tasks : rows'[t].count = rows[t].count
  <2>1. \A t \in Tasks : rows[t].count \in Nat
    BY DEF TypeOK, Row
  <2>2. Step(cause) = 0
    BY DEF Step
  <2>3. \A t \in T : rows'[t].count = rows[t].count + Step(cause)
    BY DEF Writes
  <2>4. \A t \in T : rows'[t].count = rows[t].count
    BY <2>1, <2>2, <2>3
  <2>5. \A t \in Tasks \ T : rows'[t] = rows[t]
    BY DEF Writes
  <2> QED BY <2>4, <2>5
<1>2. \A t \in Tasks : Own(t)' = Own(t)
  BY DEF Own
<1> QED BY <1>1, <1>2 DEF Counted, ResponseOnce

(* The attempts of a segment continue the count of each of its tasks. *)
LEMMA SegmentStore ==
  ASSUME StoreInv, NEW f \in Flows, NEW d \in Directions, NEW n, NEW T \in SUBSET Tasks,
         NEW phase \in [T -> Phases], NEW response \in [T -> Responses \union {NoResponse}],
         NEW last \in T, Committed(f, d, n, T, phase, response, last)
  PROVE  attempts' \subseteq Attempt /\ Counted' /\ ResponseOnce'
<1> DEFINE new(t) == [task |-> t, ordinal |-> Ordinal(t), response |-> response[t]]
<1>1. attempts' = attempts \union {new(t) : t \in T} /\ Writes(T, phase, "exchange")
  BY DEF Committed
<1>2. /\ attempts \subseteq Attempt
      /\ \A t \in Tasks : rows[t].count \in Nat /\ Ordinal(t) = rows[t].count + 1
  BY DEF StoreInv, TypeOK, Row, Ordinal
<1>3. \A t \in T : /\ new(t) \in Attempt /\ new(t).task = t
                   /\ new(t).ordinal = rows[t].count + 1 /\ new(t).response = response[t]
  BY <1>2 DEF Attempt
<1> HIDE DEF new
<1>4. attempts' \subseteq Attempt
  BY <1>1, <1>2, <1>3
<1>5. ASSUME NEW t \in Tasks
      PROVE  /\ IsFiniteSet(Own(t)')
             /\ Cardinality(Own(t)') = rows'[t].count
             /\ \A a \in Own(t)' : a.ordinal <= rows'[t].count
             /\ \A k \in 1..rows'[t].count : \E a \in Own(t)' : a.ordinal = k
  <2>0. /\ IsFiniteSet(Own(t)) /\ Cardinality(Own(t)) = rows[t].count
        /\ \A a \in Own(t) : a.ordinal <= rows[t].count
        /\ \A k \in 1..rows[t].count : \E a \in Own(t) : a.ordinal = k
        /\ \A a \in Own(t) : a.ordinal \in Nat
        /\ rows[t].count \in Nat
    BY <1>2 DEF StoreInv, Counted, Own, Attempt
  <2>1. CASE t \in T
    <3>1. Own(t)' = Own(t) \union {new(t)}
      BY <1>1, <1>3, <2>1 DEF Own
    <3>2. rows'[t].count = rows[t].count + 1
      BY <1>1, <2>1 DEF Writes, Step
    <3>3. new(t) \notin Own(t)
      BY <1>3, <2>0, <2>1
    <3>4. IsFiniteSet(Own(t)') /\ Cardinality(Own(t)') = rows[t].count + 1
      BY <2>0, <3>1, <3>3, FS_AddElement
    <3>5. \A a \in Own(t)' : a.ordinal <= rows'[t].count
      BY <1>3, <2>0, <2>1, <3>1, <3>2
    <3>6. ASSUME NEW k \in 1..rows'[t].count
          PROVE  \E a \in Own(t)' : a.ordinal = k
      <4>1. CASE k = rows[t].count + 1
        BY <1>3, <2>1, <3>1, <4>1
      <4>2. CASE k # rows[t].count + 1
        BY <2>0, <3>1, <3>2, <4>2
      <4> QED BY <4>1, <4>2
    <3> QED BY <3>2, <3>4, <3>5, <3>6
  <2>2. CASE t \notin T
    <3>1. Own(t)' = Own(t)
      BY <1>1, <1>3, <2>2 DEF Own
    <3>2. rows'[t] = rows[t]
      BY <1>1, <2>2 DEF Writes
    <3> QED BY <2>0, <3>1, <3>2
  <2> QED BY <2>1, <2>2
<1>6. ResponseOnce'
  <2> SUFFICES ASSUME NEW a \in attempts', NEW b \in attempts', a.task = b.task,
                      a.response = b.response, a.response # NoResponse
               PROVE  a = b
    BY DEF ResponseOnce
  <2>1. CASE a \in attempts /\ b \in attempts
    BY <2>1 DEF StoreInv, ResponseOnce
  <2>2. ASSUME NEW x \in attempts, NEW t \in T, x.task = t, x.response = response[t],
               x.response # NoResponse
        PROVE  FALSE
    BY <2>2 DEF Committed, HasAttemptResponse
  <2>3. CASE a \notin attempts /\ b \notin attempts
    <3>1. PICK t \in T : a = new(t)
      BY <1>1, <2>3
    <3>2. PICK u \in T : b = new(u)
      BY <1>1, <2>3
    <3> QED BY <1>3, <3>1, <3>2
  <2>4. CASE a \notin attempts /\ b \in attempts
    <3>1. PICK t \in T : a = new(t)
      BY <1>1, <2>4
    <3> QED BY <1>3, <2>2, <2>4, <3>1
  <2>5. CASE a \in attempts /\ b \notin attempts
    <3>1. PICK t \in T : b = new(t)
      BY <1>1, <2>5
    <3> QED BY <1>3, <2>2, <2>5, <3>1
  <2> QED BY <2>1, <2>3, <2>4, <2>5
<1> QED BY <1>4, <1>5, <1>6 DEF Counted

(* Counted says what the run checks. *)
LEMMA CountedAttempts == TypeOK /\ Counted => AttemptsCounted
<1> SUFFICES ASSUME TypeOK, Counted, NEW t \in Tasks
             PROVE  /\ {a.ordinal : a \in Own(t)} = 1..rows[t].count
                    /\ Cardinality(Own(t)) = rows[t].count
  BY DEF AttemptsCounted, Own
<1>1. rows[t].count \in Nat /\ \A a \in Own(t) : a.ordinal \in Nat \ {0}
  BY DEF TypeOK, Row, Own, Attempt
<1>2. /\ \A a \in Own(t) : a.ordinal <= rows[t].count
      /\ \A n \in 1..rows[t].count : \E a \in Own(t) : a.ordinal = n
  BY DEF Counted
<1>3. \A a \in Own(t) : a.ordinal \in 1..rows[t].count
  BY <1>1, <1>2
<1> QED BY <1>2, <1>3 DEF Counted

-----------------------------------------------------------------------------
LEMMA StoreInit == Init => StoreInv
<1> SUFFICES ASSUME Init
             PROVE  StoreInv
  OBVIOUS
<1>1. TypeOK
  BY ProjectionAssumption DEF Init, TypeOK, Row, NoRow, NoOwner, Phases
<1>2. Numbered
  BY DEF Init, Numbered, Seen, NoRow
<1>3. Counted
  <2>1. \A t \in Tasks : Own(t) = {} /\ rows[t].count = 0
    BY DEF Init, Own, NoRow
  <2> QED BY <2>1, FS_EmptySet DEF Counted
<1>4. ResponseOnce
  BY DEF Init, ResponseOnce
<1>5. PhasesFollow
  BY DEF Init, PhasesFollow, NoRow
<1> QED BY <1>1, <1>2, <1>3, <1>4, <1>5 DEF StoreInv

LEMMA StoreUnchanged ==
  ASSUME StoreInv, UNCHANGED stored
  PROVE  Numbered' /\ Counted' /\ ResponseOnce' /\ PhasesFollow'
BY DEF StoreInv, stored, Numbered, Counted, ResponseOnce, Own, Seen, PhasesFollow

LEMMA ForgetStore ==
  ASSUME StoreInv, Forget, UNCHANGED stored, up' \in BOOLEAN
  PROVE  StoreInv'
<1>1. TypeOK'
  BY ProjectionAssumption DEF StoreInv, Forget, stored, TypeOK, NoOwner
<1> QED BY <1>1, StoreUnchanged DEF StoreInv

(* The connection's instance is one of its process. *)
LEMMA OwnerTyped ==
  ASSUME TypeOK, NEW f \in Flows, NEW n \in 1..observed[FlowProc[f]]
  PROVE  /\ FlowProc[f] \in Procs
         /\ n \in 1..MaxInstances
         /\ Owner(f, n) \in 1..MaxInstances
         /\ FlowInstance(f, n) \in Instances
<1>1. FlowProc[f] \in Procs /\ MaxInstances \in Nat
  BY ProjectionAssumption
<1>2. n \in 1..MaxInstances
  BY <1>1 DEF TypeOK
<1>3. Owner(f, n) \in 1..MaxInstances
  BY <1>1, <1>2 DEF Owner, TypeOK, NoOwner
<1> QED BY <1>1, <1>2, <1>3 DEF FlowInstance, Instances

LEMMA EndTyped ==
  ASSUME TypeOK, NEW f \in Flows, NEW d \in Directions, NEW n \in 1..observed[FlowProc[f]],
         NEW fin, NEW task \in Tasks \union {NoTask}, NEW broken \in SUBSET (Flows \X Directions),
         EndSegment(f, n, fin, task, broken)
  PROVE  /\ flowTask' \in [Flows -> Tasks \union {NoTask}]
         /\ owner' \in [Flows -> 0..MaxInstances]
         /\ degraded' \subseteq Flows \X Directions
<1>1. Owner(f, n) \in 0..MaxInstances /\ NoOwner \in 0..MaxInstances
  BY OwnerTyped, ProjectionAssumption DEF NoOwner
<1>2. flowTask \in [Flows -> Tasks \union {NoTask}] /\ owner \in [Flows -> 0..MaxInstances]
  BY DEF TypeOK
<1> QED BY <1>1, <1>2 DEF EndSegment

LEMMA GapTasksTyped ==
  ASSUME TypeOK, NEW t \in Tasks \union {NoTask}
  PROVE  /\ GapTasks(t) \in SUBSET Tasks
         /\ \A u \in GapTasks(t) : Open(u)
BY DEF GapTasks

(* A gap adds transitions that repeat the phase of open tasks. *)
LEMMA GapStore ==
  ASSUME StoreInv, NEW T \in SUBSET Tasks, \A t \in T : Open(t), ProjectGap(T)
  PROVE  /\ rows' \in [Tasks -> Row] /\ \A t \in Tasks : events'[t] \in Seq(Transition)
         /\ attempts' = attempts
         /\ Numbered' /\ Counted' /\ ResponseOnce' /\ PhasesFollow'
         /\ \A t \in Tasks : Open(t)' <=> Open(t)
<1> DEFINE phase == [t \in T |-> rows[t].phase]
<1>1. phase \in [T -> Phases] /\ \A t \in T : phase[t] = rows[t].phase
  BY DEF StoreInv, TypeOK, Row
<1>2. CommitTransitions(T, phase, "gap") /\ attempts' = attempts
  BY DEF ProjectGap
<1> HIDE DEF phase
<1>3. Writes(T, phase, "gap")
  BY <1>1, <1>2, CommitWrites DEF StoreInv, Causes
<1>4. Numbered'
  BY <1>1, <1>3, WritesNumbered DEF StoreInv, Causes
<1>5. Counted' /\ ResponseOnce'
  BY <1>1, <1>2, <1>3, UncountedStore DEF StoreInv
<1>6. PhasesFollow'
  <2>1. Follows(T, phase, "gap")
    BY <1>1 DEF Follows
  <2> QED BY <1>1, <1>3, <2>1, WritesFollow DEF StoreInv, Causes
<1>7. \A t \in Tasks : Open(t)' <=> Open(t)
  <2>1. \A t \in T : phase[t] # "terminal"
    BY <1>1 DEF Open
  <2> QED BY <1>1, <1>3, <2>1, WritesOpen DEF StoreInv, Causes
<1> QED BY <1>2, <1>3, <1>4, <1>5, <1>6, <1>7 DEF Writes

(* An exit closes the open tasks of the instance and leaves the others. *)
LEMMA ExitStore ==
  ASSUME StoreInv, NEW p \in Procs, NEW n \in 1..observed[p], HandleExit(p, n)
  PROVE  /\ rows' \in [Tasks -> Row] /\ \A t \in Tasks : events'[t] \in Seq(Transition)
         /\ Numbered' /\ Counted' /\ ResponseOnce' /\ PhasesFollow'
         /\ \A t \in LostTasks(p, n) : ~Open(t)'
         /\ \A t \in Tasks \ LostTasks(p, n) : Open(t)' <=> Open(t)
         /\ LostTasks(p, n) \subseteq Tasks
<1> DEFINE T == LostTasks(p, n)
           phase == [t \in T |-> "terminal"]
<1>0. \A t \in T : Open(t)
  BY DEF LostTasks
<1>1. \A t \in T : t \in Tasks
  <2>1. <<p, n>> \in Instances
    BY ProjectionAssumption DEF StoreInv, TypeOK, Instances
  <2>2. procTasks[<<p, n>>] \subseteq Tasks
    BY <2>1 DEF StoreInv, TypeOK
  <2> QED BY <2>2 DEF LostTasks, OwnTasks
<1>2. T \in SUBSET Tasks /\ phase \in [T -> Phases] /\ \A t \in T : phase[t] = "terminal"
  BY <1>1 DEF Phases
<1>3. CommitTransitions(T, phase, "exit") /\ attempts' = attempts
  BY DEF HandleExit
<1> HIDE DEF T, phase
<1>4. Writes(T, phase, "exit")
  BY <1>2, <1>3, CommitWrites DEF StoreInv, Causes
<1>5. Numbered'
  BY <1>2, <1>4, WritesNumbered DEF StoreInv, Causes
<1>6. Counted' /\ ResponseOnce'
  BY <1>2, <1>3, <1>4, UncountedStore DEF StoreInv
<1>7. PhasesFollow'
  <2>1. Follows(T, phase, "exit")
    BY <1>0, <1>2 DEF Follows
  <2> QED BY <1>2, <1>4, <2>1, WritesFollow DEF StoreInv, Causes
<1>8. (\A t \in T : ~Open(t)') /\ (\A t \in Tasks \ T : Open(t)' <=> Open(t))
  BY <1>2, <1>4, WritesOpen DEF StoreInv, Causes
<1> QED BY <1>2, <1>4, <1>5, <1>6, <1>7, <1>8 DEF Writes, T

(* An exit, whether or not the instance stays in the index. *)
LEMMA ExitStep ==
  ASSUME StoreInv, NEW p \in Procs, NEW n \in 1..observed[p], HandleExit(p, n),
         index' \in [Procs -> 0..MaxInstances], \A q \in Procs : index'[q] <= index[q]
  PROVE  StoreInv'
<1>1. /\ rows' \in [Tasks -> Row] /\ \A t \in Tasks : events'[t] \in Seq(Transition)
      /\ Numbered' /\ Counted' /\ ResponseOnce' /\ PhasesFollow'
  BY ExitStore
<1>2. TypeOK
  BY DEF StoreInv
<1>3. procTasks' = [procTasks EXCEPT ![<<p, n>>] = {}] /\ procTasks \in [Instances -> SUBSET Tasks]
  BY <1>2 DEF HandleExit, TypeOK
<1>4. procTasks' \in [Instances -> SUBSET Tasks]
  BY <1>3
<1>5. captured' \in [Tasks -> {"never", "present", "stray", "settled"}]
  BY <1>2 DEF HandleExit, TypeOK
<1>6. UNCHANGED <<attempts, flowTask, owner, degraded, observed, up>>
  BY DEF HandleExit
<1>7. \A q \in Procs : index'[q] <= observed'[q]
  <2> SUFFICES ASSUME NEW q \in Procs
               PROVE  index'[q] <= observed'[q]
    OBVIOUS
  <2>1. index'[q] \in Nat /\ index[q] \in Nat /\ observed[q] \in Nat
    BY <1>2, ProjectionAssumption DEF TypeOK
  <2>2. index'[q] <= index[q] /\ index[q] <= observed[q] /\ observed'[q] = observed[q]
    BY <1>2, <1>6 DEF TypeOK
  <2> QED BY <2>1, <2>2
<1>8. TypeOK'
  BY <1>1, <1>2, <1>4, <1>5, <1>6, <1>7 DEF TypeOK
<1> QED BY <1>1, <1>8 DEF StoreInv

LEMMA StoreStep == StoreInv /\ [Next]_vars => StoreInv'
<1> SUFFICES ASSUME StoreInv, [Next]_vars
             PROVE  StoreInv'
  OBVIOUS
<1>0. TypeOK /\ Numbered /\ Counted /\ ResponseOnce /\ PhasesFollow
  BY DEF StoreInv
<1>1. ASSUME NEW f \in Flows, NEW n \in 1..observed[FlowProc[f]], NEW d \in Directions,
             NEW xs \in Inputs(f), NEW fin \in BOOLEAN, NEW gap \in {FALSE, fin},
             Segment(f, d, n, xs, fin, gap)
      PROVE  StoreInv'
  <2>1. xs \in Exchanges /\ Possible(f, xs) /\ gap \in BOOLEAN
    BY <1>1 DEF Inputs
  <2>2. \/ LaneFails
        \/ \E T \in SUBSET Tasks :
             \E phase \in [T -> Phases], response \in [T -> Responses \union {NoResponse}],
                last \in T :
               Committed(f, d, n, T, phase, response, last)
    BY <1>0, <1>1, <2>1, SegmentCommits
  <2>3. CASE LaneFails
    BY <2>3, ForgetStore DEF LaneFails
  <2>4. ASSUME NEW T \in SUBSET Tasks, NEW phase \in [T -> Phases],
               NEW response \in [T -> Responses \union {NoResponse}], NEW last \in T,
               Committed(f, d, n, T, phase, response, last)
        PROVE  StoreInv'
    <3>1. attempts' \subseteq Attempt /\ Counted' /\ ResponseOnce'
      BY <2>4, SegmentStore
    <3>2. Writes(T, phase, "exchange")
      BY <2>4 DEF Committed
    <3>3. Numbered'
      BY <1>0, <3>2, WritesNumbered DEF Causes
    <3>4. PhasesFollow'
      <4>1. Follows(T, phase, "exchange")
        BY DEF Follows
      <4> QED BY <1>0, <3>2, <4>1, WritesFollow DEF Causes
    <3>5. FlowInstance(f, n) \in Instances /\ Owner(f, n) \in 0..MaxInstances
          /\ NoOwner \in 0..MaxInstances
      BY <1>0, OwnerTyped, ProjectionAssumption DEF NoOwner
    <3>6. flowTask' \in [Flows -> Tasks \union {NoTask}]
      BY <1>0, <2>4 DEF Committed, TypeOK
    <3>7. owner' \in [Flows -> 0..MaxInstances]
      BY <1>0, <2>4, <3>5 DEF Committed, TypeOK
    <3>8. procTasks' \in [Instances -> SUBSET Tasks]
      BY <1>0, <2>4, <3>5 DEF Committed, TypeOK
    <3>9. degraded' \subseteq Flows \X Directions
      BY <1>0, <2>4 DEF Committed, TypeOK
    <3>10. captured' \in [Tasks -> {"never", "present", "stray", "settled"}]
      BY <1>0, <2>4 DEF Committed, Capture, TypeOK
    <3>11. UNCHANGED <<observed, index, up>>
      BY <2>4 DEF Committed
    <3>12. TypeOK'
      BY <1>0, <3>1, <3>2, <3>6, <3>7, <3>8, <3>9, <3>10, <3>11 DEF Writes, TypeOK
    <3> QED BY <3>1, <3>3, <3>4, <3>12 DEF StoreInv
  <2> QED BY <2>2, <2>3, <2>4
<1>2. ASSUME NEW f \in Flows, NEW n \in 1..observed[FlowProc[f]], QuietSegment(f, n)
      PROVE  StoreInv'
  <2>1. owner' \in [Flows -> 0..MaxInstances]
    BY <1>0, <1>2, OwnerTyped DEF QuietSegment, TypeOK
  <2>2. TypeOK'
    BY <1>0, <1>2, <2>1 DEF QuietSegment, stored, TypeOK
  <2> QED BY <1>2, <2>2, StoreUnchanged DEF QuietSegment, StoreInv
<1>3. ASSUME NEW f \in Flows, NEW n \in 1..observed[FlowProc[f]], NEW d \in Directions,
             GapSegment(f, d, n)
      PROVE  StoreInv'
  <2> DEFINE T == GapTasks(flowTask[f])
  <2>1. T \in SUBSET Tasks /\ (\A t \in T : Open(t)) /\ ProjectGap(T)
    BY <1>0, <1>3, GapTasksTyped DEF GapSegment, TypeOK
  <2> HIDE DEF T
  <2>2. /\ rows' \in [Tasks -> Row] /\ \A t \in Tasks : events'[t] \in Seq(Transition)
        /\ attempts' = attempts
        /\ Numbered' /\ Counted' /\ ResponseOnce' /\ PhasesFollow'
    BY <2>1, GapStore
  <2>3. owner' \in [Flows -> 0..MaxInstances]
    BY <1>0, <1>3, OwnerTyped DEF GapSegment, TypeOK
  <2>4. TypeOK'
    BY <1>0, <1>3, <2>2, <2>3 DEF GapSegment, TypeOK
  <2> QED BY <2>2, <2>4 DEF StoreInv
<1>4. ASSUME NEW f \in Flows, NEW n \in 1..observed[FlowProc[f]], NEW d \in Directions,
             NEW waiting \in BOOLEAN, FinSegment(f, d, n, waiting)
      PROVE  StoreInv'
  <2> DEFINE T == IF waiting THEN GapTasks(flowTask[f]) ELSE {}
             broken == IF waiting THEN degraded \union {<<f, d>>} ELSE degraded
  <2>1. /\ ProjectGap(T)
        /\ EndSegment(f, n, TRUE, flowTask[f], broken)
        /\ UNCHANGED <<procTasks, observed, index, captured, up>>
    BY <1>4 DEF FinSegment
  <2>2. /\ T \in SUBSET Tasks /\ (\A t \in T : Open(t))
        /\ broken \in SUBSET (Flows \X Directions)
        /\ flowTask[f] \in Tasks \union {NoTask}
    BY <1>0, GapTasksTyped DEF TypeOK
  <2> HIDE DEF T, broken
  <2>3. /\ rows' \in [Tasks -> Row] /\ \A t \in Tasks : events'[t] \in Seq(Transition)
        /\ attempts' = attempts
        /\ Numbered' /\ Counted' /\ ResponseOnce' /\ PhasesFollow'
    BY <2>1, <2>2, GapStore
  <2>4. /\ flowTask' \in [Flows -> Tasks \union {NoTask}]
        /\ owner' \in [Flows -> 0..MaxInstances]
        /\ degraded' \subseteq Flows \X Directions
    BY <1>0, <2>1, <2>2, EndTyped
  <2>5. TypeOK'
    BY <1>0, <2>1, <2>3, <2>4 DEF TypeOK
  <2> QED BY <2>3, <2>5 DEF StoreInv
<1>5. ASSUME NEW f \in Flows, NEW n \in 1..observed[FlowProc[f]], NEW d \in Directions,
             FinConflict(f, d, n)
      PROVE  StoreInv'
  <2> DEFINE broken == degraded \union {<<f, d>>}
  <2>1. CASE LaneFails
    BY <2>1, ForgetStore DEF LaneFails
  <2>2. CASE ~LaneFails
    <3>1. /\ EndSegment(f, n, TRUE, flowTask[f], broken)
          /\ UNCHANGED <<procTasks, observed, index, captured, up>> /\ UNCHANGED stored
      BY <1>5, <2>2 DEF FinConflict
    <3>2. broken \in SUBSET (Flows \X Directions) /\ flowTask[f] \in Tasks \union {NoTask}
      BY <1>0 DEF TypeOK
    <3> HIDE DEF broken
    <3>3. /\ flowTask' \in [Flows -> Tasks \union {NoTask}]
          /\ owner' \in [Flows -> 0..MaxInstances]
          /\ degraded' \subseteq Flows \X Directions
      BY <1>0, <3>1, <3>2, EndTyped
    <3>4. TypeOK'
      BY <1>0, <3>1, <3>3 DEF stored, TypeOK
    <3> QED BY <3>1, <3>4, StoreUnchanged DEF StoreInv
  <2> QED BY <2>1, <2>2
<1>6. ASSUME NEW p \in Procs, ProcessObserved(p)
      PROVE  StoreInv'
  <2>1. observed[p] + 1 \in 0..MaxInstances
    BY <1>0, <1>6, ProjectionAssumption DEF ProcessObserved, TypeOK
  <2>2. observed' = [observed EXCEPT ![p] = observed[p] + 1] /\ index' = [index EXCEPT ![p] = observed'[p]]
    BY <1>6 DEF ProcessObserved
  <2>3. observed'[p] = observed[p] + 1
    BY <1>0, <2>2 DEF TypeOK
  <2>4. observed' \in [Procs -> 0..MaxInstances] /\ index' \in [Procs -> 0..MaxInstances]
    BY <1>0, <2>1, <2>2, <2>3 DEF TypeOK
  <2>5. \A q \in Procs : index'[q] <= observed'[q]
    <3> SUFFICES ASSUME NEW q \in Procs
                 PROVE  index'[q] <= observed'[q]
      OBVIOUS
    <3>1. CASE q = p
      <4>1. index'[q] = observed'[q] /\ observed'[q] \in 0..MaxInstances
        BY <1>0, <2>2, <2>4, <3>1 DEF TypeOK
      <4> QED BY <4>1
    <3>2. CASE q # p
      <4>1. index'[q] = index[q] /\ observed'[q] = observed[q]
        BY <1>0, <2>2, <3>2 DEF TypeOK
      <4> QED BY <1>0, <4>1 DEF TypeOK
    <3> QED BY <3>1, <3>2
  <2>6. TypeOK'
    BY <1>0, <1>6, <2>4, <2>5 DEF ProcessObserved, stored, TypeOK
  <2> QED BY <1>6, <2>6, StoreUnchanged DEF ProcessObserved, StoreInv
<1>7. ASSUME NEW p \in Procs, ProcessMissed(p)
      PROVE  StoreInv'
  <2>1. HandleExit(p, index[p]) /\ index' = [index EXCEPT ![p] = 0]
    BY <1>7 DEF ProcessMissed
  <2>2. index[p] \in 1..observed[p]
    BY <1>0, <1>7, ProjectionAssumption DEF ProcessMissed, TypeOK
  <2>3. index' \in [Procs -> 0..MaxInstances] /\ \A q \in Procs : index'[q] <= index[q]
    BY <1>0, <2>1, ProjectionAssumption DEF TypeOK
  <2> QED BY <2>1, <2>2, <2>3, ExitStep
<1>8. ASSUME NEW p \in Procs, ThreadExit(p)
      PROVE  StoreInv'
  <2>1. PICK n \in 1..observed[p] : HandleExit(p, n)
    BY <1>8 DEF ThreadExit
  <2>2. index' \in [Procs -> 0..MaxInstances] /\ \A q \in Procs : index'[q] <= index[q]
    BY <1>0, <1>8, ProjectionAssumption DEF ThreadExit, TypeOK
  <2> QED BY <2>1, <2>2, ExitStep
<1>9. CASE Restart
  BY <1>9, ForgetStore DEF Restart
<1>10. CASE UNCHANGED vars
  <2>1. TypeOK'
    BY <1>0, <1>10 DEF vars, TypeOK
  <2> QED BY <1>10, <2>1, StoreUnchanged DEF vars, stored, StoreInv
<1>11. ASSUME NEW f \in Flows, NEW n \in 1..observed[FlowProc[f]],
              \/ QuietSegment(f, n)
              \/ \E d \in Directions :
                   \/ \E xs \in Inputs(f), fin \in BOOLEAN :
                        \E gap \in {FALSE, fin} : Segment(f, d, n, xs, fin, gap)
                   \/ GapSegment(f, d, n)
                   \/ \E waiting \in BOOLEAN : FinSegment(f, d, n, waiting)
                   \/ FinConflict(f, d, n)
       PROVE  StoreInv'
  BY <1>1, <1>2, <1>3, <1>4, <1>5, <1>11
<1>12. ASSUME NEW p \in Procs, ProcessObserved(p) \/ ProcessMissed(p) \/ ThreadExit(p)
       PROVE  StoreInv'
  BY <1>6, <1>7, <1>8, <1>12
<1>13. CASE Next
  BY <1>9, <1>11, <1>12, <1>13 DEF Next
<1> QED BY <1>10, <1>13

(* The lane keeps its cursors, attempts and memory in their types over     *)
(* every segment, gap, exit and restart.                                   *)
THEOREM ProjectionTypeOK == Spec => []TypeOK
<1>1. StoreInv => TypeOK
  BY DEF StoreInv
<1> QED BY <1>1, StoreInit, StoreStep, PTL DEF Spec

(* attempt_count and the ordinals in the attempts table agree: no gap, no  *)
(* repetition, for any number of tasks, connections, exits and restarts,   *)
(* also when exits overtake segments.                                      *)
THEOREM AttemptsAlwaysCounted == Spec => []AttemptsCounted
<1>1. StoreInv => AttemptsCounted
  BY CountedAttempts DEF StoreInv
<1> QED BY <1>1, StoreInit, StoreStep, PTL DEF Spec

(* has_attempt_response keeps a response that is captured again, on        *)
(* another connection or after a restart, from becoming a second attempt.  *)
THEOREM ResponseAlwaysOnce == Spec => []ResponseOnce
<1>1. StoreInv => ResponseOnce
  BY DEF StoreInv
<1> QED BY <1>1, StoreInit, StoreStep, PTL DEF Spec

(* project_gap and project_process_exit leave a task that is over alone,   *)
(* gaps keep the phase, and the transitions are numbered without gap or    *)
(* repetition, in whatever order segments, exits and restarts come.        *)
THEOREM PhasesAlwaysFollow == Spec => []PhasesFollow
<1>1. StoreInv => PhasesFollow
  BY DEF StoreInv
<1> QED BY <1>1, StoreInit, StoreStep, PTL DEF Spec

-----------------------------------------------------------------------------
(* What an exit settles. *)

LEMMA LaneInit == Init => LaneInv
BY DEF Init, LaneInv, Attribution, ExitSettles

LEMMA ForgetLane ==
  ASSUME Forget
  PROVE  LaneInv'
BY DEF Forget, LaneInv, Attribution, ExitSettles

(* What opens no task and leaves memory's account of them alone. *)
LEMMA LaneKept ==
  ASSUME LaneInv, UNCHANGED <<procTasks, index, captured>>, \A t \in Tasks : Open(t)' <=> Open(t)
  PROVE  LaneInv'
BY DEF LaneInv, Attribution, ExitSettles

LEMMA OpenUnchanged ==
  ASSUME UNCHANGED rows
  PROVE  \A t \in Tasks : Open(t)' <=> Open(t)
BY DEF Open, Seen

LEMMA ExitLane ==
  ASSUME StoreInv, LaneInv, NEW p \in Procs, NEW n \in 1..observed[p], HandleExit(p, n),
         \/ index' = index
         \/ n = index[p] /\ index' = [index EXCEPT ![p] = 0]
  PROVE  LaneInv'
<1>0. TypeOK /\ MaxInstances \in Nat
  BY ProjectionAssumption DEF StoreInv
<1>1. /\ \A t \in LostTasks(p, n) : ~Open(t)'
      /\ \A t \in Tasks \ LostTasks(p, n) : Open(t)' <=> Open(t)
  BY ExitStore
<1>2. \A t \in Tasks :
        captured'[t] = IF captured[t] = "present" /\ TaskProc[t] = p /\ index[p] = n
                       THEN "settled" ELSE captured[t]
  BY DEF HandleExit
<1>3. procTasks' = [procTasks EXCEPT ![<<p, n>>] = {}]
  BY DEF HandleExit
<1>4. ExitSettles'
  <2> SUFFICES ASSUME NEW t \in Tasks, captured'[t] = "settled"
               PROVE  ~Open(t)'
    BY DEF ExitSettles
  <2>1. CASE captured[t] = "settled"
    <3>1. ~Open(t)
      BY <2>1 DEF LaneInv, ExitSettles
    <3> QED BY <1>1, <3>1
  <2>2. CASE captured[t] # "settled"
    <3>1. captured[t] = "present" /\ TaskProc[t] = p /\ index[p] = n
      BY <1>2, <2>2
    <3>2. t \in procTasks[<<p, n>>]
      BY <3>1 DEF LaneInv, Attribution
    <3>3. Open(t) => t \in LostTasks(p, n)
      BY <3>2 DEF LostTasks, OwnTasks
    <3> QED BY <1>1, <3>3
  <2> QED BY <2>1, <2>2
<1>5. Attribution'
  <2> SUFFICES ASSUME NEW t \in Tasks, captured'[t] = "present"
               PROVE  index'[TaskProc[t]] # 0 /\ t \in procTasks'[<<TaskProc[t], index'[TaskProc[t]]>>]
    BY DEF Attribution
  <2> DEFINE q == TaskProc[t]
  <2>1. captured[t] = "present" /\ ~(q = p /\ index[p] = n)
    BY <1>2
  <2>2. q \in Procs /\ index[q] # 0 /\ t \in procTasks[<<q, index[q]>>]
    BY <2>1, ProjectionAssumption DEF LaneInv, Attribution
  <2>3. index'[q] = index[q]
    BY <1>0, <2>1, <2>2 DEF TypeOK
  <2>4. <<q, index[q]>> \in Instances
    BY <1>0, <2>2 DEF TypeOK, Instances
  <2>5. <<q, index[q]>> # <<p, n>>
    BY <2>1
  <2>6. procTasks'[<<q, index[q]>>] = procTasks[<<q, index[q]>>]
    BY <1>0, <1>3, <2>4, <2>5 DEF TypeOK
  <2> QED BY <2>2, <2>3, <2>6
<1> QED BY <1>4, <1>5 DEF LaneInv

LEMMA LaneStep == StoreInv /\ LaneInv /\ [Next]_vars => LaneInv'
<1> SUFFICES ASSUME StoreInv, LaneInv, [Next]_vars
             PROVE  LaneInv'
  OBVIOUS
<1>0. TypeOK
  BY DEF StoreInv
<1>1. ASSUME NEW f \in Flows, NEW n \in 1..observed[FlowProc[f]], NEW d \in Directions,
             NEW xs \in Inputs(f), NEW fin \in BOOLEAN, NEW gap \in {FALSE, fin},
             Segment(f, d, n, xs, fin, gap)
      PROVE  LaneInv'
  <2>1. xs \in Exchanges /\ Possible(f, xs) /\ gap \in BOOLEAN
    BY <1>1 DEF Inputs
  <2>2. \/ LaneFails
        \/ \E T \in SUBSET Tasks :
             \E phase \in [T -> Phases], response \in [T -> Responses \union {NoResponse}],
                last \in T :
               Committed(f, d, n, T, phase, response, last)
    BY <1>0, <1>1, <2>1, SegmentCommits
  <2>3. CASE LaneFails
    BY <2>3, ForgetLane DEF LaneFails
  <2>4. ASSUME NEW T \in SUBSET Tasks, NEW phase \in [T -> Phases],
               NEW response \in [T -> Responses \union {NoResponse}], NEW last \in T,
               Committed(f, d, n, T, phase, response, last)
        PROVE  LaneInv'
    <3> DEFINE i == FlowInstance(f, n)
    <3>1. /\ Writes(T, phase, "exchange")
          /\ \A t \in T : TaskProc[t] = FlowProc[f]
          /\ procTasks' = [procTasks EXCEPT ![i] = @ \union T]
          /\ Capture(T, i)
          /\ index' = index
      BY <2>4 DEF Committed
    <3>2. i \in Instances /\ i[1] = FlowProc[f] /\ i = <<i[1], i[2]>> /\ i[2] \in 1..MaxInstances
      BY <1>0, OwnerTyped DEF FlowInstance
    <3> HIDE DEF i
    <3>3. \A t \in Tasks :
            captured'[t] = IF t \notin T \/ captured[t] = "present" THEN captured[t]
                           ELSE IF index[i[1]] = i[2] THEN "present" ELSE "stray"
      BY <3>1 DEF Capture
    <3>4. \A t \in Tasks \ T : Open(t)' <=> Open(t)
      BY <1>0, <3>1, WritesOpen DEF Causes
    <3>5. ExitSettles'
      <4> SUFFICES ASSUME NEW t \in Tasks, captured'[t] = "settled"
                   PROVE  ~Open(t)'
        BY DEF ExitSettles
      <4>1. t \notin T /\ captured[t] = "settled"
        BY <3>3
      <4> QED BY <3>4, <4>1 DEF LaneInv, ExitSettles
    <3>6. \A j \in Instances : procTasks[j] \subseteq procTasks'[j]
      BY <1>0, <3>1, <3>2 DEF TypeOK
    <3>7. T \subseteq procTasks'[i]
      BY <1>0, <3>1, <3>2 DEF TypeOK
    <3>8. Attribution'
      <4> SUFFICES ASSUME NEW t \in Tasks, captured'[t] = "present"
                   PROVE  index[TaskProc[t]] # 0 /\ t \in procTasks'[<<TaskProc[t], index[TaskProc[t]]>>]
        BY <3>1 DEF Attribution
      <4>1. CASE captured[t] = "present"
        <5>1. /\ TaskProc[t] \in Procs /\ index[TaskProc[t]] # 0
              /\ t \in procTasks[<<TaskProc[t], index[TaskProc[t]]>>]
          BY <4>1, ProjectionAssumption DEF LaneInv, Attribution
        <5>2. <<TaskProc[t], index[TaskProc[t]]>> \in Instances
          BY <1>0, <5>1, ProjectionAssumption DEF TypeOK, Instances
        <5> QED BY <3>6, <5>1, <5>2
      <4>2. CASE captured[t] # "present"
        <5>1. t \in T /\ index[i[1]] = i[2]
          BY <3>3, <4>2
        <5>2. TaskProc[t] = i[1]
          BY <3>1, <3>2, <5>1
        <5>3. <<TaskProc[t], index[TaskProc[t]]>> = i
          BY <3>2, <5>1, <5>2
        <5> QED BY <3>2, <3>7, <5>1, <5>2, <5>3
      <4> QED BY <4>1, <4>2
    <3> QED BY <3>5, <3>8 DEF LaneInv
  <2> QED BY <2>2, <2>3, <2>4
<1>2. ASSUME NEW f \in Flows, NEW n \in 1..observed[FlowProc[f]], QuietSegment(f, n)
      PROVE  LaneInv'
  BY <1>2, OpenUnchanged, LaneKept DEF QuietSegment, stored
<1>3. ASSUME NEW f \in Flows, NEW n \in 1..observed[FlowProc[f]], NEW d \in Directions,
             GapSegment(f, d, n)
      PROVE  LaneInv'
  <2> DEFINE T == GapTasks(flowTask[f])
  <2>1. T \in SUBSET Tasks /\ (\A t \in T : Open(t)) /\ ProjectGap(T)
    BY <1>0, <1>3, GapTasksTyped DEF GapSegment, TypeOK
  <2> HIDE DEF T
  <2>2. \A t \in Tasks : Open(t)' <=> Open(t)
    BY <2>1, GapStore
  <2> QED BY <1>3, <2>2, LaneKept DEF GapSegment
<1>4. ASSUME NEW f \in Flows, NEW n \in 1..observed[FlowProc[f]], NEW d \in Directions,
             NEW waiting \in BOOLEAN, FinSegment(f, d, n, waiting)
      PROVE  LaneInv'
  <2> DEFINE T == IF waiting THEN GapTasks(flowTask[f]) ELSE {}
  <2>1. ProjectGap(T) /\ UNCHANGED <<procTasks, index, captured>>
    BY <1>4 DEF FinSegment
  <2>2. T \in SUBSET Tasks /\ (\A t \in T : Open(t))
    BY <1>0, GapTasksTyped DEF TypeOK
  <2> HIDE DEF T
  <2>3. \A t \in Tasks : Open(t)' <=> Open(t)
    BY <2>1, <2>2, GapStore
  <2> QED BY <2>1, <2>3, LaneKept
<1>5. ASSUME NEW f \in Flows, NEW n \in 1..observed[FlowProc[f]], NEW d \in Directions,
             FinConflict(f, d, n)
      PROVE  LaneInv'
  <2>1. CASE LaneFails
    BY <2>1, ForgetLane DEF LaneFails
  <2>2. CASE ~LaneFails
    BY <1>5, <2>2, OpenUnchanged, LaneKept DEF FinConflict, stored
  <2> QED BY <2>1, <2>2
<1>6. ASSUME NEW p \in Procs, ProcessObserved(p)
      PROVE  LaneInv'
  <2>1. /\ index[p] = 0 /\ index' = [index EXCEPT ![p] = observed'[p]]
        /\ UNCHANGED <<rows, procTasks, captured>>
    BY <1>6 DEF ProcessObserved, stored
  <2>2. \A t \in Tasks : Open(t)' <=> Open(t)
    BY <2>1, OpenUnchanged
  <2>3. \A q \in Procs \ {p} : index'[q] = index[q]
    BY <1>0, <2>1 DEF TypeOK
  <2>4. \A t \in Tasks : captured[t] = "present" => TaskProc[t] \in Procs \ {p}
    BY <2>1, ProjectionAssumption DEF LaneInv, Attribution
  <2> QED BY <2>1, <2>2, <2>3, <2>4 DEF LaneInv, Attribution, ExitSettles
<1>7. ASSUME NEW p \in Procs, ProcessMissed(p)
      PROVE  LaneInv'
  <2>1. HandleExit(p, index[p]) /\ index' = [index EXCEPT ![p] = 0]
    BY <1>7 DEF ProcessMissed
  <2>2. index[p] \in 1..observed[p]
    BY <1>0, <1>7, ProjectionAssumption DEF ProcessMissed, TypeOK
  <2> QED BY <2>1, <2>2, ExitLane
<1>8. ASSUME NEW p \in Procs, ThreadExit(p)
      PROVE  LaneInv'
  <2>1. PICK n \in 1..observed[p] : HandleExit(p, n)
    BY <1>8 DEF ThreadExit
  <2> QED BY <1>8, <2>1, ExitLane DEF ThreadExit
<1>9. CASE Restart
  BY <1>9, ForgetLane DEF Restart
<1>10. CASE UNCHANGED vars
  BY <1>10, OpenUnchanged, LaneKept DEF vars
<1>11. ASSUME NEW f \in Flows, NEW n \in 1..observed[FlowProc[f]],
              \/ QuietSegment(f, n)
              \/ \E d \in Directions :
                   \/ \E xs \in Inputs(f), fin \in BOOLEAN :
                        \E gap \in {FALSE, fin} : Segment(f, d, n, xs, fin, gap)
                   \/ GapSegment(f, d, n)
                   \/ \E waiting \in BOOLEAN : FinSegment(f, d, n, waiting)
                   \/ FinConflict(f, d, n)
       PROVE  LaneInv'
  BY <1>1, <1>2, <1>3, <1>4, <1>5, <1>11
<1>12. ASSUME NEW p \in Procs, ProcessObserved(p) \/ ProcessMissed(p) \/ ThreadExit(p)
       PROVE  LaneInv'
  BY <1>6, <1>7, <1>8, <1>12
<1>13. CASE Next
  BY <1>9, <1>11, <1>12, <1>13 DEF Next
<1> QED BY <1>10, <1>13

(* project_process_exit closes every task that this run of the daemon has  *)
(* captured on a connection of the process's present instance, on          *)
(* whichever connection it was and whether the exit is that of the process *)
(* or of one of its threads; only a later exchange opens it again.         *)
THEOREM ExitAlwaysSettles == Spec => []ExitSettles
<1>1. Init => StoreInv /\ LaneInv
  BY StoreInit, LaneInit
<1>2. StoreInv /\ LaneInv /\ [Next]_vars => StoreInv' /\ LaneInv'
  BY StoreStep, LaneStep
<1>3. LaneInv => ExitSettles
  BY DEF LaneInv
<1> QED BY <1>1, <1>2, <1>3, PTL DEF Spec
=============================================================================
