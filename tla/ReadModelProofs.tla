--------------------------- MODULE ReadModelProofs ---------------------------
(***************************************************************************)
(* What holds of the decision trail, the dashboard and the metrics for any *)
(* number of clients, attempts, executions and decisions, and under any    *)
(* faults.                                                                 *)
(***************************************************************************)
EXTENDS ReadModel, TLAPS

LEMMA ScriptIsTyped ==
    ASSUME NEW p \in Places, NEW next \in Script[p]
    PROVE  next[1] \in Steps /\ next[2] \in Details /\ next[3] \in Places
BY DEF Places, Script, Steps, Details

LEMMA ProjectedIsTyped ==
    ASSUME NEW d \in Emissions, NEW status \in Statuses
    PROVE  Projected(d, status) \in Statuses
BY DEF Emissions, Steps, Projected, Statuses

\* A decision's key names it, because occurredAt does.
LEMMA KeysAreApart ==
    ASSUME NEW d, NEW e, KeyOf(d) = KeyOf(e)
    PROVE  d = e
BY DEF KeyOf

-----------------------------------------------------------------------------
(***************************************************************************)
(* Type correctness                                                        *)
(***************************************************************************)

\* An execution that runs was started, one that awaits an answer has decided, and
\* what is being recorded was decided.
Typed ==
    /\ TypeOK
    /\ running => runs # 0
    /\ waiting # 0 => Len(emitted) # 0
    /\ \A r \in recording : r.decision \in 1..Len(emitted)

LEMMA AnswerIsTyped ==
    ASSUME Typed, NEW r \in recording, Answer(r)
    PROVE  /\ recording' \subseteq recording
           /\ waiting' \in {0, waiting}
           /\ acked' \subseteq acked \union {r.decision}
BY DEF Answer

LEMMA TypedInit == Init => Typed
<1> SUFFICES ASSUME Init PROVE Typed
  OBVIOUS
<1> USE ReadModelAssumption DEF Init
<1>1. "over" \in Places
  BY DEF Places, Script
<1>2. emitted \in Seq(Emissions) /\ Len(emitted) = 0
  OBVIOUS
<1>3. pushed \in [Decisions -> Nat]
  OBVIOUS
<1>4. accepting \in [Clients -> {"idle", "register"}]
  OBVIOUS
<1>5. runs \in 0..MaxRuns /\ waiting \in 0..EmitAttempts /\ faults \in 0..MaxFaults
  OBVIOUS
<1>6. TypeOK
  <2>1. Len(emitted) <= MaxEmissions
    BY <1>2
  <2>2. running \in BOOLEAN /\ completing \in BOOLEAN /\ place \in Places
    BY <1>1
  <2>3. recording \subseteq Requests /\ acked \subseteq Decisions /\ trail \subseteq Decisions
    OBVIOUS
  <2> QED BY <1>2, <1>3, <1>4, <1>5, <2>1, <2>2, <2>3 DEF TypeOK
<1> QED BY <1>6 DEF Typed

LEMMA RecordingIsTyped ==
    ASSUME Typed, NEW r \in recording,
           AppendRecord(r) \/ ProjectAndPush(r) \/ RecordFails(r)
    PROVE  Typed'
<1> USE ReadModelAssumption DEF Typed, TypeOK
<1>1. r \in Requests /\ [r EXCEPT !.at = "project"] \in Requests
  BY DEF Requests
<1>2. [r EXCEPT !.at = "project"].decision = r.decision /\ r.decision \in Decisions
  BY DEF Requests
<1>3. CASE AppendRecord(r)
  <2>1. CASE Appended(r)
    BY <1>1, <1>2, <1>3, <2>1 DEF AppendRecord, Appended, workflow
  <2>2. CASE Answer(r) /\ UNCHANGED trail
    <3>1. /\ recording' \subseteq recording
          /\ waiting' \in {0, waiting}
          /\ acked' \subseteq acked \union {r.decision}
      BY <2>2, AnswerIsTyped
    <3> QED BY <1>2, <1>3, <2>2, <3>1 DEF AppendRecord, workflow
  <2> QED BY <1>3, <2>1, <2>2 DEF AppendRecord
<1>4. CASE ProjectAndPush(r)
  <2>1. emitted[r.decision] \in Emissions
    OBVIOUS
  <2>2. row' \in Statuses \union {"none"}
    BY <1>4, <2>1, ProjectedIsTyped DEF ProjectAndPush
  <2>3. /\ recording' \subseteq recording
        /\ waiting' \in {0, waiting}
        /\ acked' \subseteq acked \union {r.decision}
    BY <1>4, AnswerIsTyped DEF ProjectAndPush
  <2>4. pushed' \in [Decisions -> Nat]
    BY <1>2, <1>4 DEF ProjectAndPush
  <2> QED BY <1>2, <1>4, <2>2, <2>3, <2>4 DEF ProjectAndPush, workflow
<1>5. CASE RecordFails(r)
  <2>1. faults' \in 0..MaxFaults
    BY <1>5 DEF RecordFails, Fault
  <2> QED BY <1>5, <2>1 DEF RecordFails, workflow
<1> QED BY <1>3, <1>4, <1>5

LEMMA EmitIsTyped == ASSUME Typed, Emit PROVE Typed'
<1> USE ReadModelAssumption DEF Typed, TypeOK
<1>1. PICK next \in Script[place] :
         /\ emitted' = Append(emitted, [run |-> runs, step |-> next[1], detail |-> next[2]])
         /\ place' = next[3]
  BY DEF Emit
<1>2. [run |-> runs, step |-> next[1], detail |-> next[2]] \in Emissions
  BY ScriptIsTyped DEF Emissions, Emit
<1>3. emitted' \in Seq(Emissions) /\ Len(emitted') = Len(emitted) + 1
  BY <1>1, <1>2
<1>4. Len(emitted') \in Decisions /\ 1 \in Attempts
  BY <1>3 DEF Emit, Decisions, Attempts
<1>5. recording' \subseteq Requests
  BY <1>4 DEF Emit, Request, Requests
<1>6. \A r \in recording' : r.decision \in 1..Len(emitted')
  BY <1>3 DEF Emit, Request
<1> QED BY <1>1, <1>3, <1>4, <1>5, <1>6, ScriptIsTyped DEF Emit, Attempts

LEMMA AttemptFailsIsTyped == ASSUME Typed, AttemptFails PROVE Typed'
<1> USE ReadModelAssumption DEF Typed, TypeOK
<1>1. faults' \in 0..MaxFaults
  BY DEF AttemptFails, Fault
<1>2. CASE waiting < EmitAttempts
  <2>1. Len(emitted) \in Decisions /\ waiting + 1 \in Attempts
    BY <1>2 DEF AttemptFails, Decisions, Attempts
  <2>2. recording' = recording \union {Request(Len(emitted), waiting + 1)} /\ waiting' = waiting + 1
    BY <1>2 DEF AttemptFails, Unanswered
  <2> QED BY <1>1, <1>2, <2>1, <2>2 DEF AttemptFails, Request, Requests, workflow, Attempts
<1>3. CASE ~(waiting < EmitAttempts)
  BY <1>1, <1>3 DEF AttemptFails, Unanswered, workflow
<1> QED BY <1>2, <1>3

LEMMA TypedStep == ASSUME Typed, [Next]_vars PROVE Typed'
<1> USE ReadModelAssumption DEF Typed, TypeOK
<1>1. ASSUME NEW c \in Clients, Accept(c) \/ Register(c) \/ RegisterFails(c) PROVE Typed'
  <2>1. CASE Accept(c)
    <3>1. "start" \in Places
      BY DEF Places, Script
    <3>2. accepting' \in [Clients -> {"idle", "register"}]
      BY <2>1 DEF Accept
    <3>3. /\ runs' \in 0..MaxRuns /\ running' \in BOOLEAN /\ place' \in Places
          /\ running' => runs' # 0
      <4>1. CASE running /\ UNCHANGED workflow
        BY <4>1 DEF workflow
      <4>2. CASE ~running /\ runs < MaxRuns /\ runs' = runs + 1 /\ running' = TRUE /\ place' = "start"
        BY <4>2, <3>1
      <4> QED BY <2>1, <4>1, <4>2 DEF Accept
    <3>4. UNCHANGED <<emitted, waiting, acked, recording, completing, trail, row, pushed, faults>>
      BY <2>1 DEF Accept, workflow
    <3> QED BY <3>2, <3>3, <3>4
  <2>2. CASE Register(c)
    BY <2>2 DEF Register, workflow, Statuses
  <2>3. CASE RegisterFails(c)
    BY <2>3 DEF RegisterFails, Fault, workflow
  <2> QED BY <1>1, <2>1, <2>2, <2>3
<1>2. CASE Complete
  BY <1>2 DEF Complete, workflow
<1>9. CASE CompletionProjected
  <2>1. row' \in Statuses \union {"none"}
    BY <1>9 DEF CompletionProjected, Statuses
  <2> QED BY <1>9, <2>1 DEF CompletionProjected, workflow
<1>3. CASE Emit
  BY <1>3, EmitIsTyped
<1>4. CASE Close
  <2>1. "over" \in Places
    BY DEF Places, Script
  <2> QED BY <1>4, <2>1 DEF Close, server
<1>5. CASE AttemptFails
  BY <1>5, AttemptFailsIsTyped
<1>6. CASE Recording
  BY <1>6, RecordingIsTyped DEF Recording
<1>7. CASE Restart
  <2>1. faults' \in 0..MaxFaults
    BY <1>7 DEF Restart, Fault
  <2> QED BY <1>7, <2>1 DEF Restart, workflow
<1>8. CASE UNCHANGED vars
  BY <1>8 DEF vars, workflow, server
<1> QED BY <1>1, <1>2, <1>3, <1>4, <1>5, <1>6, <1>7, <1>8, <1>9 DEF Next

\* TypeOK: the row is always a status, and no more is decided, attempted or
\* started than the bounds allow.
THEOREM TypeCorrect == Spec => []TypeOK
<1>1. Spec => []Typed
  BY TypedInit, TypedStep, PTL DEF Spec
<1>2. Typed => TypeOK
  BY DEF Typed
<1> QED BY <1>1, <1>2, PTL

-----------------------------------------------------------------------------
(***************************************************************************)
(* The trail, the dashboard and the metrics.  That a decision is told once *)
(* is not inductive: the request that is about to tell it must be the only *)
(* one, and must not have told it yet.                                     *)
(***************************************************************************)

Tracked ==
    /\ trail \subseteq 1..Len(emitted)
    /\ acked \subseteq trail
    /\ ToldOnce
    /\ \A r \in recording : r.at = "project" => r.decision \in trail /\ pushed[r.decision] = 0
    /\ \A r, q \in recording : (r.at = "project" /\ q.at = "project" /\ r.decision = q.decision)
                                => r = q

LEMMA TrackedInit == Init => Tracked
BY DEF Init, Tracked, ToldOnce

LEMMA AppendIsTracked ==
    ASSUME Typed, Tracked, NEW r \in recording, AppendRecord(r)
    PROVE  Tracked'
<1> DEFINE next == [r EXCEPT !.at = "project"]
<1>1. r \in Requests /\ r.decision \in 1..Len(emitted) /\ r.decision \in Decisions
  BY DEF Typed, TypeOK, Requests
<1>2. next.decision = r.decision /\ next.at = "project"
  BY <1>1 DEF Requests
<1>3. UNCHANGED <<emitted, pushed>>
  BY DEF AppendRecord, workflow
<1>4. CASE Answer(r) /\ UNCHANGED trail /\ \E d \in trail : KeyOf(d) = KeyOf(r.decision)
  <2>1. r.decision \in trail
    BY <1>4, KeysAreApart
  <2>2. acked' \subseteq acked \union {r.decision} /\ recording' \subseteq recording
    BY <1>4 DEF Answer
  <2> QED BY <1>3, <1>4, <2>1, <2>2 DEF Tracked, ToldOnce
<1>5. CASE Appended(r) /\ ~\E d \in trail : KeyOf(d) = KeyOf(r.decision)
  <2>1. r.decision \notin trail
    BY <1>5
  <2>2. /\ trail' = trail \union {r.decision} /\ acked' = acked
        /\ recording' = (recording \ {r}) \union {next}
    BY <1>5 DEF Appended
  <2>3. pushed[r.decision] = 0
    BY <1>1, <2>1 DEF Tracked, ToldOnce, Typed, TypeOK
  <2>4. \A q \in recording : q.at = "project" => q.decision # r.decision
    BY <2>1 DEF Tracked
  <2> QED BY <1>1, <1>2, <1>3, <2>2, <2>3, <2>4 DEF Tracked, ToldOnce
<1> QED BY <1>4, <1>5 DEF AppendRecord

LEMMA PushIsTracked ==
    ASSUME Typed, Tracked, NEW r \in recording, ProjectAndPush(r)
    PROVE  Tracked'
<1>1. r.decision \in trail /\ pushed[r.decision] = 0 /\ r.decision \in Decisions
  BY DEF ProjectAndPush, Tracked, Typed, TypeOK, Requests
<1>2. acked' \subseteq acked \union {r.decision} /\ recording' = recording \ {r}
  BY DEF ProjectAndPush, Answer
<1>3. pushed' = [pushed EXCEPT ![r.decision] = 1] /\ UNCHANGED <<trail, emitted>>
  BY <1>1 DEF ProjectAndPush, workflow
<1>4. ToldOnce'
  BY <1>1, <1>3 DEF Tracked, ToldOnce, Typed, TypeOK
<1>5. \A q \in recording' : q.at = "project" => q.decision # r.decision
  BY <1>2 DEF ProjectAndPush, Tracked
<1>6. \A q \in recording' : q.at = "project" => pushed'[q.decision] = 0
  BY <1>2, <1>3, <1>5 DEF Tracked, Typed, TypeOK, Requests
<1> QED BY <1>1, <1>2, <1>3, <1>4, <1>6 DEF Tracked

LEMMA EmitIsTracked == ASSUME Typed, Tracked, Emit PROVE Tracked'
<1>1. Len(emitted') = Len(emitted) + 1 /\ Len(emitted) \in Nat
  BY DEF Emit, Typed, TypeOK
<1>2. recording' = recording \union {Request(Len(emitted'), 1)} /\ UNCHANGED <<trail, acked, pushed>>
  BY DEF Emit
<1>3. trail \subseteq 1..Len(emitted')
  BY <1>1 DEF Tracked
<1> QED BY <1>2, <1>3 DEF Tracked, ToldOnce, Request

LEMMA AttemptFailsIsTracked == ASSUME Typed, Tracked, AttemptFails PROVE Tracked'
<1>1. \/ recording' = recording
      \/ recording' = recording \union {Request(Len(emitted), waiting')}
  BY DEF AttemptFails, Unanswered
<1>2. UNCHANGED <<emitted, trail, acked, pushed>>
  BY DEF AttemptFails, workflow
<1> QED BY <1>1, <1>2 DEF Tracked, ToldOnce, Request

LEMMA TrackedStep == ASSUME Typed, Tracked, [Next]_vars PROVE Tracked'
<1>1. ASSUME NEW c \in Clients, Accept(c) \/ Register(c) \/ RegisterFails(c) PROVE Tracked'
  BY <1>1 DEF Accept, Register, RegisterFails, workflow, Tracked, ToldOnce
<1>2. CASE Complete \/ CompletionProjected \/ Close
  BY <1>2 DEF Complete, CompletionProjected, Close, workflow, server, Tracked, ToldOnce
<1>3. CASE Emit
  BY <1>3, EmitIsTracked
<1>4. CASE AttemptFails
  BY <1>4, AttemptFailsIsTracked
<1>5. CASE Recording
  <2>1. PICK r \in recording : AppendRecord(r) \/ ProjectAndPush(r) \/ RecordFails(r)
    BY <1>5 DEF Recording
  <2>2. CASE RecordFails(r)
    BY <2>2 DEF RecordFails, workflow, Tracked, ToldOnce
  <2> QED BY <2>1, <2>2, AppendIsTracked, PushIsTracked
<1>6. CASE Restart
  BY <1>6 DEF Restart, workflow, Tracked, ToldOnce
<1>7. CASE UNCHANGED vars
  BY <1>7 DEF vars, workflow, server, Tracked, ToldOnce
<1> QED BY <1>1, <1>2, <1>3, <1>4, <1>5, <1>6, <1>7 DEF Next

LEMMA TrackedAlways == Spec => [](Typed /\ Tracked)
BY TypedInit, TypedStep, TrackedInit, TrackedStep, PTL DEF Spec

\* AckedIsRecorded: no genuine decision is ever taken for a repetition, whatever
\* is delayed, repeated or lost.
THEOREM NothingIsDiscarded == Spec => []AckedIsRecorded
<1>1. Tracked => AckedIsRecorded
  BY DEF Tracked, AckedIsRecorded
<1> QED BY <1>1, TrackedAlways, PTL

\* ToldOnce: the dashboard is told of a decision at most once, and only of
\* recorded ones, however many attempts of it the server works on.
THEOREM DashboardIsToldOnce == Spec => []ToldOnce
<1>1. Tracked => ToldOnce
  BY DEF Tracked
<1> QED BY <1>1, TrackedAlways, PTL

\* CountedOnce: the first decision, once known to be recorded, stands alone for
\* the operation in the impact metrics.
THEOREM OperationIsCountedOnce == Spec => []CountedOnce
<1>1. ASSUME Typed, Tracked PROVE CountedOnce
  <2>1. SUFFICES ASSUME NEW d \in FirstDecision \intersect acked PROVE Counted = {d}
    BY DEF CountedOnce
  <2>2. /\ d \in 1..Len(emitted) /\ d \in trail /\ emitted[d].step = "DECIDED"
        /\ \A e \in 1..(d - 1) : emitted[e].step # "DECIDED"
    BY <1>1, <2>1 DEF FirstDecision, Tracked
  <2>3. Len(emitted) \in Nat /\ trail \subseteq 1..Len(emitted)
    BY <1>1 DEF Typed, TypeOK, Tracked
  <2>4. \A e \in trail : emitted[e].step = "DECIDED" => d <= e
    BY <2>2, <2>3
  <2>5. d \in Counted
    BY <2>2, <2>4 DEF Counted
  <2>6. ASSUME NEW e \in Counted PROVE e = d
    <3>1. e \in trail /\ e <= d /\ d <= e
      BY <2>2, <2>4 DEF Counted
    <3> QED BY <2>2, <2>3, <3>1
  <2> QED BY <2>5, <2>6
<1> QED BY <1>1, TrackedAlways, PTL

-----------------------------------------------------------------------------
(***************************************************************************)
(* The row.  Without faults at most one decision is being recorded, the    *)
(* one the workflow awaits, and the row shows the one before it.           *)
(***************************************************************************)

Special  == {"none", "PENDING", "RELEASING"}

\* The decisions that have been through the server, when only the last may not.
Settled == IF recording = {} THEN Len(emitted) ELSE Len(emitted) - 1

\* Latest among the first n decisions.
LatestTo(n) == {d \in Carrying : d <= n /\ \A e \in Carrying : e <= n => e <= d}

RowShows(n) == row \notin Special => \A d \in LatestTo(n) : row = Projected(emitted[d], row)

InStep ==
    faults = 0 =>
        /\ \A r \in recording : Awaited(r) /\ (r.at = "append" => r.decision \notin trail)
        /\ \A r, q \in recording : r = q
        /\ waiting # 0 => recording # {}
        /\ RowShows(Settled)

LEMMA InStepInit == Init => InStep
BY DEF Init, InStep, RowShows, Special

\* What a decision that carries a status makes of the row does not depend on the
\* row; any other leaves the row as it is.
LEMMA ProjectedCarrying ==
    ASSUME NEW d \in Carrying, emitted \in Seq(Emissions), NEW s, NEW t
    PROVE  Projected(emitted[d], s) = Projected(emitted[d], t)
BY DEF Carrying, Projected, Emissions, Steps

LEMMA ProjectedNotCarrying ==
    ASSUME NEW d \in 1..Len(emitted), d \notin Carrying, NEW s
    PROVE  Projected(emitted[d], s) = s
BY DEF Carrying, Projected

\* A new decision changes nothing about the ones before it.
LEMMA RowShowsStill ==
    ASSUME NEW CONSTANT n \in Nat, emitted \in Seq(Emissions), n = Len(emitted),
           NEW e, emitted' = Append(emitted, e), row' = row, RowShows(n)
    PROVE  RowShows(n)'
<1>1. /\ Len(emitted') = n + 1
      /\ \A d \in 1..n : emitted'[d] = emitted[d]
  OBVIOUS
<1>2. \A d \in 1..n : d \in Carrying' <=> d \in Carrying
  BY <1>1 DEF Carrying
<1>3. Carrying \subseteq 1..n /\ Carrying' \subseteq 1..(n + 1)
  BY <1>1 DEF Carrying
<1>4. \A d : d \in LatestTo(n)' <=> d \in LatestTo(n)
  <2>1. ASSUME NEW d \in LatestTo(n)' PROVE d \in LatestTo(n)
    BY <2>1, <1>2, <1>3 DEF LatestTo
  <2>2. ASSUME NEW d \in LatestTo(n) PROVE d \in LatestTo(n)'
    BY <2>2, <1>2, <1>3 DEF LatestTo
  <2> QED BY <2>1, <2>2
<1>5. \A d \in LatestTo(n) : emitted'[d] = emitted[d]
  BY <1>1, <1>3 DEF LatestTo
<1> QED BY <1>4, <1>5 DEF RowShows, Projected

LEMMA EmitInStep == ASSUME Typed, Tracked, InStep, Emit PROVE InStep'
<1> SUFFICES ASSUME faults = 0 PROVE InStep'
  BY DEF Emit, InStep
<1>1. recording = {}
  BY DEF Emit, InStep, Awaited
<1>2. PICK e \in Emissions : emitted' = Append(emitted, e)
  <2>1. place \in Places /\ runs \in 1..MaxRuns
    BY ReadModelAssumption DEF Emit, Typed, TypeOK
  <2>2. PICK next \in Script[place] :
           emitted' = Append(emitted, [run |-> runs, step |-> next[1], detail |-> next[2]])
    BY DEF Emit
  <2> QED BY <2>1, <2>2, ScriptIsTyped DEF Emissions
<1>3. /\ Len(emitted') = Len(emitted) + 1 /\ Len(emitted) \in Nat
      /\ \A d \in 1..Len(emitted) : emitted'[d] = emitted[d]
  BY <1>2 DEF Typed, TypeOK
<1>4. /\ recording' = {Request(Len(emitted'), 1)} /\ waiting' = 1
      /\ UNCHANGED <<trail, row, faults>>
  BY <1>1 DEF Emit
<1>5. Len(emitted') \notin trail
  BY <1>3 DEF Tracked
<1>6. Settled = Len(emitted) /\ Settled' = Len(emitted)
  BY <1>1, <1>3, <1>4 DEF Settled
<1>7. ASSUME NEW CONSTANT n \in Nat, n = Len(emitted) PROVE RowShows(n)'
  BY <1>2, <1>4, <1>6, <1>7, RowShowsStill DEF InStep, Typed, TypeOK
<1>8. RowShows(Settled)'
  BY <1>3, <1>6, <1>7 DEF RowShows
<1> QED BY <1>3, <1>4, <1>5, <1>8 DEF InStep, Awaited, Request

LEMMA AppendInStep ==
    ASSUME Typed, Tracked, InStep, NEW r \in recording, AppendRecord(r)
    PROVE  InStep'
<1> DEFINE next == [r EXCEPT !.at = "project"]
<1> SUFFICES ASSUME faults = 0 PROVE InStep'
  BY DEF AppendRecord, InStep
<1>1. recording = {r} /\ Awaited(r) /\ r.decision \notin trail
  BY DEF InStep, AppendRecord
<1>2. /\ next.decision = r.decision /\ next.attempt = r.attempt /\ next.at = "project"
  BY DEF Typed, TypeOK, Requests
<1>3. Appended(r) /\ UNCHANGED <<emitted, row, faults>>
  BY <1>1, KeysAreApart DEF AppendRecord, workflow
<1>4. recording' = {next} /\ UNCHANGED waiting
  BY <1>1, <1>3 DEF Appended
<1>5. RowShows(Settled)'
  BY <1>1, <1>3, <1>4 DEF InStep, RowShows, Settled, LatestTo, Carrying
<1> QED BY <1>1, <1>2, <1>3, <1>4, <1>5 DEF InStep, Awaited

LEMMA PushInStep ==
    ASSUME Typed, Tracked, InStep, NEW r \in recording, ProjectAndPush(r)
    PROVE  InStep'
<1> SUFFICES ASSUME faults = 0 PROVE InStep'
  BY DEF ProjectAndPush, InStep
<1>1. recording = {r} /\ Awaited(r) /\ RowShows(Settled)
  BY DEF InStep
<1>2. recording' = {} /\ waiting' = 0 /\ UNCHANGED <<emitted, faults>>
  BY <1>1 DEF ProjectAndPush, Answer, workflow
<1>3. /\ r.decision = Len(emitted) /\ Settled = Len(emitted) - 1 /\ Settled' = Len(emitted)
      /\ Len(emitted) \in 1..Len(emitted) /\ Len(emitted) \in Nat
  BY <1>1, <1>2 DEF Awaited, Settled, Typed, TypeOK
<1>4. Carrying' = Carrying /\ Carrying \subseteq 1..Len(emitted)
  BY <1>2 DEF Carrying
<1>5. RowShows(Settled)'
  <2>1. SUFFICES ASSUME row' \notin Special,
                        NEW d \in Carrying, \A e \in Carrying : e <= d
                 PROVE  row' = Projected(emitted[d], row')
    BY <1>2, <1>3, <1>4 DEF RowShows, LatestTo
  <2>2. row' = Projected(emitted[Len(emitted)], row)
    BY <1>3, <2>1 DEF ProjectAndPush, Special
  <2>3. CASE Len(emitted) \in Carrying
    <3>1. d = Len(emitted)
      BY <1>3, <1>4, <2>1, <2>3
    <3> QED BY <2>2, <2>3, <3>1, ProjectedCarrying DEF Typed, TypeOK
  <2>4. CASE Len(emitted) \notin Carrying
    <3>1. row' = row
      BY <1>3, <2>2, <2>4, ProjectedNotCarrying
    <3>2. d \in LatestTo(Len(emitted) - 1)
      BY <1>3, <1>4, <2>1, <2>4 DEF LatestTo
    <3> QED BY <1>1, <1>3, <2>1, <3>1, <3>2 DEF RowShows
  <2> QED BY <2>3, <2>4
<1> QED BY <1>2, <1>5 DEF InStep

\* A row written by somebody else becomes special or stays.
LEMMA RowElsewhere ==
    ASSUME InStep, UNCHANGED <<emitted, waiting, recording, trail>>,
           faults' = 0 => faults = 0, row' \in Special \union {row}
    PROVE  InStep'
BY DEF InStep, RowShows, Settled, LatestTo, Carrying, Awaited

LEMMA InStepNext == ASSUME Typed, Tracked, InStep, [Next]_vars PROVE InStep'
<1>1. ASSUME NEW c \in Clients, Accept(c) \/ Register(c) \/ RegisterFails(c) PROVE InStep'
  BY <1>1, RowElsewhere DEF Accept, Register, RegisterFails, Fault, workflow, Special, Typed, TypeOK
<1>2. CASE Complete \/ CompletionProjected \/ Close
  BY <1>2, RowElsewhere DEF Complete, CompletionProjected, Close, workflow, server, Special
<1>3. CASE Emit
  BY <1>3, EmitInStep
<1>4. CASE AttemptFails
  <2>1. ASSUME faults' = 0 PROVE FALSE
    <3>1. faults = 0 /\ ~\E r \in recording : Awaited(r)
      BY <1>4, <2>1 DEF AttemptFails, Fault, Typed, TypeOK
    <3> QED BY <1>4, <3>1 DEF AttemptFails, InStep
  <2> QED BY <2>1 DEF InStep
<1>5. CASE Recording
  <2>1. PICK r \in recording : AppendRecord(r) \/ ProjectAndPush(r) \/ RecordFails(r)
    BY <1>5 DEF Recording
  <2>2. CASE RecordFails(r)
    BY <2>2 DEF RecordFails, Fault, InStep, Typed, TypeOK
  <2> QED BY <2>1, <2>2, AppendInStep, PushInStep
<1>6. CASE Restart
  BY <1>6 DEF Restart, Fault, InStep, Typed, TypeOK
<1>7. CASE UNCHANGED vars
  BY <1>7, RowElsewhere DEF vars, workflow, server
<1> QED BY <1>1, <1>2, <1>3, <1>4, <1>5, <1>6, <1>7 DEF Next

\* RowIsCurrent: as long as nothing has failed, decisions do not overtake each
\* other on the way to the row.
THEOREM RowFollowsDecisions == Spec => []RowIsCurrent
<1>1. ASSUME Typed, InStep PROVE RowIsCurrent
  <2>1. Len(emitted) \in Nat
    BY <1>1 DEF Typed, TypeOK
  <2>2. Latest \subseteq LatestTo(Len(emitted))
    BY <2>1 DEF Latest, LatestTo, Carrying
  <2> QED BY <1>1, <2>2 DEF InStep, RowShows, Settled, RowIsCurrent, Special
<1>2. Spec => []InStep
  BY TrackedAlways, InStepInit, InStepNext, PTL DEF Spec
<1> QED BY <1>1, <1>2, TrackedAlways, PTL
=============================================================================
