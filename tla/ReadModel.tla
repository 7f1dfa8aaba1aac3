------------------------------ MODULE ReadModel ------------------------------
(***************************************************************************)
(* What the server knows of one operation: the row of the operations read  *)
(* model, the decision trail and what the dashboard was told.              *)
(*                                                                         *)
(* Three writers meet on the row.  accept() starts the workflow and then   *)
(* registers the row (server/src/events/events.service.ts); the agent      *)
(* posts every decision, and record() appends it, projects it and pushes   *)
(* it (server/src/decision-log/decision-log.service.ts); complete()        *)
(* signals the workflow and then writes RELEASING.  Each of these awaits   *)
(* between its steps, so other requests run in between.                    *)
(*                                                                         *)
(* The workflow posts one decision at a time and waits for the answer, but *)
(* an attempt it has given up waiting for goes on in the server, where it  *)
(* meets the next attempt, the next decision or the next execution.        *)
(***************************************************************************)
EXTENDS Naturals, Sequences, FiniteSets

CONSTANTS
    Clients,        \* who submits the business event, any number of times
    EmitAttempts,   \* 3: maximum_attempts of _EMIT_RETRY
    Faults,         \* what may go wrong, see FaultKinds
    MaxRuns,        \* bound on executions
    MaxEmissions,   \* bound on decisions
    MaxRequests,    \* bound on decisions being recorded at the same time
    MaxFaults       \* bound on faults

\* timeout: the agent stops waiting for an attempt, which goes on in the server;
\* write:   a database call rejects, and record() or accept() with it;
\* restart: the server loses the requests it was working on.
FaultKinds == {"timeout", "write", "restart"}

ASSUME ReadModelAssumption ==
    /\ EmitAttempts \in Nat \ {0} /\ Faults \subseteq FaultKinds
    /\ MaxRuns \in Nat \ {0} /\ MaxEmissions \in Nat \ {0} /\ MaxRequests \in Nat \ {0}
    /\ MaxFaults \in Nat

VARIABLES
    \* Temporal and the workflow
    runs,        \* executions started so far
    running,     \* one of them is running
    place,       \* how far its decisions have got
    emitted,     \* every decision, in the order of occurredAt
    waiting,     \* attempt of the last one the workflow awaits, 0 for none
    acked,       \* decisions the workflow was told are recorded
    \* Requests in the server
    recording,   \* record(): [decision, attempt, at]
    accepting,   \* accept(), per client: "idle", or "register" with the workflow started
    completing,  \* complete() has signalled and not written yet
    \* The database and the dashboard
    trail,       \* decisions in the decision log
    row,         \* status of the operation, or "none"
    pushed,      \* how often each decision was pushed to the dashboard
    \* History
    faults       \* how many faults have happened

workflow == <<runs, running, place, emitted>>
server   == <<recording, accepting, completing>>
vars     == <<workflow, waiting, acked, server, trail, row, pushed, faults>>

Decisions == 1..MaxEmissions
Attempts  == 1..EmitAttempts
Statuses  == {"PENDING", "ASSESSING", "ALLOCATED", "MONITORING", "RELEASING", "COMPLETED"}

-----------------------------------------------------------------------------
(***************************************************************************)
(* The decisions of one execution, in the order in which run() emits them. *)
(***************************************************************************)

\* Place -> what is emitted next, with the part of it that the projection looks
\* at, and the place after it.  An operation that holds connectivity repeats
\* steps: DECIDED for a suspension, which is NONE when the device is away,
\* ALLOCATED for a late slice, DEVICE_CHECKED for a device that leaves.  FAILED,
\* which the server knows too, is emitted nowhere.
Script == [
    start     |-> {<<"DEVICE_CHECKED", "none", "refused">>, <<"DEVICE_CHECKED", "none", "reached">>},
    refused   |-> {<<"DECIDED", "NONE", "over">>},
    reached   |-> {<<"CONGESTION_CHECKED", "none", "surveyed">>},
    surveyed  |-> {<<"CRITICALITY_ASSESSED", "none", "assessed">>},
    assessed  |-> {<<"DECIDED", "NONE", "over">>, <<"DECIDED", "QOD", "granted">>},
    granted   |-> {<<"ALLOCATED", "none", "allocated">>},
    allocated |-> {<<"QOS_STATUS_CHANGED", "AVAILABLE", "held">>,
                   <<"QOS_STATUS_CHANGED", "UNAVAILABLE", "held">>,
                   <<"RELEASED", "none", "over">>},
    held      |-> {<<"DECIDED", "QOD", "held">>, <<"DECIDED", "NONE", "held">>,
                   <<"ALLOCATED", "none", "held">>, <<"DEVICE_CHECKED", "none", "held">>,
                   <<"RELEASED", "none", "over">>},
    over      |-> {}]

Places  == DOMAIN Script
Steps   == {"DEVICE_CHECKED", "CONGESTION_CHECKED", "CRITICALITY_ASSESSED", "DECIDED",
            "ALLOCATED", "QOS_STATUS_CHANGED", "RELEASED"}
Details == {"none", "NONE", "QOD", "AVAILABLE", "UNAVAILABLE"}

Emissions == [run : 1..MaxRuns, step : Steps, detail : Details]
Requests  == [decision : Decisions, attempt : Attempts, at : {"append", "project"}]

-----------------------------------------------------------------------------
(***************************************************************************)
(* What record() makes of a decision                                       *)
(***************************************************************************)

\* Mutant: the key the docstrings still describe, {runId}:{step}.
KeyOfStep(d) == <<emitted[d].run, emitted[d].step>>

\* idempotencyKeyFor(): run, step, and occurredAt, which is fixed when the
\* decision is emitted and grows from one to the next.
KeyOf(d) == <<emitted[d].run, emitted[d].step, d>>

\* Mutant: the QoS status itself is written to the row.
ProjectedQos(decision, status) ==
    CASE decision.step \in {"DEVICE_CHECKED", "CONGESTION_CHECKED", "CRITICALITY_ASSESSED"} -> "ASSESSING"
      [] decision.step = "DECIDED"   -> IF decision.detail = "NONE" THEN "COMPLETED" ELSE "ASSESSING"
      [] decision.step = "ALLOCATED" -> "ALLOCATED"
      [] decision.step = "RELEASED"  -> "COMPLETED"
      [] decision.step = "QOS_STATUS_CHANGED" -> decision.detail

\* The status a decision gives the row, or the one the row has.
Projected(decision, status) ==
    CASE decision.step \in {"DEVICE_CHECKED", "CONGESTION_CHECKED", "CRITICALITY_ASSESSED"} -> "ASSESSING"
      [] decision.step = "DECIDED"   -> IF decision.detail = "NONE" THEN "COMPLETED" ELSE "ASSESSING"
      [] decision.step = "ALLOCATED" -> "ALLOCATED"
      [] decision.step = "RELEASED"  -> "COMPLETED"
      [] decision.step = "QOS_STATUS_CHANGED" ->
            IF decision.detail = "AVAILABLE" THEN "MONITORING" ELSE status

\* Mutant: every DECIDED record counts.
CountedEvery == {d \in trail : emitted[d].step = "DECIDED"}

\* counts(): the decision that stands for the operation in the impact metrics is
\* the DECIDED record with the least occurredAt.
Counted == LET decided == {d \in trail : emitted[d].step = "DECIDED"}
           IN  {d \in decided : \A e \in decided : d <= e}

\* A fault of the given kind happens.
Fault(kind) == kind \in Faults /\ faults < MaxFaults /\ faults' = faults + 1

Init ==
    /\ runs = 0 /\ running = FALSE /\ place = "over" /\ emitted = <<>>
    /\ waiting = 0 /\ acked = {}
    /\ recording = {} /\ accepting = [c \in Clients |-> "idle"] /\ completing = FALSE
    /\ trail = {} /\ row = "none" /\ pushed = [d \in Decisions |-> 0]
    /\ faults = 0

-----------------------------------------------------------------------------
(***************************************************************************)
(* accept() and complete()                                                 *)
(***************************************************************************)

\* startOperation(): a running execution is adopted, a closed one is followed by
\* another of the same id.
Accept(c) ==
    /\ accepting[c] = "idle"
    /\ accepting' = [accepting EXCEPT ![c] = "register"]
    /\ \/ running /\ UNCHANGED workflow
       \/ /\ ~running /\ runs < MaxRuns
          /\ runs' = runs + 1 /\ running' = TRUE /\ place' = "start"
          /\ UNCHANGED emitted
    /\ UNCHANGED <<waiting, acked, recording, completing, trail, row, pushed, faults>>

\* register(): an upsert that leaves an existing row alone.
Register(c) ==
    /\ accepting[c] = "register"
    /\ accepting' = [accepting EXCEPT ![c] = "idle"]
    /\ row' = IF row = "none" THEN "PENDING" ELSE row
    /\ UNCHANGED <<workflow, waiting, acked, recording, completing, trail, pushed, faults>>

RegisterFails(c) ==
    /\ Fault("write")
    /\ accepting[c] = "register"
    /\ accepting' = [accepting EXCEPT ![c] = "idle"]
    /\ UNCHANGED <<workflow, waiting, acked, recording, completing, trail, row, pushed>>

\* A closed execution cannot be signalled; the request then ends with an error.
Complete ==
    /\ running /\ ~completing
    /\ completing' = TRUE
    /\ UNCHANGED <<workflow, waiting, acked, recording, accepting, trail, row, pushed, faults>>

CompletionProjected ==
    /\ completing
    /\ completing' = FALSE
    /\ row' = IF row = "none" THEN "none" ELSE "RELEASING"
    /\ UNCHANGED <<workflow, waiting, acked, recording, accepting, trail, pushed, faults>>

-----------------------------------------------------------------------------
(***************************************************************************)
(* The workflow                                                            *)
(***************************************************************************)

Request(d, n) == [decision |-> d, attempt |-> n, at |-> "append"]

Emit ==
    /\ running /\ waiting = 0
    /\ Len(emitted) < MaxEmissions
    /\ \E next \in Script[place] :
          /\ emitted' = Append(emitted, [run |-> runs, step |-> next[1], detail |-> next[2]])
          /\ place' = next[3]
    /\ waiting' = 1
    /\ recording' = recording \union {Request(Len(emitted'), 1)}
    /\ UNCHANGED <<runs, running, acked, accepting, completing, trail, row, pushed, faults>>

\* The execution closes: it has emitted its last decision, or an activity has
\* failed for good, which emits nothing.  No activity comes between a refusal or
\* an assessment and the DECIDED that follows.
Close ==
    /\ running /\ waiting = 0 /\ place \notin {"refused", "assessed"}
    /\ running' = FALSE
    /\ place' = "over"
    /\ UNCHANGED <<runs, emitted, waiting, acked, server, trail, row, pushed, faults>>

\* The last decision is the one being emitted; the request the workflow awaits.
Awaited(r) == waiting # 0 /\ r.decision = Len(emitted) /\ r.attempt = waiting

\* An attempt ends without an answer: _emit retries it, or gives the decision up.
Unanswered ==
    IF waiting < EmitAttempts
    THEN waiting' = waiting + 1 /\ recording' = recording \union {Request(Len(emitted), waiting')}
    ELSE waiting' = 0 /\ UNCHANGED recording

\* Nobody works on the request any more, or the agent's client stops waiting.
AttemptFails ==
    /\ waiting # 0
    /\ IF \E r \in recording : Awaited(r) THEN Fault("timeout") ELSE UNCHANGED faults
    /\ Cardinality(recording) < MaxRequests
    /\ Unanswered
    /\ UNCHANGED <<workflow, acked, accepting, completing, trail, row, pushed>>

-----------------------------------------------------------------------------
(***************************************************************************)
(* record(): append, then project and push, and answer                     *)
(***************************************************************************)

\* The request is answered; the workflow learns of it if it still waits for it.
Answer(r) ==
    /\ recording' = recording \ {r}
    /\ IF Awaited(r)
       THEN waiting' = 0 /\ acked' = acked \union {r.decision}
       ELSE UNCHANGED <<waiting, acked>>

\* Mutant: record() does not wait for the projection before it answers.
AppendedUnawaited(r) ==
    /\ trail' = trail \union {r.decision}
    /\ recording' = (recording \ {r}) \union {[r EXCEPT !.at = "project"]}
    /\ waiting' = 0 /\ acked' = acked \union {r.decision}

Appended(r) ==
    /\ trail' = trail \union {r.decision}
    /\ recording' = (recording \ {r}) \union {[r EXCEPT !.at = "project"]}
    /\ UNCHANGED <<waiting, acked>>

\* Mutant: a duplicate is projected and pushed like the first.
AppendRecordAnyway(r) ==
    /\ r.at = "append"
    /\ Appended(r)
    /\ UNCHANGED <<workflow, accepting, completing, row, pushed, faults>>

\* The unique index decides; a duplicate is answered without projecting it.
AppendRecord(r) ==
    /\ r.at = "append"
    /\ IF \E d \in trail : KeyOf(d) = KeyOf(r.decision)
       THEN Answer(r) /\ UNCHANGED trail
       ELSE Appended(r)
    /\ UNCHANGED <<workflow, accepting, completing, row, pushed, faults>>

\* applyIfPresent(): without a row there is nothing to project on.  The push is a
\* write to local sockets, and nothing but a restart comes between.
ProjectAndPush(r) ==
    /\ r.at = "project"
    /\ row' = IF row = "none" THEN "none" ELSE Projected(emitted[r.decision], row)
    /\ pushed' = [pushed EXCEPT ![r.decision] = @ + 1]
    /\ Answer(r)
    /\ UNCHANGED <<workflow, accepting, completing, trail, faults>>

\* The append or the projection rejects, and the request is answered with an error.
RecordFails(r) ==
    /\ Fault("write")
    /\ recording' = recording \ {r}
    /\ UNCHANGED <<workflow, waiting, acked, accepting, completing, trail, row, pushed>>

Restart ==
    /\ Fault("restart")
    /\ recording' = {} /\ completing' = FALSE
    /\ accepting' = [c \in Clients |-> "idle"]
    /\ UNCHANGED <<workflow, waiting, acked, trail, row, pushed>>

Recording == \E r \in recording : AppendRecord(r) \/ ProjectAndPush(r) \/ RecordFails(r)

Next ==
    \/ \E c \in Clients : Accept(c) \/ Register(c) \/ RegisterFails(c)
    \/ Complete \/ CompletionProjected
    \/ Emit \/ Close \/ AttemptFails
    \/ Recording
    \/ Restart

Spec == Init /\ [][Next]_vars

-----------------------------------------------------------------------------
(***************************************************************************)
(* Properties                                                              *)
(***************************************************************************)

\* The variables have their types; the dashboard has a status for every row.
TypeOK ==
    /\ runs \in 0..MaxRuns /\ running \in BOOLEAN /\ place \in Places
    /\ emitted \in Seq(Emissions)
    /\ Len(emitted) <= MaxEmissions
    /\ waiting \in 0..EmitAttempts /\ acked \subseteq Decisions
    /\ recording \subseteq Requests
    /\ accepting \in [Clients -> {"idle", "register"}] /\ completing \in BOOLEAN
    /\ trail \subseteq Decisions /\ row \in Statuses \union {"none"}
    /\ pushed \in [Decisions -> Nat] /\ faults \in 0..MaxFaults

\* Whatever the workflow was told is recorded is in the trail: no genuine
\* decision is taken for a repetition of another, in whatever order attempts,
\* executions and restarts meet.  This is what the comment on the idempotency
\* key in record() is about.
AckedIsRecorded == acked \subseteq trail

\* The dashboard is told of a decision at most once, and only of decisions that
\* are in the trail, however many attempts of it are at work in the server.
ToldOnce ==
    \A d \in Decisions : pushed[d] <= 1 /\ (pushed[d] = 1 => d \in trail)

\* Once the first decision of the operation is known to be recorded, it and
\* nothing else stands for the operation in the impact metrics: neither later
\* decisions of the same execution nor those of a later execution change it.
FirstDecision == {d \in 1..Len(emitted) :
                    /\ emitted[d].step = "DECIDED"
                    /\ \A e \in 1..(d - 1) : emitted[e].step # "DECIDED"}
CountedOnce == \A d \in FirstDecision \intersect acked : Counted = {d}

\* The last decision that carries a status.
Carrying == {d \in 1..Len(emitted) : emitted[d].step = "QOS_STATUS_CHANGED"
                                        => emitted[d].detail = "AVAILABLE"}
Latest   == {d \in Carrying : \A e \in Carrying : e <= d}

\* As long as nothing has failed, a row that nobody is about to write shows the
\* latest decision, unless it was registered after it or the completion came
\* later: decisions never overtake each other on the way to the row, across
\* executions too.
RowIsCurrent ==
    (faults = 0 /\ recording = {} /\ row \notin {"none", "PENDING", "RELEASING"})
        => \A d \in Latest : row = Projected(emitted[d], row)

\* What the comment on DecisionLogService says it does per event: append it,
\* project it and push it.  A decision the workflow was told is recorded has been
\* through all three.
AckedIsPushed == \A d \in acked : pushed[d] = 1

\* toOperationPatch: "A decision of NONE is terminal: nothing was allocated, so
\* there is nothing to monitor or release."  An operation whose row is COMPLETED
\* holds nothing.
CompletedHoldsNothing ==
    (faults = 0 /\ recording = {} /\ row = "COMPLETED") => place \notin {"allocated", "held"}

=============================================================================
