------------------------------ MODULE Assessment ------------------------------
(***************************************************************************)
(* The assessment activity: the reasoning graph of one operation, with its  *)
(* toolbox, its trace sink and the page that watches it.                    *)
(*                                                                         *)
(* An attempt of the activity runs the graph from the start.  When Temporal *)
(* gives an attempt up (start_to_close) the attempt goes on in the worker,  *)
(* beside the next one; only the answer of the latest attempt counts.       *)
(* Every node and every tool call posts an event when it starts and when it *)
(* ends; the server relays the event, and an open page keeps it.            *)
(***************************************************************************)
EXTENDS Naturals, Sequences, FiniteSets

CONSTANTS
    Tools,          \* the read tools the model may name
    MaxToolCalls,   \* 3: max_tool_calls of the gatherer
    MaxAttempts,    \* 3: max_attempts of the graph
    Escalation,     \* a fallback model is configured
    MaxTries,       \* 2: maximum_attempts of _REASONING_RETRY
    JoinBy,         \* bound: a page is opened before this many events were posted
    Faults,         \* "raise", "timeout", "post": what may go wrong
    MaxFaults       \* bound: of them, how often

ASSUME AssessmentAssumption ==
    /\ MaxToolCalls \in Nat /\ JoinBy \in Nat /\ MaxFaults \in Nat /\ MaxAttempts \in Nat \ {0} /\ MaxTries \in Nat \ {0}
    /\ Escalation \in BOOLEAN /\ "verify_device_location" \in Tools

VARIABLES
    tries,     \* the latest attempt of the activity
    run,       \* run[a]: the graph state of attempt a
    outcome,   \* None, the judgement returned, or Failed
    judge,     \* the attempt whose answer was taken, 0 for none
    watching,  \* a page of this operation is open
    stream     \* the events the page keeps

vars == <<tries, run, outcome, judge, watching, stream>>

Attempts == 1..MaxTries
Recorded == judge # 0
Criticalities == {"LOW", "MEDIUM", "HIGH"}
Verdicts == [criticality : Criticalities, safety : BOOLEAN, confident : BOOLEAN]
Results  == {"confirmed", "contradicted", "unavailable", "answer"}
None   == [criticality |-> "none",   safety |-> FALSE]
Failed == [criticality |-> "failed", safety |-> FALSE]
NoVerdict == [criticality |-> "MEDIUM", safety |-> FALSE, confident |-> FALSE]

\* Where a graph can be: in front of a node, inside it, or between tool calls.
Places == {"idle", "classify", "classifying", "gather", "choosing", "calling", "tool",
           "escalate", "escalating", "validate", "validating", "ended"}

Fresh == [at |-> "idle", attempts |-> 0, escalated |-> FALSE, enriched |-> FALSE,
          verdict |-> NoVerdict, wanted |-> <<>>, calls |-> <<>>, trace |-> <<>>,
          seq |-> 0, disabled |-> FALSE]

Init ==
    /\ tries = 1 /\ outcome = None /\ judge = 0
    /\ run = [a \in Attempts |-> IF a = 1 THEN [Fresh EXCEPT !.at = "classify"] ELSE Fresh]
    /\ watching \in BOOLEAN /\ stream = {}

\* Evidence.contradicted: the network placed the device somewhere else.
Contradicted(r) ==
    \E i \in DOMAIN r.calls : r.calls[i] = [name |-> "verify_device_location", result |-> "contradicted"]

\* Mutant: a confident model is believed first.
RouteConfidentFirst(r) ==
    IF r.verdict.confident              THEN "validate"
    ELSE IF r.attempts >= MaxAttempts   THEN "validate"
    ELSE IF ~r.enriched                 THEN "gather"
    ELSE IF Escalation /\ ~r.escalated  THEN "escalate"
    ELSE "validate"

\* Mutant: evidence is gathered again.
RouteGathersAgain(r) ==
    IF r.verdict.confident /\ (~r.verdict.safety \/ r.enriched) THEN "validate"
    ELSE IF r.attempts >= MaxAttempts THEN "validate" ELSE "gather"

\* route(): the node after classify.
Route(r) ==
    IF r.verdict.safety /\ ~r.enriched        THEN "gather"
    ELSE IF r.verdict.confident               THEN "validate"
    ELSE IF r.attempts >= MaxAttempts         THEN "validate"
    ELSE IF ~r.enriched                       THEN "gather"
    ELSE IF Escalation /\ ~r.escalated        THEN "escalate"
    ELSE "validate"

\* Mutant: only HIGH counts as a claim that can be contradicted.
ValidatedIfHigh(r) ==
    LET lowered == IF Contradicted(r) /\ r.verdict.criticality = "HIGH"
                   THEN [criticality |-> "MEDIUM", safety |-> FALSE]
                   ELSE [criticality |-> r.verdict.criticality, safety |-> r.verdict.safety]
    IN  IF lowered.safety /\ lowered.criticality = "LOW"
        THEN [lowered EXCEPT !.criticality = "HIGH"] ELSE lowered

\* Mutant: an inconsistent verdict is passed on.
ValidatedAsSaid(r) ==
    IF Contradicted(r) /\ (r.verdict.criticality = "HIGH" \/ r.verdict.safety)
    THEN [criticality |-> "MEDIUM", safety |-> FALSE]
    ELSE [criticality |-> r.verdict.criticality, safety |-> r.verdict.safety]

\* validate(): a contradicted claim is lowered, then the safety flag is trusted.
Validated(r) ==
    LET grave   == r.verdict.criticality = "HIGH" \/ r.verdict.safety
        lowered == IF Contradicted(r) /\ grave
                   THEN [criticality |-> "MEDIUM", safety |-> FALSE]
                   ELSE [criticality |-> r.verdict.criticality, safety |-> r.verdict.safety]
    IN  IF lowered.safety /\ lowered.criticality = "LOW"
        THEN [lowered EXCEPT !.criticality = "HIGH"] ELSE lowered

\* A fault of this kind may still happen.  Bound: posts fail in the first attempt only.
MayFail(kind) ==
    /\ kind \in Faults
    /\ kind = "post" => tries = 1
    /\ (tries - 1) + Cardinality({a \in Attempts : run[a].disabled}) < MaxFaults

---------------------------------------------------------------------------
\* useReasoningTrace: events are told apart by (runId, seq), and every attempt of
\* the activity has the run id of its workflow.
Kept(kept, e) == IF \E k \in kept : k.seq = e.seq THEN kept ELSE kept \cup {e}

Delivered(e) == stream' = IF watching THEN Kept(stream, e) ELSE stream

\* HttpTraceSink.emit: post the next event, or nothing after the first failure.  A
\* post that failed for the sink may have reached the server.
Emit(a, r, kind, node, result) ==
    LET e == [seq |-> r.seq + 1, kind |-> kind, node |-> node, result |-> result] IN
    /\ \/ /\ r.disabled
          /\ run' = [run EXCEPT ![a] = r]
          /\ UNCHANGED stream
       \/ /\ ~r.disabled
          /\ run' = [run EXCEPT ![a] = [r EXCEPT !.seq = e.seq]]
          /\ Delivered(e)
       \/ /\ ~r.disabled /\ MayFail("post")
          /\ run' = [run EXCEPT ![a] = [r EXCEPT !.seq = e.seq, !.disabled = TRUE]]
          /\ Delivered(e) \/ UNCHANGED stream
    /\ UNCHANGED watching

Unjudged == UNCHANGED <<tries, outcome, judge>>

\* A node reports that it starts.
Enter(a, node, from, to) ==
    LET r == run[a] IN
    /\ r.at = from
    /\ Emit(a, [r EXCEPT !.at = to], "started", node, "none")
    /\ Unjudged

\* A line of the trace: a node's own, or one per call of the gatherer.
NoCall     == [name |-> "none", result |-> "none"]
Line(node) == [node |-> node, call |-> NoCall]

\* A node returns: its line joins the trace and is reported.
Leave(a, node, r, to) ==
    Emit(a, [r EXCEPT !.at = to, !.trace = Append(@, Line(node))], "finished", node, "none")

\* What the model may answer.  Bound: an attempt that was given up gets the shortest
\* answers, since nobody reads its judgement.
Answers(a)  == IF a = tries THEN Verdicts ELSE {[NoVerdict EXCEPT !.confident = TRUE]}
Requests(a) == IF a = tries THEN UNION {[1..n -> Tools] : n \in 0..MaxToolCalls} ELSE {<<>>}

Classify(a) ==
    /\ run[a].at = "classifying"
    /\ \E v \in Answers(a) :
         LET r == [run[a] EXCEPT !.verdict = v, !.attempts = @ + 1]
         IN  Leave(a, "classify", IF Route(r) = "validate" THEN r ELSE [r EXCEPT !.verdict = NoVerdict], Route(r))
    /\ Unjudged

\* The gatherer names its tools: at most MaxToolCalls of what the model asks for.
ChooseTools(a) ==
    /\ run[a].at = "choosing"
    /\ \E wanted \in Requests(a) :
         run' = [run EXCEPT ![a] = [@ EXCEPT !.at = "calling", !.wanted = wanted]]
    /\ Unjudged /\ UNCHANGED <<watching, stream>>

\* NetworkToolbox.call: observed, made, never raises.
CallTool(a) ==
    /\ run[a].at = "calling" /\ run[a].wanted # <<>>
    /\ Emit(a, [run[a] EXCEPT !.at = "tool"], "tool_started", Head(run[a].wanted), "none")
    /\ Unjudged

ToolReturns(a) ==
    /\ run[a].at = "tool"
    /\ LET r == run[a]
           name == Head(r.wanted)
       IN \E result \in IF name = "verify_device_location"
                        THEN {"confirmed", "contradicted", "unavailable"}
                        ELSE {"answer", "unavailable"} :
            Emit(a, [r EXCEPT !.at = "calling", !.wanted = Tail(@),
                              !.calls = Append(@, [name |-> name, result |-> result])],
                 "tool_finished", name, result)
    /\ Unjudged

\* gather_evidence returns: its line, and an indented line per call.
Gathered(a) ==
    /\ run[a].at = "calling" /\ run[a].wanted = <<>>
    /\ LET r == run[a]
           lines == [i \in DOMAIN r.calls |-> [node |-> "tool", call |-> r.calls[i]]]
       IN  Emit(a, [r EXCEPT !.at = "classify", !.enriched = TRUE,
                             !.trace = Append(@, Line("gather_evidence")) \o lines],
                "finished", "gather_evidence", "none")
    /\ Unjudged

Escalate(a) ==
    /\ run[a].at = "escalating"
    /\ Leave(a, "escalate", [run[a] EXCEPT !.escalated = TRUE], "classify")
    /\ Unjudged

\* validate returns and the activity with it; an attempt that was given up tells nobody.
Validate(a) ==
    /\ run[a].at = "validating"
    /\ Leave(a, "validate", run[a], "ended")
    /\ IF a = tries /\ outcome = None
       THEN outcome' = Validated(run[a]) /\ judge' = a
       ELSE UNCHANGED <<outcome, judge>>
    /\ UNCHANGED tries

\* Mutant: the retry policy has no maximum.
RetryAlways == tries' = tries + 1 /\ UNCHANGED outcome

\* _REASONING_RETRY: the next attempt starts over, or the workflow is told.
RetryOrFail ==
    IF tries < MaxTries
    THEN /\ tries' = tries + 1
         /\ UNCHANGED outcome
    ELSE outcome' = Failed /\ UNCHANGED tries

\* The model raises: the attempt is over, and its graph state with it.
Gone == [Fresh EXCEPT !.at = "ended"]

Raise(a) ==
    /\ MayFail("raise") /\ run[a].at \in {"classifying", "choosing"}
    /\ IF a = tries /\ outcome = None
       THEN /\ RetryOrFail
            /\ run' = [b \in Attempts |-> IF b = a THEN Gone
                                          ELSE IF b = tries' /\ b # tries
                                          THEN [Fresh EXCEPT !.at = "classify"] ELSE run[b]]
       ELSE run' = [run EXCEPT ![a] = Gone] /\ UNCHANGED <<tries, outcome>>
    /\ UNCHANGED <<judge, watching, stream>>

\* start_to_close: Temporal stops waiting for the latest attempt, which goes on.  What
\* takes that long is the model.  Bound: in the first pass, or choosing the tools.
TimeOut ==
    /\ MayFail("timeout") /\ outcome = None
    /\ run[tries].at \in {"classifying", "choosing"} /\ run[tries].attempts <= 1
    /\ RetryOrFail
    /\ run' = [b \in Attempts |-> IF b = tries' /\ b # tries
                                  THEN [Fresh EXCEPT !.at = "classify"] ELSE run[b]]
    /\ UNCHANGED <<judge, watching, stream>>

---------------------------------------------------------------------------
\* A page is opened in the middle: nothing was kept for it.
Open == ~watching /\ run[1].seq < JoinBy /\ watching' = TRUE /\ UNCHANGED <<tries, run, outcome, judge, stream>>

Step(a) ==
    \/ Enter(a, "classify", "classify", "classifying") \/ Classify(a)
    \/ Enter(a, "gather_evidence", "gather", "choosing") \/ ChooseTools(a)
    \/ CallTool(a) \/ ToolReturns(a) \/ Gathered(a)
    \/ Enter(a, "escalate", "escalate", "escalating") \/ Escalate(a)
    \/ Enter(a, "validate", "validate", "validating") \/ Validate(a)
    \/ Raise(a)

Next == (\E a \in Attempts : Step(a)) \/ TimeOut \/ Open

\* Every await of an attempt ends: model and provider clients have timeouts, and so has
\* the activity.  Nobody has to open the page.
Fairness == \A a \in Attempts : WF_vars(Step(a))

Spec == Init /\ [][Next]_vars /\ Fairness

---------------------------------------------------------------------------
(* Properties *)

Calls == [name : Tools, result : Results]
Lines == [node : {"classify", "gather_evidence", "escalate", "validate"}, call : {NoCall}]
             \cup [node : {"tool"}, call : Calls]
Runs  == [at : Places, attempts : Nat, escalated : BOOLEAN, enriched : BOOLEAN, verdict : Verdicts,
          wanted : Seq(Tools), calls : Seq(Calls), trace : Seq(Lines), seq : Nat, disabled : BOOLEAN]
Outcomes == [criticality : Criticalities \cup {"none", "failed"}, safety : BOOLEAN]

\* Every variable has its type.
TypeOK ==
    /\ tries \in Attempts /\ judge \in 0..tries /\ watching \in BOOLEAN
    /\ run \in [Attempts -> Runs] /\ outcome \in Outcomes

\* Work the network places elsewhere is never judged HIGH or safety-critical, whatever the
\* model says before or after it saw the evidence, and whichever attempt is judged
\* (assessment_graph.py: it "should not receive safety-critical treatment on the strength
\* of its description").
ContradictedIsNeverCritical ==
    Recorded /\ Contradicted(run[judge]) => outcome.criticality # "HIGH" /\ ~outcome.safety

\* A safety-critical judgement was never taken on the description alone: in the judged
\* attempt evidence was gathered, and the model classified again after it ("a
\* safety-critical claim is worth verifying even when the model is confident").
SafetyIsLookedInto ==
    Recorded /\ outcome.safety =>
        LET trace == run[judge].trace IN
        \E i, j \in DOMAIN trace :
            i < j /\ trace[i].node = "gather_evidence" /\ trace[j].node = "classify"

\* The graph loops back twice and makes no pass but the first without a new reason: the
\* evidence, or the stronger model.  This holds whatever MaxAttempts is.
PassesAreBounded ==
    \A a \in Attempts :
        run[a].attempts <= 1 + (IF run[a].enriched THEN 1 ELSE 0) + (IF run[a].escalated THEN 1 ELSE 0)

\* The activity implements what the workflow is promised, liveness included: a judgement
\* within three passes of an attempt, or the failure the workflow substitutes for.
Promise == INSTANCE Judgement WITH
               MaxPasses <- 3,
               passes    <- IF outcome = Failed THEN 0 ELSE run[tries].attempts

ImplementsJudgement == Promise!Spec
=============================================================================
