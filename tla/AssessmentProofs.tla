--------------------------- MODULE AssessmentProofs ---------------------------
(***************************************************************************)
(* What holds of an assessment whatever the tools, the limits, the number  *)
(* of attempts and the faults; and that the page which watched it through  *)
(* shows what its record shows.                                            *)
(***************************************************************************)
EXTENDS ReasoningWatch, FiniteSetTheorems, WellFoundedInduction, TLAPS

\* What has given the graph a reason for another pass.
Reasons(r) == (IF r.enriched THEN 1 ELSE 0) + (IF r.escalated THEN 1 ELSE 0)

Gathers(trace)    == \E i \in DOMAIN trace : trace[i].node = "gather_evidence"
LookedInto(trace) == \E i, j \in DOMAIN trace :
                        i < j /\ trace[i].node = "gather_evidence" /\ trace[j].node = "classify"

\* An attempt between two steps: in front of a pass it has one reason more than passes
\* made; it gathers once and escalates once; the evidence is in its trace, and when it
\* comes to be validated its safety claim was looked into.
Tidy(r) ==
    /\ r.attempts <= 1 + Reasons(r)
    /\ r.at \in {"classify", "classifying"} => r.attempts <= Reasons(r)
    /\ r.at \in {"gather", "choosing", "calling", "tool"} => ~r.enriched
    /\ r.at = "tool" => r.wanted # <<>>
    /\ r.at \in {"escalate", "escalating"} => ~r.escalated
    /\ r.enriched => Gathers(r.trace)
    /\ r.at \in {"validate", "validating"} =>
          r.attempts > 0 /\ (r.verdict.safety => LookedInto(r.trace))

\* The judgement is the latest attempt's, which has ended.
Judged ==
    /\ judge # 0 =>
          /\ judge = tries /\ run[judge].at = "ended"
          /\ Contradicted(run[judge]) => outcome.criticality # "HIGH" /\ ~outcome.safety
          /\ outcome.safety => LookedInto(run[judge].trace)
    /\ outcome = None => judge = 0
    /\ outcome \notin {None, Failed} => judge # 0

Sound == TypeOK /\ (\A a \in Attempts : Tidy(run[a])) /\ Judged

-----------------------------------------------------------------------------
(***************************************************************************)
(* An attempt goes on                                                      *)
(***************************************************************************)

\* What the sink makes of an attempt touches only its counter and its switch.
Reported(q, r) ==
    /\ q \in Runs
    /\ q.at = r.at /\ q.attempts = r.attempts /\ q.escalated = r.escalated /\ q.enriched = r.enriched
    /\ q.verdict = r.verdict /\ q.wanted = r.wanted /\ q.calls = r.calls /\ q.trace = r.trace

LEMMA ReportedIsTidy == ASSUME NEW r, NEW q, Tidy(r), Reported(q, r) PROVE Tidy(q)
BY DEF Tidy, Reported, Reasons

LEMMA CountedIsReported ==
    ASSUME NEW r \in Runs
    PROVE  Reported([r EXCEPT !.seq = r.seq + 1], r)
<1>1. r.seq + 1 \in Nat
  BY DEF Runs
<1> QED BY <1>1 DEF Reported, Runs

LEMMA DisabledIsReported ==
    ASSUME NEW r \in Runs
    PROVE  Reported([r EXCEPT !.seq = r.seq + 1, !.disabled = TRUE], r)
<1>1. r.seq + 1 \in Nat
  BY DEF Runs
<1> DEFINE q == [r EXCEPT !.seq = r.seq + 1, !.disabled = TRUE]
<1>2. q \in Runs
  BY <1>1 DEF Runs
<1> QED BY <1>2 DEF Reported, Runs

LEMMA EmitReports ==
    ASSUME NEW a \in Attempts, NEW r \in Runs, NEW kind, NEW node, NEW result,
           Emit(a, r, kind, node, result)
    PROVE  \E q : Reported(q, r) /\ run' = [run EXCEPT ![a] = q] /\ watching' = watching
<1>1. CASE run' = [run EXCEPT ![a] = r]
  BY <1>1 DEF Reported, Emit
<1>2. CASE run' = [run EXCEPT ![a] = [r EXCEPT !.seq = r.seq + 1]]
  BY <1>2, CountedIsReported DEF Emit
<1>3. CASE run' = [run EXCEPT ![a] = [r EXCEPT !.seq = r.seq + 1, !.disabled = TRUE]]
  BY <1>3, DisabledIsReported DEF Emit
<1> QED BY <1>1, <1>2, <1>3 DEF Emit

\* A line at the end of a trace keeps what was there.
LEMMA TraceGrows ==
    ASSUME NEW S, NEW t \in Seq(S), NEW u \in Seq(S)
    PROVE  /\ t \o u \in Seq(S)
           /\ Gathers(t) => Gathers(t \o u)
           /\ LookedInto(t) => LookedInto(t \o u)
<1>1. /\ t \o u \in Seq(S) /\ DOMAIN t \subseteq DOMAIN (t \o u)
      /\ \A i \in DOMAIN t : (t \o u)[i] = t[i]
  OBVIOUS
<1>2. ASSUME Gathers(t) PROVE Gathers(t \o u)
  BY <1>1, <1>2 DEF Gathers
<1>3. ASSUME LookedInto(t) PROVE LookedInto(t \o u)
  BY <1>1, <1>3 DEF LookedInto
<1> QED BY <1>1, <1>2, <1>3

LEMMA LineAdded ==
    ASSUME NEW t \in Seq(Lines), NEW node \in {"classify", "gather_evidence", "escalate", "validate"}
    PROVE  /\ Append(t, Line(node)) \in Seq(Lines)
           /\ Gathers(t) => Gathers(Append(t, Line(node)))
           /\ LookedInto(t) => LookedInto(Append(t, Line(node)))
           /\ node = "gather_evidence" => Gathers(Append(t, Line(node)))
           /\ node = "classify" /\ Gathers(t) => LookedInto(Append(t, Line(node)))
<1> DEFINE u == Append(t, Line(node))
<1>1. Line(node) \in Lines /\ Line(node).node = node
  BY DEF Line, Lines
<1>2. /\ u \in Seq(Lines) /\ DOMAIN u = 1..(Len(t) + 1) /\ DOMAIN t = 1..Len(t)
      /\ u[Len(t) + 1] = Line(node) /\ \A i \in DOMAIN t : u[i] = t[i]
  BY <1>1
<1>3. Len(t) \in Nat
  OBVIOUS
<1> HIDE DEF u
<1>4. Gathers(t) => Gathers(u)
  BY <1>2, <1>3 DEF Gathers
<1>5. LookedInto(t) => LookedInto(u)
  BY <1>2, <1>3 DEF LookedInto
<1>6. node = "gather_evidence" => Gathers(u)
  BY <1>1, <1>2, <1>3 DEF Gathers
<1>7. ASSUME node = "classify", Gathers(t) PROVE LookedInto(u)
  <2>1. PICK i \in DOMAIN t : t[i].node = "gather_evidence"
    BY <1>7 DEF Gathers
  <2>2. i \in DOMAIN u /\ Len(t) + 1 \in DOMAIN u /\ i < Len(t) + 1
    BY <1>2, <1>3, <2>1
  <2> QED BY <1>1, <1>2, <1>7, <2>1, <2>2 DEF LookedInto
<1> QED BY <1>2, <1>4, <1>5, <1>6, <1>7 DEF u

\* What an action leaves the attempt to be, before it is reported.
Moved(a, r) ==
    /\ run[a].at # "ended" /\ r \in Runs /\ Tidy(r)
    /\ \E q : Reported(q, r) /\ run' = [run EXCEPT ![a] = q] /\ watching' = watching

LEMMA EmitMoves ==
    ASSUME TypeOK, NEW a \in Attempts, run[a].at # "ended", NEW r \in Runs, Tidy(r),
           NEW kind, NEW node, NEW result, Emit(a, r, kind, node, result)
    PROVE  Moved(a, r)
BY EmitReports DEF Moved

\* The attempt went on, and has made so many passes.
Onward(a, passes) ==
    \E r \in Runs : r.at # "ended" /\ r.attempts = passes /\ Moved(a, r)

LEMMA EnterMoves ==
    ASSUME Sound, NEW a \in Attempts, NEW node, NEW from, NEW to, Enter(a, node, from, to),
           <<from, to>> \in {<<"classify", "classifying">>, <<"gather", "choosing">>,
                             <<"escalate", "escalating">>, <<"validate", "validating">>}
    PROVE  Onward(a, run[a].attempts)
<1> DEFINE r == [run[a] EXCEPT !.at = to]
<1>1. run[a] \in Runs /\ Tidy(run[a]) /\ TypeOK /\ run[a].at = from
  BY DEF Sound, TypeOK, Enter
<1>2. to \in Places \ {"ended"} /\ from # "ended"
  BY DEF Places
<1>3. r \in Runs /\ r.at # "ended" /\ r.attempts = run[a].attempts
  BY <1>1, <1>2 DEF Runs
<1>4. Tidy(r)
  BY <1>1 DEF Tidy, Reasons, Runs
<1>5. Emit(a, r, "started", node, "none")
  BY DEF Enter
<1> HIDE DEF r
<1>6. Moved(a, r)
  BY <1>1, <1>2, <1>3, <1>4, <1>5, EmitMoves
<1> QED BY <1>3, <1>6 DEF Onward

LEMMA ClassifyMoves ==
    ASSUME Sound, NEW a \in Attempts, Classify(a)
    PROVE  Onward(a, run[a].attempts + 1)
<1>1. run[a] \in Runs /\ Tidy(run[a]) /\ TypeOK /\ run[a].at = "classifying"
  BY DEF Sound, TypeOK, Classify
<1>2. NoVerdict \in Verdicts /\ Answers(a) \subseteq Verdicts
  BY DEF NoVerdict, Verdicts, Answers, Criticalities
<1> DEFINE Heard(v) == [run[a] EXCEPT !.verdict = v, !.attempts = @ + 1]
           Said(v)  == IF Route(Heard(v)) = "validate" THEN Heard(v)
                       ELSE [Heard(v) EXCEPT !.verdict = NoVerdict]
           Gone1(v) == [Said(v) EXCEPT !.at = Route(Heard(v)), !.trace = Append(@, Line("classify"))]
<1>3. PICK v \in Answers(a) : Emit(a, Gone1(v), "finished", "classify", "none")
  BY DEF Classify, Leave
<1> DEFINE p == Heard(v)  route == Route(p)  r == Gone1(v)
<1>4. /\ p \in Runs /\ p.attempts = run[a].attempts + 1 /\ p.trace = run[a].trace
      /\ p.enriched = run[a].enriched /\ p.escalated = run[a].escalated
  <2>1. v \in Verdicts /\ run[a].attempts + 1 \in Nat
    BY <1>1, <1>2 DEF Runs
  <2> QED BY <1>1, <2>1 DEF Runs
<1>5. /\ route \in {"gather", "validate", "escalate"}
      /\ route = "gather" => ~p.enriched
      /\ route = "escalate" => ~p.escalated
      /\ route = "validate" => (p.verdict.safety => p.enriched)
  BY DEF Route
<1> HIDE DEF p, route
<1>6. Append(run[a].trace, Line("classify")) \in Seq(Lines)
  BY <1>1, LineAdded DEF Runs
<1>7. /\ r \in Runs /\ r.at = route /\ r.attempts = p.attempts /\ r.enriched = p.enriched
      /\ r.escalated = p.escalated /\ r.trace = Append(run[a].trace, Line("classify"))
      /\ route = "validate" => r.verdict = p.verdict
  <2>1. Said(v) \in Runs /\ Said(v).attempts = p.attempts /\ Said(v).enriched = p.enriched
        /\ Said(v).escalated = p.escalated /\ Said(v).trace = p.trace
        /\ (route = "validate" => Said(v).verdict = p.verdict)
    BY <1>2, <1>4 DEF p, route, Runs
  <2>2. route \in Places
    BY <1>5 DEF Places
  <2> HIDE DEF Said
  <2>3. r = [Said(v) EXCEPT !.at = route, !.trace = Append(@, Line("classify"))]
    BY DEF p, route
  <2> QED BY <1>4, <1>6, <2>1, <2>2, <2>3 DEF Runs
<1> HIDE DEF Gone1, Said, Heard
<1>8. Tidy(r)
  <2>1. run[a].attempts <= Reasons(run[a]) /\ run[a].attempts \in Nat /\ run[a].trace \in Seq(Lines)
        /\ (run[a].enriched => Gathers(run[a].trace))
    BY <1>1 DEF Tidy, Runs
  <2>2. /\ r.enriched => Gathers(r.trace)
        /\ r.enriched => LookedInto(r.trace)
    BY <1>4, <1>7, <2>1, LineAdded
  <2>3. Reasons(r) = Reasons(run[a]) /\ Reasons(r) \in Nat
    BY <1>4, <1>7 DEF Reasons
  <2> QED BY <1>4, <1>5, <1>7, <2>1, <2>2, <2>3 DEF Tidy
<1>9. Moved(a, r)
  BY <1>1, <1>3, <1>7, <1>8, EmitMoves DEF Moved
<1> QED BY <1>4, <1>5, <1>7, <1>9 DEF Onward

LEMMA ChooseToolsMoves ==
    ASSUME Sound, NEW a \in Attempts, ChooseTools(a)
    PROVE  Onward(a, run[a].attempts)
<1>1. run[a] \in Runs /\ Tidy(run[a]) /\ run[a].at = "choosing"
  BY DEF Sound, TypeOK, ChooseTools
<1>2. ASSUME NEW wanted \in Requests(a) PROVE wanted \in Seq(Tools)
  <2>1. CASE wanted = <<>>
    BY <2>1
  <2>2. CASE wanted \in UNION {[1..n -> Tools] : n \in 0..MaxToolCalls}
    <3>1. PICK n \in 0..MaxToolCalls : wanted \in [1..n -> Tools]
      BY <2>2
    <3>2. n \in Nat
      BY <3>1, AssessmentAssumption
    <3> QED BY <3>1, <3>2
  <2> QED BY <2>1, <2>2 DEF Requests
<1>3. PICK wanted \in Requests(a) :
         run' = [run EXCEPT ![a] = [@ EXCEPT !.at = "calling", !.wanted = wanted]]
  BY DEF ChooseTools
<1> DEFINE r == [run[a] EXCEPT !.at = "calling", !.wanted = wanted]
<1>4. r \in Runs /\ r.at = "calling" /\ r.attempts = run[a].attempts
  BY <1>1, <1>2 DEF Runs, Places
<1>5. Tidy(r)
  BY <1>1 DEF Tidy, Reasons, Runs
<1>6. run' = [run EXCEPT ![a] = r] /\ watching' = watching
  BY <1>3 DEF ChooseTools, Sound, TypeOK
<1> HIDE DEF r
<1> QED BY <1>1, <1>4, <1>5, <1>6 DEF Moved, Onward, Reported

LEMMA CallToolMoves ==
    ASSUME Sound, NEW a \in Attempts, CallTool(a)
    PROVE  Onward(a, run[a].attempts)
<1> DEFINE r == [run[a] EXCEPT !.at = "tool"]
<1>1. run[a] \in Runs /\ Tidy(run[a]) /\ TypeOK /\ run[a].at = "calling" /\ run[a].wanted # <<>>
  BY DEF Sound, TypeOK, CallTool
<1>2. r \in Runs /\ r.at = "tool" /\ r.attempts = run[a].attempts
  BY <1>1 DEF Runs, Places
<1>3. Tidy(r)
  BY <1>1 DEF Tidy, Reasons, Runs
<1>4. Emit(a, r, "tool_started", Head(run[a].wanted), "none")
  BY DEF CallTool
<1> HIDE DEF r
<1>5. Moved(a, r)
  BY <1>1, <1>2, <1>3, <1>4, EmitMoves
<1> QED BY <1>2, <1>5 DEF Onward

LEMMA ToolReturnsMoves ==
    ASSUME Sound, NEW a \in Attempts, ToolReturns(a)
    PROVE  Onward(a, run[a].attempts)
<1>1. run[a] \in Runs /\ Tidy(run[a]) /\ TypeOK /\ run[a].at = "tool"
  BY DEF Sound, TypeOK, ToolReturns
<1> DEFINE name == Head(run[a].wanted)
           After(result) == [run[a] EXCEPT !.at = "calling", !.wanted = Tail(@),
                                           !.calls = Append(@, [name |-> name, result |-> result])]
<1>2. PICK result \in Results : Emit(a, After(result), "tool_finished", name, result)
  BY DEF ToolReturns, Results
<1>3. name \in Tools /\ Tail(run[a].wanted) \in Seq(Tools)
  BY <1>1 DEF Tidy, Runs
<1> HIDE DEF name
<1>4. Append(run[a].calls, [name |-> name, result |-> result]) \in Seq(Calls)
  BY <1>1, <1>3 DEF Runs, Calls
<1> DEFINE r == After(result)
<1>5. r \in Runs /\ r.at = "calling" /\ r.attempts = run[a].attempts
  BY <1>1, <1>3, <1>4 DEF Runs, Places
<1>6. Tidy(r)
  BY <1>1 DEF Tidy, Reasons, Runs
<1> HIDE DEF After
<1>7. Moved(a, r)
  BY <1>1, <1>2, <1>5, <1>6, EmitMoves
<1> QED BY <1>5, <1>7 DEF Onward

LEMMA GatheredMoves ==
    ASSUME Sound, NEW a \in Attempts, Gathered(a)
    PROVE  Onward(a, run[a].attempts)
<1>1. run[a] \in Runs /\ Tidy(run[a]) /\ TypeOK /\ run[a].at = "calling"
  BY DEF Sound, TypeOK, Gathered
<1> DEFINE lines == [i \in DOMAIN run[a].calls |-> [node |-> "tool", call |-> run[a].calls[i]]]
           trace == Append(run[a].trace, Line("gather_evidence")) \o lines
           r     == [run[a] EXCEPT !.at = "classify", !.enriched = TRUE,
                        !.trace = Append(@, Line("gather_evidence")) \o lines]
<1>2. Emit(a, r, "finished", "gather_evidence", "none")
  BY DEF Gathered
<1>3. lines \in Seq(Lines)
  <2>1. run[a].calls \in Seq(Calls)
    BY <1>1 DEF Runs
  <2>2. \A i \in DOMAIN run[a].calls : lines[i] \in Lines
    BY <2>1 DEF Lines
  <2>3. DOMAIN run[a].calls = 1..Len(run[a].calls) /\ Len(run[a].calls) \in Nat
    BY <2>1
  <2>4. lines \in [1..Len(run[a].calls) -> Lines]
    BY <2>2, <2>3
  <2> HIDE DEF lines
  <2> QED BY <2>3, <2>4
<1>4. trace \in Seq(Lines) /\ Gathers(trace)
  <2> DEFINE first == Append(run[a].trace, Line("gather_evidence"))
  <2>1. first \in Seq(Lines) /\ Gathers(first)
    BY <1>1, LineAdded DEF Runs
  <2> HIDE DEF first, lines
  <2> QED BY <1>3, <2>1, TraceGrows DEF first
<1>5. r.trace = trace /\ r.at = "classify" /\ r.attempts = run[a].attempts /\ r.enriched
      /\ r.escalated = run[a].escalated
  BY <1>1 DEF Runs
<1>6. r \in Runs
  <2> HIDE DEF lines
  <2> QED BY <1>1, <1>4 DEF Runs, Places
<1> HIDE DEF r, trace, lines
<1>7. Tidy(r)
  <2>1. run[a].attempts \in Nat /\ run[a].attempts <= 1 + Reasons(run[a]) /\ ~run[a].enriched
    BY <1>1 DEF Tidy, Runs
  <2>2. Reasons(r) = 1 + Reasons(run[a]) /\ Reasons(run[a]) \in Nat
    BY <1>5, <2>1 DEF Reasons
  <2> QED BY <1>4, <1>5, <2>1, <2>2 DEF Tidy
<1>8. Moved(a, r)
  BY <1>1, <1>2, <1>6, <1>7, EmitMoves
<1> QED BY <1>5, <1>6, <1>8 DEF Onward

LEMMA EscalateMoves ==
    ASSUME Sound, NEW a \in Attempts, Escalate(a)
    PROVE  Onward(a, run[a].attempts)
<1>1. run[a] \in Runs /\ Tidy(run[a]) /\ TypeOK /\ run[a].at = "escalating"
  BY DEF Sound, TypeOK, Escalate
<1> DEFINE trace == Append(run[a].trace, Line("escalate"))
           r     == [[run[a] EXCEPT !.escalated = TRUE] EXCEPT !.at = "classify",
                        !.trace = Append(@, Line("escalate"))]
<1>2. Emit(a, r, "finished", "escalate", "none")
  BY DEF Escalate, Leave
<1>3. trace \in Seq(Lines) /\ (Gathers(run[a].trace) => Gathers(trace))
  BY <1>1, LineAdded DEF Runs
<1>4. r.trace = trace /\ r.at = "classify" /\ r.attempts = run[a].attempts /\ r.escalated
      /\ r.enriched = run[a].enriched /\ r \in Runs
  BY <1>1, <1>3 DEF Runs, Places
<1> HIDE DEF r, trace
<1>5. Tidy(r)
  <2>1. run[a].attempts \in Nat /\ run[a].attempts <= 1 + Reasons(run[a]) /\ ~run[a].escalated
        /\ (run[a].enriched => Gathers(run[a].trace))
    BY <1>1 DEF Tidy, Runs
  <2>2. Reasons(r) = 1 + Reasons(run[a]) /\ Reasons(run[a]) \in Nat
    BY <1>4, <2>1 DEF Reasons
  <2> QED BY <1>3, <1>4, <2>1, <2>2 DEF Tidy
<1>6. Moved(a, r)
  BY <1>1, <1>2, <1>4, <1>5, EmitMoves
<1> QED BY <1>4, <1>6 DEF Onward

SafetyMet(r, trace) == r.verdict.safety => LookedInto(trace)

\* The attempt ends with what it was validated with.
LEMMA ValidateMoves ==
    ASSUME Sound, NEW a \in Attempts, Validate(a)
    PROVE  \E r \in Runs : /\ Moved(a, r) /\ r.at = "ended" /\ r.attempts = run[a].attempts
                          /\ r.calls = run[a].calls
                          /\ SafetyMet(run[a], r.trace)
<1>1. run[a] \in Runs /\ Tidy(run[a]) /\ TypeOK /\ run[a].at = "validating"
  BY DEF Sound, TypeOK, Validate
<1> DEFINE trace == Append(run[a].trace, Line("validate"))
           r     == [run[a] EXCEPT !.at = "ended", !.trace = Append(@, Line("validate"))]
<1>2. Emit(a, r, "finished", "validate", "none")
  BY DEF Validate, Leave
<1>3. /\ trace \in Seq(Lines)
      /\ Gathers(run[a].trace) => Gathers(trace)
      /\ LookedInto(run[a].trace) => LookedInto(trace)
  BY <1>1, LineAdded DEF Runs
<1>4. r.trace = trace /\ r.at = "ended" /\ r.attempts = run[a].attempts /\ r.calls = run[a].calls
      /\ r.escalated = run[a].escalated /\ r.enriched = run[a].enriched /\ r \in Runs
  BY <1>1, <1>3 DEF Runs, Places
<1> HIDE DEF r, trace
<1>5. Tidy(r)
  BY <1>1, <1>3, <1>4 DEF Tidy, Reasons
<1>6. Moved(a, r)
  BY <1>1, <1>2, <1>4, <1>5, EmitMoves
<1>7. SafetyMet(run[a], r.trace)
  BY <1>1, <1>3, <1>4 DEF Tidy, SafetyMet
<1> QED BY <1>4, <1>6, <1>7

-----------------------------------------------------------------------------
(***************************************************************************)
(* The invariant                                                           *)
(***************************************************************************)

LEMMA MovedRuns ==
    ASSUME Sound, NEW a \in Attempts, NEW r \in Runs, Moved(a, r)
    PROVE  /\ run' \in [Attempts -> Runs] /\ watching' \in BOOLEAN
           /\ \A b \in Attempts : Tidy(run'[b]) /\ (b # a => run'[b] = run[b])
           /\ run'[a].at = r.at /\ run'[a].attempts = r.attempts
           /\ run'[a].calls = r.calls /\ run'[a].trace = r.trace
<1>1. PICK q : Reported(q, r) /\ run' = [run EXCEPT ![a] = q] /\ watching' = watching
  BY DEF Moved
<1>2. q \in Runs /\ Tidy(q)
  BY <1>1, ReportedIsTidy DEF Moved, Reported
<1>3. run \in [Attempts -> Runs] /\ watching \in BOOLEAN
  BY DEF Sound, TypeOK
<1>4. run'[a] = q /\ \A b \in Attempts : b # a => run'[b] = run[b]
  BY <1>1, <1>3
<1>5. run' \in [Attempts -> Runs]
  BY <1>1, <1>2, <1>3
<1>6. \A b \in Attempts : Tidy(run'[b])
  BY <1>2, <1>4 DEF Sound
<1> QED BY <1>1, <1>3, <1>4, <1>5, <1>6 DEF Reported

\* The attempt that was judged is not moved any more.
LEMMA JudgedStands ==
    ASSUME Sound, judge # 0
    PROVE  judge = tries /\ tries \in Attempts /\ run[judge].at = "ended" /\ outcome # None
BY DEF Sound, Judged, TypeOK

LEMMA OnwardIsSound ==
    ASSUME Sound, NEW a \in Attempts, NEW n, Onward(a, n), Unjudged
    PROVE  Sound' /\ run'[a].attempts = n /\ (\A b \in Attempts : b # a => run'[b] = run[b])
<1>1. PICK r \in Runs : r.at # "ended" /\ r.attempts = n /\ Moved(a, r)
  BY DEF Onward
<1>2. /\ run' \in [Attempts -> Runs] /\ watching' \in BOOLEAN
      /\ \A b \in Attempts : Tidy(run'[b]) /\ (b # a => run'[b] = run[b])
      /\ run'[a].attempts = n
  BY <1>1, MovedRuns
<1>3. judge # 0 => judge \in Attempts /\ judge # a
  BY <1>1, JudgedStands DEF Moved
<1>4. Judged'
  BY <1>2, <1>3 DEF Judged, Sound, Unjudged, Contradicted
<1>5. TypeOK'
  BY <1>2 DEF TypeOK, Sound, Unjudged
<1> QED BY <1>2, <1>4, <1>5 DEF Sound

LEMMA ConsistentIsJudgement ==
    ASSUME NEW c \in Criticalities, NEW s \in BOOLEAN, c # "LOW" \/ s = FALSE
    PROVE  [criticality |-> c, safety |-> s] \in Promise!Judgements
<1>1. [criticality |-> c, safety |-> s] # [criticality |-> "LOW", safety |-> TRUE]
  <2>1. SUFFICES ASSUME [criticality |-> c, safety |-> s] = [criticality |-> "LOW", safety |-> TRUE]
                 PROVE  FALSE
    OBVIOUS
  <2>2. /\ c = [criticality |-> c, safety |-> s].criticality
        /\ s = [criticality |-> c, safety |-> s].safety
    OBVIOUS
  <2>3. c = "LOW" /\ s = TRUE
    BY <2>1, <2>2
  <2> QED BY <2>3
<1> QED BY <1>1 DEF Promise!Judgements, Promise!Criticalities, Criticalities

LEMMA ValidatedCases ==
    ASSUME NEW r, r.verdict \in Verdicts
    PROVE  \/ Validated(r) = [criticality |-> "MEDIUM", safety |-> FALSE]
           \/ /\ ~Contradicted(r) /\ r.verdict.safety = TRUE
              /\ \E c \in {"MEDIUM", "HIGH"} : Validated(r) = [criticality |-> c, safety |-> TRUE]
           \/ /\ Contradicted(r) => r.verdict.criticality # "HIGH"
              /\ Validated(r) = [criticality |-> r.verdict.criticality, safety |-> FALSE]
<1> DEFINE c == r.verdict.criticality  s == r.verdict.safety
<1>1. c \in {"LOW", "MEDIUM", "HIGH"} /\ s \in BOOLEAN
  BY DEF Verdicts, Criticalities
<1>2. CASE Contradicted(r) /\ (c = "HIGH" \/ s = TRUE)
  BY <1>2 DEF Validated
<1>3. CASE ~Contradicted(r) /\ s = TRUE /\ c = "LOW"
  BY <1>3 DEF Validated
<1>4. CASE ~Contradicted(r) /\ s = TRUE /\ c # "LOW"
  BY <1>1, <1>4 DEF Validated
<1>5. CASE s = FALSE /\ ~(Contradicted(r) /\ c = "HIGH")
  BY <1>5 DEF Validated
<1> QED BY <1>1, <1>2, <1>3, <1>4, <1>5

LEMMA ValidatedIsConsistent ==
    ASSUME NEW r, r.verdict \in Verdicts
    PROVE  /\ Validated(r) \in Promise!Judgements
           /\ Contradicted(r) => Validated(r).criticality # "HIGH" /\ ~Validated(r).safety
           /\ Validated(r).safety => r.verdict.safety
<1>1. CASE Validated(r) = [criticality |-> "MEDIUM", safety |-> FALSE]
  <2>1. Validated(r) \in Promise!Judgements
    BY <1>1, ConsistentIsJudgement DEF Criticalities
  <2>2. Validated(r).criticality = "MEDIUM" /\ Validated(r).safety = FALSE
    BY <1>1
  <2> QED BY <2>1, <2>2
<1>2. CASE /\ ~Contradicted(r) /\ r.verdict.safety = TRUE
           /\ \E c \in {"MEDIUM", "HIGH"} : Validated(r) = [criticality |-> c, safety |-> TRUE]
  <2>1. PICK c \in {"MEDIUM", "HIGH"} : Validated(r) = [criticality |-> c, safety |-> TRUE]
    BY <1>2
  <2>2. Validated(r) \in Promise!Judgements
    BY <2>1, ConsistentIsJudgement DEF Criticalities
  <2> QED BY <1>2, <2>2
<1>3. CASE /\ Contradicted(r) => r.verdict.criticality # "HIGH"
           /\ Validated(r) = [criticality |-> r.verdict.criticality, safety |-> FALSE]
  <2>1. r.verdict.criticality \in Criticalities
    BY DEF Verdicts
  <2>2. Validated(r) \in Promise!Judgements
    BY <1>3, <2>1, ConsistentIsJudgement
  <2>3. Validated(r).criticality = r.verdict.criticality /\ Validated(r).safety = FALSE
    BY <1>3
  <2> QED BY <1>3, <2>2, <2>3
<1> QED BY <1>1, <1>2, <1>3, ValidatedCases

LEMMA JudgementsAreOutcomes ==
    ASSUME NEW o \in Promise!Judgements
    PROVE  o \in Outcomes /\ o \notin {None, Failed}
BY DEF Promise!Judgements, Promise!Criticalities, Outcomes, Criticalities, None, Failed

LEMMA ValidateIsSound == ASSUME Sound, NEW a \in Attempts, Validate(a) PROVE Sound'
<1>1. PICK r \in Runs : /\ Moved(a, r) /\ r.at = "ended" /\ r.attempts = run[a].attempts
                        /\ r.calls = run[a].calls
                        /\ SafetyMet(run[a], r.trace)
  BY ValidateMoves
<1>2. /\ run' \in [Attempts -> Runs] /\ watching' \in BOOLEAN
      /\ \A b \in Attempts : Tidy(run'[b]) /\ (b # a => run'[b] = run[b])
      /\ run'[a].at = "ended" /\ run'[a].calls = run[a].calls /\ run'[a].trace = r.trace
  BY <1>1, MovedRuns
<1>3. CASE a = tries /\ outcome = None
  <2>1. outcome' = Validated(run[a]) /\ judge' = a /\ tries' = tries
    BY <1>3 DEF Validate
  <2>2. run[a].verdict \in Verdicts
    BY DEF Sound, TypeOK, Runs
  <2>3. /\ outcome' \in Outcomes /\ outcome' \notin {None, Failed}
        /\ Contradicted(run[a]) => outcome'.criticality # "HIGH" /\ ~outcome'.safety
        /\ outcome'.safety => run[a].verdict.safety
    BY <2>1, <2>2, ValidatedIsConsistent, JudgementsAreOutcomes
  <2>4. Contradicted(run'[a]) => Contradicted(run[a])
    BY <1>2 DEF Contradicted
  <2>5. judge' \in Nat /\ judge' # 0 /\ judge' \in 0..tries'
    BY <1>3, <2>1, AssessmentAssumption DEF Attempts
  <2>6. Judged'
    BY <1>1, <1>2, <1>3, <2>1, <2>3, <2>4, <2>5 DEF Judged, SafetyMet
  <2>7. TypeOK'
    BY <1>2, <2>1, <2>3, <2>5 DEF TypeOK, Sound
  <2> QED BY <1>2, <2>6, <2>7 DEF Sound
<1>4. CASE ~(a = tries /\ outcome = None)
  <2>1. Unjudged
    BY <1>4 DEF Validate, Unjudged
  <2>2. judge # 0 => judge \in Attempts /\ judge # a
    BY <1>1, JudgedStands DEF Moved
  <2>3. Judged'
    BY <1>2, <2>1, <2>2 DEF Judged, Sound, Unjudged, Contradicted
  <2>4. TypeOK'
    BY <1>2, <2>1 DEF TypeOK, Sound, Unjudged
  <2> QED BY <1>2, <2>3, <2>4 DEF Sound
<1> QED BY <1>3, <1>4

\* An attempt begins, or is gone, with nothing in it.
LEMMA FreshIsTidy ==
    ASSUME NEW place \in {"classify", "ended"}
    PROVE  [Fresh EXCEPT !.at = place] \in Runs /\ Tidy([Fresh EXCEPT !.at = place])
           /\ [Fresh EXCEPT !.at = place].attempts = 0
<1>1. Fresh \in Runs
  BY DEF Fresh, Runs, Places, NoVerdict, Verdicts, Criticalities
<1>2. [Fresh EXCEPT !.at = place] \in Runs
  BY <1>1 DEF Runs, Places
<1>3. Tidy([Fresh EXCEPT !.at = place])
  BY DEF Tidy, Reasons, Fresh
<1> QED BY <1>2, <1>3 DEF Fresh

LEMMA RetryOrFailTypes ==
    ASSUME Sound, RetryOrFail
    PROVE  tries' \in Attempts /\ tries <= tries' /\ outcome' \in Outcomes /\ outcome' \in {outcome, Failed}
<1>1. tries \in Nat /\ tries \in Attempts /\ MaxTries \in Nat /\ outcome \in Outcomes
  BY AssessmentAssumption DEF Sound, TypeOK, Attempts
<1>2. Failed \in Outcomes
  BY DEF Failed, Outcomes
<1> QED BY <1>1, <1>2 DEF RetryOrFail, Attempts

\* A failed attempt leaves every graph as it was, gone, or at its start.
LEMMA FailedRuns ==
    ASSUME Sound, outcome = None, RetryOrFail, UNCHANGED <<judge, watching>>,
           run' \in [Attempts -> Runs], \A b \in Attempts : Tidy(run'[b])
    PROVE  Sound'
<1>1. judge = 0
  BY DEF Sound, Judged
<1>2. tries' \in Attempts /\ outcome' \in Outcomes /\ outcome' \in {None, Failed}
  BY RetryOrFailTypes
<1>3. tries' \in Nat
  BY <1>2 DEF Attempts
<1>4. Judged'
  BY <1>1, <1>2 DEF Judged
<1>5. TypeOK'
  BY <1>1, <1>2, <1>3 DEF TypeOK, Sound
<1> QED BY <1>4, <1>5 DEF Sound

LEMMA RaiseIsSound == ASSUME Sound, NEW a \in Attempts, Raise(a) PROVE Sound'
<1>1. Gone \in Runs /\ Tidy(Gone)
  BY FreshIsTidy DEF Gone
<1>2. [Fresh EXCEPT !.at = "classify"] \in Runs /\ Tidy([Fresh EXCEPT !.at = "classify"])
  BY FreshIsTidy
<1>3. run \in [Attempts -> Runs] /\ \A b \in Attempts : Tidy(run[b])
  BY DEF Sound, TypeOK
<1> HIDE DEF Gone, Runs
<1>4. CASE a = tries /\ outcome = None
  <2>1. /\ RetryOrFail /\ UNCHANGED <<judge, watching>>
        /\ run' = [b \in Attempts |-> IF b = a THEN Gone
                                      ELSE IF b = tries' /\ b # tries
                                      THEN [Fresh EXCEPT !.at = "classify"] ELSE run[b]]
    BY <1>4 DEF Raise
  <2>2. run' \in [Attempts -> Runs] /\ \A b \in Attempts : Tidy(run'[b])
    BY <1>1, <1>2, <1>3, <2>1
  <2> QED BY <1>4, <2>1, <2>2, FailedRuns
<1>5. CASE ~(a = tries /\ outcome = None)
  <2>1. run' = [run EXCEPT ![a] = Gone] /\ UNCHANGED <<tries, outcome, judge, watching>>
        /\ run[a].at # "ended"
    BY <1>5 DEF Raise
  <2>2. run' \in [Attempts -> Runs] /\ \A b \in Attempts : Tidy(run'[b])
    BY <1>1, <1>3, <2>1
  <2>3. judge # 0 => judge \in Attempts /\ run'[judge] = run[judge]
    BY <1>3, <2>1, JudgedStands
  <2>4. Judged'
    BY <2>1, <2>3 DEF Judged, Sound, Contradicted
  <2>5. TypeOK'
    BY <2>1, <2>2 DEF TypeOK, Sound
  <2> QED BY <2>2, <2>4, <2>5 DEF Sound
<1> QED BY <1>4, <1>5

LEMMA TimeOutIsSound == ASSUME Sound, TimeOut PROVE Sound'
<1>1. [Fresh EXCEPT !.at = "classify"] \in Runs /\ Tidy([Fresh EXCEPT !.at = "classify"])
  BY FreshIsTidy
<1>2. run \in [Attempts -> Runs] /\ \A b \in Attempts : Tidy(run[b])
  BY DEF Sound, TypeOK
<1>3. run' = [b \in Attempts |-> IF b = tries' /\ b # tries
                                 THEN [Fresh EXCEPT !.at = "classify"] ELSE run[b]]
  BY DEF TimeOut
<1>4. run' \in [Attempts -> Runs] /\ \A b \in Attempts : Tidy(run'[b])
  BY <1>1, <1>2, <1>3
<1> QED BY <1>4, FailedRuns DEF TimeOut

\* What a step of an attempt is.
LEMMA StepKinds ==
    ASSUME Sound, NEW a \in Attempts, Step(a)
    PROVE  \/ Onward(a, run[a].attempts) /\ Unjudged
           \/ Classify(a) /\ Onward(a, run[a].attempts + 1) /\ Unjudged
           \/ Validate(a)
           \/ Raise(a)
<1>1. CASE \/ Enter(a, "classify", "classify", "classifying")
           \/ Enter(a, "gather_evidence", "gather", "choosing")
           \/ Enter(a, "escalate", "escalate", "escalating")
           \/ Enter(a, "validate", "validate", "validating")
  BY <1>1, EnterMoves DEF Enter
<1>2. CASE Classify(a)
  BY <1>2, ClassifyMoves DEF Classify
<1>3. CASE ChooseTools(a) \/ CallTool(a) \/ ToolReturns(a) \/ Gathered(a) \/ Escalate(a)
  BY <1>3, ChooseToolsMoves, CallToolMoves, ToolReturnsMoves, GatheredMoves, EscalateMoves
     DEF ChooseTools, CallTool, ToolReturns, Gathered, Escalate
<1> QED BY <1>1, <1>2, <1>3 DEF Step

LEMMA SoundInit == Init => Sound
<1> SUFFICES ASSUME Init PROVE Sound
  OBVIOUS
<1>1. Fresh \in Runs /\ Tidy(Fresh)
  BY DEF Fresh, Runs, Places, NoVerdict, Verdicts, Criticalities, Tidy, Reasons
<1>2. Fresh \in Runs /\ Tidy(Fresh) /\ [Fresh EXCEPT !.at = "classify"] \in Runs
      /\ Tidy([Fresh EXCEPT !.at = "classify"])
  BY <1>1, FreshIsTidy
<1>3. run \in [Attempts -> Runs] /\ \A b \in Attempts : Tidy(run[b])
  BY <1>2 DEF Init
<1>4. 1 \in Attempts /\ None \in Outcomes
  BY AssessmentAssumption DEF Attempts, None, Outcomes
<1> QED BY <1>3, <1>4 DEF Init, Sound, TypeOK, Judged

LEMMA SoundStep == ASSUME Sound, [Next]_vars PROVE Sound'
<1>1. CASE \E a \in Attempts : Step(a)
  BY <1>1, StepKinds, OnwardIsSound, ValidateIsSound, RaiseIsSound
<1>2. CASE Open \/ UNCHANGED vars
  BY <1>2 DEF Open, vars, Sound, TypeOK, Judged, Contradicted
<1> QED BY <1>1, <1>2, TimeOutIsSound DEF Next

\* Tidiness and soundness are kept by every step of every behaviour.
THEOREM SoundAlways == Spec => []Sound
<1> QED BY SoundInit, SoundStep, PTL DEF Spec

\* Every variable keeps its type, whatever the attempts do.
THEOREM TypeCorrect == Spec => []TypeOK
<1>1. Sound => TypeOK
  BY DEF Sound
<1> QED BY <1>1, SoundAlways, PTL

\* The reasoning graph makes no pass without a new reason, whatever MaxAttempts is.
THEOREM PassesBounded == Spec => []PassesAreBounded
<1>1. Sound => PassesAreBounded
  BY DEF Sound, PassesAreBounded, Tidy, Reasons, TypeOK, Runs
<1> QED BY <1>1, SoundAlways, PTL

\* Work the network places elsewhere is never judged critical.
THEOREM ContradictionIsHeeded == Spec => []ContradictedIsNeverCritical
<1>1. Sound => ContradictedIsNeverCritical
  BY DEF Sound, Judged, ContradictedIsNeverCritical, Recorded
<1> QED BY <1>1, SoundAlways, PTL

\* A safety-critical judgement rests on evidence the model has seen.
THEOREM SafetyWasLookedInto == Spec => []SafetyIsLookedInto
<1>1. Sound => SafetyIsLookedInto
  BY DEF Sound, Judged, SafetyIsLookedInto, Recorded, LookedInto
<1> QED BY <1>1, SoundAlways, PTL
-----------------------------------------------------------------------------
(***************************************************************************)
(* The assessment implements what the workflow is promised                 *)
(***************************************************************************)

\* The attempt that gives up is the last, or the next one starts from nothing.
LEMMA FailureIsPromised ==
    ASSUME Sound, outcome = None, RetryOrFail,
           tries' # tries => run'[tries'].attempts = 0
    PROVE  Promise!Next
<1>1. tries \in Attempts /\ MaxTries \in Nat
  BY AssessmentAssumption DEF Sound, TypeOK
<1>2. None # Failed /\ outcome # Failed
  BY DEF None, Failed
<1>3. CASE tries < MaxTries
  <2>1. tries' = tries + 1 /\ outcome' = outcome /\ tries' # tries
    BY <1>1, <1>3 DEF RetryOrFail, Attempts
  <2>2. Promise!Retry
    BY <1>2, <1>3, <2>1 DEF Promise!Retry
  <2> QED BY <2>2 DEF Promise!Next, Promise!None, None
<1>4. CASE ~(tries < MaxTries)
  <2>1. outcome' = Failed /\ tries' = tries /\ tries = MaxTries
    BY <1>1, <1>4 DEF RetryOrFail, Attempts
  <2>2. Promise!Fail
    BY <2>1 DEF Promise!Fail, Promise!Failed, Failed
  <2> QED BY <2>2 DEF Promise!Next, Promise!None, None
<1> QED BY <1>3, <1>4

\* What the attempts do that is not the latest, or after the outcome, is not seen.
LEMMA Unseen ==
    ASSUME UNCHANGED <<tries, outcome>>, outcome # Failed => run'[tries].attempts = run[tries].attempts
    PROVE  UNCHANGED Promise!vars
BY DEF Promise!vars

LEMMA PromiseStep == ASSUME Sound, [Next]_vars PROVE [Promise!Next]_Promise!vars
<1>0. tries \in Attempts /\ run \in [Attempts -> Runs] /\ None # Failed
  BY DEF Sound, TypeOK, None, Failed
<1>1. ASSUME NEW a \in Attempts, Onward(a, run[a].attempts), Unjudged
      PROVE  UNCHANGED Promise!vars
  BY <1>0, <1>1, OnwardIsSound, Unseen DEF Unjudged
<1>2. ASSUME NEW a \in Attempts, Classify(a), Onward(a, run[a].attempts + 1), Unjudged
      PROVE  [Promise!Next]_Promise!vars
  <2>1. /\ run'[a].attempts = run[a].attempts + 1
        /\ \A b \in Attempts : b # a => run'[b] = run[b]
    BY <1>2, OnwardIsSound
  <2>2. CASE a = tries /\ outcome = None
    <3>1. run[a].attempts < 3
      <4>1. Tidy(run[a]) /\ run[a] \in Runs /\ run[a].at = "classifying"
        BY <1>0, <1>2 DEF Classify, Sound
      <4>2. run[a].attempts \in Nat /\ run[a].attempts <= Reasons(run[a])
        BY <4>1 DEF Tidy, Runs
      <4> QED BY <4>2 DEF Reasons
    <3>2. Promise!Pass
      BY <1>0, <1>2, <2>1, <2>2, <3>1 DEF Promise!Pass, Unjudged
    <3> QED BY <2>2, <3>2 DEF Promise!Next, Promise!None, None
  <2>3. CASE a # tries
    BY <1>0, <1>2, <2>1, <2>3, Unseen DEF Unjudged
  <2>4. CASE a = tries /\ outcome # None
    <3>1. outcome = Failed
      <4>1. run[tries].at # "ended"
        BY <1>2, <2>4 DEF Classify
      <4> QED BY <2>4, <4>1 DEF Sound, Judged
    <3> QED BY <1>2, <3>1, Unseen DEF Unjudged
  <2> QED BY <2>2, <2>3, <2>4
<1>3. ASSUME NEW a \in Attempts, Validate(a)
      PROVE  [Promise!Next]_Promise!vars
  <2>1. PICK r \in Runs : Moved(a, r) /\ r.attempts = run[a].attempts
    BY <1>3, ValidateMoves
  <2>2. /\ run'[a].attempts = run[a].attempts
        /\ \A b \in Attempts : b # a => run'[b] = run[b]
    BY <2>1, MovedRuns
  <2>3. CASE a = tries /\ outcome = None
    <3>1. outcome' = Validated(run[a]) /\ tries' = tries
      BY <1>3, <2>3 DEF Validate
    <3>2. outcome' \in Promise!Judgements /\ outcome' # Failed
      BY <1>0, <3>1, ValidatedIsConsistent, JudgementsAreOutcomes DEF Runs
    <3>3. run[a].attempts > 0
      BY <1>3 DEF Validate, Sound, Tidy
    <3>4. Promise!Judge
      BY <1>0, <2>2, <2>3, <3>1, <3>2, <3>3 DEF Promise!Judge
    <3> QED BY <2>3, <3>4 DEF Promise!Next, Promise!None, None
  <2>4. CASE ~(a = tries /\ outcome = None)
    <3>1. UNCHANGED <<tries, outcome>>
      BY <1>3, <2>4 DEF Validate
    <3>2. run'[tries].attempts = run[tries].attempts
      BY <1>0, <2>2
    <3> QED BY <3>1, <3>2, Unseen
  <2> QED BY <2>3, <2>4
<1>4. ASSUME NEW a \in Attempts, Raise(a)
      PROVE  [Promise!Next]_Promise!vars
  <2>1. CASE a = tries /\ outcome = None
    <3>1. RetryOrFail /\ tries' \in Attempts
      BY <1>4, <2>1, RetryOrFailTypes DEF Raise
    <3>2. tries' # tries => run'[tries'] = [Fresh EXCEPT !.at = "classify"]
      BY <1>4, <2>1, <3>1 DEF Raise
    <3>3. tries' # tries => run'[tries'].attempts = 0
      BY <3>2, FreshIsTidy
    <3> QED BY <2>1, <3>1, <3>3, FailureIsPromised
  <2>2. CASE ~(a = tries /\ outcome = None)
    <3>1. /\ run' = [run EXCEPT ![a] = Gone] /\ UNCHANGED <<tries, outcome>>
          /\ run[a].at # "ended"
      BY <1>4, <2>2 DEF Raise
    <3>2. outcome # Failed => a # tries
      BY <2>2, <3>1 DEF Sound, Judged
    <3>3. outcome # Failed => run'[tries] = run[tries]
      BY <1>0, <3>1, <3>2
    <3> QED BY <3>1, <3>3, Unseen
  <2> QED BY <2>1, <2>2
<1>5. ASSUME TimeOut PROVE [Promise!Next]_Promise!vars
  <2>1. RetryOrFail /\ tries' \in Attempts /\ outcome = None
    BY <1>5, RetryOrFailTypes DEF TimeOut
  <2>2. tries' # tries => run'[tries'] = [Fresh EXCEPT !.at = "classify"]
    BY <1>5, <2>1 DEF TimeOut
  <2>3. tries' # tries => run'[tries'].attempts = 0
    BY <2>2, FreshIsTidy
  <2> QED BY <2>1, <2>3, FailureIsPromised
<1>6. ASSUME Open \/ UNCHANGED vars PROVE UNCHANGED Promise!vars
  BY <1>6, Unseen DEF Open, vars
<1> QED BY <1>1, <1>2, <1>3, <1>4, <1>5, <1>6, StepKinds DEF Next

\* The activity makes the steps the workflow is promised, and no others: at most three
\* passes an attempt, at most MaxTries attempts, one outcome, and a judgement that does
\* not contradict itself.
THEOREM PromiseIsKept == Spec => Promise!Init /\ [][Promise!Next]_Promise!vars
<1>1. Init => Promise!Init
  <2>1. 1 \in Attempts /\ [Fresh EXCEPT !.at = "classify"].attempts = 0
    BY AssessmentAssumption, FreshIsTidy DEF Attempts
  <2> QED BY <2>1 DEF Init, Promise!Init, Promise!None, None, Failed
<1>2. Sound /\ [Next]_vars => [Promise!Next]_Promise!vars
  BY PromiseStep
<1> QED BY <1>1, <1>2, SoundAlways, PTL DEF Spec

-----------------------------------------------------------------------------
(***************************************************************************)
(* Loops over sequences.  What is said of them is proved by induction,     *)
(* which rests on a set of naturals having a least element.                *)
(***************************************************************************)

\* A set of naturals that has an element has a least one.
LEMMA LeastElement ==
    ASSUME NEW T \in SUBSET Nat, T # {}
    PROVE  \E n \in T : \A m \in T : n <= m
<1> DEFINE R == OpToRel(<, Nat)
<1>1. IsWellFoundedOn(R, Nat)
  BY NatLessThanWellFounded
<1>2. \A x, y \in Nat : x < y => <<x, y>> \in R
  BY DEF OpToRel
<1> HIDE DEF R
<1>3. PICK n \in T : \A m \in T : ~(<<m, n>> \in R)
  BY <1>1, WFMin
<1>4. ASSUME NEW m \in T PROVE n <= m
  <2>1. m \in Nat /\ n \in Nat /\ ~(m < n)
    BY <1>2, <1>3
  <2> QED BY <2>1
<1> QED BY <1>4

\* Induction up to n, in the form of the set of numbers it has reached.
LEMMA UpTo ==
    ASSUME NEW n \in Nat, NEW D, 0 \in D, \A k \in 0..(n - 1) : k \in D => k + 1 \in D
    PROVE  0..n \subseteq D
<1> SUFFICES ASSUME 0..n \ D # {} PROVE FALSE
  OBVIOUS
<1> DEFINE T == 0..n \ D
<1>1. T \in SUBSET Nat /\ T # {}
  OBVIOUS
<1> HIDE DEF T
<1>2. PICK m \in T : \A k \in T : m <= k
  BY <1>1, LeastElement
<1>3. m \in 0..n /\ m \notin D /\ (m - 1 \in T => m <= m - 1)
  BY <1>2 DEF T
<1>4. m - 1 \in 0..(n - 1) /\ m - 1 \in D
  BY <1>3 DEF T
<1>5. (m - 1) + 1 \in D
  BY <1>4
<1> QED BY <1>3, <1>5

\* Some indices have a last one.
LEMMA LastOfSome ==
    ASSUME NEW n \in Nat, NEW I \in SUBSET (1..n), I # {}
    PROVE  Max(I) \in I /\ \A i \in I : i <= Max(I)
<1> DEFINE T == {n - i : i \in I}
<1>1. T \in SUBSET Nat /\ T # {}
  <2>1. ASSUME NEW i \in I PROVE n - i \in Nat
    <3>1. i \in 1..n
      OBVIOUS
    <3> QED BY <3>1
  <2> QED BY <2>1
<1>2. PICK t \in T : \A u \in T : t <= u
  <2> HIDE DEF T
  <2> QED BY <1>1, LeastElement
<1>3. PICK i \in I : t = n - i
  BY <1>2
<1>4. \A j \in I : i >= j
  <2>1. ASSUME NEW j \in I PROVE i >= j
    <3>1. n - i <= n - j
      BY <1>2, <1>3
    <3> QED BY <3>1
  <2> QED BY <2>1
<1>5. Max(I) \in I /\ \A j \in I : Max(I) >= j
  BY <1>4 DEF Max
<1> QED BY <1>5

\* The functions that a loop over n elements applies one after the other, what it comes
\* to on the way, and two such walks that begin alike and go on alike.
Applied(S, n)        == [1..n -> [S -> S]]
Comes(g, S, b, n, F) == g \in [0..n -> S] /\ g[0] = b /\ \A k \in 1..n : g[k] = F[k][g[k - 1]]
Abreast(g, h, n)     == g[0] = h[0] /\ \A k \in 1..n : g[k - 1] = h[k - 1] => g[k] = h[k]
Same(g, h, n)        == \A k \in 0..n : g[k] = h[k]

\* What the loop comes to is defined after every element.
LEMMA LoopExists ==
    ASSUME NEW S, NEW b \in S, NEW n \in Nat, NEW F \in Applied(S, n)
    PROVE  \E g : Comes(g, S, b, n, F)
<1> DEFINE D == {m \in 0..n : \E g : Comes(g, S, b, m, F)}
<1>1. F \in [1..n -> [S -> S]]
  BY DEF Applied
<1>2. 0 \in D
  <2>1. Comes([k \in 0..0 |-> b], S, b, 0, F)
    BY DEF Comes
  <2> QED BY <2>1
<1>3. ASSUME NEW m \in 0..(n - 1), m \in D PROVE m + 1 \in D
  <2>1. PICK g : Comes(g, S, b, m, F)
    BY <1>3
  <2> DEFINE h == [k \in 0..(m + 1) |-> IF k = m + 1 THEN F[m + 1][g[m]] ELSE g[k]]
  <2>2. g \in [0..m -> S] /\ g[0] = b /\ \A k \in 1..m : g[k] = F[k][g[k - 1]]
    BY <2>1 DEF Comes
  <2>3. F[m + 1][g[m]] \in S
    BY <1>1, <2>2
  <2>4. h \in [0..(m + 1) -> S] /\ h[0] = b
    BY <2>2, <2>3
  <2>5. ASSUME NEW k \in 1..(m + 1) PROVE h[k] = F[k][h[k - 1]]
    BY <2>2
  <2>6. Comes(h, S, b, m + 1, F)
    BY <2>4, <2>5 DEF Comes
  <2>7. m + 1 \in 0..n
    OBVIOUS
  <2> HIDE DEF h
  <2> QED BY <2>6, <2>7
<1> HIDE DEF D
<1>4. \A m \in 0..(n - 1) : m \in D => m + 1 \in D
  BY <1>3
<1>5. 0..n \subseteq D
  BY <1>2, <1>4, UpTo
<1>6. n \in 0..n
  OBVIOUS
<1> QED BY <1>5, <1>6 DEF D

\* Two walks abreast are the same.
LEMMA StayAbreast == ASSUME NEW n \in Nat, NEW g, NEW h, Abreast(g, h, n) PROVE Same(g, h, n)
<1> DEFINE D == {k \in 0..n : g[k] = h[k]}
<1>1. \A k \in 0..(n - 1) : k \in D => k + 1 \in D
  BY DEF Abreast
<1>2. 0 \in D
  BY DEF Abreast
<1> HIDE DEF D
<1>3. 0..n \subseteq D
  BY <1>1, <1>2, UpTo
<1> QED BY <1>3 DEF D, Same

\* One element more is one function more.
LEMMA LoopGoesOn ==
    ASSUME NEW S, NEW b, NEW n \in Nat, NEW F, NEW G \in Applied(S, n + 1),
           \A k \in 1..n : F[k] = G[k],
           NEW u, NEW v, Comes(u, S, b, n, F), Comes(v, S, b, n + 1, G)
    PROVE  u[n] \in S /\ v[n + 1] = G[n + 1][u[n]]
<1>1. u \in [0..n -> S] /\ u[0] = b /\ \A k \in 1..n : u[k] = F[k][u[k - 1]]
  BY DEF Comes
<1>2. v[0] = b /\ \A k \in 1..(n + 1) : v[k] = G[k][v[k - 1]]
  BY DEF Comes
<1>3. ASSUME NEW k \in 1..n, u[k - 1] = v[k - 1] PROVE u[k] = v[k]
  <2>1. k \in 1..(n + 1)
    OBVIOUS
  <2>2. u[k] = F[k][u[k - 1]] /\ v[k] = G[k][v[k - 1]]
    BY <1>1, <1>2, <2>1
  <2> QED BY <1>3, <2>2
<1>4. Abreast(u, v, n)
  BY <1>1, <1>2, <1>3 DEF Abreast
<1>5. u[n] = v[n]
  BY <1>4, StayAbreast DEF Same
<1>6. v[n + 1] = G[n + 1][v[n]]
  BY <1>2
<1> QED BY <1>1, <1>5, <1>6

-----------------------------------------------------------------------------
(* What the loops of the page make of one element more *)

Nodes == ReasoningNodes \cup Tools
Said  == Results \cup {"none"}
TraceEvents == [seq : Nat, kind : {"started", "finished", "tool_started", "tool_finished"},
                node : Nodes, result : Said]
ToolRows == [name : Nodes, finished : BOOLEAN, result : Said]
NodeRows == [node : Nodes, finished : BOOLEAN, tools : Seq(ToolRows)]
Rows     == Seq(NodeRows)
Visits   == [order : Seq(Nodes), attempts : Nat]
Views    == [order : Seq(Nodes), attempts : Nat, calls : Seq([name : Nodes, result : Said]),
             inFlight : SUBSET Nodes, running : Nodes \cup {"none"}]

LEMMA RowAdded ==
    ASSUME NEW rows \in Rows, NEW row \in NodeRows
    PROVE  Append(rows, row) \in Rows
BY DEF Rows

LEMMA RowChanged ==
    ASSUME NEW rows \in Rows, NEW i \in DOMAIN rows, NEW row \in NodeRows
    PROVE  [rows EXCEPT ![i] = row] \in Rows
BY DEF Rows

LEMMA ToolAdded ==
    ASSUME NEW rows \in Rows, NEW owner \in BOOLEAN, NEW call \in ToolRows
    PROVE  UnderLastRow(rows, call, owner) \in Rows
<1>1. CASE rows = <<>>
  <2>1. Row("gather_evidence", owner, <<call>>) \in NodeRows
    BY DEF Row, NodeRows, Nodes, ReasoningNodes
  <2> QED BY <1>1, <2>1 DEF UnderLastRow, Rows
<1>2. CASE rows # <<>>
  <2>1. Len(rows) \in DOMAIN rows /\ rows[Len(rows)] \in NodeRows
    BY <1>2 DEF Rows
  <2>2. [rows[Len(rows)] EXCEPT !.tools = Append(@, call)] \in NodeRows
    BY <2>1 DEF NodeRows
  <2>3. [rows EXCEPT ![Len(rows)] = [rows[Len(rows)] EXCEPT !.tools = Append(@, call)]] \in Rows
    BY <2>1, <2>2, RowChanged
  <2> QED BY <1>2, <2>3 DEF UnderLastRow
<1> QED BY <1>1, <1>2

\* An index that SelectLastInSeq finds.
LEMMA SomeIndex ==
    ASSUME NEW n \in Nat, NEW I \in SUBSET (1..n), (IF I # {} THEN Max(I) ELSE 0) # 0
    PROVE  (IF I # {} THEN Max(I) ELSE 0) \in I
BY LastOfSome

\* rowsFromEvents: the rows of one event more.
LEMMA EventType == ASSUME NEW rows \in Rows, NEW e \in TraceEvents PROVE FoldRow(rows, e) \in Rows
<1>0. /\ e.node \in Nodes /\ e.result \in Said /\ "none" \in Said
      /\ e.kind \in {"started", "finished", "tool_started", "tool_finished"}
  BY DEF TraceEvents, Said
<1>1. CASE e.kind = "started"
  <2>1. Row(e.node, FALSE, <<>>) \in NodeRows
    BY <1>0 DEF Row, NodeRows
  <2> QED BY <1>1, <2>1, RowAdded DEF FoldRow
<1>2. CASE e.kind = "finished"
  <2> DEFINE I == {i \in 1..Len(rows) : rows[i].node = e.node /\ ~rows[i].finished}
             open == IF I # {} THEN Max(I) ELSE 0
  <2>1. open = 0 \/ open \in I
    <3>1. Len(rows) \in Nat /\ I \in SUBSET (1..Len(rows))
      BY DEF Rows
    <3> HIDE DEF I
    <3> QED BY <3>1, SomeIndex
  <2>2. FoldRow(rows, e) = IF open = 0 THEN Append(rows, Row(e.node, TRUE, <<>>))
                           ELSE [rows EXCEPT ![open].finished = TRUE]
    BY <1>2 DEF FoldRow, SelectLastInSeq
  <2> HIDE DEF open
  <2>3. CASE open = 0
    <3>1. Row(e.node, TRUE, <<>>) \in NodeRows
      BY <1>0 DEF Row, NodeRows
    <3> QED BY <2>2, <2>3, <3>1, RowAdded
  <2>4. CASE open \in I /\ open # 0
    <3>1. open \in DOMAIN rows /\ rows[open] \in NodeRows
      BY <2>4 DEF Rows
    <3>2. [rows[open] EXCEPT !.finished = TRUE] \in NodeRows
      BY <3>1 DEF NodeRows
    <3>3. [rows EXCEPT ![open] = [rows[open] EXCEPT !.finished = TRUE]] \in Rows
      BY <3>1, <3>2, RowChanged
    <3> QED BY <2>2, <2>4, <3>3
  <2> QED BY <2>1, <2>3, <2>4
<1>3. CASE e.kind = "tool_started"
  <2>1. Call(e.node, FALSE, "none") \in ToolRows
    BY <1>0 DEF Call, ToolRows
  <2> QED BY <1>3, <2>1, ToolAdded DEF FoldRow
<1>4. CASE e.kind = "tool_finished"
  <2> DEFINE tools == IF rows = <<>> THEN <<>> ELSE Last(rows).tools
             I     == {i \in 1..Len(tools) : tools[i].name = e.node /\ ~tools[i].finished}
             open  == IF I # {} THEN Max(I) ELSE 0
             done  == Call(e.node, TRUE, e.result)
  <2>1. done \in ToolRows
    BY <1>0 DEF Call, ToolRows
  <2>2. /\ tools \in Seq(ToolRows)
        /\ rows # <<>> => /\ Len(rows) \in DOMAIN rows /\ rows[Len(rows)] \in NodeRows
                          /\ tools = rows[Len(rows)].tools
    <3>1. CASE rows = <<>>
      BY <3>1
    <3>2. CASE rows # <<>>
      <4>1. Len(rows) \in DOMAIN rows /\ rows[Len(rows)] \in NodeRows
        BY <3>2 DEF Rows
      <4>2. tools = rows[Len(rows)].tools
        BY <3>2 DEF Last
      <4> QED BY <4>1, <4>2 DEF NodeRows
    <3> QED BY <3>1, <3>2
  <2>3. open = 0 \/ open \in I
    <3>1. Len(tools) \in Nat /\ I \in SUBSET (1..Len(tools))
      BY <2>2
    <3> HIDE DEF I
    <3> QED BY <3>1, SomeIndex
  <2>4. FoldRow(rows, e) = IF open = 0 THEN UnderLastRow(rows, done, TRUE)
                           ELSE [rows EXCEPT ![Len(rows)].tools[open] = done]
    BY <1>4 DEF FoldRow, SelectLastInSeq
  <2>5. rows = <<>> => tools = <<>>
    OBVIOUS
  <2> HIDE DEF open, tools, done
  <2>6. CASE open = 0
    BY <2>1, <2>4, <2>6, ToolAdded
  <2>7. CASE open \in I /\ open # 0
    <3>1. rows # <<>> /\ open \in DOMAIN tools
      BY <2>2, <2>5, <2>7
    <3>2. [tools EXCEPT ![open] = done] \in Seq(ToolRows)
      BY <2>1, <2>2, <3>1
    <3>3. [rows[Len(rows)] EXCEPT !.tools = [tools EXCEPT ![open] = done]] \in NodeRows
      BY <2>2, <3>1, <3>2 DEF NodeRows
    <3>4. [rows EXCEPT ![Len(rows)] =
               [rows[Len(rows)] EXCEPT !.tools = [tools EXCEPT ![open] = done]]] \in Rows
      BY <2>2, <3>1, <3>3, RowChanged
    <3> QED BY <2>2, <2>4, <2>7, <3>1, <3>4
  <2> QED BY <2>3, <2>6, <2>7
<1> QED BY <1>0, <1>1, <1>2, <1>3, <1>4

EventSteps(s) == [k \in 1..Len(s) |-> [rows \in Rows |-> FoldRow(rows, s[k])]]

LEMMA EventComes ==
    ASSUME NEW s \in Seq(TraceEvents)
    PROVE  /\ EventSteps(s) \in Applied(Rows, Len(s))
           /\ \E u : Comes(u, Rows, <<>>, Len(s), EventSteps(s)) /\ RowsFromEvents(s) = u[Len(s)]
<1>1. PICK n \in Nat : n = Len(s)
  OBVIOUS
<1>2. EventSteps(s) \in Applied(Rows, n)
  <2>1. ASSUME NEW k \in 1..n, NEW x \in Rows PROVE FoldRow(x, s[k]) \in Rows
    <3>1. s[k] \in TraceEvents
      BY <1>1
    <3> QED BY <3>1, EventType
  <2> QED BY <1>1, <2>1 DEF Applied, EventSteps
<1>3. PICK g : Comes(g, Rows, <<>>, n, EventSteps(s))
  <2>1. <<>> \in Rows
    BY DEF Rows
  <2> QED BY <1>2, <2>1, LoopExists
<1> DEFINE u == CHOOSE u : u = [k \in 0..n |-> IF k = 0 THEN <<>> ELSE FoldRow(u[k - 1], s[k])]
<1>4. /\ g \in [0..n -> Rows]
      /\ g = [k \in 0..n |-> IF k = 0 THEN <<>> ELSE FoldRow(g[k - 1], s[k])]
  <2>1. g \in [0..n -> Rows] /\ g[0] = <<>>
    BY <1>3 DEF Comes
  <2>2. ASSUME NEW k \in 1..n PROVE g[k] = FoldRow(g[k - 1], s[k])
    <3>1. g[k] = EventSteps(s)[k][g[k - 1]] /\ k - 1 \in 0..n
      BY <1>3 DEF Comes
    <3>2. g[k - 1] \in Rows
      BY <2>1, <3>1
    <3> QED BY <1>1, <3>1, <3>2 DEF EventSteps
  <2> QED BY <2>1, <2>2
<1>5. u = [k \in 0..n |-> IF k = 0 THEN <<>> ELSE FoldRow(u[k - 1], s[k])]
  BY <1>4
<1>6. RowsFromEvents(s) = u[n]
  BY <1>1 DEF RowsFromEvents, Folded
<1> HIDE DEF u
<1>7. Abreast(g, u, n)
  BY <1>4, <1>5 DEF Abreast
<1>8. Same(g, u, n)
  BY <1>7, StayAbreast
<1>9. g = u
  BY <1>4, <1>5, <1>8 DEF Same
<1> QED BY <1>1, <1>2, <1>3, <1>6, <1>9

LEMMA EventNone == RowsFromEvents(<<>>) = <<>>
<1>1. <<>> \in Seq(TraceEvents) /\ Len(<<>>) = 0
  OBVIOUS
<1>2. PICK u : Comes(u, Rows, <<>>, 0, EventSteps(<<>>)) /\ RowsFromEvents(<<>>) = u[0]
  BY <1>1, EventComes
<1> QED BY <1>2 DEF Comes

LEMMA EventAppend ==
    ASSUME NEW s \in Seq(TraceEvents), NEW e \in TraceEvents
    PROVE  RowsFromEvents(Append(s, e)) = FoldRow(RowsFromEvents(s), e)
<1>1. PICK n \in Nat : n = Len(s)
  OBVIOUS
<1> DEFINE t == Append(s, e)
<1>2. t \in Seq(TraceEvents) /\ Len(t) = n + 1 /\ t[n + 1] = e /\ \A k \in 1..n : t[k] = s[k]
  BY <1>1
<1> HIDE DEF t
<1>3. EventSteps(t) \in Applied(Rows, n + 1)
  BY <1>2, EventComes
<1>4. PICK u : Comes(u, Rows, <<>>, n, EventSteps(s)) /\ RowsFromEvents(s) = u[n]
  BY <1>1, EventComes
<1>5. PICK v : Comes(v, Rows, <<>>, n + 1, EventSteps(t)) /\ RowsFromEvents(t) = v[n + 1]
  BY <1>2, EventComes
<1>6. \A k \in 1..n : EventSteps(s)[k] = EventSteps(t)[k]
  BY <1>1, <1>2 DEF EventSteps
<1>7. u[n] \in Rows /\ v[n + 1] = EventSteps(t)[n + 1][u[n]]
  BY <1>3, <1>4, <1>5, <1>6, LoopGoesOn
<1>8. EventSteps(t)[n + 1][u[n]] = FoldRow(u[n], e)
  BY <1>2, <1>7 DEF EventSteps
<1> QED BY <1>4, <1>5, <1>7, <1>8 DEF t

\* rowsFromRecord: the rows of one line more.
LEMMA LineType ==
    ASSUME NEW calls \in Seq(Calls), NEW rows \in Rows, NEW line \in Lines
    PROVE  AddLine(calls, rows, line) \in Rows
<1> DEFINE I      == {i \in 1..Len(calls) : calls[i].name = line.call.name}
           last   == IF I # {} THEN Max(I) ELSE 0
           result == IF last = 0 THEN line.call.result ELSE calls[last].result
           tool   == Call(line.call.name, TRUE, result)
<1>1. CASE line.node # "tool"
  <2>1. line.node \in Nodes
    BY <1>1 DEF Lines, Nodes, ReasoningNodes
  <2>2. Row(line.node, TRUE, <<>>) \in NodeRows
    BY <2>1 DEF Row, NodeRows
  <2> QED BY <1>1, <2>2, RowAdded DEF AddLine
<1>2. CASE line.node = "tool" /\ rows = <<>>
  BY <1>2 DEF AddLine
<1>3. CASE line.node = "tool" /\ rows # <<>>
  <2>1. line.call \in Calls
    BY <1>3 DEF Lines
  <2>2. last = 0 \/ last \in I
    <3>1. Len(calls) \in Nat /\ I \in SUBSET (1..Len(calls))
      OBVIOUS
    <3> HIDE DEF I
    <3> QED BY <3>1, SomeIndex
  <2>3. result \in Results
    <3>1. CASE last = 0
      BY <2>1, <3>1 DEF Calls
    <3>2. CASE last \in I /\ last # 0
      <4>1. calls[last] \in Calls
        BY <3>2
      <4> HIDE DEF last
      <4> QED BY <3>2, <4>1 DEF Calls
    <3> QED BY <2>2, <3>1, <3>2
  <2>4. tool \in ToolRows
    BY <2>1, <2>3 DEF Call, ToolRows, Said, Nodes, Calls
  <2>5. AddLine(calls, rows, line) = [rows EXCEPT ![Len(rows)].tools = Append(@, tool)]
    BY <1>3 DEF AddLine, SelectLastInSeq
  <2> HIDE DEF tool
  <2>6. Len(rows) \in DOMAIN rows /\ rows[Len(rows)] \in NodeRows
    BY <1>3 DEF Rows
  <2>7. [rows[Len(rows)] EXCEPT !.tools = Append(@, tool)] \in NodeRows
    BY <2>4, <2>6 DEF NodeRows
  <2>8. [rows EXCEPT ![Len(rows)] = [rows[Len(rows)] EXCEPT !.tools = Append(@, tool)]] \in Rows
    BY <2>6, <2>7, RowChanged
  <2> QED BY <2>5, <2>8
<1> QED BY <1>1, <1>2, <1>3

LineSteps(calls, s) == [k \in 1..Len(s) |-> [rows \in Rows |-> AddLine(calls, rows, s[k])]]

LEMMA LineComes ==
    ASSUME NEW calls \in Seq(Calls), NEW s \in Seq(Lines)
    PROVE  /\ LineSteps(calls, s) \in Applied(Rows, Len(s))
           /\ \E u : Comes(u, Rows, <<>>, Len(s), LineSteps(calls, s))
                 /\ RowsFromRecord([graphTrace |-> s, toolCalls |-> calls]) = u[Len(s)]
<1>1. PICK n \in Nat : n = Len(s)
  OBVIOUS
<1>2. LineSteps(calls, s) \in Applied(Rows, n)
  <2>1. ASSUME NEW k \in 1..n, NEW x \in Rows PROVE AddLine(calls, x, s[k]) \in Rows
    <3>1. s[k] \in Lines
      BY <1>1
    <3> QED BY <3>1, LineType
  <2> QED BY <1>1, <2>1 DEF Applied, LineSteps
<1>3. PICK g : Comes(g, Rows, <<>>, n, LineSteps(calls, s))
  <2>1. <<>> \in Rows
    BY DEF Rows
  <2> QED BY <1>2, <2>1, LoopExists
<1> DEFINE u == CHOOSE u : u = [k \in 0..n |-> IF k = 0 THEN <<>> ELSE AddLine(calls, u[k - 1], s[k])]
<1>4. /\ g \in [0..n -> Rows]
      /\ g = [k \in 0..n |-> IF k = 0 THEN <<>> ELSE AddLine(calls, g[k - 1], s[k])]
  <2>1. g \in [0..n -> Rows] /\ g[0] = <<>>
    BY <1>3 DEF Comes
  <2>2. ASSUME NEW k \in 1..n PROVE g[k] = AddLine(calls, g[k - 1], s[k])
    <3>1. g[k] = LineSteps(calls, s)[k][g[k - 1]] /\ k - 1 \in 0..n
      BY <1>3 DEF Comes
    <3>2. g[k - 1] \in Rows
      BY <2>1, <3>1
    <3> QED BY <1>1, <3>1, <3>2 DEF LineSteps
  <2> QED BY <2>1, <2>2
<1>5. u = [k \in 0..n |-> IF k = 0 THEN <<>> ELSE AddLine(calls, u[k - 1], s[k])]
  BY <1>4
<1>6. RowsFromRecord([graphTrace |-> s, toolCalls |-> calls]) = u[n]
  BY <1>1 DEF RowsFromRecord, Folded
<1> HIDE DEF u
<1>7. Abreast(g, u, n)
  BY <1>4, <1>5 DEF Abreast
<1>8. Same(g, u, n)
  BY <1>7, StayAbreast
<1>9. g = u
  BY <1>4, <1>5, <1>8 DEF Same
<1> QED BY <1>1, <1>2, <1>3, <1>6, <1>9

LEMMA LineIs ==
    ASSUME NEW calls \in Seq(Calls), NEW s \in Seq(Lines)
    PROVE  RowsFromRecord([graphTrace |-> s, toolCalls |-> calls]) \in Rows
<1>1. PICK n \in Nat : n = Len(s)
  OBVIOUS
<1>2. PICK u : Comes(u, Rows, <<>>, n, LineSteps(calls, s))
               /\ RowsFromRecord([graphTrace |-> s, toolCalls |-> calls]) = u[n]
  BY <1>1, LineComes
<1> QED BY <1>2 DEF Comes

LEMMA LineNone ==
    ASSUME NEW calls \in Seq(Calls)
    PROVE  RowsFromRecord([graphTrace |-> <<>>, toolCalls |-> calls]) = <<>>
<1>1. <<>> \in Seq(Lines) /\ Len(<<>>) = 0
  OBVIOUS
<1>2. PICK u : Comes(u, Rows, <<>>, 0, LineSteps(calls, <<>>))
               /\ RowsFromRecord([graphTrace |-> <<>>, toolCalls |-> calls]) = u[0]
  BY <1>1, LineComes
<1> QED BY <1>2 DEF Comes

LEMMA LineAppend ==
    ASSUME NEW calls \in Seq(Calls), NEW s \in Seq(Lines), NEW e \in Lines
    PROVE  RowsFromRecord([graphTrace |-> Append(s, e), toolCalls |-> calls])
               = AddLine(calls, RowsFromRecord([graphTrace |-> s, toolCalls |-> calls]), e)
<1>1. PICK n \in Nat : n = Len(s)
  OBVIOUS
<1> DEFINE t == Append(s, e)
<1>2. t \in Seq(Lines) /\ Len(t) = n + 1 /\ t[n + 1] = e /\ \A k \in 1..n : t[k] = s[k]
  BY <1>1
<1> HIDE DEF t
<1>3. LineSteps(calls, t) \in Applied(Rows, n + 1)
  BY <1>2, LineComes
<1>4. PICK u : Comes(u, Rows, <<>>, n, LineSteps(calls, s))
               /\ RowsFromRecord([graphTrace |-> s, toolCalls |-> calls]) = u[n]
  BY <1>1, LineComes
<1>5. PICK v : Comes(v, Rows, <<>>, n + 1, LineSteps(calls, t))
               /\ RowsFromRecord([graphTrace |-> t, toolCalls |-> calls]) = v[n + 1]
  BY <1>2, LineComes
<1>6. \A k \in 1..n : LineSteps(calls, s)[k] = LineSteps(calls, t)[k]
  BY <1>1, <1>2 DEF LineSteps
<1>7. u[n] \in Rows /\ v[n + 1] = LineSteps(calls, t)[n + 1][u[n]]
  BY <1>3, <1>4, <1>5, <1>6, LoopGoesOn
<1>8. LineSteps(calls, t)[n + 1][u[n]] = AddLine(calls, u[n], e)
  BY <1>2, <1>7 DEF LineSteps
<1> QED BY <1>4, <1>5, <1>7, <1>8 DEF t

\* parseGraphTrace: the nodes visited with one line more.
LEMMA VisitType == ASSUME NEW v \in Visits, NEW line \in Lines PROVE VisitLine(v, line) \in Visits
<1>1. CASE line.node = "tool"
  BY <1>1 DEF VisitLine
<1>2. CASE line.node # "tool"
  <2>1. line.node \in Nodes
    BY <1>2 DEF Lines, Nodes, ReasoningNodes
  <2>2. v.order \in Seq(Nodes) /\ v.attempts \in Nat
    BY DEF Visits
  <2>3. NotRepeated(v.order, line.node) \in Seq(Nodes)
    BY <2>1, <2>2 DEF NotRepeated
  <2> QED BY <1>2, <2>2, <2>3 DEF VisitLine, Visits
<1> QED BY <1>1, <1>2

NoVisit       == [order |-> <<>>, attempts |-> 0]
VisitSteps(s) == [k \in 1..Len(s) |-> [v \in Visits |-> VisitLine(v, s[k])]]

LEMMA VisitComes ==
    ASSUME NEW s \in Seq(Lines)
    PROVE  /\ VisitSteps(s) \in Applied(Visits, Len(s))
           /\ \E u : Comes(u, Visits, NoVisit, Len(s), VisitSteps(s)) /\ ParseGraphTrace(s) = u[Len(s)]
<1>1. PICK n \in Nat : n = Len(s)
  OBVIOUS
<1>2. VisitSteps(s) \in Applied(Visits, n)
  <2>1. ASSUME NEW k \in 1..n, NEW x \in Visits PROVE VisitLine(x, s[k]) \in Visits
    <3>1. s[k] \in Lines
      BY <1>1
    <3> QED BY <3>1, VisitType
  <2> QED BY <1>1, <2>1 DEF Applied, VisitSteps
<1>3. PICK g : Comes(g, Visits, NoVisit, n, VisitSteps(s))
  <2>1. NoVisit \in Visits
    BY DEF Visits, NoVisit
  <2> QED BY <1>2, <2>1, LoopExists
<1> DEFINE u == CHOOSE u : u = [k \in 0..n |-> IF k = 0 THEN NoVisit ELSE VisitLine(u[k - 1], s[k])]
<1>4. /\ g \in [0..n -> Visits]
      /\ g = [k \in 0..n |-> IF k = 0 THEN NoVisit ELSE VisitLine(g[k - 1], s[k])]
  <2>1. g \in [0..n -> Visits] /\ g[0] = NoVisit
    BY <1>3 DEF Comes
  <2>2. ASSUME NEW k \in 1..n PROVE g[k] = VisitLine(g[k - 1], s[k])
    <3>1. g[k] = VisitSteps(s)[k][g[k - 1]] /\ k - 1 \in 0..n
      BY <1>3 DEF Comes
    <3>2. g[k - 1] \in Visits
      BY <2>1, <3>1
    <3> QED BY <1>1, <3>1, <3>2 DEF VisitSteps
  <2> QED BY <2>1, <2>2
<1>5. u = [k \in 0..n |-> IF k = 0 THEN NoVisit ELSE VisitLine(u[k - 1], s[k])]
  BY <1>4
<1>6. ParseGraphTrace(s) = u[n]
  BY <1>1 DEF ParseGraphTrace, NoVisit, Folded
<1> HIDE DEF u
<1>7. Abreast(g, u, n)
  BY <1>4, <1>5 DEF Abreast
<1>8. Same(g, u, n)
  BY <1>7, StayAbreast
<1>9. g = u
  BY <1>4, <1>5, <1>8 DEF Same
<1> QED BY <1>1, <1>2, <1>3, <1>6, <1>9

LEMMA VisitIs == ASSUME NEW s \in Seq(Lines) PROVE ParseGraphTrace(s) \in Visits
<1>1. PICK n \in Nat : n = Len(s)
  OBVIOUS
<1>2. PICK u : Comes(u, Visits, NoVisit, n, VisitSteps(s)) /\ ParseGraphTrace(s) = u[n]
  BY <1>1, VisitComes
<1> QED BY <1>2 DEF Comes

LEMMA VisitNone == ParseGraphTrace(<<>>) = NoVisit
<1>1. <<>> \in Seq(Lines) /\ Len(<<>>) = 0
  OBVIOUS
<1>2. PICK u : Comes(u, Visits, NoVisit, 0, VisitSteps(<<>>)) /\ ParseGraphTrace(<<>>) = u[0]
  BY <1>1, VisitComes
<1> QED BY <1>2 DEF Comes

LEMMA VisitAppend ==
    ASSUME NEW s \in Seq(Lines), NEW e \in Lines
    PROVE  ParseGraphTrace(Append(s, e)) = VisitLine(ParseGraphTrace(s), e)
<1>1. PICK n \in Nat : n = Len(s)
  OBVIOUS
<1> DEFINE t == Append(s, e)
<1>2. t \in Seq(Lines) /\ Len(t) = n + 1 /\ t[n + 1] = e /\ \A k \in 1..n : t[k] = s[k]
  BY <1>1
<1> HIDE DEF t
<1>3. VisitSteps(t) \in Applied(Visits, n + 1)
  BY <1>2, VisitComes
<1>4. PICK u : Comes(u, Visits, NoVisit, n, VisitSteps(s)) /\ ParseGraphTrace(s) = u[n]
  BY <1>1, VisitComes
<1>5. PICK v : Comes(v, Visits, NoVisit, n + 1, VisitSteps(t)) /\ ParseGraphTrace(t) = v[n + 1]
  BY <1>2, VisitComes
<1>6. \A k \in 1..n : VisitSteps(s)[k] = VisitSteps(t)[k]
  BY <1>1, <1>2 DEF VisitSteps
<1>7. u[n] \in Visits /\ v[n + 1] = VisitSteps(t)[n + 1][u[n]]
  BY <1>3, <1>4, <1>5, <1>6, LoopGoesOn
<1>8. VisitSteps(t)[n + 1][u[n]] = VisitLine(u[n], e)
  BY <1>2, <1>7 DEF VisitSteps
<1> QED BY <1>4, <1>5, <1>7, <1>8 DEF t

\* viewFromLive: the view of one event more.
LEMMA ViewType == ASSUME NEW v \in Views, NEW e \in TraceEvents PROVE FoldView(v, e) \in Views
<1>1. /\ e.node \in Nodes /\ e.result \in Said
      /\ e.kind \in {"started", "finished", "tool_started", "tool_finished"}
  BY DEF TraceEvents
<1>2. /\ v.order \in Seq(Nodes) /\ v.attempts \in Nat /\ v.calls \in Seq([name : Nodes, result : Said])
      /\ v.inFlight \in SUBSET Nodes /\ v.running \in Nodes \cup {"none"}
  BY DEF Views
<1>3. CASE e.kind = "started"
  <2>1. NotRepeated(v.order, e.node) \in Seq(Nodes)
    BY <1>1, <1>2 DEF NotRepeated
  <2> DEFINE order    == NotRepeated(v.order, e.node)
             attempts == IF e.node = "classify" THEN v.attempts + 1 ELSE v.attempts
  <2>2. attempts \in Nat
    BY <1>2
  <2>3. FoldView(v, e) = [v EXCEPT !.order = order, !.running = e.node, !.attempts = attempts]
    BY <1>3 DEF FoldView
  <2> HIDE DEF order, attempts
  <2>4. [v EXCEPT !.order = order, !.running = e.node, !.attempts = attempts] \in Views
    BY <1>1, <2>1, <2>2 DEF Views, order
  <2> QED BY <2>3, <2>4
<1>4. CASE e.kind = "finished"
  BY <1>1, <1>2, <1>4 DEF FoldView, Views
<1>5. CASE e.kind = "tool_started"
  BY <1>1, <1>2, <1>5 DEF FoldView, Views
<1>6. CASE e.kind = "tool_finished"
  <2>1. Append(v.calls, [name |-> e.node, result |-> e.result]) \in Seq([name : Nodes, result : Said])
    BY <1>1, <1>2
  <2> QED BY <1>1, <1>2, <1>6, <2>1 DEF FoldView, Views
<1> QED BY <1>1, <1>3, <1>4, <1>5, <1>6

ViewSteps(s) == [k \in 1..Len(s) |-> [v \in Views |-> FoldView(v, s[k])]]

LEMMA ViewComes ==
    ASSUME NEW s \in Seq(TraceEvents)
    PROVE  /\ ViewSteps(s) \in Applied(Views, Len(s))
           /\ \E u : Comes(u, Views, NoView, Len(s), ViewSteps(s)) /\ ViewFromLive(s) = u[Len(s)]
<1>1. PICK n \in Nat : n = Len(s)
  OBVIOUS
<1>2. ViewSteps(s) \in Applied(Views, n)
  <2>1. ASSUME NEW k \in 1..n, NEW x \in Views PROVE FoldView(x, s[k]) \in Views
    <3>1. s[k] \in TraceEvents
      BY <1>1
    <3> QED BY <3>1, ViewType
  <2> QED BY <1>1, <2>1 DEF Applied, ViewSteps
<1>3. PICK g : Comes(g, Views, NoView, n, ViewSteps(s))
  <2>1. NoView \in Views
    BY DEF Views, NoView
  <2> QED BY <1>2, <2>1, LoopExists
<1> DEFINE u == CHOOSE u : u = [k \in 0..n |-> IF k = 0 THEN NoView ELSE FoldView(u[k - 1], s[k])]
<1>4. /\ g \in [0..n -> Views]
      /\ g = [k \in 0..n |-> IF k = 0 THEN NoView ELSE FoldView(g[k - 1], s[k])]
  <2>1. g \in [0..n -> Views] /\ g[0] = NoView
    BY <1>3 DEF Comes
  <2>2. ASSUME NEW k \in 1..n PROVE g[k] = FoldView(g[k - 1], s[k])
    <3>1. g[k] = ViewSteps(s)[k][g[k - 1]] /\ k - 1 \in 0..n
      BY <1>3 DEF Comes
    <3>2. g[k - 1] \in Views
      BY <2>1, <3>1
    <3> QED BY <1>1, <3>1, <3>2 DEF ViewSteps
  <2> QED BY <2>1, <2>2
<1>5. u = [k \in 0..n |-> IF k = 0 THEN NoView ELSE FoldView(u[k - 1], s[k])]
  BY <1>4
<1>6. ViewFromLive(s) = u[n]
  BY <1>1 DEF ViewFromLive, Folded
<1> HIDE DEF u
<1>7. Abreast(g, u, n)
  BY <1>4, <1>5 DEF Abreast
<1>8. Same(g, u, n)
  BY <1>7, StayAbreast
<1>9. g = u
  BY <1>4, <1>5, <1>8 DEF Same
<1> QED BY <1>1, <1>2, <1>3, <1>6, <1>9

LEMMA ViewNone == ViewFromLive(<<>>) = NoView
<1>1. <<>> \in Seq(TraceEvents) /\ Len(<<>>) = 0
  OBVIOUS
<1>2. PICK u : Comes(u, Views, NoView, 0, ViewSteps(<<>>)) /\ ViewFromLive(<<>>) = u[0]
  BY <1>1, ViewComes
<1> QED BY <1>2 DEF Comes

LEMMA ViewAppend ==
    ASSUME NEW s \in Seq(TraceEvents), NEW e \in TraceEvents
    PROVE  ViewFromLive(Append(s, e)) = FoldView(ViewFromLive(s), e)
<1>1. PICK n \in Nat : n = Len(s)
  OBVIOUS
<1> DEFINE t == Append(s, e)
<1>2. t \in Seq(TraceEvents) /\ Len(t) = n + 1 /\ t[n + 1] = e /\ \A k \in 1..n : t[k] = s[k]
  BY <1>1
<1> HIDE DEF t
<1>3. ViewSteps(t) \in Applied(Views, n + 1)
  BY <1>2, ViewComes
<1>4. PICK u : Comes(u, Views, NoView, n, ViewSteps(s)) /\ ViewFromLive(s) = u[n]
  BY <1>1, ViewComes
<1>5. PICK v : Comes(v, Views, NoView, n + 1, ViewSteps(t)) /\ ViewFromLive(t) = v[n + 1]
  BY <1>2, ViewComes
<1>6. \A k \in 1..n : ViewSteps(s)[k] = ViewSteps(t)[k]
  BY <1>1, <1>2 DEF ViewSteps
<1>7. u[n] \in Views /\ v[n + 1] = ViewSteps(t)[n + 1][u[n]]
  BY <1>3, <1>4, <1>5, <1>6, LoopGoesOn
<1>8. ViewSteps(t)[n + 1][u[n]] = FoldView(u[n], e)
  BY <1>2, <1>7 DEF ViewSteps
<1> QED BY <1>4, <1>5, <1>7, <1>8 DEF t

\* callsFromRows, within a row: the finished tools of one tool more.
LEMMA DoneType ==
    ASSUME NEW c \in Seq(ToolRows), NEW t \in ToolRows
    PROVE  AddFinished(c, t) \in Seq(ToolRows)
BY DEF AddFinished

FinishedOf(s) == Folded(AddFinished, <<>>, s)
DoneSteps(s)  == [k \in 1..Len(s) |-> [c \in Seq(ToolRows) |-> AddFinished(c, s[k])]]

LEMMA DoneComes ==
    ASSUME NEW s \in Seq(ToolRows)
    PROVE  /\ DoneSteps(s) \in Applied(Seq(ToolRows), Len(s))
           /\ \E u : Comes(u, Seq(ToolRows), <<>>, Len(s), DoneSteps(s)) /\ FinishedOf(s) = u[Len(s)]
<1>1. PICK n \in Nat : n = Len(s)
  OBVIOUS
<1>2. DoneSteps(s) \in Applied(Seq(ToolRows), n)
  <2>1. ASSUME NEW k \in 1..n, NEW x \in Seq(ToolRows) PROVE AddFinished(x, s[k]) \in Seq(ToolRows)
    <3>1. s[k] \in ToolRows
      BY <1>1
    <3> QED BY <3>1, DoneType
  <2> QED BY <1>1, <2>1 DEF Applied, DoneSteps
<1>3. PICK g : Comes(g, Seq(ToolRows), <<>>, n, DoneSteps(s))
  <2>1. <<>> \in Seq(ToolRows)
    BY DEF ToolRows
  <2> QED BY <1>2, <2>1, LoopExists
<1> DEFINE u == CHOOSE u : u = [k \in 0..n |-> IF k = 0 THEN <<>> ELSE AddFinished(u[k - 1], s[k])]
<1>4. /\ g \in [0..n -> Seq(ToolRows)]
      /\ g = [k \in 0..n |-> IF k = 0 THEN <<>> ELSE AddFinished(g[k - 1], s[k])]
  <2>1. g \in [0..n -> Seq(ToolRows)] /\ g[0] = <<>>
    BY <1>3 DEF Comes
  <2>2. ASSUME NEW k \in 1..n PROVE g[k] = AddFinished(g[k - 1], s[k])
    <3>1. g[k] = DoneSteps(s)[k][g[k - 1]] /\ k - 1 \in 0..n
      BY <1>3 DEF Comes
    <3>2. g[k - 1] \in Seq(ToolRows)
      BY <2>1, <3>1
    <3> QED BY <1>1, <3>1, <3>2 DEF DoneSteps
  <2> QED BY <2>1, <2>2
<1>5. u = [k \in 0..n |-> IF k = 0 THEN <<>> ELSE AddFinished(u[k - 1], s[k])]
  BY <1>4
<1>6. FinishedOf(s) = u[n]
  BY <1>1 DEF FinishedOf, Folded
<1> HIDE DEF u
<1>7. Abreast(g, u, n)
  BY <1>4, <1>5 DEF Abreast
<1>8. Same(g, u, n)
  BY <1>7, StayAbreast
<1>9. g = u
  BY <1>4, <1>5, <1>8 DEF Same
<1> QED BY <1>1, <1>2, <1>3, <1>6, <1>9

LEMMA DoneIs == ASSUME NEW s \in Seq(ToolRows) PROVE FinishedOf(s) \in Seq(ToolRows)
<1>1. PICK n \in Nat : n = Len(s)
  OBVIOUS
<1>2. PICK u : Comes(u, Seq(ToolRows), <<>>, n, DoneSteps(s)) /\ FinishedOf(s) = u[n]
  BY <1>1, DoneComes
<1> QED BY <1>2 DEF Comes

LEMMA DoneNone == FinishedOf(<<>>) = <<>>
<1>1. <<>> \in Seq(ToolRows) /\ Len(<<>>) = 0
  OBVIOUS
<1>2. PICK u : Comes(u, Seq(ToolRows), <<>>, 0, DoneSteps(<<>>)) /\ FinishedOf(<<>>) = u[0]
  BY <1>1, DoneComes
<1> QED BY <1>2 DEF Comes

LEMMA DoneAppend ==
    ASSUME NEW s \in Seq(ToolRows), NEW e \in ToolRows
    PROVE  FinishedOf(Append(s, e)) = AddFinished(FinishedOf(s), e)
<1>1. PICK n \in Nat : n = Len(s)
  OBVIOUS
<1> DEFINE t == Append(s, e)
<1>2. t \in Seq(ToolRows) /\ Len(t) = n + 1 /\ t[n + 1] = e /\ \A k \in 1..n : t[k] = s[k]
  BY <1>1
<1> HIDE DEF t
<1>3. DoneSteps(t) \in Applied(Seq(ToolRows), n + 1)
  BY <1>2, DoneComes
<1>4. PICK u : Comes(u, Seq(ToolRows), <<>>, n, DoneSteps(s)) /\ FinishedOf(s) = u[n]
  BY <1>1, DoneComes
<1>5. PICK v : Comes(v, Seq(ToolRows), <<>>, n + 1, DoneSteps(t)) /\ FinishedOf(t) = v[n + 1]
  BY <1>2, DoneComes
<1>6. \A k \in 1..n : DoneSteps(s)[k] = DoneSteps(t)[k]
  BY <1>1, <1>2 DEF DoneSteps
<1>7. u[n] \in Seq(ToolRows) /\ v[n + 1] = DoneSteps(t)[n + 1][u[n]]
  BY <1>3, <1>4, <1>5, <1>6, LoopGoesOn
<1>8. DoneSteps(t)[n + 1][u[n]] = AddFinished(u[n], e)
  BY <1>2, <1>7 DEF DoneSteps
<1> QED BY <1>4, <1>5, <1>7, <1>8 DEF t

\* callsFromRows: the calls of one row more.
LEMMA CalledType ==
    ASSUME NEW c \in Seq(ToolRows), NEW row \in NodeRows
    PROVE  AddCalls(c, row) \in Seq(ToolRows)
<1>1. row.tools \in Seq(ToolRows)
  BY DEF NodeRows
<1>2. FinishedOf(row.tools) \in Seq(ToolRows)
  BY <1>1, DoneIs
<1> QED BY <1>2 DEF AddCalls, FinishedOf

CalledSteps(s) == [k \in 1..Len(s) |-> [c \in Seq(ToolRows) |-> AddCalls(c, s[k])]]

LEMMA CalledComes ==
    ASSUME NEW s \in Seq(NodeRows)
    PROVE  /\ CalledSteps(s) \in Applied(Seq(ToolRows), Len(s))
           /\ \E u : Comes(u, Seq(ToolRows), <<>>, Len(s), CalledSteps(s)) /\ CallsFromRows(s) = u[Len(s)]
<1>1. PICK n \in Nat : n = Len(s)
  OBVIOUS
<1>2. CalledSteps(s) \in Applied(Seq(ToolRows), n)
  <2>1. ASSUME NEW k \in 1..n, NEW x \in Seq(ToolRows) PROVE AddCalls(x, s[k]) \in Seq(ToolRows)
    <3>1. s[k] \in NodeRows
      BY <1>1
    <3> QED BY <3>1, CalledType
  <2> QED BY <1>1, <2>1 DEF Applied, CalledSteps
<1>3. PICK g : Comes(g, Seq(ToolRows), <<>>, n, CalledSteps(s))
  <2>1. <<>> \in Seq(ToolRows)
    BY DEF ToolRows
  <2> QED BY <1>2, <2>1, LoopExists
<1> DEFINE u == CHOOSE u : u = [k \in 0..n |-> IF k = 0 THEN <<>> ELSE AddCalls(u[k - 1], s[k])]
<1>4. /\ g \in [0..n -> Seq(ToolRows)]
      /\ g = [k \in 0..n |-> IF k = 0 THEN <<>> ELSE AddCalls(g[k - 1], s[k])]
  <2>1. g \in [0..n -> Seq(ToolRows)] /\ g[0] = <<>>
    BY <1>3 DEF Comes
  <2>2. ASSUME NEW k \in 1..n PROVE g[k] = AddCalls(g[k - 1], s[k])
    <3>1. g[k] = CalledSteps(s)[k][g[k - 1]] /\ k - 1 \in 0..n
      BY <1>3 DEF Comes
    <3>2. g[k - 1] \in Seq(ToolRows)
      BY <2>1, <3>1
    <3> QED BY <1>1, <3>1, <3>2 DEF CalledSteps
  <2> QED BY <2>1, <2>2
<1>5. u = [k \in 0..n |-> IF k = 0 THEN <<>> ELSE AddCalls(u[k - 1], s[k])]
  BY <1>4
<1>6. CallsFromRows(s) = u[n]
  BY <1>1 DEF CallsFromRows, Folded
<1> HIDE DEF u
<1>7. Abreast(g, u, n)
  BY <1>4, <1>5 DEF Abreast
<1>8. Same(g, u, n)
  BY <1>7, StayAbreast
<1>9. g = u
  BY <1>4, <1>5, <1>8 DEF Same
<1> QED BY <1>1, <1>2, <1>3, <1>6, <1>9

LEMMA CalledIs == ASSUME NEW s \in Seq(NodeRows) PROVE CallsFromRows(s) \in Seq(ToolRows)
<1>1. PICK n \in Nat : n = Len(s)
  OBVIOUS
<1>2. PICK u : Comes(u, Seq(ToolRows), <<>>, n, CalledSteps(s)) /\ CallsFromRows(s) = u[n]
  BY <1>1, CalledComes
<1> QED BY <1>2 DEF Comes

LEMMA CalledNone == CallsFromRows(<<>>) = <<>>
<1>1. <<>> \in Seq(NodeRows) /\ Len(<<>>) = 0
  OBVIOUS
<1>2. PICK u : Comes(u, Seq(ToolRows), <<>>, 0, CalledSteps(<<>>)) /\ CallsFromRows(<<>>) = u[0]
  BY <1>1, CalledComes
<1> QED BY <1>2 DEF Comes

LEMMA CalledAppend ==
    ASSUME NEW s \in Seq(NodeRows), NEW e \in NodeRows
    PROVE  CallsFromRows(Append(s, e)) = AddCalls(CallsFromRows(s), e)
<1>1. PICK n \in Nat : n = Len(s)
  OBVIOUS
<1> DEFINE t == Append(s, e)
<1>2. t \in Seq(NodeRows) /\ Len(t) = n + 1 /\ t[n + 1] = e /\ \A k \in 1..n : t[k] = s[k]
  BY <1>1
<1> HIDE DEF t
<1>3. CalledSteps(t) \in Applied(Seq(ToolRows), n + 1)
  BY <1>2, CalledComes
<1>4. PICK u : Comes(u, Seq(ToolRows), <<>>, n, CalledSteps(s)) /\ CallsFromRows(s) = u[n]
  BY <1>1, CalledComes
<1>5. PICK v : Comes(v, Seq(ToolRows), <<>>, n + 1, CalledSteps(t)) /\ CallsFromRows(t) = v[n + 1]
  BY <1>2, CalledComes
<1>6. \A k \in 1..n : CalledSteps(s)[k] = CalledSteps(t)[k]
  BY <1>1, <1>2 DEF CalledSteps
<1>7. u[n] \in Seq(ToolRows) /\ v[n + 1] = CalledSteps(t)[n + 1][u[n]]
  BY <1>3, <1>4, <1>5, <1>6, LoopGoesOn
<1>8. CalledSteps(t)[n + 1][u[n]] = AddCalls(u[n], e)
  BY <1>2, <1>7 DEF CalledSteps
<1> QED BY <1>4, <1>5, <1>7, <1>8 DEF t

-----------------------------------------------------------------------------
(***************************************************************************)
(* What the page shows of an attempt that goes on                          *)
(***************************************************************************)

RecordOf(r) == [graphTrace |-> r.trace, toolCalls |-> r.calls]
RowsOf(r)   == RowsFromRecord(RecordOf(r))

\* The node a place is inside of.
NodeAt(place) ==
    CASE place = "classifying"                     -> "classify"
      [] place \in {"choosing", "calling", "tool"} -> "gather_evidence"
      [] place = "escalating"                      -> "escalate"
      [] place = "validating"                      -> "validate"
      [] OTHER                                     -> "none"

\* The tools of the row of the node under way: those that answered, and the one asked.
Answered(calls) == [i \in DOMAIN calls |-> Call(calls[i].name, TRUE, calls[i].result)]
Asked(r)        == Call(Head(r.wanted), FALSE, "none")
ToolsOf(r)      == IF r.at = "tool" THEN Append(Answered(r.calls), Asked(r))
                   ELSE IF NodeAt(r.at) = "gather_evidence" THEN Answered(r.calls) ELSE <<>>

WithUnfinished(rows, r) ==
    IF NodeAt(r.at) = "none" THEN rows ELSE Append(rows, Row(NodeAt(r.at), FALSE, ToolsOf(r)))

\* The view of the record so far, with the node under way.
View(order, attempts, calls, inFlight, running) ==
    [order |-> order, attempts |-> attempts, calls |-> calls, inFlight |-> inFlight,
     running |-> running]

ViewOf(r) ==
    LET visited == ParseGraphTrace(r.trace)
        n       == NodeAt(r.at)
    IN  View(IF n = "none" THEN visited.order ELSE NotRepeated(visited.order, n),
             IF n = "classify" THEN visited.attempts + 1 ELSE visited.attempts,
             r.calls, IF r.at = "tool" THEN {Head(r.wanted)} ELSE {}, n)

\* The events show what the record so far shows, and the node under way.
ShownBy(events, r) ==
    /\ NoToolTwice(r.calls) => RowsFromEvents(events) = WithUnfinished(RowsOf(r), r)
    /\ ViewFromLive(events) = ViewOf(r)

AllFinished(s) == \A i \in DOMAIN s : s[i].finished

\* The record so far: before the evidence is in, its rows need no calls, which there are
\* only while they are made; afterwards its rows list them all.
Written(r) ==
    /\ ~r.enriched =>
          /\ \A calls \in Seq(Calls) :
                RowsFromRecord([graphTrace |-> r.trace, toolCalls |-> calls]) = RowsOf(r)
          /\ r.at \in {"calling", "tool"} \/ r.calls = <<>>
    /\ NoToolTwice(r.calls) =>
          /\ AllFinished(RowsOf(r))
          /\ CallsFromRows(RowsOf(r)) = IF r.enriched THEN Answered(r.calls) ELSE <<>>

LEMMA CallIsTool ==
    ASSUME NEW c \in Calls, NEW finished \in BOOLEAN
    PROVE  /\ Call(c.name, finished, c.result) \in ToolRows
           /\ Call(c.name, finished, "none") \in ToolRows
BY DEF Calls, Call, ToolRows, Nodes, Said

\* Two sequences of the same length and the same elements.
LEMMA SameSeq ==
    ASSUME NEW S, NEW n \in Nat, NEW s \in Seq(S), NEW t \in Seq(S), Len(s) = n, Len(t) = n,
           \A i \in 1..n : s[i] = t[i]
    PROVE  s = t
OBVIOUS

LEMMA Appended ==
    ASSUME NEW S, NEW n \in Nat, NEW s \in Seq(S), Len(s) = n, NEW e \in S
    PROVE  /\ Append(s, e) \in Seq(S) /\ Len(Append(s, e)) = n + 1 /\ Append(s, e)[n + 1] = e
           /\ \A i \in 1..n : Append(s, e)[i] = s[i]
OBVIOUS

LEMMA AnsweredIs ==
    ASSUME NEW calls \in Seq(Calls)
    PROVE  /\ Answered(calls) \in Seq(ToolRows) /\ Len(Answered(calls)) = Len(calls)
           /\ \A i \in DOMAIN calls : Answered(calls)[i] = Call(calls[i].name, TRUE, calls[i].result)
           /\ AllFinished(Answered(calls))
<1>1. DOMAIN calls = 1..Len(calls) /\ Len(calls) \in Nat
  OBVIOUS
<1>2. ASSUME NEW i \in DOMAIN calls PROVE Call(calls[i].name, TRUE, calls[i].result) \in ToolRows
  <2>1. calls[i] \in Calls
    OBVIOUS
  <2> QED BY <2>1, CallIsTool
<1>3. Answered(calls) \in [1..Len(calls) -> ToolRows]
  BY <1>1, <1>2 DEF Answered
<1>4. Answered(calls) \in Seq(ToolRows) /\ Len(Answered(calls)) = Len(calls)
  BY <1>1, <1>3
<1>5. \A i \in DOMAIN calls : Answered(calls)[i] = Call(calls[i].name, TRUE, calls[i].result)
  BY DEF Answered
<1>6. AllFinished(Answered(calls))
  BY <1>1, <1>3, <1>5 DEF AllFinished, Call
<1> QED BY <1>4, <1>5, <1>6

LEMMA OneMoreAnswer ==
    ASSUME NEW calls \in Seq(Calls), NEW c \in Calls
    PROVE  Answered(Append(calls, c)) = Append(Answered(calls), Call(c.name, TRUE, c.result))
<1> DEFINE all == Append(calls, c)
<1>0. PICK n \in Nat : n = Len(calls)
  OBVIOUS
<1>1. /\ all \in Seq(Calls) /\ Len(all) = n + 1 /\ DOMAIN all = 1..(n + 1) /\ DOMAIN calls = 1..n
      /\ all[n + 1] = c /\ \A i \in 1..n : all[i] = calls[i]
  BY <1>0
<1> HIDE DEF all
<1>2. /\ Answered(all) \in Seq(ToolRows) /\ Len(Answered(all)) = n + 1
      /\ \A i \in 1..(n + 1) : Answered(all)[i] = Call(all[i].name, TRUE, all[i].result)
  BY <1>1, AnsweredIs
<1>3. /\ Answered(calls) \in Seq(ToolRows) /\ Len(Answered(calls)) = n
      /\ \A i \in 1..n : Answered(calls)[i] = Call(calls[i].name, TRUE, calls[i].result)
  BY <1>0, <1>1, AnsweredIs
<1> DEFINE more == Append(Answered(calls), Call(c.name, TRUE, c.result))
<1>4. Call(c.name, TRUE, c.result) \in ToolRows
  BY CallIsTool
<1>5. more \in Seq(ToolRows) /\ Len(more) = n + 1 /\ more[n + 1] = Call(c.name, TRUE, c.result)
      /\ \A i \in 1..n : more[i] = Answered(calls)[i]
  <2> DEFINE done == Answered(calls)
             e    == Call(c.name, TRUE, c.result)
  <2>1. done \in Seq(ToolRows) /\ Len(done) = n /\ e \in ToolRows
    BY <1>3, <1>4
  <2> HIDE DEF done, e
  <2>2. /\ Append(done, e) \in Seq(ToolRows) /\ Len(Append(done, e)) = n + 1
        /\ Append(done, e)[n + 1] = e /\ \A i \in 1..n : Append(done, e)[i] = done[i]
    BY <2>1, Appended
  <2> QED BY <2>2 DEF done, e
<1> HIDE DEF more
<1>6. ASSUME NEW i \in 1..(n + 1) PROVE Answered(all)[i] = more[i]
  <2>1. CASE i = n + 1
    BY <1>1, <1>2, <1>5, <2>1
  <2>2. CASE i \in 1..n
    BY <1>1, <1>2, <1>3, <1>5, <2>2
  <2> QED BY <2>1, <2>2
<1>7. Answered(all) = more
  <2>1. n + 1 \in Nat
    OBVIOUS
  <2> QED BY <1>2, <1>5, <1>6, <2>1, SameSeq
<1> QED BY <1>7 DEF all, more

\* The first k of s.
Opening(s, k) == [i \in 1..k |-> s[i]]

LEMMA OneMore ==
    ASSUME NEW S, NEW s \in Seq(S), NEW k \in 0..(Len(s) - 1)
    PROVE  /\ Opening(s, k) \in Seq(S) /\ s[k + 1] \in S
           /\ Opening(s, k + 1) = Append(Opening(s, k), s[k + 1])
<1>1. k \in Nat /\ k + 1 \in 1..Len(s) /\ Len(s) \in Nat
  OBVIOUS
<1>2. \A i \in 1..(k + 1) : s[i] \in S
  BY <1>1
<1>3. Opening(s, k) \in [1..k -> S] /\ Opening(s, k + 1) \in [1..(k + 1) -> S]
  BY <1>1, <1>2 DEF Opening
<1>4. /\ Opening(s, k) \in Seq(S) /\ Len(Opening(s, k)) = k
      /\ Opening(s, k + 1) \in Seq(S) /\ Len(Opening(s, k + 1)) = k + 1
  BY <1>1, <1>3
<1> DEFINE t == Append(Opening(s, k), s[k + 1])
<1>5. t \in Seq(S) /\ Len(t) = k + 1 /\ t[k + 1] = s[k + 1] /\ \A i \in 1..k : t[i] = Opening(s, k)[i]
  <2>1. s[k + 1] \in S
    BY <1>1
  <2> QED BY <1>1, <1>4, <2>1, Appended
<1> HIDE DEF t
<1>6. \A i \in 1..(k + 1) : t[i] = Opening(s, k + 1)[i]
  <2>1. ASSUME NEW i \in 1..(k + 1) PROVE t[i] = s[i]
    <3>1. CASE i = k + 1
      BY <1>5, <3>1
    <3>2. CASE i \in 1..k
      BY <1>5, <3>2 DEF Opening
    <3> QED BY <1>1, <3>1, <3>2
  <2> QED BY <2>1 DEF Opening
<1>7. t = Opening(s, k + 1)
  <2>1. k + 1 \in Nat
    BY <1>1
  <2> QED BY <1>4, <1>5, <1>6, <2>1, SameSeq
<1> QED BY <1>1, <1>2, <1>4, <1>7 DEF t

LEMMA Whole ==
    ASSUME NEW S, NEW s \in Seq(S)
    PROVE  Opening(s, Len(s)) = s /\ Opening(s, 0) = <<>> /\ Len(s) \in Nat
BY DEF Opening

\* A page that lists the answered tools leaves none out.
LEMMA AnsweredStay == ASSUME NEW s \in Seq(ToolRows), AllFinished(s) PROVE FinishedOf(s) = s
<1> DEFINE D == {k \in 0..Len(s) : FinishedOf(Opening(s, k)) = Opening(s, k)}
<1>1. Len(s) \in Nat /\ Opening(s, 0) = <<>> /\ Opening(s, Len(s)) = s
  BY Whole
<1>2. 0 \in D
  BY <1>1, DoneNone
<1>3. ASSUME NEW k \in 0..(Len(s) - 1), k \in D PROVE k + 1 \in D
  <2>1. Opening(s, k) \in Seq(ToolRows) /\ s[k + 1] \in ToolRows
        /\ Opening(s, k + 1) = Append(Opening(s, k), s[k + 1])
    BY OneMore
  <2>2. FinishedOf(Opening(s, k + 1)) = AddFinished(FinishedOf(Opening(s, k)), s[k + 1])
    BY <2>1, DoneAppend
  <2>3. s[k + 1].finished /\ k + 1 \in 0..Len(s)
    BY <1>1 DEF AllFinished
  <2> QED BY <1>3, <2>1, <2>2, <2>3 DEF AddFinished
<1> HIDE DEF D
<1>4. \A k \in 0..(Len(s) - 1) : k \in D => k + 1 \in D
  BY <1>3
<1>5. 0..Len(s) \subseteq D /\ Len(s) \in 0..Len(s)
  <2>1. PICK n \in Nat : n = Len(s)
    BY <1>1
  <2> QED BY <1>2, <1>4, <2>1, UpTo
<1> QED BY <1>1, <1>5 DEF D

-----------------------------------------------------------------------------
(***************************************************************************)
(* The row on top, and the tools in it                                     *)
(***************************************************************************)

LEMMA OneLineMore ==
    ASSUME NEW s \in Seq(Lines), NEW t \in Seq(Lines), NEW e \in Lines
    PROVE  s \o Append(t, e) = Append(s \o t, e)
<1>1. PICK n \in Nat, m \in Nat : n = Len(s) /\ m = Len(t)
  OBVIOUS
<1>2. /\ s \o Append(t, e) \in Seq(Lines) /\ Len(s \o Append(t, e)) = n + m + 1
      /\ Append(s \o t, e) \in Seq(Lines) /\ Len(Append(s \o t, e)) = n + m + 1
  BY <1>1
<1>3. ASSUME NEW i \in 1..(n + m + 1) PROVE (s \o Append(t, e))[i] = Append(s \o t, e)[i]
  BY <1>1
<1>4. n + m + 1 \in Nat
  OBVIOUS
<1> QED BY <1>2, <1>3, <1>4, SameSeq

LEMMA TopRow ==
    ASSUME NEW Q \in Rows, NEW row \in NodeRows, NEW other \in NodeRows
    PROVE  LET rows == Append(Q, row) IN
           /\ rows \in Rows /\ rows # <<>> /\ Last(rows) = row
           /\ Len(rows) \in DOMAIN rows /\ rows[Len(rows)] = row
           /\ [rows EXCEPT ![Len(rows)] = other] = Append(Q, other)
<1> DEFINE rows == Append(Q, row)
<1>1. PICK n \in Nat : n = Len(Q)
  BY DEF Rows
<1>2. /\ rows \in Seq(NodeRows) /\ Len(rows) = n + 1 /\ rows[n + 1] = row
      /\ \A i \in 1..n : rows[i] = Q[i]
  BY <1>1, Appended DEF Rows
<1> HIDE DEF rows
<1>3. /\ Append(Q, other) \in Seq(NodeRows) /\ Len(Append(Q, other)) = n + 1
      /\ Append(Q, other)[n + 1] = other /\ \A i \in 1..n : Append(Q, other)[i] = Q[i]
  BY <1>1, Appended DEF Rows
<1>4. DOMAIN rows = 1..(n + 1) /\ n + 1 \in DOMAIN rows /\ rows # <<>>
  BY <1>2
<1> DEFINE more == [rows EXCEPT ![n + 1] = other]
<1>5. more \in Seq(NodeRows) /\ Len(more) = n + 1
  BY <1>2, <1>4
<1>6. more[n + 1] = other /\ \A i \in 1..n : more[i] = Q[i]
  <2>1. \A i \in 1..n : i \in DOMAIN rows /\ i # n + 1
    BY <1>4
  <2> QED BY <1>2, <1>4, <2>1
<1> HIDE DEF more
<1>7. ASSUME NEW i \in 1..(n + 1) PROVE more[i] = Append(Q, other)[i]
  BY <1>3, <1>6
<1>8. more = Append(Q, other)
  BY <1>3, <1>5, <1>7, SameSeq
<1> QED BY <1>2, <1>4, <1>8 DEF more, rows, Rows, Last

LEMMA SameRow ==
    ASSUME NEW r \in NodeRows, NEW q \in NodeRows,
           r.node = q.node, r.finished = q.finished, r.tools = q.tools
    PROVE  r = q
BY DEF NodeRows

LEMMA RowWith ==
    ASSUME NEW row \in NodeRows, NEW other \in NodeRows,
           other.node = row.node, other.finished = row.finished
    PROVE  other = [row EXCEPT !.tools = other.tools]
<1> DEFINE more == [row EXCEPT !.tools = other.tools]
<1>1. more \in NodeRows
  BY DEF NodeRows
<1>2. more.node = row.node /\ more.finished = row.finished /\ more.tools = other.tools
  BY DEF NodeRows
<1> HIDE DEF more
<1>3. more = other
  BY <1>1, <1>2, SameRow
<1> QED BY <1>3 DEF more

-----------------------------------------------------------------------------
(***************************************************************************)
(* The tool lines of a trace                                               *)
(***************************************************************************)

LinesOf(calls) == [i \in DOMAIN calls |-> [node |-> "tool", call |-> calls[i]]]

LEMMA LinesOfIs ==
    ASSUME NEW calls \in Seq(Calls), NEW n \in Nat, n = Len(calls)
    PROVE  /\ LinesOf(calls) \in Seq(Lines) /\ Len(LinesOf(calls)) = n
           /\ \A i \in 1..n : /\ LinesOf(calls)[i] = [node |-> "tool", call |-> calls[i]]
                             /\ calls[i] \in Calls
<1>1. DOMAIN calls = 1..n
  OBVIOUS
<1>2. ASSUME NEW i \in 1..n PROVE calls[i] \in Calls /\ [node |-> "tool", call |-> calls[i]] \in Lines
  <2>1. calls[i] \in Calls
    BY <1>1
  <2> QED BY <2>1 DEF Lines
<1>3. LinesOf(calls) \in [1..n -> Lines]
  BY <1>1, <1>2 DEF LinesOf
<1>4. LinesOf(calls) \in Seq(Lines) /\ Len(LinesOf(calls)) = n
  BY <1>3
<1> QED BY <1>1, <1>2, <1>4 DEF LinesOf

\* Tool lines leave the nodes visited as they were.
LEMMA ToolsAreNotVisited ==
    ASSUME NEW trace \in Seq(Lines), NEW calls \in Seq(Calls)
    PROVE  ParseGraphTrace(trace \o LinesOf(calls)) = ParseGraphTrace(trace)
<1> DEFINE lines == LinesOf(calls)
<1>0. PICK n \in Nat : n = Len(calls)
  OBVIOUS
<1>1. lines \in Seq(Lines) /\ Len(lines) = n /\ \A i \in 1..n : lines[i].node = "tool"
  <2>1. \A i \in 1..n : lines[i] = [node |-> "tool", call |-> calls[i]]
    BY <1>0, LinesOfIs
  <2>2. lines \in Seq(Lines) /\ Len(lines) = n
    BY <1>0, LinesOfIs
  <2> HIDE DEF lines
  <2> QED BY <2>1, <2>2
<1> DEFINE D == {k \in 0..n : ParseGraphTrace(trace \o Opening(lines, k)) = ParseGraphTrace(trace)}
<1> HIDE DEF lines
<1>2. Opening(lines, 0) = <<>> /\ Opening(lines, n) = lines
  BY <1>1, Whole
<1>3. 0 \in D
  <2>1. trace \o <<>> = trace /\ 0 \in 0..n
    OBVIOUS
  <2> QED BY <1>2, <2>1
<1>4. ASSUME NEW k \in 0..(n - 1), k \in D PROVE k + 1 \in D
  <2>1. /\ Opening(lines, k) \in Seq(Lines) /\ lines[k + 1] \in Lines
        /\ Opening(lines, k + 1) = Append(Opening(lines, k), lines[k + 1])
    BY <1>1, OneMore
  <2>2. k + 1 \in 0..n /\ lines[k + 1].node = "tool"
    BY <1>1
  <2>3. trace \o Opening(lines, k + 1) = Append(trace \o Opening(lines, k), lines[k + 1])
    <3>1. PICK f \in Seq(Lines), line \in Lines : f = Opening(lines, k) /\ line = lines[k + 1]
      BY <2>1
    <3>2. trace \o Append(f, line) = Append(trace \o f, line)
      BY OneLineMore
    <3> QED BY <2>1, <3>1, <3>2
  <2>4. ParseGraphTrace(trace \o Opening(lines, k + 1))
            = VisitLine(ParseGraphTrace(trace \o Opening(lines, k)), lines[k + 1])
    <3>1. trace \o Opening(lines, k) \in Seq(Lines)
      BY <2>1
    <3> QED BY <2>1, <2>3, <3>1, VisitAppend
  <2> QED BY <1>4, <2>2, <2>4 DEF VisitLine
<1> HIDE DEF D
<1>5. \A k \in 0..(n - 1) : k \in D => k + 1 \in D
  BY <1>4
<1>6. 0..n \subseteq D
  BY <1>3, <1>5, UpTo
<1>7. n \in D
  BY <1>6
<1> QED BY <1>2, <1>7 DEF D, lines

\* A call of its own name is the one the line is joined with, and comes last in the row.
LEMMA LineFills ==
    ASSUME NEW calls \in Seq(Calls), NoToolTwice(calls), NEW i \in DOMAIN calls, NEW Q \in Rows,
           NEW done \in Seq(ToolRows), NEW line, line = [node |-> "tool", call |-> calls[i]]
    PROVE  AddLine(calls, Append(Q, Row("gather_evidence", TRUE, done)), line)
               = Append(Q, Row("gather_evidence", TRUE,
                            Append(done, Call(calls[i].name, TRUE, calls[i].result))))
<1> DEFINE I    == {j \in 1..Len(calls) : calls[j].name = line.call.name}
           last == IF I # {} THEN Max(I) ELSE 0
           tool == Call(calls[i].name, TRUE, calls[i].result)
           rows == Append(Q, Row("gather_evidence", TRUE, done))
<1>1. DOMAIN calls = 1..Len(calls) /\ Len(calls) \in Nat /\ i \in 1..Len(calls) /\ calls[i] \in Calls
  OBVIOUS
<1>2. I = {i}
  BY <1>1 DEF NoToolTwice
<1>3. last = i /\ i # 0
  <2> HIDE DEF I
  <2>1. I \in SUBSET (1..Len(calls)) /\ I # {}
    BY <1>1, <1>2
  <2>2. Max(I) \in I
    BY <1>1, <2>1, LastOfSome
  <2> QED BY <1>1, <1>2, <2>1, <2>2
<1>4. tool \in ToolRows /\ "gather_evidence" \in Nodes
  BY <1>1, CallIsTool DEF Nodes, ReasoningNodes
<1> HIDE DEF tool
<1>5. Append(done, tool) \in Seq(ToolRows)
  BY <1>4
<1>6. /\ rows # <<>> /\ rows[Len(rows)].tools = done
      /\ [rows EXCEPT ![Len(rows)].tools = Append(done, tool)]
             = Append(Q, Row("gather_evidence", TRUE, Append(done, tool)))
  <2> DEFINE row   == Row("gather_evidence", TRUE, done)
             other == Row("gather_evidence", TRUE, Append(done, tool))
  <2>1. row \in NodeRows /\ row.node = "gather_evidence" /\ row.finished = TRUE /\ row.tools = done
    BY <1>4 DEF Row, NodeRows
  <2>2. /\ other \in NodeRows /\ other.node = "gather_evidence" /\ other.finished = TRUE
        /\ other.tools = Append(done, tool)
    BY <1>4, <1>5 DEF Row, NodeRows
  <2>3. rows = Append(Q, row)
    OBVIOUS
  <2> HIDE DEF row, other, rows
  <2>4. other = [row EXCEPT !.tools = Append(done, tool)]
    BY <2>1, <2>2, RowWith
  <2>5. rows # <<>> /\ Len(rows) \in DOMAIN rows /\ rows[Len(rows)] = row
        /\ [rows EXCEPT ![Len(rows)] = other] = Append(Q, other)
    BY <2>1, <2>2, <2>3, TopRow
  <2>6. [rows EXCEPT ![Len(rows)].tools = Append(done, tool)] = [rows EXCEPT ![Len(rows)] = other]
    BY <2>4, <2>5
  <2> QED BY <2>1, <2>5, <2>6 DEF other
<1> HIDE DEF rows
<1>7. AddLine(calls, rows, line)
          = [rows EXCEPT ![Len(rows)].tools =
                Append(@, Call(line.call.name, TRUE,
                               IF last = 0 THEN line.call.result ELSE calls[last].result))]
  BY <1>6 DEF AddLine, SelectLastInSeq
<1> HIDE DEF last
<1>8. AddLine(calls, rows, line)
          = [rows EXCEPT ![Len(rows)].tools = Append(rows[Len(rows)].tools, tool)]
  BY <1>3, <1>7 DEF tool
<1> QED BY <1>6, <1>8 DEF tool, rows

\* They fill the gatherer's row.
LEMMA ToolsFillTheRow ==
    ASSUME NEW trace \in Seq(Lines), NEW calls \in Seq(Calls), NoToolTwice(calls), NEW Q \in Rows,
           RowsFromRecord([graphTrace |-> trace, toolCalls |-> calls])
               = Append(Q, Row("gather_evidence", TRUE, <<>>))
    PROVE  RowsFromRecord([graphTrace |-> trace \o LinesOf(calls), toolCalls |-> calls])
               = Append(Q, Row("gather_evidence", TRUE, Answered(calls)))
<1> DEFINE lines   == LinesOf(calls)
           Made(t) == RowsFromRecord([graphTrace |-> t, toolCalls |-> calls])
           Full(k) == Append(Q, Row("gather_evidence", TRUE, Answered(Opening(calls, k))))
<1>0. PICK n \in Nat : n = Len(calls)
  OBVIOUS
<1>1. /\ lines \in Seq(Lines) /\ Len(lines) = n
      /\ \A i \in 1..n : lines[i] = [node |-> "tool", call |-> calls[i]] /\ calls[i] \in Calls
  BY <1>0, LinesOfIs
<1> DEFINE D == {k \in 0..n : Made(trace \o Opening(lines, k)) = Full(k)}
<1> HIDE DEF lines
<1>2. /\ Opening(lines, 0) = <<>> /\ Opening(lines, n) = lines
      /\ Opening(calls, 0) = <<>> /\ Opening(calls, n) = calls
  BY <1>0, <1>1, Whole
<1>3. 0 \in D
  <2>1. Answered(<<>>) = <<>>
    BY DEF Answered
  <2>2. trace \o <<>> = trace /\ 0 \in 0..n
    OBVIOUS
  <2> QED BY <1>2, <2>1, <2>2
<1>4. ASSUME NEW k \in 0..(n - 1), k \in D PROVE k + 1 \in D
  <2> DEFINE c    == calls[k + 1]
             line == lines[k + 1]
             done == Answered(Opening(calls, k))
             t    == trace \o Opening(lines, k)
  <2>1. /\ Opening(lines, k) \in Seq(Lines) /\ line \in Lines
        /\ Opening(lines, k + 1) = Append(Opening(lines, k), line)
    BY <1>1, OneMore
  <2>2. /\ Opening(calls, k) \in Seq(Calls) /\ c \in Calls
        /\ Opening(calls, k + 1) = Append(Opening(calls, k), c)
    BY <1>0, OneMore
  <2>3. k + 1 \in 0..n /\ k + 1 \in DOMAIN calls /\ line = [node |-> "tool", call |-> c]
    BY <1>0, <1>1
  <2>4. t \in Seq(Lines) /\ trace \o Opening(lines, k + 1) = Append(t, line)
    <3>1. PICK f \in Seq(Lines) : f = Opening(lines, k)
      BY <2>1
    <3> HIDE DEF line
    <3>2. trace \o Append(f, line) = Append(trace \o f, line)
      BY <2>1, OneLineMore
    <3>3. t \in Seq(Lines) /\ t = trace \o f
      BY <3>1
    <3>4. trace \o Opening(lines, k + 1) = trace \o Append(f, line)
      BY <2>1, <3>1
    <3> HIDE DEF t
    <3> QED BY <3>2, <3>3, <3>4
  <2>5. Made(t) = Full(k)
    BY <1>4
  <2> HIDE DEF line, t
  <2>6. Made(Append(t, line)) = AddLine(calls, Made(t), line)
    BY <2>1, <2>4, LineAppend
  <2>7. /\ done \in Seq(ToolRows)
        /\ Append(done, Call(c.name, TRUE, c.result)) = Answered(Opening(calls, k + 1))
    <3>1. PICK f \in Seq(Calls) : f = Opening(calls, k)
      BY <2>2
    <3> HIDE DEF c
    <3> QED BY <2>2, <3>1, AnsweredIs, OneMoreAnswer
  <2> HIDE DEF done
  <2>8. AddLine(calls, Append(Q, Row("gather_evidence", TRUE, done)), line)
            = Append(Q, Row("gather_evidence", TRUE, Append(done, Call(c.name, TRUE, c.result))))
    BY <2>3, <2>7, LineFills
  <2>9. Made(trace \o Opening(lines, k + 1)) = Full(k + 1)
    BY <2>4, <2>5, <2>6, <2>7, <2>8 DEF done
  <2> QED BY <2>3, <2>9
<1> HIDE DEF D
<1>5. \A k \in 0..(n - 1) : k \in D => k + 1 \in D
  BY <1>4
<1>6. 0..n \subseteq D
  BY <1>3, <1>5, UpTo
<1>7. n \in D
  BY <1>6
<1> QED BY <1>2, <1>7 DEF D, lines

-----------------------------------------------------------------------------
(***************************************************************************)
(* What an event makes of the row on top                                   *)
(***************************************************************************)

LEMMA OnlyOpen ==
    ASSUME NEW n \in Nat
    PROVE  (IF {n + 1} # {} THEN Max({n + 1}) ELSE 0) = n + 1
<1>1. {n + 1} \in SUBSET (1..(n + 1)) /\ {n + 1} # {} /\ n + 1 \in Nat
  OBVIOUS
<1>2. Max({n + 1}) \in {n + 1}
  BY <1>1, LastOfSome
<1> QED BY <1>1, <1>2

\* A node that ends is the one under way.
LEMMA RowFinished ==
    ASSUME NEW Q \in Rows, AllFinished(Q), NEW row \in NodeRows, ~row.finished,
           NEW e, e.kind = "finished", e.node = row.node
    PROVE  FoldRow(Append(Q, row), e) = Append(Q, [row EXCEPT !.finished = TRUE])
<1> DEFINE rows  == Append(Q, row)
           I     == {i \in 1..Len(rows) : rows[i].node = e.node /\ ~rows[i].finished}
           open  == IF I # {} THEN Max(I) ELSE 0
           other == [row EXCEPT !.finished = TRUE]
<1>0. PICK n \in Nat : n = Len(Q)
  BY DEF Rows
<1>1. DOMAIN Q = 1..n /\ Q \in Seq(NodeRows)
  BY <1>0 DEF Rows
<1>2. Len(rows) = n + 1 /\ rows[n + 1] = row /\ \A i \in 1..n : rows[i] = Q[i]
  BY <1>0, <1>1, Appended
<1>3. FoldRow(rows, e) = IF open = 0 THEN Append(rows, Row(e.node, TRUE, <<>>))
                         ELSE [rows EXCEPT ![open].finished = TRUE]
  BY DEF FoldRow, SelectLastInSeq
<1>4. other \in NodeRows
  BY DEF NodeRows
<1> HIDE DEF rows, other
<1>5. I = {n + 1}
  <2>1. n + 1 \in I
    BY <1>2
  <2>2. ASSUME NEW i \in 1..n PROVE i \notin I
    <3>1. rows[i].finished
      BY <1>1, <1>2 DEF AllFinished
    <3> QED BY <3>1
  <2>3. \A i \in I : i = n + 1 \/ i \in 1..n
    BY <1>2
  <2> QED BY <2>1, <2>2, <2>3
<1> HIDE DEF I
<1>6. open = n + 1 /\ open # 0
  BY <1>5, OnlyOpen
<1> HIDE DEF open
<1>7. /\ Len(rows) \in DOMAIN rows /\ rows[Len(rows)] = row
      /\ [rows EXCEPT ![Len(rows)] = other] = Append(Q, other)
  BY <1>4, TopRow DEF rows
<1>8. FoldRow(rows, e) = [rows EXCEPT ![Len(rows)].finished = TRUE]
  BY <1>2, <1>3, <1>6
<1>9. [rows EXCEPT ![Len(rows)].finished = TRUE] = [rows EXCEPT ![Len(rows)] = other]
  BY <1>7 DEF other
<1> QED BY <1>7, <1>8, <1>9 DEF rows, other

\* A tool that is asked comes last in the row.
LEMMA ToolUnder ==
    ASSUME NEW Q \in Rows, NEW row \in NodeRows, NEW other \in NodeRows,
           NEW call \in ToolRows, NEW owner,
           other.node = row.node, other.finished = row.finished, other.tools = Append(row.tools, call)
    PROVE  UnderLastRow(Append(Q, row), call, owner) = Append(Q, other)
<1> DEFINE rows == Append(Q, row)
<1>1. other = [row EXCEPT !.tools = Append(row.tools, call)]
  BY RowWith
<1>2. /\ rows # <<>> /\ Len(rows) \in DOMAIN rows /\ rows[Len(rows)] = row
      /\ [rows EXCEPT ![Len(rows)] = other] = Append(Q, other)
  BY TopRow
<1> HIDE DEF rows
<1>3. UnderLastRow(rows, call, owner) = [rows EXCEPT ![Len(rows)].tools = Append(@, call)]
  BY <1>2 DEF UnderLastRow
<1>4. [rows EXCEPT ![Len(rows)].tools = Append(@, call)] = [rows EXCEPT ![Len(rows)] = other]
  BY <1>1, <1>2
<1> QED BY <1>2, <1>3, <1>4 DEF rows

AnsweredBy(tool, e) == tool = Call(e.node, TRUE, e.result)

\* A tool that answers is the one that was asked.
LEMMA ToolFinished ==
    ASSUME NEW Q \in Rows, NEW row \in NodeRows, NEW other \in NodeRows,
           NEW done \in Seq(ToolRows), AllFinished(done), NEW asked \in ToolRows, ~asked.finished,
           row.tools = Append(done, asked),
           NEW tool \in ToolRows, NEW e, e.kind = "tool_finished", e.node = asked.name,
           AnsweredBy(tool, e),
           other.node = row.node, other.finished = row.finished, other.tools = Append(done, tool)
    PROVE  FoldRow(Append(Q, row), e) = Append(Q, other)
<1> DEFINE rows  == Append(Q, row)
           tools == IF rows = <<>> THEN <<>> ELSE Last(rows).tools
           I     == {i \in 1..Len(tools) : tools[i].name = e.node /\ ~tools[i].finished}
           open  == IF I # {} THEN Max(I) ELSE 0
<1>1. FoldRow(rows, e) = IF open = 0 THEN UnderLastRow(rows, tool, TRUE)
                         ELSE [rows EXCEPT ![Len(rows)].tools[open] = tool]
  BY DEF FoldRow, SelectLastInSeq, AnsweredBy
<1>2. /\ rows # <<>> /\ Last(rows) = row /\ Len(rows) \in DOMAIN rows /\ rows[Len(rows)] = row
      /\ [rows EXCEPT ![Len(rows)] = other] = Append(Q, other)
  BY TopRow
<1> HIDE DEF rows
<1>3. tools = Append(done, asked)
  BY <1>2
<1> HIDE DEF tools
<1>4. PICK n \in Nat : n = Len(done)
  OBVIOUS
<1>5. /\ tools \in Seq(ToolRows) /\ Len(tools) = n + 1 /\ tools[n + 1] = asked
      /\ \A i \in 1..n : tools[i] = done[i]
  BY <1>3, <1>4, Appended
<1>6. I = {n + 1}
  <2>1. n + 1 \in I
    BY <1>5
  <2>2. ASSUME NEW i \in 1..n PROVE i \notin I
    <3>1. tools[i].finished
      BY <1>4, <1>5 DEF AllFinished
    <3> QED BY <3>1
  <2>3. \A i \in I : i = n + 1 \/ i \in 1..n
    BY <1>5
  <2> QED BY <2>1, <2>2, <2>3
<1> HIDE DEF I
<1>7. open = n + 1 /\ open # 0
  BY <1>6, OnlyOpen
<1> HIDE DEF open
<1> DEFINE more == [tools EXCEPT ![n + 1] = tool]
<1>8. more = Append(done, tool)
  <2> DEFINE longer == Append(done, tool)
  <2>2. /\ longer \in Seq(ToolRows) /\ Len(longer) = n + 1 /\ longer[n + 1] = tool
        /\ \A i \in 1..n : longer[i] = done[i]
    BY <1>4, Appended
  <2> HIDE DEF longer
  <2>3. DOMAIN tools = 1..(n + 1) /\ n + 1 \in DOMAIN tools
    BY <1>5
  <2>4. more \in Seq(ToolRows) /\ Len(more) = n + 1
    BY <1>5, <2>3
  <2>5. ASSUME NEW i \in 1..(n + 1) PROVE more[i] = longer[i]
    BY <1>5, <2>2, <2>3
  <2> HIDE DEF more
  <2>6. n + 1 \in Nat
    OBVIOUS
  <2> QED BY <2>2, <2>4, <2>5, <2>6, SameSeq DEF longer
<1>9. other = [row EXCEPT !.tools = more]
  <2> HIDE DEF more
  <2> QED BY <1>8, RowWith
<1>10. [rows EXCEPT ![Len(rows)].tools[open] = tool] = [rows EXCEPT ![Len(rows)] = other]
  <2>1. row.tools = tools
    BY <1>3
  <2> QED BY <1>2, <1>7, <1>9, <2>1
<1> QED BY <1>1, <1>2, <1>7, <1>10 DEF rows

-----------------------------------------------------------------------------
(***************************************************************************)
(* Each step of an attempt, as the page shows it                           *)
(***************************************************************************)

SameRecord(q, r) == q.trace = r.trace /\ q.calls = r.calls /\ q.enriched = r.enriched

LEMMA RowUnderWay ==
    ASSUME NEW node \in ReasoningNodes, NEW tools \in Seq(ToolRows)
    PROVE  /\ Row(node, FALSE, tools) \in NodeRows /\ ~Row(node, FALSE, tools).finished
           /\ Row(node, FALSE, tools).node = node /\ Row(node, FALSE, tools).tools = tools
           /\ Row(node, TRUE, tools) \in NodeRows /\ Row(node, TRUE, tools).finished
           /\ Row(node, TRUE, tools).node = node /\ Row(node, TRUE, tools).tools = tools
           /\ [Row(node, FALSE, tools) EXCEPT !.finished = TRUE] = Row(node, TRUE, tools)
<1> DEFINE row == Row(node, FALSE, tools)  other == Row(node, TRUE, tools)
           more == [row EXCEPT !.finished = TRUE]
<1>1. row \in NodeRows /\ ~row.finished /\ row.node = node /\ row.tools = tools
  BY DEF Row, NodeRows, Nodes
<1>2. other \in NodeRows /\ other.finished = TRUE /\ other.node = node /\ other.tools = tools
  BY DEF Row, NodeRows, Nodes
<1> HIDE DEF row, other
<1>3. more \in NodeRows /\ more.finished = TRUE /\ more.node = row.node /\ more.tools = row.tools
  BY <1>1 DEF NodeRows
<1> HIDE DEF more
<1>4. more = other
  BY <1>1, <1>2, <1>3, SameRow
<1> QED BY <1>1, <1>2, <1>4 DEF row, other, more

LEMMA RunIs ==
    ASSUME NEW r \in Runs
    PROVE  /\ r.trace \in Seq(Lines) /\ r.calls \in Seq(Calls) /\ r.at \in Places
           /\ RowsOf(r) \in Rows /\ ParseGraphTrace(r.trace) \in Visits
<1>1. r.trace \in Seq(Lines) /\ r.calls \in Seq(Calls) /\ r.at \in Places
  BY DEF Runs
<1> QED BY <1>1, LineIs, VisitIs DEF RowsOf, RecordOf

\* A node starts.
LEMMA EnterShown ==
    ASSUME NEW r \in Runs, NEW q \in Runs, SameRecord(q, r), Written(r),
           NodeAt(r.at) = "none", q.at \in {"classifying", "choosing", "escalating", "validating"},
           q.at = "choosing" => ~r.enriched,
           NEW events \in Seq(TraceEvents), NEW e \in TraceEvents,
           e.kind = "started", e.node = NodeAt(q.at)
    PROVE  Written(q) /\ (ShownBy(events, r) => ShownBy(Append(events, e), q))
<1>1. /\ r.trace \in Seq(Lines) /\ r.calls \in Seq(Calls)
      /\ RowsOf(q) = RowsOf(r) /\ q.calls = r.calls /\ q.trace = r.trace
  BY RunIs DEF SameRecord, RowsOf, RecordOf
<1>2. /\ r.at \notin {"calling", "tool"} /\ q.at \notin {"calling", "tool"}
      /\ NodeAt(q.at) \in ReasoningNodes
  BY DEF NodeAt, ReasoningNodes
<1>3. Written(q)
  BY <1>1, <1>2 DEF Written, SameRecord
<1>4. ToolsOf(q) = <<>>
  <2>1. CASE q.at = "choosing"
    <3>1. q.calls = <<>>
      BY <1>1, <1>2, <2>1 DEF Written
    <3> QED BY <2>1, <3>1 DEF ToolsOf, NodeAt, Answered
  <2>2. CASE q.at # "choosing"
    BY <1>2, <2>2 DEF ToolsOf, NodeAt
  <2> QED BY <2>1, <2>2
<1>5. ASSUME ShownBy(events, r) PROVE ShownBy(Append(events, e), q)
  <2>1. ASSUME NoToolTwice(q.calls)
        PROVE  RowsFromEvents(Append(events, e)) = WithUnfinished(RowsOf(q), q)
    <3>1. RowsFromEvents(events) = RowsOf(r)
      BY <1>1, <1>5, <2>1 DEF ShownBy, WithUnfinished
    <3>2. RowsFromEvents(Append(events, e)) = FoldRow(RowsOf(r), e)
      BY <3>1, EventAppend
    <3>3. FoldRow(RowsOf(r), e) = Append(RowsOf(r), Row(e.node, FALSE, <<>>))
      BY DEF FoldRow
    <3>4. NodeAt(q.at) # "none"
      BY <1>2 DEF ReasoningNodes
    <3> QED BY <1>1, <1>4, <3>2, <3>3, <3>4 DEF WithUnfinished
  <2>2. ViewFromLive(Append(events, e)) = ViewOf(q)
    <3> DEFINE visited == ParseGraphTrace(r.trace)
    <3>1. ViewFromLive(events) = View(visited.order, visited.attempts, r.calls, {}, "none")
      <4>1. ViewFromLive(events) = ViewOf(r)
        BY <1>5 DEF ShownBy
      <4> QED BY <1>2, <4>1 DEF ViewOf
    <3>2. ViewFromLive(Append(events, e))
              = FoldView(View(visited.order, visited.attempts, r.calls, {}, "none"), e)
      BY <3>1, ViewAppend
    <3>3. ViewFromLive(Append(events, e)) = View(NotRepeated(visited.order, e.node),
              IF e.node = "classify" THEN visited.attempts + 1 ELSE visited.attempts, r.calls, {}, e.node)
      <4> HIDE DEF visited
      <4> QED BY <3>2 DEF FoldView, View
    <3>4. NodeAt(q.at) # "none"
      BY <1>2 DEF ReasoningNodes
    <3> QED BY <1>1, <1>2, <3>3, <3>4 DEF ViewOf
  <2> QED BY <2>1, <2>2 DEF ShownBy
<1> QED BY <1>3, <1>5

\* The gatherer has named its tools: nothing is reported.
LEMMA ChooseShown ==
    ASSUME NEW r \in Runs, NEW q \in Runs, SameRecord(q, r), Written(r),
           r.at = "choosing", q.at = "calling", NEW events
    PROVE  Written(q) /\ (ShownBy(events, r) => ShownBy(events, q))
<1>1. RowsOf(q) = RowsOf(r) /\ q.calls = r.calls /\ q.trace = r.trace
  BY DEF SameRecord, RowsOf, RecordOf
<1>2. NodeAt(q.at) = "gather_evidence" /\ NodeAt(r.at) = "gather_evidence"
  BY DEF NodeAt
<1>3. Written(q)
  BY <1>1 DEF Written, SameRecord
<1>4. ViewOf(q) = ViewOf(r)
  BY <1>1, <1>2 DEF ViewOf
<1>5. WithUnfinished(RowsOf(q), q) = WithUnfinished(RowsOf(r), r)
  BY <1>1, <1>2 DEF WithUnfinished, ToolsOf
<1> QED BY <1>1, <1>3, <1>4, <1>5 DEF ShownBy

\* A tool is asked.
LEMMA CallShown ==
    ASSUME NEW r \in Runs, NEW q \in Runs, SameRecord(q, r), Written(r),
           r.wanted # <<>>, q.wanted = r.wanted,
           r.at = "calling", q.at = "tool", NEW events \in Seq(TraceEvents), NEW e \in TraceEvents,
           e.kind = "tool_started", e.node = Head(r.wanted)
    PROVE  Written(q) /\ (ShownBy(events, r) => ShownBy(Append(events, e), q))
<1>1. /\ r.trace \in Seq(Lines) /\ r.calls \in Seq(Calls) /\ RowsOf(r) \in Rows
      /\ RowsOf(q) = RowsOf(r) /\ q.calls = r.calls /\ q.trace = r.trace
  BY RunIs DEF SameRecord, RowsOf, RecordOf
<1>2. NodeAt(q.at) = "gather_evidence" /\ NodeAt(r.at) = "gather_evidence"
  BY DEF NodeAt
<1>3. Written(q)
  BY <1>1 DEF Written, SameRecord
<1> DEFINE done  == Answered(r.calls)
           asked == Call(e.node, FALSE, "none")
<1>4. done \in Seq(ToolRows) /\ asked \in ToolRows /\ Append(done, asked) \in Seq(ToolRows)
  <2>1. done \in Seq(ToolRows)
    BY <1>1, AnsweredIs
  <2>2. asked \in ToolRows
    BY DEF Call, ToolRows, TraceEvents, Said
  <2> HIDE DEF done, asked
  <2> QED BY <2>1, <2>2
<1>5. ToolsOf(r) = done /\ ToolsOf(q) = Append(done, asked)
  BY <1>1, <1>2 DEF ToolsOf, Asked
<1> HIDE DEF done, asked
<1>6. ASSUME ShownBy(events, r) PROVE ShownBy(Append(events, e), q)
  <2>1. ASSUME NoToolTwice(q.calls)
        PROVE  RowsFromEvents(Append(events, e)) = WithUnfinished(RowsOf(q), q)
    <3> DEFINE row   == Row("gather_evidence", FALSE, done)
               other == Row("gather_evidence", FALSE, Append(done, asked))
    <3>1. RowsFromEvents(events) = Append(RowsOf(r), row)
      BY <1>1, <1>2, <1>5, <1>6, <2>1 DEF ShownBy, WithUnfinished
    <3>2. RowsFromEvents(Append(events, e)) = FoldRow(Append(RowsOf(r), row), e)
      BY <3>1, EventAppend
    <3>3. FoldRow(Append(RowsOf(r), row), e) = UnderLastRow(Append(RowsOf(r), row), asked, FALSE)
      BY DEF FoldRow, asked
    <3>4. row \in NodeRows /\ row.node = "gather_evidence" /\ row.finished = FALSE /\ row.tools = done
      BY <1>4 DEF Row, NodeRows, Nodes, ReasoningNodes
    <3>5. /\ other \in NodeRows /\ other.node = "gather_evidence" /\ other.finished = FALSE
          /\ other.tools = Append(done, asked)
      BY <1>4 DEF Row, NodeRows, Nodes, ReasoningNodes
    <3>6. WithUnfinished(RowsOf(q), q) = Append(RowsOf(r), other)
      BY <1>1, <1>2, <1>5 DEF WithUnfinished
    <3> HIDE DEF row, other
    <3>7. UnderLastRow(Append(RowsOf(r), row), asked, FALSE) = Append(RowsOf(r), other)
      BY <1>1, <1>4, <3>4, <3>5, ToolUnder
    <3> QED BY <3>2, <3>3, <3>6, <3>7
  <2>2. ViewFromLive(Append(events, e)) = ViewOf(q)
    <3> DEFINE visited == ParseGraphTrace(r.trace)
               order   == NotRepeated(visited.order, "gather_evidence")
    <3>1. ViewFromLive(events) = View(order, visited.attempts, r.calls, {}, "gather_evidence")
      <4>1. ViewFromLive(events) = ViewOf(r)
        BY <1>6 DEF ShownBy
      <4> QED BY <1>2, <4>1 DEF ViewOf
    <3>2. ViewOf(q) = View(order, visited.attempts, r.calls, {e.node}, "gather_evidence")
      BY <1>1, <1>2 DEF ViewOf
    <3> HIDE DEF order, visited
    <3>3. ViewFromLive(Append(events, e))
              = FoldView(View(order, visited.attempts, r.calls, {}, "gather_evidence"), e)
      BY <3>1, ViewAppend
    <3>4. ViewFromLive(Append(events, e))
              = View(order, visited.attempts, r.calls, {} \cup {e.node}, "gather_evidence")
      BY <3>3 DEF FoldView, View
    <3> QED BY <3>2, <3>4
  <2> QED BY <2>1, <2>2 DEF ShownBy
<1> QED BY <1>3, <1>6

\* A tool answers.
LEMMA ReturnShown ==
    ASSUME NEW r \in Runs, NEW q \in Runs, NEW e \in TraceEvents,
           Written(r), ~r.enriched, ~q.enriched, r.wanted # <<>>,
           q.trace = r.trace, q.calls = Append(r.calls, [name |-> Head(r.wanted), result |-> e.result]),
           r.at = "tool", q.at = "calling", NEW events \in Seq(TraceEvents),
           e.kind = "tool_finished", e.node = Head(r.wanted), e.result \in Results
    PROVE  Written(q) /\ (ShownBy(events, r) => ShownBy(Append(events, e), q))
<1>1. /\ r.trace \in Seq(Lines) /\ r.calls \in Seq(Calls) /\ q.calls \in Seq(Calls)
      /\ RowsOf(r) \in Rows /\ Head(r.wanted) \in Tools
  <2>1. r.wanted \in Seq(Tools)
    BY DEF Runs
  <2> QED BY <2>1, RunIs
<1> DEFINE c     == [name |-> Head(r.wanted), result |-> e.result]
           done  == Answered(r.calls)
           asked == Call(e.node, FALSE, "none")
           tool  == Call(e.node, TRUE, e.result)
<1>2. c \in Calls /\ q.calls = Append(r.calls, c) /\ c.name = e.node /\ c.result = e.result
  BY <1>1 DEF Calls
<1>3. RowsOf(q) = RowsOf(r)
  <2>1. \A calls \in Seq(Calls) :
            RowsFromRecord([graphTrace |-> r.trace, toolCalls |-> calls]) = RowsOf(r)
    BY DEF Written
  <2> QED BY <1>1, <2>1 DEF RowsOf, RecordOf
<1>4. NoToolTwice(q.calls) => NoToolTwice(r.calls)
  <2>1. PICK n \in Nat : n = Len(r.calls)
    BY <1>1
  <2> HIDE DEF c
  <2>2. DOMAIN r.calls = 1..n /\ DOMAIN q.calls = 1..(n + 1) /\ \A i \in 1..n : q.calls[i] = r.calls[i]
    BY <1>1, <1>2, <2>1, Appended
  <2> QED BY <2>2 DEF NoToolTwice
<1>5. Written(q)
  BY <1>1, <1>3, <1>4 DEF Written
<1>6. NodeAt(q.at) = "gather_evidence" /\ NodeAt(r.at) = "gather_evidence"
  BY DEF NodeAt
<1>7. /\ done \in Seq(ToolRows) /\ AllFinished(done) /\ Answered(q.calls) = Append(done, tool)
  <2> HIDE DEF c
  <2>1. Answered(Append(r.calls, c)) = Append(done, Call(c.name, TRUE, c.result))
    BY <1>1, <1>2, OneMoreAnswer
  <2> QED BY <1>1, <1>2, <2>1, AnsweredIs
<1> HIDE DEF c
<1>8. /\ asked \in ToolRows /\ ~asked.finished /\ asked.name = e.node /\ tool \in ToolRows
  BY <1>1 DEF Call, ToolRows, TraceEvents, Said
<1>9. ToolsOf(r) = Append(done, asked) /\ ToolsOf(q) = Append(done, tool)
  BY <1>6, <1>7 DEF ToolsOf, Asked
<1> HIDE DEF done, asked
<1>10. ASSUME ShownBy(events, r) PROVE ShownBy(Append(events, e), q)
  <2>1. ASSUME NoToolTwice(q.calls)
        PROVE  RowsFromEvents(Append(events, e)) = WithUnfinished(RowsOf(q), q)
    <3> DEFINE row   == Row("gather_evidence", FALSE, Append(done, asked))
               other == Row("gather_evidence", FALSE, Append(done, tool))
    <3>1. RowsFromEvents(events) = Append(RowsOf(r), row)
      BY <1>4, <1>6, <1>9, <1>10, <2>1 DEF ShownBy, WithUnfinished
    <3>2. RowsFromEvents(Append(events, e)) = FoldRow(Append(RowsOf(r), row), e)
      BY <3>1, EventAppend
    <3>3. Append(done, asked) \in Seq(ToolRows) /\ Append(done, tool) \in Seq(ToolRows)
      <4> HIDE DEF tool
      <4> QED BY <1>7, <1>8
    <3>4. /\ row \in NodeRows /\ row.node = "gather_evidence" /\ row.finished = FALSE
          /\ row.tools = Append(done, asked)
      BY <3>3 DEF Row, NodeRows, Nodes, ReasoningNodes
    <3>5. /\ other \in NodeRows /\ other.node = "gather_evidence" /\ other.finished = FALSE
          /\ other.tools = Append(done, tool)
      BY <3>3 DEF Row, NodeRows, Nodes, ReasoningNodes
    <3>6. WithUnfinished(RowsOf(q), q) = Append(RowsOf(r), other)
      BY <1>3, <1>6, <1>9 DEF WithUnfinished
    <3> HIDE DEF row, other
    <3>7. FoldRow(Append(RowsOf(r), row), e) = Append(RowsOf(r), other)
      <4>1. AnsweredBy(tool, e)
        BY DEF AnsweredBy
      <4>2. tool \in ToolRows /\ asked \in ToolRows /\ ~asked.finished /\ e.node = asked.name
        BY <1>8
      <4> HIDE DEF tool
      <4>3. other.node = row.node /\ other.finished = row.finished
        BY <3>4, <3>5
      <4>4. RowsOf(r) \in Rows /\ done \in Seq(ToolRows) /\ AllFinished(done)
        BY <1>1, <1>7
      <4>5. /\ row \in NodeRows /\ row.tools = Append(done, asked)
            /\ other \in NodeRows /\ other.tools = Append(done, tool)
        BY <3>4, <3>5
      <4> QED BY <4>1, <4>2, <4>3, <4>4, <4>5, ToolFinished, SMTT(60)
    <3> QED BY <3>2, <3>6, <3>7
  <2>2. ViewFromLive(Append(events, e)) = ViewOf(q)
    <3> DEFINE visited == ParseGraphTrace(r.trace)
               order   == NotRepeated(visited.order, "gather_evidence")
    <3>1. ViewFromLive(events) = View(order, visited.attempts, r.calls, {e.node}, "gather_evidence")
      <4>1. ViewFromLive(events) = ViewOf(r)
        BY <1>10 DEF ShownBy
      <4> QED BY <1>6, <4>1 DEF ViewOf
    <3>2. ViewOf(q) = View(order, visited.attempts, q.calls, {}, "gather_evidence")
      BY <1>6 DEF ViewOf
    <3> HIDE DEF order, visited
    <3>3. ViewFromLive(Append(events, e))
              = FoldView(View(order, visited.attempts, r.calls, {e.node}, "gather_evidence"), e)
      BY <3>1, ViewAppend
    <3>4. ViewFromLive(Append(events, e)) = View(order, visited.attempts,
              Append(r.calls, [name |-> e.node, result |-> e.result]), {e.node} \ {e.node}, "gather_evidence")
      BY <3>3 DEF FoldView, View
    <3>5. Append(r.calls, [name |-> e.node, result |-> e.result]) = q.calls
      OBVIOUS
    <3> QED BY <3>2, <3>4, <3>5
  <2> QED BY <2>1, <2>2 DEF ShownBy
<1> QED BY <1>5, <1>10

-----------------------------------------------------------------------------
(***************************************************************************)
(* A node returns                                                          *)
(***************************************************************************)

LEMMA FinishedOnTop ==
    ASSUME NEW Q \in Rows, AllFinished(Q), NEW row \in NodeRows, row.finished
    PROVE  AllFinished(Append(Q, row))
<1> DEFINE rows == Append(Q, row)
<1>1. PICK n \in Nat : n = Len(Q)
  BY DEF Rows
<1>2. DOMAIN Q = 1..n /\ Q \in Seq(NodeRows)
  BY <1>1 DEF Rows
<1>3. /\ rows \in Seq(NodeRows) /\ Len(rows) = n + 1 /\ rows[n + 1] = row
      /\ \A i \in 1..n : rows[i] = Q[i]
  BY <1>1, <1>2, Appended
<1> HIDE DEF rows
<1>4. ASSUME NEW i \in DOMAIN rows PROVE rows[i].finished
  <2>1. i = n + 1 \/ i \in 1..n
    BY <1>3
  <2> QED BY <1>2, <1>3, <2>1 DEF AllFinished
<1> QED BY <1>4 DEF AllFinished, rows

\* A row on top adds its answered tools to the calls.
LEMMA CallsOnTop ==
    ASSUME NEW Q \in Rows, NEW row \in NodeRows, AllFinished(row.tools)
    PROVE  CallsFromRows(Append(Q, row)) = CallsFromRows(Q) \o row.tools
<1>1. Q \in Seq(NodeRows) /\ row.tools \in Seq(ToolRows)
  BY DEF Rows, NodeRows
<1>2. CallsFromRows(Append(Q, row)) = AddCalls(CallsFromRows(Q), row)
  BY <1>1, CalledAppend
<1>3. Folded(AddFinished, <<>>, row.tools) = row.tools
  BY <1>1, AnsweredStay DEF FinishedOf
<1> QED BY <1>2, <1>3 DEF AddCalls

\* The row of a node that returns is finished.
LEMMA RowReturns ==
    ASSUME NEW Q \in Rows, AllFinished(Q), NEW node \in ReasoningNodes, NEW tools \in Seq(ToolRows),
           NEW e, e.kind = "finished", e.node = node
    PROVE  FoldRow(Append(Q, Row(node, FALSE, tools)), e) = Append(Q, Row(node, TRUE, tools))
<1> DEFINE row == Row(node, FALSE, tools)  other == Row(node, TRUE, tools)
<1>1. row \in NodeRows /\ ~row.finished /\ row.node = node /\ [row EXCEPT !.finished = TRUE] = other
  BY RowUnderWay
<1> HIDE DEF row, other
<1>2. FoldRow(Append(Q, row), e) = Append(Q, [row EXCEPT !.finished = TRUE])
  BY <1>1, RowFinished
<1> QED BY <1>1, <1>2 DEF row, other

\* The line of a node adds its row.
LEMMA NodeLine ==
    ASSUME NEW trace \in Seq(Lines), NEW calls \in Seq(Calls), NEW node \in ReasoningNodes
    PROVE  /\ Append(trace, Line(node)) \in Seq(Lines)
           /\ RowsFromRecord([graphTrace |-> Append(trace, Line(node)), toolCalls |-> calls])
                  = Append(RowsFromRecord([graphTrace |-> trace, toolCalls |-> calls]), Row(node, TRUE, <<>>))
           /\ LET visited == ParseGraphTrace(trace) IN
              ParseGraphTrace(Append(trace, Line(node)))
                  = [order    |-> NotRepeated(visited.order, node),
                     attempts |-> visited.attempts + (IF node = "classify" THEN 1 ELSE 0)]
<1>1. Line(node) \in Lines /\ Line(node).node = node /\ node # "tool"
  BY DEF Line, Lines, ReasoningNodes
<1>2. Append(trace, Line(node)) \in Seq(Lines)
  BY <1>1
<1>3. RowsFromRecord([graphTrace |-> Append(trace, Line(node)), toolCalls |-> calls])
          = AddLine(calls, RowsFromRecord([graphTrace |-> trace, toolCalls |-> calls]), Line(node))
  BY <1>1, LineAppend
<1>4. ParseGraphTrace(Append(trace, Line(node))) = VisitLine(ParseGraphTrace(trace), Line(node))
  BY <1>1, VisitAppend
<1> QED BY <1>1, <1>2, <1>3, <1>4 DEF AddLine, VisitLine

\* A view of a node that has returned.
LEMMA ViewReturns ==
    ASSUME NEW r \in Runs, NEW q \in Runs, q.calls = r.calls, NEW node \in ReasoningNodes,
           NodeAt(r.at) = node, r.at # "tool", NodeAt(q.at) = "none", q.at # "tool",
           LET visited == ParseGraphTrace(r.trace) IN
           ParseGraphTrace(q.trace) = [order    |-> NotRepeated(visited.order, node),
                                       attempts |-> visited.attempts + (IF node = "classify" THEN 1 ELSE 0)],
           NEW events \in Seq(TraceEvents), NEW e \in TraceEvents,
           e.kind = "finished", e.node = node, ViewFromLive(events) = ViewOf(r)
    PROVE  ViewFromLive(Append(events, e)) = ViewOf(q)
<1> DEFINE visited  == ParseGraphTrace(r.trace)
           order    == NotRepeated(visited.order, node)
           attempts == IF node = "classify" THEN visited.attempts + 1 ELSE visited.attempts
<1>1. node # "none"
  BY DEF ReasoningNodes
<1>2. visited.attempts \in Nat
  BY RunIs DEF Visits
<1>3. ViewFromLive(events) = View(order, attempts, r.calls, {}, node)
  BY <1>1 DEF ViewOf
<1>4. ViewOf(q) = View(order, attempts, r.calls, {}, "none")
  <2>1. ParseGraphTrace(q.trace).order = order /\ ParseGraphTrace(q.trace).attempts = attempts
    BY <1>2
  <2> HIDE DEF order, attempts
  <2> QED BY <2>1 DEF ViewOf
<1> HIDE DEF order, attempts, visited
<1>5. ViewFromLive(Append(events, e)) = FoldView(View(order, attempts, r.calls, {}, node), e)
  BY <1>3, ViewAppend
<1>6. ViewFromLive(Append(events, e)) = View(order, attempts, r.calls, {}, "none")
  BY <1>5 DEF FoldView, View
<1> QED BY <1>4, <1>6

\* A node without tools returns.
LEMMA LeaveShown ==
    ASSUME NEW r \in Runs, NEW q \in Runs, Written(r),
           q.calls = r.calls, q.enriched = r.enriched,
           r.at \in {"classifying", "escalating", "validating"}, NodeAt(q.at) = "none",
           NEW node, node = NodeAt(r.at), q.trace = Append(r.trace, Line(node)),
           NEW events \in Seq(TraceEvents), NEW e \in TraceEvents, e.kind = "finished", e.node = node
    PROVE  Written(q) /\ (ShownBy(events, r) => ShownBy(Append(events, e), q))
<1> DEFINE row == Row(node, TRUE, <<>>)
<1>1. /\ r.trace \in Seq(Lines) /\ r.calls \in Seq(Calls) /\ RowsOf(r) \in Rows
      /\ node \in ReasoningNodes /\ node # "none" /\ node # "gather_evidence"
  BY RunIs DEF NodeAt, ReasoningNodes
<1>2. row \in NodeRows /\ row.finished /\ row.tools = <<>>
  <2>1. <<>> \in Seq(ToolRows)
    OBVIOUS
  <2> QED BY <1>1, <2>1, RowUnderWay
<1> HIDE DEF row
<1>3. RowsOf(q) = Append(RowsOf(r), row)
  BY <1>1, NodeLine DEF RowsOf, RecordOf, row
<1>4. r.at \notin {"calling", "tool"} /\ q.at \notin {"calling", "tool"}
  BY DEF NodeAt
<1>5. Written(q)
  <2>1. ASSUME ~q.enriched, NEW calls \in Seq(Calls)
        PROVE  RowsFromRecord([graphTrace |-> q.trace, toolCalls |-> calls]) = RowsOf(q)
    <3>1. RowsFromRecord([graphTrace |-> r.trace, toolCalls |-> calls]) = RowsOf(r)
      BY <2>1 DEF Written
    <3>2. RowsFromRecord([graphTrace |-> q.trace, toolCalls |-> calls])
              = Append(RowsFromRecord([graphTrace |-> r.trace, toolCalls |-> calls]), row)
      BY <1>1, NodeLine DEF row
    <3> QED BY <1>3, <3>1, <3>2
  <2>2. ~q.enriched => q.calls = <<>>
    BY <1>4 DEF Written
  <2>3. ASSUME NoToolTwice(q.calls)
        PROVE  /\ AllFinished(RowsOf(q))
               /\ CallsFromRows(RowsOf(q)) = IF q.enriched THEN Answered(q.calls) ELSE <<>>
    <3>1. /\ AllFinished(RowsOf(r))
          /\ CallsFromRows(RowsOf(r)) = IF q.enriched THEN Answered(q.calls) ELSE <<>>
      BY <2>3 DEF Written
    <3>2. AllFinished(RowsOf(q))
      BY <1>1, <1>2, <1>3, <3>1, FinishedOnTop
    <3>3. CallsFromRows(RowsOf(q)) = CallsFromRows(RowsOf(r)) \o <<>>
      <4>1. AllFinished(row.tools)
        BY <1>2 DEF AllFinished
      <4>2. CallsFromRows(Append(RowsOf(r), row)) = CallsFromRows(RowsOf(r)) \o row.tools
        BY <1>1, <1>2, <4>1, CallsOnTop
      <4> QED BY <1>2, <1>3, <4>2
    <3>4. CallsFromRows(RowsOf(r)) \in Seq(ToolRows)
      BY <1>1, CalledIs DEF Rows
    <3>5. CallsFromRows(RowsOf(r)) \o <<>> = CallsFromRows(RowsOf(r))
      <4>1. PICK s \in Seq(ToolRows) : s = CallsFromRows(RowsOf(r))
        BY <3>4
      <4>2. s \o <<>> = s
        OBVIOUS
      <4> QED BY <4>1, <4>2
    <3> QED BY <3>1, <3>2, <3>3, <3>5
  <2> QED BY <2>1, <2>2, <2>3 DEF Written
<1>6. ASSUME ShownBy(events, r) PROVE ShownBy(Append(events, e), q)
  <2>1. ASSUME NoToolTwice(q.calls)
        PROVE  RowsFromEvents(Append(events, e)) = WithUnfinished(RowsOf(q), q)
    <3> DEFINE open == Append(RowsOf(r), Row(node, FALSE, <<>>))
    <3>1. RowsFromEvents(events) = open
      <4>1. RowsFromEvents(events) = WithUnfinished(RowsOf(r), r)
        BY <1>6, <2>1 DEF ShownBy
      <4>2. ToolsOf(r) = <<>>
        BY <1>1, <1>4 DEF ToolsOf
      <4> QED BY <1>1, <4>1, <4>2 DEF WithUnfinished
    <3> HIDE DEF open
    <3>2. RowsFromEvents(Append(events, e)) = FoldRow(open, e)
      BY <3>1, EventAppend
    <3>3. AllFinished(RowsOf(r)) /\ <<>> \in Seq(ToolRows)
      BY <2>1 DEF Written
    <3>4. FoldRow(open, e) = Append(RowsOf(r), row)
      BY <1>1, <3>3, RowReturns DEF open, row
    <3> QED BY <1>3, <3>2, <3>4 DEF WithUnfinished
  <2>2. ViewFromLive(Append(events, e)) = ViewOf(q)
    <3>1. LET visited == ParseGraphTrace(r.trace) IN
          ParseGraphTrace(q.trace) = [order    |-> NotRepeated(visited.order, node),
                                      attempts |-> visited.attempts + (IF node = "classify" THEN 1 ELSE 0)]
      BY <1>1, NodeLine
    <3>2. ViewFromLive(events) = ViewOf(r)
      BY <1>6 DEF ShownBy
    <3> QED BY <1>1, <1>4, <3>1, <3>2, ViewReturns
  <2> QED BY <2>1, <2>2 DEF ShownBy
<1> QED BY <1>5, <1>6

\* The gatherer returns.
LEMMA GatheredShown ==
    ASSUME NEW r \in Runs, NEW q \in Runs, Written(r), ~r.enriched,
           q.calls = r.calls, q.enriched, r.at = "calling", NodeAt(q.at) = "none",
           q.trace = Append(r.trace, Line("gather_evidence")) \o LinesOf(r.calls),
           NEW events \in Seq(TraceEvents), NEW e \in TraceEvents,
           e.kind = "finished", e.node = "gather_evidence"
    PROVE  Written(q) /\ (ShownBy(events, r) => ShownBy(Append(events, e), q))
<1> DEFINE done  == Answered(r.calls)
           row   == Row("gather_evidence", TRUE, done)
           trace == Append(r.trace, Line("gather_evidence"))
<1>1. /\ r.trace \in Seq(Lines) /\ r.calls \in Seq(Calls) /\ RowsOf(r) \in Rows
      /\ "gather_evidence" \in ReasoningNodes
  BY RunIs DEF ReasoningNodes
<1>2. done \in Seq(ToolRows) /\ AllFinished(done)
  BY <1>1, AnsweredIs
<1> HIDE DEF done
<1>3. row \in NodeRows /\ row.finished /\ row.tools = done
  BY <1>1, <1>2, RowUnderWay
<1>4. /\ trace \in Seq(Lines)
      /\ RowsFromRecord([graphTrace |-> trace, toolCalls |-> r.calls])
             = Append(RowsOf(r), Row("gather_evidence", TRUE, <<>>))
  BY <1>1, NodeLine DEF RowsOf, RecordOf
<1> HIDE DEF trace
<1>5. NoToolTwice(q.calls) => RowsOf(q) = Append(RowsOf(r), row)
  BY <1>1, <1>4, ToolsFillTheRow DEF RowsOf, RecordOf, done, trace
<1> HIDE DEF row
<1>6. NodeAt(r.at) = "gather_evidence" /\ r.at # "tool" /\ q.at # "tool"
  BY DEF NodeAt
<1>7. Written(q)
  <2>1. ASSUME NoToolTwice(q.calls)
        PROVE  AllFinished(RowsOf(q)) /\ CallsFromRows(RowsOf(q)) = Answered(q.calls)
    <3>1. AllFinished(RowsOf(r)) /\ CallsFromRows(RowsOf(r)) = <<>>
      BY <2>1 DEF Written
    <3>2. AllFinished(RowsOf(q))
      BY <1>1, <1>3, <1>5, <2>1, <3>1, FinishedOnTop
    <3>3. CallsFromRows(Append(RowsOf(r), row)) = <<>> \o done
      BY <1>1, <1>2, <1>3, <3>1, CallsOnTop
    <3>4. <<>> \o done = done
      BY <1>2
    <3> QED BY <1>5, <2>1, <3>2, <3>3, <3>4 DEF done
  <2> QED BY <2>1 DEF Written
<1>8. ASSUME ShownBy(events, r) PROVE ShownBy(Append(events, e), q)
  <2>1. ASSUME NoToolTwice(q.calls)
        PROVE  RowsFromEvents(Append(events, e)) = WithUnfinished(RowsOf(q), q)
    <3> DEFINE open == Append(RowsOf(r), Row("gather_evidence", FALSE, done))
    <3>1. RowsFromEvents(events) = open
      <4>1. RowsFromEvents(events) = WithUnfinished(RowsOf(r), r)
        BY <1>8, <2>1 DEF ShownBy
      <4>2. ToolsOf(r) = done
        BY <1>6 DEF ToolsOf, done
      <4> QED BY <1>6, <4>1, <4>2 DEF WithUnfinished
    <3> HIDE DEF open
    <3>2. RowsFromEvents(Append(events, e)) = FoldRow(open, e)
      BY <3>1, EventAppend
    <3>3. AllFinished(RowsOf(r))
      BY <2>1 DEF Written
    <3>4. FoldRow(open, e) = Append(RowsOf(r), row)
      BY <1>1, <1>2, <3>3, RowReturns DEF open, row
    <3> QED BY <1>5, <2>1, <3>2, <3>4 DEF WithUnfinished
  <2>2. ViewFromLive(Append(events, e)) = ViewOf(q)
    <3>1. LET visited == ParseGraphTrace(r.trace) IN
          ParseGraphTrace(trace) = [order    |-> NotRepeated(visited.order, "gather_evidence"),
                                    attempts |-> visited.attempts + (IF "gather_evidence" = "classify"
                                                              THEN 1 ELSE 0)]
      BY <1>1, NodeLine DEF trace
    <3>2. ParseGraphTrace(q.trace) = ParseGraphTrace(trace)
      BY <1>1, <1>4, ToolsAreNotVisited DEF trace
    <3>3. ViewFromLive(events) = ViewOf(r)
      BY <1>8 DEF ShownBy
    <3> QED BY <1>1, <1>6, <3>1, <3>2, <3>3, ViewReturns
  <2> QED BY <2>1, <2>2 DEF ShownBy
<1> QED BY <1>7, <1>8

-----------------------------------------------------------------------------
(***************************************************************************)
(* The events in their order                                               *)
(***************************************************************************)

InOrder(S) == [i \in 1..Cardinality(S) |-> CHOOSE e \in S : Cardinality({x \in S : x.seq <= e.seq}) = i]

ToldApart(S)  == S \subseteq TraceEvents /\ \A e, f \in S : e.seq = f.seq => e = f
UpToSeq(S, n) == ToldApart(S) /\ {e.seq : e \in S} = 1..n

\* As many events as their numbers say.
LEMMA CountedBySeq ==
    ASSUME NEW S, NEW n \in Nat, UpToSeq(S, n)
    PROVE  Cardinality(S) = n
<1> DEFINE f == [i \in 1..n |-> CHOOSE e \in S : e.seq = i]
<1>1. ASSUME NEW i \in 1..n PROVE f[i] \in S /\ f[i].seq = i
  <2>1. \E e \in S : e.seq = i
    BY DEF UpToSeq
  <2> QED BY <2>1
<1>2. f \in [1..n -> S]
  BY <1>1
<1> HIDE DEF f
<1>3. \A i, j \in 1..n : f[i] = f[j] => i = j
  BY <1>1
<1>4. ASSUME NEW e \in S PROVE \E i \in 1..n : f[i] = e
  <2>1. e.seq \in 1..n
    BY DEF UpToSeq
  <2> QED BY <1>1, <2>1 DEF UpToSeq, ToldApart
<1>5. f \in Bijection(1..n, S)
  BY <1>2, <1>3, <1>4 DEF Bijection, Injection, Surjection, IsInjective
<1> QED BY <1>5, FS_CountingElements DEF ExistsBijection

LEMMA CountedUpTo ==
    ASSUME NEW S, NEW n \in Nat, UpToSeq(S, n), NEW m \in 0..n
    PROVE  Cardinality({x \in S : x.seq <= m}) = m
<1> DEFINE T == {x \in S : x.seq <= m}
<1>1. ToldApart(T)
  BY DEF UpToSeq, ToldApart
<1>2. ASSUME NEW i \in 1..m PROVE i \in {e.seq : e \in T}
  <2>1. i \in 1..n
    OBVIOUS
  <2>2. PICK e \in S : e.seq = i
    BY <2>1 DEF UpToSeq
  <2> QED BY <2>2
<1>3. ASSUME NEW e \in T PROVE e.seq \in 1..m
  <2>1. e.seq \in 1..n /\ e.seq <= m
    BY DEF UpToSeq
  <2> QED BY <2>1
<1> HIDE DEF T
<1>4. UpToSeq(T, m)
  BY <1>1, <1>2, <1>3 DEF UpToSeq
<1>5. m \in Nat
  OBVIOUS
<1>6. Cardinality(T) = m
  BY <1>4, <1>5, CountedBySeq
<1> QED BY <1>6 DEF T

\* The event at a place has that number.
LEMMA PlacedBySeq ==
    ASSUME NEW S, NEW n \in Nat, UpToSeq(S, n)
    PROVE  /\ InOrder(S) \in Seq(TraceEvents) /\ Len(InOrder(S)) = n
           /\ \A i \in 1..n : InOrder(S)[i] \in S /\ InOrder(S)[i].seq = i
<1>1. Cardinality(S) = n
  BY CountedBySeq
<1>2. ASSUME NEW i \in 1..n PROVE InOrder(S)[i] \in S /\ InOrder(S)[i].seq = i
  <2> DEFINE Rank(e) == Cardinality({x \in S : x.seq <= e.seq})
  <2>1. ASSUME NEW e \in S PROVE Rank(e) = e.seq
    <3>1. e.seq \in 0..n
      BY DEF UpToSeq
    <3>2. PICK m \in 0..n : m = e.seq
      BY <3>1
    <3>3. Cardinality({x \in S : x.seq <= m}) = m
      BY CountedUpTo
    <3> QED BY <3>2, <3>3
  <2>2. PICK e \in S : e.seq = i
    BY DEF UpToSeq
  <2> HIDE DEF Rank
  <2>3. \E d \in S : Rank(d) = i
    BY <2>1, <2>2
  <2>4. InOrder(S)[i] = CHOOSE d \in S : Rank(d) = i
    BY <1>1 DEF InOrder, Rank
  <2>5. InOrder(S)[i] \in S /\ Rank(InOrder(S)[i]) = i
    BY <2>3, <2>4
  <2> QED BY <2>1, <2>5
<1>3. InOrder(S) \in [1..n -> TraceEvents]
  <2> DEFINE At(i) == CHOOSE e \in S : Cardinality({x \in S : x.seq <= e.seq}) = i
  <2>1. InOrder(S) = [i \in 1..n |-> At(i)]
    BY <1>1 DEF InOrder
  <2> HIDE DEF At
  <2>2. \A i \in 1..n : At(i) = InOrder(S)[i]
    BY <2>1
  <2>3. \A i \in 1..n : At(i) \in TraceEvents
    BY <1>2, <2>2 DEF UpToSeq, ToldApart
  <2> QED BY <2>1, <2>3
<1> QED BY <1>2, <1>3

\* The next event comes last.
LEMMA NextEvent ==
    ASSUME NEW S, NEW n \in Nat, UpToSeq(S, n), NEW e \in TraceEvents, e.seq = n + 1
    PROVE  InOrder(S \cup {e}) = Append(InOrder(S), e)
<1> DEFINE T == S \cup {e}
<1>1. \A x \in S : x.seq \in 1..n
  BY DEF UpToSeq
<1>2. n + 1 \in Nat /\ \A x \in S : x.seq # n + 1
  BY <1>1
<1>3. ToldApart(T)
  BY <1>2 DEF UpToSeq, ToldApart
<1>4. {x.seq : x \in T} = 1..(n + 1)
  <2>1. {x.seq : x \in T} = {x.seq : x \in S} \cup {n + 1}
    OBVIOUS
  <2>2. (1..n) \cup {n + 1} = 1..(n + 1)
    OBVIOUS
  <2> QED BY <2>1, <2>2 DEF UpToSeq
<1> HIDE DEF T
<1>5. UpToSeq(T, n + 1)
  BY <1>3, <1>4 DEF UpToSeq
<1> DEFINE s == InOrder(T)  t == Append(InOrder(S), e)
<1>6. s \in Seq(TraceEvents) /\ Len(s) = n + 1 /\ \A i \in 1..(n + 1) : s[i] \in T /\ s[i].seq = i
  BY <1>2, <1>5, PlacedBySeq
<1>7. /\ InOrder(S) \in Seq(TraceEvents) /\ Len(InOrder(S)) = n
      /\ \A i \in 1..n : InOrder(S)[i] \in S /\ InOrder(S)[i].seq = i
  BY PlacedBySeq
<1>8. /\ t \in Seq(TraceEvents) /\ Len(t) = n + 1 /\ t[n + 1] = e
      /\ \A i \in 1..n : t[i] = InOrder(S)[i]
  BY <1>7, Appended
<1>9. \A i \in 1..(n + 1) : t[i] \in T /\ t[i].seq = i
  <2>1. \A i \in 1..(n + 1) : i = n + 1 \/ i \in 1..n
    OBVIOUS
  <2> QED BY <1>7, <1>8, <2>1 DEF T
<1> HIDE DEF s, t
<1>10. \A i \in 1..(n + 1) : s[i] = t[i]
  BY <1>3, <1>6, <1>9 DEF ToldApart
<1>11. s = t
  BY <1>2, <1>6, <1>8, <1>10, SameSeq
<1> QED BY <1>11 DEF s, t, T

-----------------------------------------------------------------------------
(***************************************************************************)
(* The first attempt as long as it is the only one                         *)
(***************************************************************************)

Alone == tries = 1 /\ outcome # Failed

Numbered(r) == ToldApart(stream) /\ \A e \in stream : e.seq \in 1..r.seq
Complete(r) == ~r.disabled /\ {e.seq : e \in stream} = 1..r.seq

\* The page shows what attempt 1 has done so far, if it was told everything.
Shown(r) == Numbered(r) /\ Written(r) /\ (Complete(r) => ShownBy(Events, r))

Followed ==
    /\ outcome = Failed => judge = 0
    /\ Alone => Shown(run[1]) /\ \A a \in Attempts \ {1} : run[a].at = "idle"

LEMMA EventsInOrder ==
    ASSUME NEW r, r.seq \in Nat, Numbered(r), Complete(r)
    PROVE  UpToSeq(stream, r.seq) /\ Events = InOrder(stream) /\ Events \in Seq(TraceEvents)
<1>1. UpToSeq(stream, r.seq)
  BY DEF Numbered, Complete, UpToSeq
<1>2. Events = InOrder(stream)
  BY DEF Events, InOrder
<1> QED BY <1>1, <1>2, PlacedBySeq

\* A step that turns r into p shows what it did, when its event e does.
Shows(r, p, e) ==
    \A q \in Runs : Reported(q, p) =>
        /\ Written(q)
        /\ \A events \in Seq(TraceEvents) : ShownBy(events, r) => ShownBy(Append(events, e), q)

LEMMA EmitShown ==
    ASSUME Sound, 1 \in Attempts, Shown(run[1]), NEW p \in Runs,
           p.seq = run[1].seq, p.disabled = run[1].disabled,
           NEW kind \in {"started", "finished", "tool_started", "tool_finished"},
           NEW node \in Nodes, NEW result \in Said, Emit(1, p, kind, node, result),
           \A e \in TraceEvents :
               e.kind = kind /\ e.node = node /\ e.result = result => Shows(run[1], p, e)
    PROVE  Shown(run[1])' /\ \A a \in Attempts \ {1} : run'[a] = run[a]
<1> DEFINE r == run[1]
           n == r.seq
           e == [seq |-> n + 1, kind |-> kind, node |-> node, result |-> result]
<1>1. n \in Nat /\ r.disabled \in BOOLEAN /\ run \in [Attempts -> Runs]
  BY DEF Sound, TypeOK, Runs
<1>2. e \in TraceEvents /\ e.seq = n + 1 /\ Shows(r, p, e)
  BY <1>1 DEF TraceEvents
<1>3. Numbered(r) /\ Written(r) /\ (Complete(r) => ShownBy(Events, r))
  BY DEF Shown
<1>4. \A x \in stream : x.seq \in 1..n
  BY <1>3 DEF Numbered
<1>5. n + 1 \in Nat /\ \A x \in stream : x.seq # n + 1
  BY <1>1, <1>4
<1>6. stream' = stream \/ stream' = stream \cup {e}
  BY DEF Emit, Delivered, Kept
<1> HIDE DEF e
<1>7. PICK q \in Runs : /\ run' = [run EXCEPT ![1] = q] /\ Reported(q, p)
                        /\ \/ q.disabled = TRUE /\ q.seq = n /\ stream' = stream
                           \/ q.disabled = TRUE /\ q.seq = n + 1
                           \/ q.disabled = FALSE /\ ~r.disabled /\ q.seq = n + 1
  <2>1. CASE p.disabled /\ run' = [run EXCEPT ![1] = p] /\ stream' = stream
    BY <1>1, <2>1 DEF Reported
  <2>2. CASE ~p.disabled /\ run' = [run EXCEPT ![1] = [p EXCEPT !.seq = p.seq + 1]]
    <3> DEFINE q == [p EXCEPT !.seq = p.seq + 1]
    <3>1. Reported(q, p) /\ q.seq = n + 1 /\ q.disabled = FALSE
      BY <1>1, <2>2, CountedIsReported DEF Runs
    <3> HIDE DEF q
    <3>2. q \in Runs
      BY <3>1 DEF Reported
    <3> QED BY <2>2, <3>1, <3>2 DEF q
  <2>3. CASE run' = [run EXCEPT ![1] = [p EXCEPT !.seq = p.seq + 1, !.disabled = TRUE]]
    <3> DEFINE q == [p EXCEPT !.seq = p.seq + 1, !.disabled = TRUE]
    <3>1. Reported(q, p) /\ q.seq = n + 1 /\ q.disabled = TRUE
      BY <1>1, DisabledIsReported DEF Runs
    <3> HIDE DEF q
    <3>2. q \in Runs
      BY <3>1 DEF Reported
    <3> QED BY <2>3, <3>1, <3>2 DEF q
  <2> QED BY <2>1, <2>2, <2>3 DEF Emit
<1>8. run'[1] = q /\ \A a \in Attempts \ {1} : run'[a] = run[a]
  BY <1>1, <1>7
<1>9. q.seq = n \/ q.seq = n + 1
  BY <1>7
<1>10. Numbered(q)'
  <2>1. ToldApart(stream)
    BY <1>3 DEF Numbered
  <2>2. ToldApart(stream \cup {e})
    BY <1>2, <1>5, <2>1 DEF ToldApart
  <2>3. \A x \in stream : x.seq \in 1..q.seq
    BY <1>1, <1>4, <1>9
  <2>4. CASE stream' = stream
    BY <2>1, <2>3, <2>4 DEF Numbered
  <2>5. CASE stream' = stream \cup {e} /\ q.seq = n + 1
    <3>1. e.seq \in 1..q.seq
      BY <1>1, <1>2, <2>5
    <3> QED BY <2>2, <2>3, <2>5, <3>1 DEF Numbered
  <2> QED BY <1>6, <1>7, <2>4, <2>5
<1>11. Written(q)
  BY <1>2, <1>7 DEF Shows
<1>12. ASSUME Complete(q)' PROVE ShownBy(Events, q)'
  <2>1. q.disabled = FALSE /\ ~r.disabled /\ q.seq = n + 1 /\ {x.seq : x \in stream'} = 1..(n + 1)
    BY <1>7, <1>12 DEF Complete
  <2>2. stream' = stream \cup {e}
    <3>1. \E x \in stream' : x.seq = n + 1
      BY <1>1, <2>1
    <3> QED BY <1>5, <1>6, <3>1
  <2>3. {x.seq : x \in stream} = 1..n
    <3>1. ASSUME NEW i \in 1..n PROVE \E x \in stream : x.seq = i
      <4>1. i \in 1..(n + 1) /\ i # n + 1
        BY <1>1
      <4>2. PICK x \in stream' : x.seq = i
        BY <2>1, <4>1
      <4> QED BY <1>2, <2>2, <4>1, <4>2
    <3> QED BY <1>4, <3>1
  <2>4. Complete(r)
    BY <2>1, <2>3 DEF Complete
  <2>5. /\ UpToSeq(stream, n) /\ Events = InOrder(stream) /\ Events \in Seq(TraceEvents)
    BY <1>1, <1>3, <2>4, EventsInOrder
  <2>6. Events' = InOrder(stream')
    BY DEF Events, InOrder
  <2>7. Events' = Append(Events, e)
    BY <1>1, <1>2, <2>2, <2>5, <2>6, NextEvent
  <2>8. ShownBy(Events, r)
    BY <1>3, <2>4
  <2>9. ShownBy(Append(Events, e), q)
    BY <1>2, <1>7, <2>5, <2>8 DEF Shows
  <2> QED BY <2>7, <2>9
<1> QED BY <1>8, <1>10, <1>11, <1>12 DEF Shown

LEMMA AloneRun ==
    ASSUME Sound, Followed, Alone
    PROVE  /\ 1 \in Attempts /\ run[1] \in Runs /\ Tidy(run[1]) /\ Shown(run[1]) /\ Written(run[1])
           /\ run[1].calls \in Seq(Calls) /\ run[1].wanted \in Seq(Tools) /\ run[1].trace \in Seq(Lines)
<1>1. 1 \in Attempts
  BY AssessmentAssumption DEF Attempts
<1>2. run[1] \in Runs /\ Tidy(run[1])
  BY <1>1 DEF Sound, TypeOK
<1>3. Shown(run[1])
  BY DEF Followed
<1> QED BY <1>1, <1>2, <1>3 DEF Shown, Runs

LEMMA EnterFollowed ==
    ASSUME Sound, Followed, Alone, NEW node, NEW from, NEW to, Enter(1, node, from, to),
           <<node, from, to>> \in {<<"classify", "classify", "classifying">>,
                                   <<"gather_evidence", "gather", "choosing">>,
                                   <<"escalate", "escalate", "escalating">>,
                                   <<"validate", "validate", "validating">>}
    PROVE  Shown(run[1])' /\ \A a \in Attempts \ {1} : run'[a] = run[a]
<1> DEFINE r == run[1]
           p == [r EXCEPT !.at = to]
<1>1. r \in Runs /\ Tidy(r) /\ 1 \in Attempts /\ Shown(r) /\ Written(r) /\ r.at = from
  BY AloneRun DEF Enter
<1>2. /\ to \in {"classifying", "choosing", "escalating", "validating"} /\ node \in ReasoningNodes
      /\ NodeAt(to) = node /\ NodeAt(from) = "none" /\ (to = "choosing" => from = "gather")
  BY DEF NodeAt, ReasoningNodes
<1>3. to \in Places /\ node \in Nodes /\ "none" \in Said
  BY <1>2 DEF Places, Nodes, Said
<1>4. p \in Runs /\ p.seq = r.seq /\ p.disabled = r.disabled /\ p.at = to
      /\ p.trace = r.trace /\ p.calls = r.calls /\ p.enriched = r.enriched
  BY <1>1, <1>3 DEF Runs
<1>5. Emit(1, p, "started", node, "none")
  BY DEF Enter
<1>6. to = "choosing" => ~r.enriched
  BY <1>1, <1>2 DEF Tidy
<1> HIDE DEF p, r
<1>7. ASSUME NEW e \in TraceEvents, e.kind = "started" /\ e.node = node /\ e.result = "none"
      PROVE  Shows(r, p, e)
  <2>1. ASSUME NEW q \in Runs, Reported(q, p)
        PROVE  /\ Written(q)
               /\ \A events \in Seq(TraceEvents) : ShownBy(events, r) => ShownBy(Append(events, e), q)
    <3>1. q.at = to /\ SameRecord(q, r)
      BY <1>4, <2>1 DEF Reported, SameRecord
    <3>2. ASSUME NEW events \in Seq(TraceEvents)
          PROVE  Written(q) /\ (ShownBy(events, r) => ShownBy(Append(events, e), q))
      BY <1>1, <1>2, <1>6, <1>7, <3>1, EnterShown
    <3>3. <<>> \in Seq(TraceEvents)
      OBVIOUS
    <3> QED BY <3>2, <3>3
  <2> QED BY <2>1 DEF Shows
<1> QED BY <1>1, <1>3, <1>4, <1>5, <1>7, EmitShown DEF r

LEMMA ChooseToolsFollowed ==
    ASSUME Sound, Followed, Alone, ChooseTools(1)
    PROVE  Shown(run[1])' /\ \A a \in Attempts \ {1} : run'[a] = run[a]
<1> DEFINE r == run[1]  q == run'[1]
<1>1. r \in Runs /\ 1 \in Attempts /\ Shown(r) /\ Written(r) /\ r.at = "choosing"
  BY AloneRun DEF ChooseTools
<1>2. PICK wanted : run' = [run EXCEPT ![1] = [@ EXCEPT !.at = "calling", !.wanted = wanted]]
  BY DEF ChooseTools
<1>3. /\ q.at = "calling" /\ SameRecord(q, r) /\ q.seq = r.seq /\ q.disabled = r.disabled
      /\ \A a \in Attempts \ {1} : run'[a] = run[a]
  BY <1>1, <1>2 DEF SameRecord, Sound, TypeOK, Runs
<1>4. q \in Runs
  <2>1. Onward(1, r.attempts)
    BY <1>1, ChooseToolsMoves
  <2>2. Sound'
    BY <1>1, <2>1, OnwardIsSound DEF ChooseTools
  <2> QED BY <1>1, <2>2 DEF Sound, TypeOK
<1>5. stream' = stream /\ Events' = Events
  BY DEF ChooseTools, Events
<1> HIDE DEF q, r
<1>6. Written(q) /\ (ShownBy(Events, r) => ShownBy(Events, q))
  BY <1>1, <1>3, <1>4, ChooseShown
<1>7. Numbered(r) /\ (Complete(r) => ShownBy(Events, r))
  BY <1>1 DEF Shown
<1>8. /\ (ToldApart(stream) /\ \A e \in stream : e.seq \in 1..q.seq)
      /\ (~q.disabled /\ {e.seq : e \in stream} = 1..q.seq => ShownBy(Events, q))
  BY <1>3, <1>6, <1>7 DEF Numbered, Complete
<1> QED BY <1>3, <1>5, <1>6, <1>8 DEF Shown, Numbered, Complete, q

LEMMA CallToolFollowed ==
    ASSUME Sound, Followed, Alone, CallTool(1)
    PROVE  Shown(run[1])' /\ \A a \in Attempts \ {1} : run'[a] = run[a]
<1> DEFINE r == run[1]
           p == [r EXCEPT !.at = "tool"]
<1>1. /\ r \in Runs /\ 1 \in Attempts /\ Shown(r) /\ Written(r)
      /\ r.at = "calling" /\ r.wanted # <<>> /\ r.wanted \in Seq(Tools)
  BY AloneRun DEF CallTool
<1>2. Head(r.wanted) \in Nodes /\ "none" \in Said
  BY <1>1 DEF Nodes, Said
<1>3. p \in Runs /\ p.seq = r.seq /\ p.disabled = r.disabled /\ p.at = "tool" /\ p.wanted = r.wanted
      /\ p.trace = r.trace /\ p.calls = r.calls /\ p.enriched = r.enriched
  BY <1>1 DEF Runs, Places
<1>4. Emit(1, p, "tool_started", Head(r.wanted), "none")
  BY DEF CallTool
<1> HIDE DEF p, r
<1>5. ASSUME NEW e \in TraceEvents,
             e.kind = "tool_started" /\ e.node = Head(r.wanted) /\ e.result = "none"
      PROVE  Shows(r, p, e)
  <2>1. ASSUME NEW q \in Runs, Reported(q, p)
        PROVE  /\ Written(q)
               /\ \A events \in Seq(TraceEvents) : ShownBy(events, r) => ShownBy(Append(events, e), q)
    <3>1. q.at = "tool" /\ q.wanted = r.wanted /\ SameRecord(q, r)
      BY <1>3, <2>1 DEF Reported, SameRecord
    <3>2. ASSUME NEW events \in Seq(TraceEvents)
          PROVE  Written(q) /\ (ShownBy(events, r) => ShownBy(Append(events, e), q))
      BY <1>1, <1>5, <3>1, CallShown
    <3>3. <<>> \in Seq(TraceEvents)
      OBVIOUS
    <3> QED BY <3>2, <3>3
  <2> QED BY <2>1 DEF Shows
<1> QED BY <1>1, <1>2, <1>3, <1>4, <1>5, EmitShown DEF r

LEMMA ToolReturnsFollowed ==
    ASSUME Sound, Followed, Alone, ToolReturns(1)
    PROVE  Shown(run[1])' /\ \A a \in Attempts \ {1} : run'[a] = run[a]
<1> DEFINE r    == run[1]
           name == Head(r.wanted)
           After(result) == [r EXCEPT !.at = "calling", !.wanted = Tail(@),
                                      !.calls = Append(@, [name |-> name, result |-> result])]
<1>1. /\ r \in Runs /\ 1 \in Attempts /\ Shown(r) /\ Written(r) /\ r.at = "tool"
      /\ r.wanted # <<>> /\ ~r.enriched /\ r.wanted \in Seq(Tools) /\ r.calls \in Seq(Calls)
  BY AloneRun DEF ToolReturns, Tidy
<1>2. PICK result \in Results : Emit(1, After(result), "tool_finished", name, result)
  BY DEF ToolReturns, Results
<1> DEFINE p == After(result)
<1>3. name \in Tools /\ name \in Nodes /\ result \in Said /\ Tail(r.wanted) \in Seq(Tools)
  BY <1>1 DEF Nodes, Said
<1>4. Append(r.calls, [name |-> name, result |-> result]) \in Seq(Calls)
  BY <1>1, <1>3 DEF Calls
<1>5. p \in Runs /\ p.seq = r.seq /\ p.disabled = r.disabled /\ p.at = "calling"
      /\ p.trace = r.trace /\ p.enriched = r.enriched
      /\ p.calls = Append(r.calls, [name |-> name, result |-> result])
  BY <1>1, <1>3, <1>4 DEF Runs, Places
<1> HIDE DEF After, r
<1>6. ASSUME NEW e \in TraceEvents, e.kind = "tool_finished" /\ e.node = name /\ e.result = result
      PROVE  Shows(r, p, e)
  <2>1. ASSUME NEW q \in Runs, Reported(q, p)
        PROVE  /\ Written(q)
               /\ \A events \in Seq(TraceEvents) : ShownBy(events, r) => ShownBy(Append(events, e), q)
    <3>1. /\ q.at = "calling" /\ q.trace = r.trace /\ ~q.enriched
          /\ q.calls = Append(r.calls, [name |-> Head(r.wanted), result |-> e.result])
      BY <1>1, <1>5, <1>6, <2>1 DEF Reported
    <3>2. ASSUME NEW events \in Seq(TraceEvents)
          PROVE  Written(q) /\ (ShownBy(events, r) => ShownBy(Append(events, e), q))
      BY <1>1, <1>6, <3>1, ReturnShown
    <3>3. <<>> \in Seq(TraceEvents)
      OBVIOUS
    <3> QED BY <3>2, <3>3
  <2> QED BY <2>1 DEF Shows
<1> HIDE DEF p, name
<1>7. Emit(1, p, "tool_finished", name, result)
  BY <1>2 DEF p
<1> QED BY <1>1, <1>3, <1>5, <1>6, <1>7, EmitShown DEF r

LEMMA GatheredFollowed ==
    ASSUME Sound, Followed, Alone, Gathered(1)
    PROVE  Shown(run[1])' /\ \A a \in Attempts \ {1} : run'[a] = run[a]
<1> DEFINE r     == run[1]
           trace == Append(r.trace, Line("gather_evidence")) \o LinesOf(r.calls)
           p     == [r EXCEPT !.at = "classify", !.enriched = TRUE, !.trace = trace]
<1>1. /\ r \in Runs /\ 1 \in Attempts /\ Shown(r) /\ Written(r) /\ r.at = "calling"
      /\ ~r.enriched /\ r.trace \in Seq(Lines) /\ r.calls \in Seq(Calls)
  BY AloneRun DEF Gathered, Tidy
<1>2. Emit(1, p, "finished", "gather_evidence", "none")
  BY DEF Gathered, LinesOf
<1>3. trace \in Seq(Lines)
  <2>1. LinesOf(r.calls) \in Seq(Lines)
    <3>1. PICK n \in Nat : n = Len(r.calls)
      BY <1>1
    <3> QED BY <1>1, <3>1, LinesOfIs
  <2>2. Append(r.trace, Line("gather_evidence")) \in Seq(Lines)
    BY <1>1, LineAdded
  <2> QED BY <2>1, <2>2
<1> HIDE DEF trace
<1>4. p \in Runs /\ p.seq = r.seq /\ p.disabled = r.disabled /\ p.at = "classify"
      /\ p.trace = trace /\ p.calls = r.calls /\ p.enriched
  BY <1>1, <1>3 DEF Runs, Places
<1>5. "gather_evidence" \in Nodes /\ "none" \in Said /\ NodeAt("classify") = "none"
  BY DEF Nodes, Said, ReasoningNodes, NodeAt
<1> HIDE DEF p, r
<1>6. ASSUME NEW e \in TraceEvents,
             e.kind = "finished" /\ e.node = "gather_evidence" /\ e.result = "none"
      PROVE  Shows(r, p, e)
  <2>1. ASSUME NEW q \in Runs, Reported(q, p)
        PROVE  /\ Written(q)
               /\ \A events \in Seq(TraceEvents) : ShownBy(events, r) => ShownBy(Append(events, e), q)
    <3>1. NodeAt(q.at) = "none" /\ q.trace = trace /\ q.calls = r.calls /\ q.enriched
      BY <1>4, <1>5, <2>1 DEF Reported
    <3>2. ASSUME NEW events \in Seq(TraceEvents)
          PROVE  Written(q) /\ (ShownBy(events, r) => ShownBy(Append(events, e), q))
      BY <1>1, <1>6, <3>1, GatheredShown DEF trace
    <3>3. <<>> \in Seq(TraceEvents)
      OBVIOUS
    <3> QED BY <3>2, <3>3
  <2> QED BY <2>1 DEF Shows
<1> QED BY <1>1, <1>2, <1>4, <1>5, <1>6, EmitShown DEF r

\* A node without tools returns with what its attempt has become.
LEMMA LeaveFollowed ==
    ASSUME Sound, Followed, Alone, NEW s \in Runs, NEW to \in Places, NEW node,
           run[1].at \in {"classifying", "escalating", "validating"}, node = NodeAt(run[1].at),
           NodeAt(to) = "none", s.seq = run[1].seq, s.disabled = run[1].disabled,
           s.trace = run[1].trace, s.calls = run[1].calls, s.enriched = run[1].enriched,
           Leave(1, node, s, to)
    PROVE  Shown(run[1])' /\ \A a \in Attempts \ {1} : run'[a] = run[a]
<1> DEFINE r     == run[1]
           trace == Append(r.trace, Line(node))
           p     == [s EXCEPT !.at = to, !.trace = Append(@, Line(node))]
<1>1. r \in Runs /\ 1 \in Attempts /\ Shown(r) /\ Written(r) /\ r.trace \in Seq(Lines)
  BY AloneRun
<1>2. node \in ReasoningNodes /\ node \in Nodes /\ "none" \in Said
  BY DEF NodeAt, ReasoningNodes, Nodes, Said
<1>3. trace \in Seq(Lines)
  BY <1>1, <1>2, LineAdded DEF ReasoningNodes
<1>4. p \in Runs /\ p.seq = r.seq /\ p.disabled = r.disabled /\ p.at = to
      /\ p.trace = trace /\ p.calls = r.calls /\ p.enriched = r.enriched
  BY <1>1, <1>3 DEF Runs
<1>5. Emit(1, p, "finished", node, "none")
  BY DEF Leave
<1>6. r.at \in {"classifying", "escalating", "validating"} /\ node = NodeAt(r.at)
  OBVIOUS
<1> HIDE DEF p, r
<1>7. ASSUME NEW e \in TraceEvents, e.kind = "finished" /\ e.node = node /\ e.result = "none"
      PROVE  Shows(r, p, e)
  <2>1. ASSUME NEW q \in Runs, Reported(q, p)
        PROVE  /\ Written(q)
               /\ \A events \in Seq(TraceEvents) : ShownBy(events, r) => ShownBy(Append(events, e), q)
    <3>1. NodeAt(q.at) = "none" /\ q.trace = trace /\ q.calls = r.calls /\ q.enriched = r.enriched
      BY <1>4, <2>1 DEF Reported
    <3>2. ASSUME NEW events \in Seq(TraceEvents)
          PROVE  Written(q) /\ (ShownBy(events, r) => ShownBy(Append(events, e), q))
      BY <1>1, <1>6, <1>7, <3>1, LeaveShown
    <3>3. <<>> \in Seq(TraceEvents)
      OBVIOUS
    <3> QED BY <3>2, <3>3
  <2> QED BY <2>1 DEF Shows
<1> QED BY <1>1, <1>2, <1>4, <1>5, <1>7, EmitShown DEF r

LEMMA ClassifyFollowed ==
    ASSUME Sound, Followed, Alone, Classify(1)
    PROVE  Shown(run[1])' /\ \A a \in Attempts \ {1} : run'[a] = run[a]
<1> DEFINE r        == run[1]
           Heard(v) == [r EXCEPT !.verdict = v, !.attempts = @ + 1]
           s(v)     == IF Route(Heard(v)) = "validate" THEN Heard(v)
                       ELSE [Heard(v) EXCEPT !.verdict = NoVerdict]
<1>1. r \in Runs /\ r.at = "classifying"
  BY AloneRun DEF Classify
<1>2. PICK v \in Answers(1) : Leave(1, "classify", s(v), Route(Heard(v)))
  BY DEF Classify
<1>3. v \in Verdicts /\ NoVerdict \in Verdicts /\ r.attempts + 1 \in Nat
  <2>1. NoVerdict \in Verdicts /\ Answers(1) \subseteq Verdicts
    BY DEF NoVerdict, Verdicts, Answers, Criticalities
  <2>2. r.attempts + 1 \in Nat
    BY <1>1 DEF Runs
  <2> QED BY <2>1, <2>2
<1>4. /\ Heard(v) \in Runs /\ Heard(v).seq = r.seq /\ Heard(v).disabled = r.disabled
      /\ Heard(v).trace = r.trace /\ Heard(v).calls = r.calls /\ Heard(v).enriched = r.enriched
  BY <1>1, <1>3 DEF Runs
<1> DEFINE heard == Heard(v)  to == Route(heard)
<1>5. to \in {"gather", "validate", "escalate"}
  BY DEF Route
<1>6. to \in Places /\ NodeAt(to) = "none" /\ NodeAt("classifying") = "classify"
  <2> HIDE DEF to
  <2> QED BY <1>5 DEF Places, NodeAt
<1> DEFINE left == s(v)
<1>7. left = heard \/ left = [heard EXCEPT !.verdict = NoVerdict]
  OBVIOUS
<1>8. Leave(1, "classify", left, to)
  BY <1>2
<1>9. heard \in Runs /\ heard.seq = r.seq /\ heard.disabled = r.disabled
      /\ heard.trace = r.trace /\ heard.calls = r.calls /\ heard.enriched = r.enriched
  BY <1>4
<1> HIDE DEF left, heard, to, r
<1>10. left \in Runs /\ left.seq = r.seq /\ left.disabled = r.disabled
       /\ left.trace = r.trace /\ left.calls = r.calls /\ left.enriched = r.enriched
  BY <1>3, <1>7, <1>9 DEF Runs
<1> QED BY <1>1, <1>6, <1>8, <1>10, LeaveFollowed DEF r

LEMMA EscalateFollowed ==
    ASSUME Sound, Followed, Alone, Escalate(1)
    PROVE  Shown(run[1])' /\ \A a \in Attempts \ {1} : run'[a] = run[a]
<1> DEFINE r == run[1]
           s == [r EXCEPT !.escalated = TRUE]
<1>1. r \in Runs /\ r.at = "escalating" /\ Leave(1, "escalate", s, "classify")
  BY AloneRun DEF Escalate
<1>2. /\ s \in Runs /\ s.seq = r.seq /\ s.disabled = r.disabled
      /\ s.trace = r.trace /\ s.calls = r.calls /\ s.enriched = r.enriched
  BY <1>1 DEF Runs
<1>3. "classify" \in Places /\ NodeAt("classify") = "none" /\ NodeAt("escalating") = "escalate"
  BY DEF Places, NodeAt
<1> HIDE DEF s, r
<1> QED BY <1>1, <1>2, <1>3, LeaveFollowed DEF r

LEMMA ValidateFollowed ==
    ASSUME Sound, Followed, Alone, Validate(1)
    PROVE  Shown(run[1])' /\ \A a \in Attempts \ {1} : run'[a] = run[a]
<1>1. run[1] \in Runs /\ run[1].at = "validating" /\ Leave(1, "validate", run[1], "ended")
  BY AloneRun DEF Validate
<1>2. "ended" \in Places /\ NodeAt("ended") = "none" /\ NodeAt("validating") = "validate"
  BY DEF Places, NodeAt
<1> QED BY <1>1, <1>2, LeaveFollowed

LEMMA FollowedInit == Init => Followed
<1> SUFFICES ASSUME Init PROVE Followed
  OBVIOUS
<1> DEFINE r == run[1]
<1>1. 1 \in Attempts
  BY AssessmentAssumption DEF Attempts
<1>2. /\ r.at = "classify" /\ r.seq = 0 /\ r.trace = <<>> /\ r.calls = <<>> /\ ~r.enriched
      /\ \A a \in Attempts \ {1} : run[a].at = "idle"
  BY <1>1 DEF Init, Fresh
<1> HIDE DEF r
<1>3. stream = {} /\ judge = 0
  BY DEF Init
<1>4. <<>> \in Seq(Calls) /\ 0 \in Nat
  OBVIOUS
<1>5. RowsOf(r) = <<>> /\ ParseGraphTrace(r.trace) = NoVisit
  BY <1>2, <1>4, LineNone, VisitNone DEF RowsOf, RecordOf
<1>6. Written(r)
  <2>1. \A calls \in Seq(Calls) :
            RowsFromRecord([graphTrace |-> r.trace, toolCalls |-> calls]) = RowsOf(r)
    BY <1>2, <1>5, LineNone
  <2>2. AllFinished(<<>>) /\ CallsFromRows(<<>>) = <<>>
    BY CalledNone DEF AllFinished
  <2> QED BY <1>2, <1>5, <2>1, <2>2 DEF Written
<1>7. UpToSeq(stream, 0)
  BY <1>3 DEF UpToSeq, ToldApart
<1>8. Events = <<>>
  <2>1. Events = InOrder(stream)
    BY DEF Events, InOrder
  <2>2. InOrder(stream) \in Seq(TraceEvents) /\ Len(InOrder(stream)) = 0
    BY <1>4, <1>7, PlacedBySeq
  <2> QED BY <2>1, <2>2
<1>9. ShownBy(Events, r)
  <2>1. NodeAt(r.at) = "none"
    BY <1>2 DEF NodeAt
  <2>2. RowsFromEvents(<<>>) = WithUnfinished(RowsOf(r), r)
    BY <1>5, <2>1, EventNone DEF WithUnfinished
  <2>3. ViewFromLive(<<>>) = ViewOf(r)
    BY <1>2, <1>5, <2>1, ViewNone DEF ViewOf, View, NoVisit, NoView
  <2> QED BY <1>8, <2>2, <2>3 DEF ShownBy
<1>10. Numbered(r)
  BY <1>3 DEF Numbered, ToldApart
<1> QED BY <1>2, <1>3, <1>6, <1>9, <1>10 DEF Followed, Shown, r

\* An attempt that fails is not alone any more, and nobody was judged.
LEMMA FailureEndsIt ==
    ASSUME Sound, outcome = None, RetryOrFail
    PROVE  ~Alone' /\ judge = 0
<1>1. tries \in Nat /\ tries >= 1
  BY AssessmentAssumption DEF Sound, TypeOK, Attempts
<1>2. judge = 0
  BY DEF Sound, Judged
<1> QED BY <1>1, <1>2 DEF Alone, RetryOrFail

\* As long as the first attempt is alone, no other is under way.
LEMMA OnlyTheFirst ==
    ASSUME Followed, Alone, NEW a \in Attempts, run[a].at # "idle"
    PROVE  a = 1
BY DEF Followed

LEMMA StepFollowed ==
    ASSUME Sound, Followed, NEW a \in Attempts, Step(a), ~Validate(a), ~Raise(a)
    PROVE  Followed'
<1>1. UNCHANGED <<tries, outcome, judge>> /\ run[a].at # "idle"
  BY DEF Step, Enter, Classify, ChooseTools, CallTool, ToolReturns, Gathered, Escalate, Unjudged
<1>2. ASSUME Alone PROVE Shown(run[1])' /\ \A b \in Attempts \ {1} : run'[b] = run[b]
  <2>1. a = 1
    BY <1>1, <1>2, OnlyTheFirst
  <2>2. CASE \/ Enter(1, "classify", "classify", "classifying")
             \/ Enter(1, "gather_evidence", "gather", "choosing")
             \/ Enter(1, "escalate", "escalate", "escalating")
             \/ Enter(1, "validate", "validate", "validating")
    BY <1>2, <2>2, EnterFollowed
  <2>3. CASE Classify(1) \/ ChooseTools(1) \/ CallTool(1) \/ ToolReturns(1) \/ Gathered(1) \/ Escalate(1)
    BY <1>2, <2>3, ClassifyFollowed, ChooseToolsFollowed, CallToolFollowed, ToolReturnsFollowed,
       GatheredFollowed, EscalateFollowed
  <2> QED BY <2>1, <2>2, <2>3 DEF Step
<1>3. Alone' => Alone
  BY <1>1 DEF Alone
<1>4. ASSUME Alone' PROVE Shown(run[1])' /\ \A b \in Attempts \ {1} : run'[b].at = "idle"
  <2>1. Alone /\ \A b \in Attempts \ {1} : run[b].at = "idle"
    BY <1>3, <1>4 DEF Followed
  <2> QED BY <1>2, <2>1
<1>5. (outcome = Failed => judge = 0)'
  BY <1>1 DEF Followed
<1> QED BY <1>4, <1>5 DEF Followed, Attempts

LEMMA ValidateStepFollowed ==
    ASSUME Sound, Followed, NEW a \in Attempts, Validate(a)
    PROVE  Followed'
<1>1. run[a].at # "idle" /\ tries' = tries /\ run[a].verdict \in Verdicts
  BY DEF Validate, Sound, TypeOK, Runs
<1>2. outcome' = Failed => outcome = Failed /\ judge' = judge
  <2>1. CASE a = tries /\ outcome = None
    <3>1. outcome' = Validated(run[a])
      BY <2>1 DEF Validate
    <3>2. outcome' # Failed
      BY <1>1, <3>1, ValidatedIsConsistent, JudgementsAreOutcomes
    <3> QED BY <3>2
  <2>2. CASE ~(a = tries /\ outcome = None)
    BY <2>2 DEF Validate
  <2> QED BY <2>1, <2>2
<1>3. (outcome = Failed => judge = 0)'
  BY <1>2 DEF Followed
<1>4. ASSUME Alone' PROVE Shown(run[1])' /\ \A b \in Attempts \ {1} : run'[b].at = "idle"
  <2>1. Alone
    <3>1. None # Failed
      BY DEF None, Failed
    <3> QED BY <1>1, <1>4, <3>1 DEF Alone, Validate
  <2>2. a = 1
    BY <1>1, <2>1, OnlyTheFirst
  <2>3. \A b \in Attempts \ {1} : run[b].at = "idle"
    BY <2>1 DEF Followed
  <2> QED BY <2>1, <2>2, <2>3, ValidateFollowed
<1> QED BY <1>3, <1>4 DEF Followed, Attempts

LEMMA RaiseFollowed ==
    ASSUME Sound, Followed, NEW a \in Attempts, Raise(a)
    PROVE  Followed'
<1>1. run[a].at \in {"classifying", "choosing"} /\ judge' = judge
  BY DEF Raise
<1>2. CASE a = tries /\ outcome = None
  <2>1. ~Alone' /\ judge = 0
    BY <1>2, FailureEndsIt DEF Raise
  <2> QED BY <1>1, <2>1 DEF Followed, Alone
<1>3. CASE ~(a = tries /\ outcome = None)
  <2>1. tries' = tries /\ outcome' = outcome
    BY <1>3 DEF Raise
  <2>2. ~Alone
    <3>1. SUFFICES ASSUME Alone PROVE FALSE
      OBVIOUS
    <3>2. a = 1 /\ tries = 1 /\ outcome # Failed
      BY <1>1, <3>1, OnlyTheFirst DEF Alone
    <3>3. judge # 0
      BY <1>3, <3>2 DEF Sound, Judged
    <3>4. run[1].at = "ended"
      BY <3>2, <3>3, JudgedStands
    <3> QED BY <1>1, <3>2, <3>4
  <2> QED BY <1>1, <2>1, <2>2 DEF Followed, Alone
<1> QED BY <1>2, <1>3

LEMMA FollowedStep == ASSUME Sound, Followed, [Next]_vars PROVE Followed'
<1>1. CASE \E a \in Attempts : Step(a)
  BY <1>1, StepFollowed, ValidateStepFollowed, RaiseFollowed
<1>2. CASE TimeOut
  <2>1. ~Alone' /\ judge = 0 /\ judge' = judge
    BY <1>2, FailureEndsIt DEF TimeOut
  <2> QED BY <2>1 DEF Followed, Alone
<1>3. CASE Open \/ UNCHANGED vars
  <2>1. UNCHANGED <<tries, run, outcome, judge, stream>>
    BY <1>3 DEF Open, vars
  <2>2. Events' = Events
    BY <2>1 DEF Events
  <2> QED BY <2>1, <2>2 DEF Followed, Alone, Shown, Numbered, Complete
<1> QED BY <1>1, <1>2, <1>3 DEF Next

\* The page has followed the first attempt in every reachable state.
THEOREM FollowedAlways == Spec => []Followed
<1>1. Sound /\ Followed /\ [Next]_vars => Followed'
  BY FollowedStep
<1> QED BY <1>1, FollowedInit, SoundAlways, PTL DEF Spec

\* What a watcher saw build up is what the record shows: the same rows, the same calls, the
\* same lit nodes, pass count and walk, whatever the tools and however many of them.
THEOREM WatchedIsRecorded == Spec => []LiveIsTheRecord
<1>1. ASSUME Sound, Followed PROVE LiveIsTheRecord
  <2> SUFFICES ASSUME WatchedAll, NoToolTwice(Record.toolCalls)
               PROVE  /\ RowsFromEvents(Events) = RowsFromRecord(Record)
                      /\ CallsFromRows(RowsFromEvents(Events)) = Answered(Record.toolCalls)
                      /\ ViewFromLive(Events) = ViewFromRecord(Record)
    BY DEF LiveIsTheRecord, Answered
  <2> DEFINE r == run[1]
  <2>1. judge = 1 /\ tries = 1 /\ r.at = "ended" /\ outcome # Failed
    <3>1. judge # 0 /\ tries = 1
      BY DEF WatchedAll, Recorded
    <3>2. judge = 1 /\ r.at = "ended"
      BY <1>1, <3>1, JudgedStands
    <3> QED BY <1>1, <3>1, <3>2 DEF Followed
  <2>2. Shown(r)
    BY <1>1, <2>1 DEF Followed, Alone
  <2>3. Record = RecordOf(r) /\ Record.toolCalls = r.calls /\ Complete(r)
    BY <2>1 DEF Record, RecordOf, WatchedAll, Complete
  <2> HIDE DEF r
  <2>4. NodeAt(r.at) = "none" /\ r.at \notin {"calling", "tool"}
    BY <2>1 DEF NodeAt
  <2>5. ShownBy(Events, r) /\ Written(r) /\ NoToolTwice(r.calls)
    BY <2>2, <2>3 DEF Shown
  <2>6. RowsFromEvents(Events) = RowsOf(r)
    BY <2>4, <2>5 DEF ShownBy, WithUnfinished
  <2>7. CallsFromRows(RowsOf(r)) = Answered(r.calls)
    <3>1. CallsFromRows(RowsOf(r)) = IF r.enriched THEN Answered(r.calls) ELSE <<>>
      BY <2>5 DEF Written
    <3>2. ~r.enriched => r.calls = <<>>
      BY <2>4, <2>5 DEF Written
    <3>3. Answered(<<>>) = <<>>
      BY DEF Answered
    <3> QED BY <3>1, <3>2, <3>3
  <2>8. ViewFromLive(Events) = ViewFromRecord(Record)
    <3> DEFINE visited == ParseGraphTrace(r.trace)
    <3>1. ViewOf(r) = View(visited.order, visited.attempts, r.calls, {}, "none")
      BY <2>4 DEF ViewOf
    <3>2. ViewFromRecord(Record) = [NoView EXCEPT !.order = visited.order,
                                                  !.attempts = visited.attempts, !.calls = r.calls]
      BY <2>3 DEF ViewFromRecord, RecordOf
    <3> HIDE DEF visited
    <3>3. ViewFromRecord(Record) = View(visited.order, visited.attempts, r.calls, {}, "none")
      BY <3>2 DEF NoView, View
    <3> QED BY <2>5, <3>1, <3>3 DEF ShownBy
  <2> QED BY <2>3, <2>6, <2>7, <2>8 DEF RowsOf
<1> QED BY <1>1, SoundAlways, FollowedAlways, PTL
=============================================================================
