---------------------------- MODULE ReasoningWatch ----------------------------
(***************************************************************************)
(* The assessment as an operator watches it: the page folds the live events *)
(* into rows and into the nodes of the decision graph, and once the         *)
(* CRITICALITY_ASSESSED record lands the same rows and nodes are read from  *)
(* its graphTrace and toolCalls.                                            *)
(***************************************************************************)
EXTENDS Assessment, SequencesExt

ReasoningNodes == {"classify", "gather_evidence", "escalate", "validate"}

\* byOrder: within a run, by sequence.
Events == [i \in 1..Cardinality(stream) |->
              CHOOSE e \in stream : Cardinality({x \in stream : x.seq <= e.seq}) = i]

\* The record of the judgement, its trace without the indentation.
Record == [graphTrace |-> run[judge].trace, toolCalls |-> run[judge].calls]

---------------------------------------------------------------------------
\* A loop over s that starts with base: what it has come to after each element.
Folded(Op(_, _), base, s) ==
    LET upTo[k \in 0..Len(s)] == IF k = 0 THEN base ELSE Op(upTo[k - 1], s[k])
    IN  upTo[Len(s)]

\* rowsFromEvents: one row per node visit, the tools under the row above them.
Row(node, finished, tools) == [node |-> node, finished |-> finished, tools |-> tools]
Call(name, finished, result) == [name |-> name, finished |-> finished, result |-> result]

UnderLastRow(rows, call, owner) ==
    IF rows = <<>> THEN <<Row("gather_evidence", owner, <<call>>)>>
    ELSE [rows EXCEPT ![Len(rows)].tools = Append(@, call)]

\* Mutant: one row per node, taken up again when the node is visited again.
FoldRowByNode(rows, e) ==
    LET own == SelectLastInSeq(rows, LAMBDA r : r.node = e.node) IN
    CASE e.kind = "started"      -> IF own = 0 THEN Append(rows, Row(e.node, FALSE, <<>>)) ELSE rows
      [] e.kind = "finished"     -> IF own = 0 THEN Append(rows, Row(e.node, TRUE, <<>>))
                                    ELSE [rows EXCEPT ![own].finished = TRUE]
      [] e.kind = "tool_started" -> rows
      [] OTHER                   -> UnderLastRow(rows, Call(e.node, TRUE, e.result), TRUE)

FoldRow(rows, e) ==
    CASE e.kind = "started"      -> Append(rows, Row(e.node, FALSE, <<>>))
      [] e.kind = "finished"     ->
           LET open == SelectLastInSeq(rows, LAMBDA r : r.node = e.node /\ ~r.finished)
           IN  IF open = 0 THEN Append(rows, Row(e.node, TRUE, <<>>))
               ELSE [rows EXCEPT ![open].finished = TRUE]
      [] e.kind = "tool_started" -> UnderLastRow(rows, Call(e.node, FALSE, "none"), FALSE)
      [] OTHER                   ->
           LET tools == IF rows = <<>> THEN <<>> ELSE Last(rows).tools
               open  == SelectLastInSeq(tools, LAMBDA t : t.name = e.node /\ ~t.finished)
               done  == Call(e.node, TRUE, e.result)
           IN  IF open = 0 THEN UnderLastRow(rows, done, TRUE)
               ELSE [rows EXCEPT ![Len(rows)].tools[open] = done]

RowsFromEvents(events) == Folded(FoldRow, <<>>, events)

\* rowsFromRecord: the tool lines joined by name with the structured calls, of which
\* the map keeps the last of each name; a line without one keeps what it says itself.
AddLine(calls, rows, line) ==
    LET name   == line.call.name
        last   == SelectLastInSeq(calls, LAMBDA c : c.name = name)
        result == IF last = 0 THEN line.call.result ELSE calls[last].result
    IN  IF line.node # "tool" THEN Append(rows, Row(line.node, TRUE, <<>>))
        ELSE IF rows = <<>>   THEN rows
        ELSE [rows EXCEPT ![Len(rows)].tools = Append(@, Call(name, TRUE, result))]

RowsFromRecord(record) ==
    Folded(LAMBDA rows, line : AddLine(record.toolCalls, rows, line), <<>>, record.graphTrace)

\* callsFromRows: what the toolbox boundary lists as called while there is no record.
AddFinished(calls, tool)  == IF tool.finished THEN Append(calls, tool) ELSE calls
AddCalls(calls, row)      == calls \o Folded(AddFinished, <<>>, row.tools)
CallsFromRows(rows)       == Folded(AddCalls, <<>>, rows)

---------------------------------------------------------------------------
\* viewFromLive, of which the graph draws its agent and tool nodes: a node is visited
\* when it starts.
NotRepeated(order, node) == IF order # <<>> /\ Last(order) = node THEN order ELSE Append(order, node)

NoView == [order |-> <<>>, attempts |-> 0, calls |-> <<>>, inFlight |-> {}, running |-> "none"]

FoldView(v, e) ==
    CASE e.kind = "started"      -> [v EXCEPT !.order = NotRepeated(@, e.node), !.running = e.node,
                                              !.attempts = IF e.node = "classify" THEN @ + 1 ELSE @]
      [] e.kind = "finished"     -> [v EXCEPT !.running = IF @ = e.node THEN "none" ELSE @]
      [] e.kind = "tool_started" -> [v EXCEPT !.inFlight = @ \cup {e.node}]
      [] OTHER                   -> [v EXCEPT !.inFlight = @ \ {e.node},
                                              !.calls = Append(@, [name |-> e.node, result |-> e.result])]

ViewFromLive(events) == Folded(FoldView, NoView, events)

\* parseGraphTrace: tool lines belong to the node above them.
VisitLine(visited, line) ==
    IF line.node = "tool" THEN visited
    ELSE [order    |-> NotRepeated(visited.order, line.node),
          attempts |-> visited.attempts + (IF line.node = "classify" THEN 1 ELSE 0)]

ParseGraphTrace(trace) == Folded(VisitLine, [order |-> <<>>, attempts |-> 0], trace)

ViewFromRecord(record) ==
    LET visited == ParseGraphTrace(record.graphTrace)
    IN  [NoView EXCEPT !.order = visited.order, !.attempts = visited.attempts, !.calls = record.toolCalls]

\* buildDecisionGraph, its second half: what is lit, and the edges the walk takes.
AgentNode(id, v)    == IF v.running = id THEN "pending" ELSE IF id \in ToSet(v.order) THEN "reached" ELSE "skipped"
ToolNode(name, v)   == IF \E i \in DOMAIN v.calls : v.calls[i].name = name THEN "reached"
                       ELSE IF name \in v.inFlight THEN "pending" ELSE "unused"

ReasoningWalk(v) ==
    LET From(i)  == IF i = 1 THEN "CRITICALITY_ASSESSED" ELSE v.order[i - 1]
        Tooled   == [j \in DOMAIN v.calls |-> <<"gather_evidence", v.calls[j].name>>]
                    \o SetToSeq({<<"gather_evidence", n>> : n \in v.inFlight})
    IN  FlattenSeq([i \in DOMAIN v.order |->
            <<<<From(i), v.order[i]>>>> \o IF v.order[i] = "gather_evidence" THEN Tooled ELSE <<>>])

AgentDecisions(v) == Cardinality({id \in ReasoningNodes : AgentNode(id, v) # "skipped"}) + Len(v.calls)

---------------------------------------------------------------------------
(* Properties *)

\* The page kept every event of the attempt that was judged, and of no other.
WatchedAll == /\ Recorded /\ tries = 1
              /\ {e.seq : e \in stream} = 1..run[judge].seq /\ ~run[judge].disabled

NoToolTwice(calls) == \A i, j \in DOMAIN calls : calls[i].name = calls[j].name => i = j

\* What a watcher saw build up is what the record shows a reader of the finished
\* operation: the same rows, the same calls, the same lit nodes, pass count and walk
\* (reasoning-stream.tsx, graph-model.ts: "the same lines", "only ever a preview of it").
LiveIsTheRecord ==
    WatchedAll /\ NoToolTwice(Record.toolCalls) =>
        /\ RowsFromEvents(Events) = RowsFromRecord(Record)
        /\ CallsFromRows(RowsFromEvents(Events)) =
               [i \in DOMAIN Record.toolCalls |-> Call(Record.toolCalls[i].name, TRUE, Record.toolCalls[i].result)]
        /\ LET live == ViewFromLive(Events) recorded == ViewFromRecord(Record) IN
           /\ live = recorded
           /\ ReasoningWalk(live) = ReasoningWalk(recorded)
           /\ AgentDecisions(live) = AgentDecisions(recorded)

\* The claim of reasoning-stream.tsx with no condition on the tools: "The two are the
\* same lines: the agent emits each trace line live and then records it."
SameLines == Recorded /\ ~run[judge].disabled /\ {e.seq : e \in stream} = 1..run[judge].seq =>
    RowsFromEvents(Events) = RowsFromRecord(Record)
=============================================================================
