------------------------------- MODULE Console -------------------------------
(***************************************************************************)
(* The panels of the dashboard: each fetches once, when it is mounted, and   *)
(* merges what is pushed on the socket from then on.  The answer of a fetch  *)
(* replaces what a panel had.  Pushes come in order on the socket; a fetch   *)
(* is another connection, so the two are not ordered with each other.  What  *)
(* is recorded carries the time it occurred at, which the worker sets:       *)
(* emissions that cross, or are retried, are written in another order.       *)
(*                                                                         *)
(* No panel reads another one, so a behaviour is about one of them.          *)
(***************************************************************************)
EXTENDS Naturals, Sequences, FiniteSets, SequencesExt

CONSTANTS
    Panels,      \* the panels looked at, of AllPanels
    Ops,         \* operations, or jobs of the plan: 1..n in the order they start
    Final,       \* the version an operation ends with: 1 started .. Final completed
    FeedLimit, PageSize,    \* limit of useDecisionFeed, PAGE_SIZE of the history
    MaxFetches,  \* bound: how often a panel fetches
    MaxLate,     \* bound: how many entries written before it may have occurred after it
    MaxDrops     \* bound: how often the connection is lost

AllPanels == {"active", "history", "queue", "operation", "records", "feed", "metrics"}

ASSUME ConsoleAssumption ==
    /\ Panels \subseteq AllPanels
    /\ IsFiniteSet(Ops) /\ Ops = 1..Cardinality(Ops) /\ Final \in Nat /\ FeedLimit \in Nat /\ PageSize \in Nat
    /\ MaxFetches \in Nat /\ MaxLate \in Nat /\ MaxDrops \in Nat

VARIABLES
    panel,       \* the panel this behaviour is about
    watched,     \* the operation its page is about
    log,         \* the server: what was written, one entry per change of an operation
    occurred,    \* the same entries, by the time they occurred at
    unpublished, \* written, and not pushed yet
    wire,        \* pushed, and not received yet
    connected,   \* the socket is connected
    fetch,       \* the fetch the panel waits for
    command,     \* an answer to a command of the operator, under way
    data,        \* what the panel shows
    due,         \* the debounced reload of the metrics is armed
    fetches, drops,
    missed,      \* history: a push was lost, or is lost to an older answer, and nothing was fetched since
    crossed      \* history: something was not written in the order it occurred, or not pushed as written

vars == <<panel, watched, log, occurred, unpublished, wire, connected, fetch, command, data, due, fetches, drops,
          missed, crossed>>

\* An entry is an operation at a version, and the decision that brought it there.
Entry(o, v) == [op |-> o, version |-> v]
NoEntry     == Entry(0, 0)
Unloaded    == [loaded |-> FALSE, failed |-> FALSE, items |-> <<>>, total |-> 0]
Failed(d)   == [d EXCEPT !.failed = TRUE]
Idle        == [stage |-> "none", answer |-> Unloaded, seen |-> 0]
Sent        == [Idle EXCEPT !.stage = "sent"]

\* The elements of s at the positions in K, and those that pass a test, in their order.
At(s, K) ==
    LET nth(n) == CHOOSE i \in K : Cardinality({j \in K : j <= i}) = n
    IN  [n \in 1..Cardinality(K) |-> s[nth(n)]]
Kept(s, keep(_)) == At(s, {i \in DOMAIN s : keep(s[i])})

InFlight(e)  == e.version < Final
Of(o, s)     == Kept(s, LAMBDA e : e.op = o)
VersionOf(o) == Cardinality({i \in DOMAIN log : log[i].op = o})

\* The rows of the operations that have started, oldest first.
Started == Kept(log, LAMBDA e : e.version = 1)
Rows    == [i \in DOMAIN Started |-> Entry(Started[i].op, VersionOf(Started[i].op))]
FirstOf(n, s) == SubSeq(s, 1, IF Len(s) < n THEN Len(s) ELSE n)

---------------------------------------------------------------------------
(* What the server answers to the panel now *)

Loaded(items, total) == [loaded |-> TRUE, failed |-> FALSE, items |-> items, total |-> total]

\* Of an operation it does not know, it says so (404).
View ==
    CASE panel = "active"    -> Loaded(Reverse(Kept(Rows, InFlight)), 0)
      [] panel = "history"   -> Loaded(FirstOf(PageSize, Reverse(Rows)), Len(Rows))
      [] panel = "queue"     -> Loaded([o \in Ops |-> Entry(o, VersionOf(o))], 0)
      [] panel = "operation" -> IF VersionOf(watched) = 0 THEN Failed(Unloaded)
                                ELSE Loaded(Kept(Rows, LAMBDA e : e.op = watched), 0)
      [] panel = "records"   -> Loaded(Of(watched, occurred), 0)
      [] panel = "feed"      -> Loaded(FirstOf(FeedLimit, Reverse(occurred)), 0)
      [] panel = "metrics"   -> Loaded(<<>>, Len(log))

Init ==
    /\ panel \in Panels /\ watched \in Ops
    /\ log = <<>> /\ occurred = <<>> /\ unpublished = {} /\ wire = <<>> /\ connected = TRUE
    /\ fetch = Sent /\ command = NoEntry /\ data = Unloaded /\ due = FALSE
    /\ fetches = 1 /\ drops = 0 /\ missed = FALSE /\ crossed = FALSE

---------------------------------------------------------------------------
(* The server *)

\* It occurred before some of what is written already, or after all of it; only the panels
\* of records look at the time.
Dated(e) ==
    \E n \in 1..(Len(occurred) + 1) :
        /\ n + (IF panel \in {"records", "feed"} THEN MaxLate ELSE 0) > Len(occurred)
        /\ occurred' = InsertAt(occurred, n, e)
        /\ crossed' = (crossed \/ n <= Len(occurred))

\* An operation starts, or goes on; the change will be pushed.
Written(o) ==
    LET e == Entry(o, VersionOf(o) + 1) IN
    /\ e.version <= Final
    /\ \A p \in Ops : p < o => VersionOf(p) > 0
    /\ log' = Append(log, e) /\ Dated(e) /\ unpublished' = unpublished \cup {e}

Write(o) ==
    /\ Written(o)
    /\ UNCHANGED <<panel, watched, wire, connected, fetch, command, data, due, missed, fetches, drops>>

\* What was written first is pushed first, or not.  Nobody keeps it for who is not there.
WrittenBefore(d, e) == \E i, j \in DOMAIN log : i < j /\ log[i] = d /\ log[j] = e

Publish(e) ==
    /\ e \in unpublished /\ unpublished' = unpublished \ {e}
    /\ crossed' = (crossed \/ \E d \in unpublished : WrittenBefore(d, e))
    /\ wire' = IF connected THEN Append(wire, e) ELSE wire
    /\ missed' = (missed \/ ~connected)
    /\ UNCHANGED <<panel, watched, log, occurred, connected, fetch, command, data, due, fetches, drops>>

\* The server answers the fetch.
Read ==
    /\ fetch.stage = "sent"
    /\ fetch' = [stage |-> "answered", answer |-> View, seen |-> Len(log)]
    /\ UNCHANGED <<panel, watched, log, occurred, unpublished, wire, connected, command, data, due, fetches, drops,
                   missed, crossed>>

---------------------------------------------------------------------------
(* useResource *)

\* The answer replaces what the panel had; or the fetch failed, or its answer is lost, and
\* it keeps that.
Answered ==
    /\ fetch.stage = "answered"
    /\ data' = (IF fetch.answer.failed THEN Failed(data) ELSE fetch.answer) /\ fetch' = Idle
    /\ UNCHANGED <<panel, watched, log, occurred, unpublished, wire, connected, command, due, fetches, drops,
                   missed, crossed>>

FetchFails ==
    /\ fetch # Idle /\ data' = Failed(data) /\ fetch' = Idle
    /\ UNCHANGED <<panel, watched, log, occurred, unpublished, wire, connected, command, due, fetches, drops,
                   missed, crossed>>

\* A new fetch; one under way is cancelled.
Refetched == fetches < MaxFetches /\ fetches' = fetches + 1 /\ fetch' = Sent /\ missed' = FALSE

Reload ==
    /\ data.failed /\ Refetched
    /\ UNCHANGED <<panel, watched, log, occurred, unpublished, wire, connected, command, data, due, drops, crossed>>

\* Left and opened again: mounted anew, with nothing to show.
Mount ==
    /\ Refetched /\ data' = Unloaded /\ due' = FALSE /\ command' = NoEntry
    /\ UNCHANGED <<panel, watched, log, occurred, unpublished, wire, connected, drops, crossed>>

\* The page goes on to another operation without being mounted anew: what it shows stays
\* until the answer comes.
Watch(o) ==
    /\ panel \in {"operation", "records"} /\ o # watched /\ VersionOf(o) > 0 /\ Refetched
    /\ watched' = o
    /\ UNCHANGED <<panel, log, occurred, unpublished, wire, connected, command, data, due, drops, crossed>>

---------------------------------------------------------------------------
(* The hooks: what a panel makes of a push *)

Without(o, s)  == Kept(s, LAMBDA e : e.op # o)
Has(e, s)      == \E i \in DOMAIN s : s[i] = e
Lists(o, s)    == \E i \in DOMAIN s : s[i].op = o
InPlace(e, s)  == [i \in DOMAIN s |-> IF s[i].op = e.op THEN e ELSE s[i]]

\* useActiveOperations: what has ended is removed, everything else is put last.
MergeActive(e, s) == IF InFlight(e) THEN Append(Without(e.op, s), e) ELSE Without(e.op, s)

\* useOperationsHistory: in place, or on top; dropped before the first answer.
MergeHistory(e, d) ==
    IF ~d.loaded                 THEN d
    ELSE IF Lists(e.op, d.items) THEN [d EXCEPT !.items = InPlace(e, @)]
    ELSE [d EXCEPT !.items = <<e>> \o @, !.total = @ + 1]

\* useFacility: in place, or at the end.
MergeQueue(e, s) == IF Lists(e.op, s) THEN InPlace(e, s) ELSE Append(s, e)

\* Mutant: the last push wins.
MergeOperationAsPushed(e, s) == IF e.op # watched THEN s ELSE <<e>>

\* updateOperation: of the watched operation, and not older than what is shown.
MergeOperation(e, s) ==
    IF e.op # watched \/ \E i \in DOMAIN s : s[i].op = e.op /\ s[i].version > e.version THEN s ELSE <<e>>

\* append: of the watched operation, once, by the time it occurred.
OccurredBefore(d, e) == \E i, j \in DOMAIN occurred : i < j /\ occurred[i] = d /\ occurred[j] = e

MergeRecords(e, s) ==
    IF e.op # watched \/ Has(e, s) THEN s
    ELSE LET earlier(d) == OccurredBefore(d, e)
             later(d)   == ~earlier(d)
         IN  Kept(s, earlier) \o <<e>> \o Kept(s, later)

\* Mutant: what is pushed is new.
MergeFeedTwice(e, s) == FirstOf(FeedLimit, <<e>> \o s)

\* useDecisionFeed: once, on top, and the oldest fall off.
MergeFeed(e, s) == IF Has(e, s) THEN s ELSE FirstOf(FeedLimit, <<e>> \o s)

Merged(e) ==
    CASE panel = "active"    -> [data EXCEPT !.loaded = TRUE, !.items = MergeActive(e, @)]
      [] panel = "history"   -> MergeHistory(e, data)
      [] panel = "queue"     -> [data EXCEPT !.loaded = TRUE, !.items = MergeQueue(e, @)]
      [] panel = "operation" -> [data EXCEPT !.loaded = TRUE, !.items = MergeOperation(e, @)]
      [] panel = "records"   -> [data EXCEPT !.loaded = TRUE, !.items = MergeRecords(e, @)]
      [] panel = "feed"      -> [data EXCEPT !.loaded = TRUE, !.items = MergeFeed(e, @)]
      [] panel = "metrics"   -> data

\* Newer than the answer under way, which will replace what is made of it.
Overtakes(e) == fetch.stage = "answered" /\ ~(\E i \in DOMAIN log : log[i] = e /\ i <= fetch.seen)

Receive ==
    /\ wire # <<>> /\ wire' = Tail(wire)
    /\ data' = Merged(Head(wire))
    /\ due' = (panel = "metrics" \/ due)
    /\ missed' = (missed \/ Overtakes(Head(wire)))
    /\ UNCHANGED <<panel, watched, log, occurred, unpublished, connected, fetch, command, fetches, drops, crossed>>

\* useMetrics: a while after the last decision they are fetched again.
Refresh ==
    /\ due /\ due' = FALSE /\ Refetched
    /\ UNCHANGED <<panel, watched, log, occurred, unpublished, wire, connected, command, data, drops, crossed>>

\* useFacility: dispatch, suspend, resume and abort answer with the job, which is merged; or
\* the answer is lost.
Command(o) ==
    /\ panel = "queue" /\ command = NoEntry /\ Written(o) /\ command' = Entry(o, VersionOf(o) + 1)
    /\ UNCHANGED <<panel, watched, wire, connected, fetch, data, due, missed, fetches, drops>>

CommandAnswered ==
    /\ command # NoEntry
    /\ data' = Merged(command) /\ command' = NoEntry
    /\ missed' = (missed \/ \E i \in DOMAIN data.items : /\ data.items[i].op = command.op
                                                        /\ data.items[i].version > command.version)
    /\ UNCHANGED <<panel, watched, log, occurred, unpublished, wire, connected, fetch, due, fetches, drops, crossed>>

CommandLost ==
    /\ command # NoEntry /\ command' = NoEntry
    /\ UNCHANGED <<panel, watched, log, occurred, unpublished, wire, connected, fetch, data, due, fetches, drops,
                   missed, crossed>>

---------------------------------------------------------------------------
\* The connection is lost, with what was on it, and comes back; nobody fetches again.
Disconnect ==
    /\ connected /\ drops < MaxDrops /\ drops' = drops + 1
    /\ connected' = FALSE /\ wire' = <<>> /\ missed' = (missed \/ wire # <<>>)
    /\ UNCHANGED <<panel, watched, log, occurred, unpublished, fetch, command, data, due, fetches, crossed>>

Reconnect ==
    /\ ~connected /\ connected' = TRUE
    /\ UNCHANGED <<panel, watched, log, occurred, unpublished, wire, fetch, command, data, due, fetches, drops,
                   missed, crossed>>

Next ==
    \/ \E o \in Ops : Write(o) \/ Watch(o) \/ Command(o)
    \/ \E e \in unpublished : Publish(e)
    \/ Read \/ Answered \/ FetchFails \/ Reload \/ Mount \/ Receive \/ Refresh
    \/ CommandAnswered \/ CommandLost \/ Disconnect \/ Reconnect

Spec == Init /\ [][Next]_vars

---------------------------------------------------------------------------
(* Properties *)

Settled == /\ unpublished = {} /\ wire = <<>> /\ connected /\ ~due /\ ~data.failed
           /\ fetch = Idle /\ command = NoEntry

\* useActiveOperations keeps no order.
Same(d, view) ==
    IF panel = "active" THEN ToSet(d.items) = ToSet(view.items) /\ Len(d.items) = Len(view.items)
    ELSE d = view

\* These bring what they are pushed into order, or fetch anew; the others take it as it comes.
InAnyOrder == panel \in {"operation", "records", "metrics"}

\* Once everything has arrived, nothing was lost with the connection or to an older answer
\* since the last fetch, and, but for the panels that bring pushes into order, they came in
\* the order of what they tell, a panel shows what a fresh load would show: merging pushes
\* one at a time, those the fetch already contained included, loses nothing, doubles nothing
\* and keeps nothing (use-operations.ts: "an operation that lingered would quietly turn the
\* strongest claim in the product into a bug on screen").
InStep == Settled /\ ~missed /\ (crossed => InAnyOrder) => Same(data, View)

\* The same whatever was lost, and in whatever order pushes come: a panel catches up.
CaughtUp == Settled /\ (crossed => InAnyOrder) => Same(data, View)
InStepCrossed == Settled /\ ~missed => Same(data, View)

\* The part of InStep that is about the number shown beside the list.
TotalIsRight == Settled /\ ~missed /\ (crossed => InAnyOrder) => data.total = View.total

\* A decision that is fetched and pushed is listed once, at every moment ("a duplicated step
\* in the trace panel undermines the exact thing the panel exists to prove").
NoDecisionTwice == \A i, j \in DOMAIN data.items : data.items[i] = data.items[j] => i = j
=============================================================================
