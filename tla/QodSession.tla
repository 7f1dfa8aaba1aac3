------------------------------ MODULE QodSession ------------------------------
(***************************************************************************)
(* The life of one Quality-on-Demand session against the clock: created by  *)
(* the allocate activity, made available or refused by the network, told to *)
(* the workflow by callbacks through the webhooks (or read by polling),     *)
(* extended chunk by chunk while the operation is monitored, and released.  *)
(*                                                                         *)
(* Time advances by ticks.  What the workflow does between two awaits takes *)
(* none; an activity answers within Latency ticks.  Every entry of the      *)
(* trail is an activity too, awaited like the others: what it waits for is  *)
(* time the session runs out of.                                            *)
(***************************************************************************)
EXTENDS Integers, FiniteSets

CONSTANTS
    Expected,       \* expectedDurationSeconds of the operation, in ticks
    MinChunk,       \* 30 s: the least chunk of the monitor loop
    Grace,          \* 60 s: _DURATION_GRACE_SECONDS
    ConfirmWait,    \* 10 s: _QOS_CONFIRM_TIMEOUT_SECONDS
    Multiplier,     \* 4: _MAX_OPERATION_MULTIPLIER
    SuspendedMax,   \* 15 min: _SUSPENDED_MAX_SECONDS
    Latency,        \* bound: how long an activity takes, retries included
    MaxSignals,     \* bound: signals of the facility and the network
    MaxLost         \* bound: answers of extend_qod lost, each followed by a retry

ASSUME QodAssumption ==
    /\ Expected \in Nat \ {0} /\ MinChunk \in Nat \ {0} /\ Grace \in Nat /\ ConfirmWait \in Nat
    /\ Multiplier \in Nat \ {0} /\ SuspendedMax \in Nat /\ Latency \in Nat
    /\ MaxSignals \in Nat /\ MaxLost \in Nat

VARIABLES
    phase,      \* where the workflow is
    timer,      \* ticks left of what it awaits
    status,     \* the network's status of the session
    left,       \* ticks until the network reclaims it
    callbacks,  \* QoD callbacks on their way
    row,        \* the operation is in the read model: "none", "active", or "ended" (COMPLETED)
    qos,        \* the workflow's _qos_status
    polled,     \* what poll_qod read of the network, on its way to the workflow
    shown,      \* the status QOS_STATUS_CHANGED carries to the trail
    news,       \* what an entry underway makes of the row: "none", "active", or "ended"
    waited, suspendedFor, wasSuspended, deviceLost, known,   \* locals of _monitor
    completed, suspended, reachable, latest,                 \* set by the signals
    undecided,  \* history: the newest level came after the allocation, not re-decided yet
    statuses,   \* history: what the network's status has been
    asked,      \* history: the network's status when the poll was sent
    held,       \* history: ticks the monitor waited
    wakes, signals, lost   \* how often it was woken, signalled; answers lost

network  == <<status, left, statuses>>
told     == <<completed, suspended, reachable, latest, undecided, signals>>
locals   == <<waited, suspendedFor, wasSuspended, deviceLost, known>>
counters == <<held, wakes, lost>>
trail    == <<row, news>>
poll     == <<polled, asked>>
vars     == <<phase, timer, network, callbacks, trail, qos, poll, shown, locals, told, counters>>

Chunk   == IF Expected > MinChunk THEN Expected ELSE MinChunk
MaxWait == Expected * Multiplier
Levels  == {"LOW", "HIGH"}

Awaits == {"allocating", "created", "announcing", "confirming", "polling", "recording",
           "waiting", "handling", "extending"}
Phases == Awaits \cup {"releasing", "over", "dead"}

Init ==
    /\ phase = "allocating" /\ timer = Latency
    /\ status = "NONE" /\ left = 0 /\ statuses = {} /\ callbacks = {}
    /\ row = "none" /\ news = "none" /\ qos = "NONE" /\ polled = "NONE" /\ asked = "NONE" /\ shown = "NONE"
    /\ waited = 0 /\ suspendedFor = 0 /\ wasSuspended = FALSE /\ deviceLost = FALSE /\ known = "none"
    /\ completed = FALSE /\ suspended = FALSE /\ reachable = TRUE /\ latest = "none"
    /\ undecided = FALSE /\ signals = 0 /\ held = 0 /\ wakes = 0 /\ lost = 0

---------------------------------------------------------------------------
(* The network *)

Becomes(s) == status' = s /\ statuses' = statuses \cup {s} /\ callbacks' = callbacks \cup {s}

\* REQUESTED becomes AVAILABLE, or the network cannot give the guarantee.
Answer == /\ status = "REQUESTED" /\ \E s \in {"AVAILABLE", "UNAVAILABLE"} : Becomes(s)
          /\ UNCHANGED <<phase, timer, left, trail, qos, poll, shown, locals, told, counters>>

\* One tick.  The duration runs while the session is available, and ends it.
Tick ==
    /\ \/ phase \in Awaits /\ timer > 0 /\ timer' = timer - 1
       \/ phase = "dead" /\ status = "AVAILABLE" /\ UNCHANGED timer
    /\ held' = IF phase = "waiting" THEN held + 1 ELSE held
    /\ IF status = "AVAILABLE"
       THEN /\ left' = left - 1
            /\ IF left = 1 THEN Becomes("UNAVAILABLE") ELSE UNCHANGED <<status, statuses, callbacks>>
       ELSE UNCHANGED <<network, callbacks>>
    /\ UNCHANGED <<phase, trail, qos, poll, shown, locals, told, wakes, lost>>

---------------------------------------------------------------------------
(* The server: the row of the operation, and the webhooks *)

\* EventsService.accept registers the operation after it started the workflow.
Register == /\ row = "none" /\ row' = "active"
            /\ UNCHANGED <<phase, timer, network, callbacks, news, qos, poll, shown, locals, told, counters>>

\* DecisionsService.record: an entry of the trail projects onto the row, if it is there.  The
\* workflow goes on without it when the entry fails, and an attempt it gave up may land late.
Land ==
    /\ news # "none" /\ news' = "none" /\ row' = IF row = "none" THEN "none" ELSE news
    /\ UNCHANGED <<phase, timer, network, callbacks, qos, poll, shown, locals, told, counters>>

Running == phase \notin {"over", "dead"}

\* qodStatusChanged: relayed to the workflow, or stale when the row is not there yet or
\* the workflow is over.  Callbacks come in any order.
QodCallback ==
    /\ \E s \in callbacks :
         /\ callbacks' = callbacks \ {s}
         /\ qos' = IF row # "none" /\ Running THEN s ELSE qos
    /\ UNCHANGED <<phase, timer, network, trail, poll, shown, locals, told, counters>>

Signal(reported) ==
    /\ Running /\ signals < MaxSignals /\ signals' = signals + 1 /\ reported
    /\ UNCHANGED <<phase, timer, network, callbacks, trail, qos, poll, shown, locals, counters>>

\* The allocation has returned to the workflow.
Allocated == phase \notin {"allocating", "created"}

\* congestionUpdated, for a row that is active; deviceStatusChanged, for a row that is there.
CongestionCallback ==
    Signal(\E level \in Levels \ {latest} :
              /\ row = "active" /\ latest' = level /\ undecided' = (Allocated /\ level # known)
              /\ UNCHANGED <<completed, suspended, reachable>>)

DeviceCallback ==
    Signal(/\ row # "none" /\ reachable' = ~reachable
           /\ UNCHANGED <<completed, suspended, latest, undecided>>)

\* The facility: completed, halted with the load committed, moving again.
Complete ==
    /\ Running /\ ~completed /\ completed' = TRUE
    /\ UNCHANGED <<phase, timer, network, callbacks, trail, qos, poll, shown, locals, suspended, reachable,
                   latest, undecided, signals, counters>>

Halt == Signal(suspended' = ~suspended /\ UNCHANGED <<completed, reachable, latest, undecided>>)

---------------------------------------------------------------------------
(* The workflow and its activities *)

\* Mutant: the duration asked for leaves out the grace.
CreateWithoutGrace ==
    /\ phase = "allocating" /\ phase' = "created"
    /\ status' = "REQUESTED" /\ left' = Expected /\ statuses' = statuses \cup {"REQUESTED"}
    /\ UNCHANGED <<timer, callbacks, trail, qos, poll, shown, locals, told, counters>>

\* create_qod_session: the network knows the session before the workflow does.
Create ==
    /\ phase = "allocating" /\ phase' = "created"
    /\ status' = "REQUESTED" /\ left' = Expected + Grace /\ statuses' = statuses \cup {"REQUESTED"}
    /\ UNCHANGED <<timer, callbacks, trail, qos, poll, shown, locals, told, counters>>

\* allocate returns: its status replaces what a callback said meanwhile, the congestion
\* baseline is taken, and ALLOCATED is put on the trail.
Returned ==
    /\ phase = "created"
    /\ qos' = "REQUESTED" /\ known' = latest
    /\ phase' = "announcing" /\ timer' = Latency
    /\ UNCHANGED <<network, callbacks, trail, poll, shown, waited, suspendedFor, wasSuspended,
                   deviceLost, told, counters>>

Announced ==
    /\ phase = "announcing"
    /\ phase' = "confirming" /\ timer' = ConfirmWait
    /\ UNCHANGED <<network, callbacks, trail, qos, poll, shown, locals, told, counters>>

\* _confirm_qos_available: a callback said so, or the status is polled after a while.
Settled == qos \in {"AVAILABLE", "UNAVAILABLE"}

\* QOS_STATUS_CHANGED is put on the trail, with what the workflow then takes the status for.
Records(s) == shown' = s /\ phase' = "recording" /\ timer' = Latency

Confirmed ==
    /\ phase = "confirming" /\ Settled /\ Records(qos)
    /\ UNCHANGED <<network, callbacks, trail, qos, poll, locals, told, counters>>

Poll ==
    /\ phase = "confirming" /\ ~Settled /\ timer = 0
    /\ phase' = "polling" /\ timer' = Latency
    /\ asked' = status
    /\ UNCHANGED <<network, callbacks, trail, qos, polled, shown, locals, told, counters>>

\* poll_qod reads the network, once for every attempt.
Read ==
    /\ phase = "polling" /\ polled' = status
    /\ UNCHANGED <<phase, timer, network, callbacks, trail, qos, asked, shown, locals, told, counters>>

\* Mutant: what the workflow was told is recorded.
PolledAsTold ==
    /\ phase = "polling" /\ polled # "NONE" /\ Records(qos)
    /\ polled' = "NONE"
    /\ UNCHANGED <<network, callbacks, trail, qos, asked, locals, told, counters>>

\* The answer replaces what the workflow was told, a callback that overtook it included.
Polled ==
    /\ phase = "polling" /\ polled # "NONE" /\ Records(polled)
    /\ qos' = polled /\ polled' = "NONE"
    /\ UNCHANGED <<network, callbacks, trail, asked, locals, told, counters>>

\* The head of the monitor loop.
Continues == ~completed' /\ waited' < MaxWait /\ suspendedFor' < SuspendedMax
Again == IF Continues THEN phase' = "waiting" /\ timer' = Chunk ELSE phase' = "releasing" /\ timer' = 0

Recorded ==
    /\ phase = "recording"
    /\ UNCHANGED <<network, callbacks, trail, qos, poll, shown, locals, told, counters>> /\ Again

\* _monitor wakes for the first of these that holds.
Woken == completed \/ latest # known \/ suspended # wasSuspended \/ ~reachable # deviceLost

\* What a wake awaits: an entry, and an attached slice and its entry.  The entries make the
\* row active, except for the halt of an operation whose device is away, decided NONE.
Handles(entry) == news' = entry /\ phase' = "handling" /\ timer' = 3 * Latency

Halted     == Handles(IF reachable THEN "active" ELSE "ended")
DeviceLeft == Handles("active")
Reassessed == Handles("active") \/ Handles(news) \/ (Again /\ UNCHANGED news)

\* A wake for anything but the completion begins a whole new chunk.  level is what the monitor
\* takes the congestion for from then on, unless it wakes for the congestion.
WakeAt(level) ==
    /\ phase = "waiting" /\ Woken
    /\ wakes' = IF completed THEN wakes ELSE wakes + 1
    /\ UNCHANGED <<completed, waited, suspendedFor>>
    /\ IF completed
       THEN Again /\ known' = level /\ UNCHANGED <<wasSuspended, deviceLost, undecided, news>>
       ELSE IF suspended # wasSuspended
       THEN /\ wasSuspended' = suspended /\ known' = level /\ UNCHANGED <<deviceLost, undecided>>
            /\ IF suspended THEN Halted ELSE Again /\ UNCHANGED news
       ELSE IF ~reachable # deviceLost
       THEN /\ deviceLost' = ~reachable /\ known' = level /\ UNCHANGED <<wasSuspended, undecided>>
            /\ IF reachable THEN Again /\ UNCHANGED news ELSE DeviceLeft
       ELSE known' = latest /\ undecided' = FALSE /\ Reassessed /\ UNCHANGED <<wasSuspended, deviceLost>>
    /\ UNCHANGED <<network, callbacks, row, qos, poll, shown, suspended, reachable, latest, signals,
                   held, lost>>

\* Mutant: what wakes the monitor, it is up to date with the congestion as well.
WakeUpToDate == WakeAt(latest)

Wake == WakeAt(known)

\* The slice may fail to attach, and the workflow with it.
Handled ==
    /\ phase = "handling"
    /\ UNCHANGED <<network, callbacks, trail, qos, poll, shown, locals, told, counters>>
    /\ Again \/ (phase' = "releasing" /\ timer' = 0)

\* Mutant: a chunk of a halted operation counts against nothing.
ChunkOverUncounted ==
    /\ phase = "waiting" /\ timer = 0 /\ ~Woken
    /\ waited' = IF suspended THEN waited ELSE waited + Chunk
    /\ UNCHANGED <<completed, suspendedFor, wasSuspended, deviceLost, known>>
    /\ IF ~deviceLost /\ waited' < MaxWait
       THEN phase' = "extending" /\ timer' = Latency
       ELSE Again
    /\ UNCHANGED <<network, callbacks, trail, qos, poll, shown, suspended, reachable, latest,
                   undecided, signals, counters>>

\* A chunk went by: it counts against the valve or the suspension budget, and unless one
\* of them is used up, or the device is gone, the session is extended.
ChunkOver ==
    /\ phase = "waiting" /\ timer = 0 /\ ~Woken
    /\ waited' = IF suspended THEN waited ELSE waited + Chunk
    /\ suspendedFor' = IF suspended THEN suspendedFor + Chunk ELSE suspendedFor
    /\ UNCHANGED <<completed, wasSuspended, deviceLost, known>>
    /\ IF ~deviceLost /\ waited' < MaxWait /\ suspendedFor' < SuspendedMax
       THEN phase' = "extending" /\ timer' = Latency
       ELSE Again
    /\ UNCHANGED <<network, callbacks, trail, qos, poll, shown, suspended, reachable, latest,
                   undecided, signals, counters>>

\* Mutant: a retry asks for everything again.
ExtendAnew ==
    /\ phase = "extending" /\ status = "AVAILABLE"
    /\ left' = left + Expected + Grace
    /\ UNCHANGED <<status, statuses, callbacks, trail, qos, poll, shown, locals, told, held, wakes>>
    /\ \/ Again /\ UNCHANGED lost
       \/ lost < MaxLost /\ lost' = lost + 1 /\ UNCHANGED <<phase, timer>>

\* extend_qod: its answer may be lost, and the retry extends once more.
Extend ==
    /\ phase = "extending" /\ status = "AVAILABLE"
    /\ left' = left + Chunk
    /\ UNCHANGED <<status, statuses, callbacks, trail, qos, poll, shown, locals, told, held, wakes>>
    /\ \/ Again /\ UNCHANGED lost
       \/ lost < MaxLost /\ lost' = lost + 1 /\ UNCHANGED <<phase, timer>>

\* The network extends what is available only: the activity fails, and the workflow with it.
ExtendFails ==
    /\ phase = "extending" /\ status # "AVAILABLE"
    /\ phase' = "releasing" /\ timer' = 0
    /\ UNCHANGED <<network, callbacks, trail, qos, poll, shown, locals, told, counters>>

\* delete_qod_session.
Release ==
    /\ phase = "releasing" /\ phase' = "over"
    /\ status' = "UNAVAILABLE" /\ left' = 0
    /\ UNCHANGED <<timer, statuses, callbacks, trail, qos, poll, shown, locals, told, counters>>

Workflow ==
    \/ Create \/ Returned \/ Announced \/ Confirmed \/ Poll \/ Read \/ Polled \/ Recorded
    \/ Wake \/ Handled \/ ChunkOver \/ Extend \/ ExtendFails \/ Release

\* The worker is gone and no other takes over.
Die == /\ phase \in Awaits /\ phase' = "dead" /\ timer' = 0
       /\ UNCHANGED <<network, callbacks, trail, qos, poll, shown, locals, told, counters>>

\* What takes no time happens before the clock moves on.
Urgent == (phase = "confirming" /\ Settled) \/ (phase = "waiting" /\ Woken)
Clock  == ~Urgent /\ Tick

Next ==
    \/ Workflow \/ Clock \/ Die \/ Answer
    \/ Register \/ Land \/ QodCallback \/ CongestionCallback \/ DeviceCallback \/ Complete \/ Halt

Spec == Init /\ [][Next]_vars

---------------------------------------------------------------------------
(* Properties *)

QosStatuses == {"REQUESTED", "AVAILABLE", "UNAVAILABLE"}

\* Every variable has its type.
TypeOK ==
    /\ phase \in Phases /\ timer \in Nat /\ status \in QosStatuses \cup {"NONE"} /\ left \in Nat
    /\ statuses \subseteq QosStatuses /\ callbacks \subseteq QosStatuses /\ row \in {"none", "active", "ended"}
    /\ news \in {"none", "active", "ended"}
    /\ qos \in QosStatuses \cup {"NONE"} /\ shown \in QosStatuses \cup {"NONE"}
    /\ polled \in QosStatuses \cup {"NONE"} /\ asked \in QosStatuses \cup {"NONE"}
    /\ waited \in Nat /\ suspendedFor \in Nat /\ wasSuspended \in BOOLEAN /\ deviceLost \in BOOLEAN
    /\ known \in Levels \cup {"none"} /\ latest \in Levels \cup {"none"} /\ undecided \in BOOLEAN
    /\ completed \in BOOLEAN /\ suspended \in BOOLEAN /\ reachable \in BOOLEAN
    /\ signals \in 0..MaxSignals /\ lost \in 0..MaxLost /\ held \in Nat /\ wakes \in Nat

Monitoring == phase \in {"waiting", "handling", "extending"}
Lapsed     == "AVAILABLE" \in statuses /\ status # "AVAILABLE"

\* _monitor: "Hold the guarantee until the operation reports completion.  Extends in place
\* if the operation overruns": while it monitors a device that is there, a session the
\* network granted is still there.
GuaranteeHeld == Monitoring /\ ~deviceLost => ~Lapsed

\* It is so as long as nothing wakes the monitor: every chunk ends before the session does.
HeldWhileQuiet == wakes = 0 => GuaranteeHeld

\* The valve and the suspension budget bound how long the session is held: whole chunks of
\* each, and one more chunk for every wake, of which the time waited so far is not counted.
WholeChunks(n) == ((n + Chunk - 1) \div Chunk) * Chunk
HoldIsBounded  == held <= WholeChunks(MaxWait) + WholeChunks(SuspendedMax) + wakes * Chunk

\* A worker that dies leaves at most the duration first asked for behind it, a chunk for
\* each extension whose answer was lost, and one for a session granted late (allocate: the
\* duration "doubles as a TTL").
ReclaimedSoon == left <= Expected + Grace + (lost + 1) * Chunk

\* A callback that came before its row, or that the answer of allocate replaced, is made
\* good by the poll: what the trail is given is REQUESTED only if the network had not answered
\* when the poll was sent.  It may have answered since, and even have told the workflow so.
NeverShownStale == [][shown' = "REQUESTED" /\ shown # shown' => asked = "REQUESTED"]_vars

\* A congestion level reported after the allocation, whatever the workflow was busy with,
\* wakes the monitor as soon as it waits.
NoLevelMissed == phase = "waiting" /\ undecided => latest # known
=============================================================================
