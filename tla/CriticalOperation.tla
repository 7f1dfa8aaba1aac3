-------------------------- MODULE CriticalOperation --------------------------
(***************************************************************************)
(* One execution of CriticalOperationWorkflow                              *)
(* (agent/src/flowguard_agent/workflows/critical_operation.py) with the    *)
(* network activities it calls (activities/network.py) and the part of the *)
(* network provider they act on (network/*_provider.py).                   *)
(*                                                                         *)
(* The workflow is a coroutine: it only gives way at an await.  `at` names *)
(* the await it is parked at, and each action runs the code from one await *)
(* to the next.  Recording a decision (_emit) is an await too: `emitting`  *)
(* holds the step being recorded, and until it is recorded the coroutine   *)
(* does not go on to `at`.  Signals arrive at every await.                 *)
(*                                                                         *)
(* Temporal's delivery rules are external to the repository: signals of an *)
(* activation run before its timers, so a wait whose condition has become  *)
(* true never times out; an activity attempt that dies is retried until    *)
(* its policy is exhausted; a closed execution accepts no signal.          *)
(***************************************************************************)
EXTENDS Policy, FiniteSets

CONSTANTS
    Expected,          \* expectedDurationSeconds of the event
    MinChunk,          \* 30: the shortest slice of time _monitor waits for
    Multiplier,        \* 4: _MAX_OPERATION_MULTIPLIER
    SuspendedMax,      \* 900: _SUSPENDED_MAX_SECONDS
    AllocateAttempts,  \* 3: maximum_attempts of _ALLOCATE_RETRY
    ReleaseAttempts,   \* 10: maximum_attempts of _RELEASE_RETRY
    Readings,          \* the congestion levels the network reports
    IdempotentDelete,  \* TRUE: MockNetworkProvider; FALSE: NokiaNetworkProvider
    Faults             \* what may go wrong, see FaultKinds

\* rejected: a provider call fails before it takes effect, or a read activity
\*           fails on every attempt;
\* lost:     a provider call takes effect and its answer does not come back
\*           (connection lost, HTTP timeout, unparsable body);
\* crash:    the worker dies in the middle of an activity attempt;
\* expire:   a QoD session reaches the end of its duration;
\* bootstrap: a worker restart finds the slice provisioned, or no longer.
FaultKinds == {"rejected", "lost", "crash", "expire", "bootstrap"}

ASSUME ConstantsAssumption ==
    /\ Expected \in Nat \ {0}
    /\ MinChunk \in Nat \ {0}
    /\ Multiplier \in Nat \ {0}
    /\ SuspendedMax \in Nat \ {0}
    /\ AllocateAttempts \in Nat \ {0}
    /\ ReleaseAttempts \in Nat \ {0}
    /\ Readings \subseteq Levels
    /\ IdempotentDelete \in BOOLEAN
    /\ Faults \subseteq FaultKinds

VARIABLES
    at,            \* the await the coroutine continues with
    emitting,      \* the decision step _emit is recording, or "none"
    failing,       \* an ActivityError is propagating through run()
    \* Fields set by signals
    completed,     \* _completed
    suspended,     \* _suspended
    congestion,    \* _latest_congestion, "none" before the first signal
    deviceDown,    \* _device_reachable is False
    qosStatus,     \* _qos_status
    \* What the first half of run() established
    initial,       \* the congestion reading of query_congestion
    alwaysProtect, \* policy_config.always_protect_safety_critical
    criticality,
    safetyCritical,
    action,        \* policy.action, later the action in force in _monitor
    \* The allocation dict
    session,       \* qodSessionId, 0 for none
    attachment,    \* attachmentId (and sliceId), 0 for none
    \* Locals of _monitor
    known,         \* known_congestion
    waited,
    suspendedFor,
    wasSuspended,
    deviceLost,
    \* The activity attempt in flight
    task,
    \* The provider
    sessions,      \* live QoD sessions
    attachments,   \* live slice attachments, which have no duration
    issued,        \* ids handed out so far
    sliceReady     \* provider.slice_id is set

control  == <<at, emitting, failing, task>>
signals  == <<completed, suspended, congestion, deviceDown, qosStatus>>
judged   == <<initial, criticality, safetyCritical>>
held     == <<session, attachment>>
loop     == <<known, waited, suspendedFor, wasSuspended, deviceLost>>
provider == <<sessions, attachments, issued, sliceReady>>
vars     == <<control, signals, alwaysProtect, judged, action, held, loop, provider>>

-----------------------------------------------------------------------------
(***************************************************************************)
(* Vocabulary                                                              *)
(***************************************************************************)

Chunk   == IF Expected >= MinChunk THEN Expected ELSE MinChunk
MaxWait == Expected * Multiplier

\* The awaits of run() before anything is held, while it is held, and after.
Deciding == {"checkDevice", "refuse", "queryCongestion", "policyConfig", "assess",
             "decide", "allocate"}
Looping  == {"monitor", "extend", "escalate"}
Holding  == {"confirm", "poll"} \union Looping
Closed   == {"done", "failed"}
Awaits   == Deciding \union Holding \union {"release"} \union Closed

Steps == {"DEVICE_CHECKED", "CONGESTION_CHECKED", "CRITICALITY_ASSESSED", "DECIDED",
          "ALLOCATED", "QOS_STATUS_CHANGED", "RELEASED"}

QosStatuses == {"REQUESTED", "AVAILABLE", "UNAVAILABLE"}
Settled     == {"AVAILABLE", "UNAVAILABLE"}

\* An activity attempt: which attempt, the provider call it is about to make
\* ("report" when all are made), what it has been handed, and whether a call of
\* this attempt of release() has failed.
Calls    == {"none", "create", "attach", "undo", "delete", "detach", "report"}
NoTask   == [attempt |-> 0, call |-> "none", session |-> 0, attachment |-> 0, errors |-> FALSE]
First(c) == [NoTask EXCEPT !.attempt = 1, !.call = c]

FirstCall == [p \in {"allocate", "escalate", "release"} |->
                CASE p = "allocate" -> "create"
                  [] p = "escalate" -> "attach"
                  [] p = "release"  -> "delete"]

\* The coroutine continues at await p; an activity that acts on the network
\* starts with its first attempt.
GoTo(p) ==
    /\ at' = p
    /\ task' = IF p \in DOMAIN FirstCall THEN First(FirstCall[p]) ELSE NoTask

At(p) == at = p /\ emitting = "none"

\* _emit(step), then on to await p.
EmitThen(step, p) == emitting' = step /\ GoTo(p)
Silently(p)       == emitting' = "none" /\ GoTo(p)

\* An ActivityError leaves the activity call.  Before the try block, and for
\* allocate itself (nothing is in the allocation dict yet), _release returns at
\* once; later the finally block releases what is held.
Raise(p) == failing' = TRUE /\ Silently(p)

\* The outcomes a provider call can have.
Outcomes == {"ok"} \union (Faults \intersect {"rejected", "lost"})
ReadsMayFail == "rejected" \in Faults

Init ==
    /\ at = "checkDevice" /\ emitting = "none" /\ failing = FALSE /\ task = NoTask
    /\ completed = FALSE /\ suspended = FALSE /\ congestion = "none"
    /\ deviceDown = FALSE /\ qosStatus = "none"
    /\ initial = "none" /\ alwaysProtect = FALSE
    /\ criticality = "none" /\ safetyCritical = FALSE /\ action = "NONE"
    /\ session = 0 /\ attachment = 0
    /\ known = "none" /\ waited = 0 /\ suspendedFor = 0
    /\ wasSuspended = FALSE /\ deviceLost = FALSE
    /\ sessions = {} /\ attachments = {} /\ issued = 0 /\ sliceReady \in BOOLEAN

-----------------------------------------------------------------------------
(***************************************************************************)
(* Signals and queries.  Once run() is in its finally block no code reads  *)
(* what a signal sets, and _qos_status is read only until the QoD status   *)
(* has been confirmed, so later deliveries are not modelled.               *)
(***************************************************************************)

Listening == at \in Deciding \union Holding

OperationCompleted ==
    /\ Listening
    /\ completed' = TRUE
    /\ UNCHANGED <<control, suspended, congestion, deviceDown, qosStatus, alwaysProtect, judged,
                   action, held, loop, provider>>

OperationSuspended ==
    /\ Listening
    /\ suspended' = TRUE
    /\ UNCHANGED <<control, completed, congestion, deviceDown, qosStatus, alwaysProtect, judged,
                   action, held, loop, provider>>

OperationResumed ==
    /\ Listening
    /\ suspended' = FALSE
    /\ UNCHANGED <<control, completed, congestion, deviceDown, qosStatus, alwaysProtect, judged,
                   action, held, loop, provider>>

\* Mutant: the callback's statusInfo is taken for its qosStatus.
QodStatusChangedInfo ==
    /\ Listening /\ at \notin Looping
    /\ qosStatus' \in QosStatuses \union {"DURATION_EXPIRED", "NETWORK_TERMINATED"}
    /\ UNCHANGED <<control, completed, suspended, congestion, deviceDown, alwaysProtect, judged,
                   action, held, loop, provider>>

QodStatusChanged ==
    /\ Listening /\ at \notin Looping
    /\ qosStatus' \in QosStatuses
    /\ UNCHANGED <<control, completed, suspended, congestion, deviceDown, alwaysProtect, judged,
                   action, held, loop, provider>>

CongestionUpdated ==
    /\ Listening
    /\ congestion' \in Readings
    /\ UNCHANGED <<control, completed, suspended, deviceDown, qosStatus, alwaysProtect, judged,
                   action, held, loop, provider>>

DeviceStatusChanged ==
    /\ Listening
    /\ deviceDown' \in BOOLEAN
    /\ UNCHANGED <<control, completed, suspended, congestion, qosStatus, alwaysProtect, judged,
                   action, held, loop, provider>>

Signal == \/ OperationCompleted \/ OperationSuspended \/ OperationResumed
          \/ QodStatusChanged \/ CongestionUpdated \/ DeviceStatusChanged

-----------------------------------------------------------------------------
(***************************************************************************)
(* run(): from the business event to the decision                          *)
(***************************************************************************)

\* _emit returns: the record is stored, or given up after _EMIT_RETRY.
Recorded ==
    /\ emitting # "none"
    /\ emitting' = "none"
    /\ UNCHANGED <<at, task, failing, signals, alwaysProtect, judged, action, held, loop, provider>>

CheckDeviceStatus ==
    /\ At("checkDevice")
    /\ \/ \E reachable \in BOOLEAN :
             /\ EmitThen("DEVICE_CHECKED", IF reachable THEN "queryCongestion" ELSE "refuse")
             /\ UNCHANGED failing
       \/ ReadsMayFail /\ Raise("failed")
    /\ UNCHANGED <<signals, alwaysProtect, judged, action, held, loop, provider>>

\* The guard clause: _finish_without_allocation.
Refuse ==
    /\ At("refuse")
    /\ EmitThen("DECIDED", "done")
    /\ UNCHANGED <<failing, signals, alwaysProtect, judged, action, held, loop, provider>>

QueryCongestion ==
    /\ At("queryCongestion")
    /\ \/ /\ initial' \in Readings
          /\ EmitThen("CONGESTION_CHECKED", "policyConfig")
          /\ UNCHANGED failing
       \/ ReadsMayFail /\ Raise("failed") /\ UNCHANGED initial
    /\ UNCHANGED <<signals, alwaysProtect, criticality, safetyCritical, action, held, loop, provider>>

GetPolicyConfig ==
    /\ At("policyConfig")
    /\ \/ /\ alwaysProtect' \in BOOLEAN
          /\ Silently("assess")
          /\ UNCHANGED failing
       \/ ReadsMayFail /\ Raise("failed") /\ UNCHANGED alwaysProtect
    /\ UNCHANGED <<signals, judged, action, held, loop, provider>>

\* The model's judgement, or the substitute that POLICY_FAIL_OPEN (read with the
\* policy configuration, and only used here) sets when it cannot be had.
Assess ==
    /\ At("assess")
    /\ \/ criticality' \in Levels /\ safetyCritical' \in BOOLEAN
       \/ \E failOpen \in BOOLEAN :
             /\ criticality' = IF failOpen THEN "HIGH" ELSE "LOW"
             /\ safetyCritical' = failOpen
    /\ EmitThen("CRITICALITY_ASSESSED", "decide")
    /\ UNCHANGED <<failing, signals, alwaysProtect, initial, action, held, loop, provider>>

\* Mutant: the congestion reading triggers instead of informing.
UndisturbedTriggered(reading) ==
    [criticality |-> IF reading = "HIGH" THEN "HIGH" ELSE criticality, congestion |-> reading,
     reachable |-> TRUE, safetyCritical |-> safetyCritical, sliceAvailable |-> TRUE,
     suspended |-> FALSE]

\* The conditions run() and _reassess_congestion hand to decide().
Undisturbed(reading) ==
    [criticality |-> criticality, congestion |-> reading, reachable |-> TRUE,
     safetyCritical |-> safetyCritical, sliceAvailable |-> TRUE, suspended |-> FALSE]

DecideAllocation ==
    /\ At("decide")
    /\ action' = Decide(Undisturbed(initial), ConfigWith(alwaysProtect))
    /\ EmitThen("DECIDED", IF action' = "NONE" THEN "done" ELSE "allocate")
    /\ UNCHANGED <<failing, signals, alwaysProtect, judged, held, loop, provider>>

-----------------------------------------------------------------------------
(***************************************************************************)
(* allocate(): create a session, then attach the slice if it was decided.  *)
(***************************************************************************)

\* The attempt raises, or its worker dies: the next attempt starts over, or the
\* activity fails for good and the workflow goes on at await p.
AttemptFails(limit, p) ==
    IF task.attempt < limit
    THEN /\ task' = [First(FirstCall[at]) EXCEPT !.attempt = task.attempt + 1]
         /\ UNCHANGED <<at, emitting, failing>>
    ELSE Raise(p)

Proceed(call) == task' = call /\ UNCHANGED <<at, emitting, failing>>

CreateQodSession ==
    /\ At("allocate") /\ task.call = "create"
    /\ \E outcome \in Outcomes :
          /\ IF outcome = "rejected"
             THEN UNCHANGED <<sessions, issued>>
             ELSE issued' = issued + 1 /\ sessions' = sessions \union {issued'}
          /\ IF outcome = "ok"
             THEN Proceed([task EXCEPT !.session = issued', !.call =
                           IF action = "QOD_AND_SLICE" /\ sliceReady THEN "attach" ELSE "report"])
             ELSE AttemptFails(AllocateAttempts, "failed")
    /\ UNCHANGED <<signals, alwaysProtect, judged, action, held, loop, attachments, sliceReady>>

\* The attachment fails: the session is deleted again, as far as that works,
\* because the workflow does not know its id.
AttachWhileAllocating ==
    /\ At("allocate") /\ task.call = "attach"
    /\ \E outcome \in Outcomes :
          /\ IF outcome = "rejected"
             THEN UNCHANGED <<attachments, issued>>
             ELSE issued' = issued + 1 /\ attachments' = attachments \union {issued'}
          /\ IF outcome = "ok"
             THEN Proceed([task EXCEPT !.attachment = issued', !.call = "report"])
             ELSE Proceed([task EXCEPT !.call = "undo"])
    /\ UNCHANGED <<signals, alwaysProtect, judged, action, held, loop, sessions, sliceReady>>

UndoCreate ==
    /\ At("allocate") /\ task.call = "undo"
    /\ \E outcome \in Outcomes :
          sessions' = IF outcome = "rejected" THEN sessions ELSE sessions \ {task.session}
    /\ AttemptFails(AllocateAttempts, "failed")
    /\ UNCHANGED <<signals, alwaysProtect, judged, action, held, loop, attachments, issued, sliceReady>>

\* The result reaches run(), which stores it and forgets an earlier QoD callback.
Allocated ==
    /\ At("allocate") /\ task.call = "report"
    /\ session' = task.session /\ attachment' = task.attachment
    /\ qosStatus' \in QosStatuses
    /\ known' = congestion
    /\ EmitThen("ALLOCATED", "confirm")
    /\ UNCHANGED <<failing, completed, suspended, congestion, deviceDown, alwaysProtect, judged,
                   action, waited, suspendedFor, wasSuspended, deviceLost, provider>>

-----------------------------------------------------------------------------
(***************************************************************************)
(* _confirm_qos_available()                                                *)
(***************************************************************************)

Confirmed ==
    /\ At("confirm") /\ qosStatus \in Settled
    /\ EmitThen("QOS_STATUS_CHANGED", "monitor")
    /\ UNCHANGED <<failing, signals, alwaysProtect, judged, action, held, loop, provider>>

ConfirmTimesOut ==
    /\ At("confirm") /\ qosStatus \notin Settled
    /\ Silently("poll")
    /\ UNCHANGED <<failing, signals, alwaysProtect, judged, action, held, loop, provider>>

PollQod ==
    /\ At("poll")
    /\ \/ /\ qosStatus' \in QosStatuses
          /\ EmitThen("QOS_STATUS_CHANGED", "monitor")
          /\ UNCHANGED failing
       \/ /\ ReadsMayFail \/ session \notin sessions
          /\ Raise("release")
          /\ UNCHANGED qosStatus
    /\ UNCHANGED <<completed, suspended, congestion, deviceDown, alwaysProtect, judged, action, held,
                   loop, provider>>

-----------------------------------------------------------------------------
(***************************************************************************)
(* _monitor(): one action per reason to wake, tested in this order.  The   *)
(* loop condition on waited and suspended_for is tested on the way back to *)
(* the wait; `completed` is tested by the wait itself.                     *)
(***************************************************************************)

Waiting == At("monitor")

LoopHead(w, s) == IF w < MaxWait /\ s < SuspendedMax THEN "monitor" ELSE "release"

SuspensionChanged == suspended # wasSuspended
DeviceChanged     == deviceDown # deviceLost
CongestionChanged == congestion # known

\* Mutant: a completion is only looked at while the operation is not suspended.
WakeCompletedRunning ==
    /\ Waiting /\ completed /\ ~suspended
    /\ Silently("release")
    /\ UNCHANGED <<failing, signals, alwaysProtect, judged, action, held, loop, provider>>

WakeCompleted ==
    /\ Waiting /\ completed
    /\ Silently("release")
    /\ UNCHANGED <<failing, signals, alwaysProtect, judged, action, held, loop, provider>>

\* Mutant: a halted operation is judged as if it were still moving.
HaltedAsJudged ==
    [criticality |-> criticality, congestion |-> IF congestion = "none" THEN "LOW" ELSE congestion,
     reachable |-> ~deviceDown, safetyCritical |-> safetyCritical, sliceAvailable |-> TRUE,
     suspended |-> FALSE]

\* What _protect_suspended hands to decide().
Halted ==
    [criticality |-> "HIGH", congestion |-> IF congestion = "none" THEN "LOW" ELSE congestion,
     reachable |-> ~deviceDown, safetyCritical |-> TRUE, sliceAvailable |-> TRUE,
     suspended |-> TRUE]

\* _protect_suspended(), up to the escalation.
WakeSuspended ==
    /\ Waiting /\ ~completed /\ suspended /\ ~wasSuspended
    /\ wasSuspended' = TRUE
    /\ EmitThen("DECIDED",
                IF /\ attachment = 0
                   /\ Decide(Halted, ConfigWith(alwaysProtect)) = "QOD_AND_SLICE"
                THEN "escalate" ELSE "monitor")
    /\ UNCHANGED <<failing, signals, alwaysProtect, judged, action, held, known, waited, suspendedFor,
                   deviceLost, provider>>

\* Mutant: the slice is given back as soon as the operation moves again.
WakeResumedDetaching ==
    /\ Waiting /\ ~completed /\ ~suspended /\ wasSuspended
    /\ wasSuspended' = FALSE
    /\ attachments' = attachments \ {attachment} /\ attachment' = 0
    /\ Silently("monitor")
    /\ UNCHANGED <<failing, signals, alwaysProtect, judged, action, session, known, waited,
                   suspendedFor, deviceLost, sessions, issued, sliceReady>>

WakeResumed ==
    /\ Waiting /\ ~completed /\ ~suspended /\ wasSuspended
    /\ wasSuspended' = FALSE
    /\ Silently("monitor")
    /\ UNCHANGED <<failing, signals, alwaysProtect, judged, action, held, known, waited, suspendedFor,
                   deviceLost, provider>>

WakeDeviceLost ==
    /\ Waiting /\ ~completed /\ ~SuspensionChanged /\ deviceDown /\ ~deviceLost
    /\ deviceLost' = TRUE
    /\ EmitThen("DEVICE_CHECKED", "monitor")
    /\ UNCHANGED <<failing, signals, alwaysProtect, judged, action, held, known, waited, suspendedFor,
                   wasSuspended, provider>>

WakeDeviceBack ==
    /\ Waiting /\ ~completed /\ ~SuspensionChanged /\ ~deviceDown /\ deviceLost
    /\ deviceLost' = FALSE
    /\ Silently("monitor")
    /\ UNCHANGED <<failing, signals, alwaysProtect, judged, action, held, known, waited, suspendedFor,
                   wasSuspended, provider>>

\* _reassess_congestion(), up to the escalation.
WantsSlice(reading) ==
    \/ action = "QOD_AND_SLICE"
    \/ Decide(Undisturbed(reading), ConfigWith(alwaysProtect)) = "QOD_AND_SLICE"

\* Mutant: nobody asks whether the slice is attached already.
WakeCongestionAgain ==
    /\ Waiting /\ ~completed /\ ~SuspensionChanged /\ ~DeviceChanged /\ CongestionChanged
    /\ known' = congestion
    /\ Silently(IF WantsSlice(congestion) THEN "escalate" ELSE "monitor")
    /\ UNCHANGED <<failing, signals, alwaysProtect, judged, action, held, waited, suspendedFor,
                   wasSuspended, deviceLost, provider>>

WakeCongestion ==
    /\ Waiting /\ ~completed /\ ~SuspensionChanged /\ ~DeviceChanged /\ CongestionChanged
    /\ known' = congestion
    /\ Silently(IF attachment = 0 /\ WantsSlice(congestion) THEN "escalate" ELSE "monitor")
    /\ UNCHANGED <<failing, signals, alwaysProtect, judged, action, held, waited, suspendedFor,
                   wasSuspended, deviceLost, provider>>

\* Mutant: the valve goes on counting while the operation is suspended.
WaitTimesOutBoth ==
    /\ Waiting /\ ~completed /\ ~SuspensionChanged /\ ~DeviceChanged /\ ~CongestionChanged
    /\ suspendedFor' = IF suspended THEN suspendedFor + Chunk ELSE suspendedFor
    /\ waited' = waited + Chunk
    /\ Silently(IF LoopHead(waited', suspendedFor') = "monitor" /\ ~deviceLost
                THEN "extend" ELSE LoopHead(waited', suspendedFor'))
    /\ UNCHANGED <<failing, signals, alwaysProtect, judged, action, held, known, wasSuspended,
                   deviceLost, provider>>

\* Mutant: the valve stops while suspended, and no other budget replaces it.
WaitTimesOutUncounted ==
    /\ Waiting /\ ~completed /\ ~SuspensionChanged /\ ~DeviceChanged /\ ~CongestionChanged
    /\ waited' = IF suspended THEN waited ELSE waited + Chunk
    /\ Silently(IF LoopHead(waited', suspendedFor) = "monitor" /\ ~deviceLost
                THEN "extend" ELSE LoopHead(waited', suspendedFor))
    /\ UNCHANGED <<failing, signals, alwaysProtect, judged, action, held, known, suspendedFor,
                   wasSuspended, deviceLost, provider>>

\* A whole chunk passed and nothing changed.
WaitTimesOut ==
    /\ Waiting /\ ~completed /\ ~SuspensionChanged /\ ~DeviceChanged /\ ~CongestionChanged
    /\ suspendedFor' = IF suspended THEN suspendedFor + Chunk ELSE suspendedFor
    /\ waited' = IF suspended THEN waited ELSE waited + Chunk
    /\ Silently(IF LoopHead(waited', suspendedFor') = "monitor" /\ ~deviceLost
                THEN "extend" ELSE LoopHead(waited', suspendedFor'))
    /\ UNCHANGED <<failing, signals, alwaysProtect, judged, action, held, known, wasSuspended,
                   deviceLost, provider>>

\* extend_qod: its effect, the longer duration, is not modelled here.
ExtendQod ==
    /\ At("extend")
    /\ \/ Silently("monitor") /\ UNCHANGED failing
       \/ (ReadsMayFail \/ session \notin sessions) /\ Raise("release")
    /\ UNCHANGED <<signals, alwaysProtect, judged, action, held, loop, provider>>

\* escalate_to_slice, for _protect_suspended and _reassess_congestion alike.
SliceUnavailable ==
    /\ At("escalate") /\ task.call = "attach" /\ ~sliceReady
    /\ Silently("monitor")
    /\ UNCHANGED <<failing, signals, alwaysProtect, judged, action, held, loop, provider>>

AttachWhileHeld ==
    /\ At("escalate") /\ task.call = "attach" /\ sliceReady
    /\ \E outcome \in Outcomes :
          /\ IF outcome = "rejected"
             THEN UNCHANGED <<attachments, issued>>
             ELSE issued' = issued + 1 /\ attachments' = attachments \union {issued'}
          /\ IF outcome = "ok"
             THEN Proceed([task EXCEPT !.attachment = issued', !.call = "report"])
             ELSE AttemptFails(AllocateAttempts, "release")
    /\ UNCHANGED <<signals, alwaysProtect, judged, action, held, loop, sessions, sliceReady>>

\* Mutant: the result of the escalation is not kept in the allocation.
EscalatedForgotten ==
    /\ At("escalate") /\ task.call = "report"
    /\ action' = "QOD_AND_SLICE"
    /\ EmitThen("ALLOCATED", "monitor")
    /\ UNCHANGED <<failing, signals, alwaysProtect, judged, held, loop, provider>>

Escalated ==
    /\ At("escalate") /\ task.call = "report"
    /\ attachment' = task.attachment
    /\ action' = "QOD_AND_SLICE"
    /\ EmitThen("ALLOCATED", "monitor")
    /\ UNCHANGED <<failing, signals, alwaysProtect, judged, session, loop, provider>>

-----------------------------------------------------------------------------
(***************************************************************************)
(* _release() and release(): each resource is released on its own, and any *)
(* failure makes the attempt raise once both have been tried.              *)
(***************************************************************************)

\* A provider that answers 404 for what is already gone cannot succeed there.
DeleteOutcomes(live) == IF live \/ IdempotentDelete THEN Outcomes ELSE {"rejected"}

AttemptEnds(errors) ==
    IF errors THEN AttemptFails(ReleaseAttempts, "failed")
              ELSE Proceed([task EXCEPT !.call = "report"])

DeleteQodSession ==
    /\ At("release") /\ task.call = "delete"
    /\ \E outcome \in DeleteOutcomes(session \in sessions) :
          /\ sessions' = IF outcome = "rejected" THEN sessions ELSE sessions \ {session}
          /\ IF attachment # 0
             THEN Proceed([task EXCEPT !.call = "detach", !.errors = outcome # "ok"])
             ELSE AttemptEnds(outcome # "ok")
    /\ UNCHANGED <<signals, alwaysProtect, judged, action, held, loop, attachments, issued, sliceReady>>

\* Mutant: a successful detachment hides that deleting the session failed.
DetachDeviceLastError ==
    /\ At("release") /\ task.call = "detach"
    /\ \E outcome \in DeleteOutcomes(attachment \in attachments) :
          /\ attachments' = IF outcome = "rejected" THEN attachments
                                                    ELSE attachments \ {attachment}
          /\ AttemptEnds(outcome # "ok")
    /\ UNCHANGED <<signals, alwaysProtect, judged, action, held, loop, sessions, issued, sliceReady>>

DetachDevice ==
    /\ At("release") /\ task.call = "detach"
    /\ \E outcome \in DeleteOutcomes(attachment \in attachments) :
          /\ attachments' = IF outcome = "rejected" THEN attachments
                                                    ELSE attachments \ {attachment}
          /\ AttemptEnds(task.errors \/ outcome # "ok")
    /\ UNCHANGED <<signals, alwaysProtect, judged, action, held, loop, sessions, issued, sliceReady>>

\* The release is recorded; an error that led here is raised on.
Released ==
    /\ At("release") /\ task.call = "report"
    /\ EmitThen("RELEASED", IF failing THEN "failed" ELSE "done")
    /\ UNCHANGED <<failing, signals, alwaysProtect, judged, action, held, loop, provider>>

-----------------------------------------------------------------------------
(***************************************************************************)
(* The surroundings                                                        *)
(***************************************************************************)

\* The worker dies inside an activity attempt.  The workflow itself loses
\* nothing: its history is replayed.
AttemptDies ==
    /\ "crash" \in Faults
    /\ emitting = "none" /\ at \in DOMAIN FirstCall
    /\ AttemptFails(IF at = "release" THEN ReleaseAttempts ELSE AllocateAttempts,
                    IF at = "escalate" THEN "release" ELSE "failed")
    /\ UNCHANGED <<signals, alwaysProtect, judged, action, held, loop, provider>>

SessionExpires ==
    /\ "expire" \in Faults
    /\ \E id \in sessions : sessions' = sessions \ {id}
    /\ UNCHANGED <<control, signals, alwaysProtect, judged, action, held, loop, attachments, issued,
                   sliceReady>>

\* bootstrap() of a restarted worker.
WorkerRestarts ==
    /\ "bootstrap" \in Faults /\ Listening
    /\ sliceReady' = ~sliceReady
    /\ UNCHANGED <<control, signals, alwaysProtect, judged, action, held, loop, sessions, attachments,
                   issued>>

-----------------------------------------------------------------------------
Monitor == \/ WakeCompleted \/ WakeSuspended \/ WakeResumed \/ WakeDeviceLost
           \/ WakeDeviceBack \/ WakeCongestion \/ WaitTimesOut \/ ExtendQod
           \/ SliceUnavailable \/ AttachWhileHeld \/ Escalated

Workflow == \/ Recorded \/ CheckDeviceStatus \/ Refuse \/ QueryCongestion \/ GetPolicyConfig
            \/ Assess \/ DecideAllocation
            \/ CreateQodSession \/ AttachWhileAllocating \/ UndoCreate \/ Allocated
            \/ Confirmed \/ ConfirmTimesOut \/ PollQod
            \/ Monitor
            \/ DeleteQodSession \/ DetachDevice \/ Released

Next == Workflow \/ Signal \/ AttemptDies \/ SessionExpires \/ WorkerRestarts

Spec == Init /\ [][Next]_vars

\* Temporal keeps dispatching the workflow: timers fire, and every activity
\* returns, raises or runs into its start_to_close_timeout.
FairSpec == Spec /\ WF_vars(Workflow)

-----------------------------------------------------------------------------
(***************************************************************************)
(* Properties                                                              *)
(***************************************************************************)

Ids == 0..issued

ControlTypes == at \in Awaits /\ emitting \in Steps \union {"none"} /\ failing \in BOOLEAN
TaskType     == task \in [attempt : Nat, call : Calls, session : Ids, attachment : Ids,
                          errors : BOOLEAN]
SignalTypes  == /\ completed \in BOOLEAN /\ suspended \in BOOLEAN /\ deviceDown \in BOOLEAN
                /\ congestion \in Levels \union {"none"}
                /\ qosStatus \in QosStatuses \union {"none"}
JudgedTypes  == /\ initial \in Levels \union {"none"} /\ criticality \in Levels \union {"none"}
                /\ safetyCritical \in BOOLEAN /\ alwaysProtect \in BOOLEAN /\ action \in Actions
HeldTypes    == session \in Ids /\ attachment \in Ids
LoopTypes    == /\ known \in Levels \union {"none"} /\ waited \in Nat /\ suspendedFor \in Nat
                /\ wasSuspended \in BOOLEAN /\ deviceLost \in BOOLEAN
NetworkTypes == /\ sessions \subseteq 1..issued /\ attachments \subseteq 1..issued
                /\ issued \in Nat /\ sliceReady \in BOOLEAN

\* Every variable keeps its type, and every id in use has been handed out.
TypeOK == /\ ControlTypes /\ TaskType /\ SignalTypes /\ JudgedTypes /\ HeldTypes
          /\ LoopTypes /\ NetworkTypes

\* Once the trail says RELEASED, or the execution has completed, the network
\* no longer holds anything the workflow knew about: a release() that had to be
\* retried half done is not reported as released before both halves are.
ReleasedIsGone ==
    emitting = "RELEASED" \/ at = "done" => /\ session \notin sessions
                                            /\ attachment \notin attachments

\* "connectivity is released - guaranteed by a durable workflow, even across a
\* worker crash" (README.md:45), for the resource that no duration reclaims: a
\* completed execution leaves no slice attachment behind, known to it or not.
NothingAttachedAfterwards == at = "done" => attachments = {}

\* An operation never occupies the slice twice, although allocate(),
\* _protect_suspended() and _reassess_congestion() all attach it and all retry.
AttachedOnce == Cardinality(attachments) <= 1

\* The thesis, end to end: an operation judged LOW never holds anything on the
\* network, whatever is signalled to it.
RoutineHoldsNothing == criticality = "LOW" => sessions = {} /\ attachments = {}

\* What is held is given up only when the operation completed, when a call to
\* the network failed for good, or when the budget for the situation the
\* operation is in is used up: the valve of a running operation never ends a
\* suspended one.
LetGo == at \in Holding /\ at' \notin Holding
BudgetUsed == IF suspended THEN suspendedFor' >= SuspendedMax ELSE waited' >= MaxWait

HeldUntilOver == [][LetGo => completed \/ failing' \/ BudgetUsed]_vars

\* "A crane that emergency-stops has a load in the air [...] so this must never
\* reach the release path" (critical_operation.py:130): while the workflow knows
\* of a suspension, only a completion or the suspension budget ends the hold.
SuspensionNeverReleases ==
    [][LetGo /\ wasSuspended /\ suspended => completed \/ suspendedFor' >= SuspendedMax]_vars

\* "Even a routine lift needs its feed to put the load down safely"
\* (agent/src/flowguard_agent/policy/rules.py:92): an operation that is already
\* reported suspended is not refused for being routine.
SuspendedNotRefused == [][at = "decide" /\ at' = "done" => ~suspended]_vars

\* The operation implements the lease it is promised, with the level read off
\* what is live at the provider and not off the workflow's own records.
Lease == INSTANCE ConnectivityLease WITH
            phase <- IF at \in Deciding THEN "deciding"
                     ELSE IF at \in Holding THEN "held" ELSE "over",
            level <- IF at \notin Holding THEN "NONE"
                     ELSE IF attachment \in attachments THEN "QOD_AND_SLICE" ELSE "QOD"

ImplementsLease == Lease!Spec

\* A reported completion always leads to the end of the execution.
CompletionEnds == completed ~> at \in Closed

\* A lost completion signal does not hold connectivity forever: when signals
\* stop coming, the execution ends, suspended or not.
SafetyValve == <>[][~Signal]_vars => <>(at \in Closed)

\* A held operation that halts while its device is on the network and a slice is
\* provisioned ends up with the slice, however routine it was judged to be: only
\* a failing call, or the end of one of these conditions, can come first.
SuspendedGetsSlice ==
    Waiting /\ sliceReady /\ suspended /\ ~wasSuspended /\ ~deviceDown
       ~> \/ attachment # 0
          \/ ~suspended \/ deviceDown \/ completed \/ ~sliceReady \/ failing

-----------------------------------------------------------------------------
(***************************************************************************)
(* The inductive invariant behind the safety properties: what the place    *)
(* the coroutine has reached says about what is held.                      *)
(***************************************************************************)

\* Nothing is live before allocate() runs, and the workflow knows of nothing
\* before it has returned; the slice is only asked for when it is not held.
Stages ==
    /\ at \in Deciding => session = 0 /\ attachment = 0
    /\ at \in Deciding \ {"allocate"} => sessions = {} /\ attachments = {}
    /\ at = "escalate" => attachment = 0

\* How far an attempt of release() has come.
ReleaseProgress ==
    /\ at = "release" =>
          /\ task.call \in {"delete", "detach", "report"}
          /\ task.call = "detach" /\ ~task.errors => session \notin sessions
          /\ task.call = "report" => session \notin sessions /\ attachment \notin attachments
    /\ emitting = "RELEASED" => at \in Closed
    /\ emitting = "RELEASED" \/ at = "done" => session \notin sessions /\ attachment \notin attachments

\* Both budgets have something left for as long as anything is held.
BudgetLeft == at \in Deciding \union Holding => waited < MaxWait /\ suspendedFor < SuspendedMax

\* Routine work never gets past the decision.
RoutineStops == criticality = "LOW" => /\ at \in {"decide", "done"}
                                       /\ sessions = {} /\ attachments = {}

\* Unless an answer or a worker is lost, every attachment is known: to the
\* workflow, or to the activity attempt that is about to report it.
Known == /\ attachments \subseteq {attachment, task.attachment}
         /\ task.attachment # 0 => at \in {"allocate", "escalate"} /\ task.call = "report"
         /\ at \in {"allocate", "escalate"} => attachment = 0

\* All of it, for every choice of faults.
Inductive == TypeOK /\ Stages /\ ReleaseProgress /\ BudgetLeft /\ RoutineStops
NoLoss    == Faults \intersect {"lost", "crash"} = {}
=============================================================================
