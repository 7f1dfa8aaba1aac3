----------------------- MODULE CriticalOperationProofs -----------------------
(***************************************************************************)
(* Type correctness and the safety properties of CriticalOperation, proved   *)
(* for every value of its constants.  First TypeOK, with lemmas about the    *)
(* control flow; then the properties, from the inductive invariant           *)
(* `Inductive`.                                                              *)
(***************************************************************************)
EXTENDS CriticalOperation, FiniteSetTheorems, TLAPS

LEMMA NoTaskType == NoTask \in [attempt : Nat, call : Calls, session : {0}, attachment : {0},
                                errors : {FALSE}]
BY DEF NoTask, Calls

LEMMA DecideInActions == ASSUME NEW c, NEW cfg PROVE Decide(c, cfg) \in Actions
BY DEF Decide, BestAvailable, Actions

LEMMA FirstCalls ==
    /\ DOMAIN FirstCall = {"allocate", "escalate", "release"}
    /\ FirstCall["allocate"] = "create"
    /\ FirstCall["escalate"] = "attach"
    /\ FirstCall["release"] = "delete"
BY DEF FirstCall

\* Wherever the coroutine goes, the activity attempt there is a fresh one.
LEMMA GoToType ==
    ASSUME NEW p \in Awaits, GoTo(p)
    PROVE  /\ at' = p
           /\ task' \in [attempt : Nat, call : Calls, session : {0}, attachment : {0},
                         errors : {FALSE}]
<1>1. CASE p \in DOMAIN FirstCall
  <2>1. FirstCall[p] \in Calls
    BY <1>1, FirstCalls DEF Calls
  <2> QED BY <1>1, <2>1 DEF GoTo, First, NoTask, Calls
<1>2. CASE p \notin DOMAIN FirstCall
  BY <1>2, NoTaskType DEF GoTo
<1> QED BY <1>1, <1>2

\* An attempt that fails is followed by a fresh one, or ends the activity.
LEMMA AttemptFailsType ==
    ASSUME TypeOK, NEW limit \in Nat, NEW p \in Awaits, AttemptFails(limit, p),
           at \in DOMAIN FirstCall, emitting = "none"
    PROVE  /\ emitting' = "none"
           /\ \/ at' = at /\ failing' = failing
              \/ at' = p /\ failing' = TRUE
           /\ task' \in [attempt : Nat, call : Calls, session : {0}, attachment : {0},
                         errors : {FALSE}]
<1>1. CASE task.attempt < limit
  <2>1. FirstCall[at] \in Calls
    BY FirstCalls DEF Calls
  <2>2. task.attempt + 1 \in Nat
    BY DEF TypeOK, TaskType
  <2> QED BY <1>1, <2>1, <2>2 DEF AttemptFails, First, NoTask, Calls
<1>2. CASE ~(task.attempt < limit)
  BY <1>2, GoToType DEF AttemptFails, Raise, Silently
<1> QED BY <1>1, <1>2

-----------------------------------------------------------------------------
(***************************************************************************)
(* Type correctness                                                        *)
(***************************************************************************)

LEMMA TypeInit == Init => TypeOK
<1> SUFFICES ASSUME Init PROVE TypeOK
  OBVIOUS
<1>1. ControlTypes /\ SignalTypes
  BY DEF Init, ControlTypes, SignalTypes, Awaits, Deciding
<1>2. JudgedTypes /\ LoopTypes
  BY DEF Init, JudgedTypes, LoopTypes, Actions
<1>3. issued = 0 /\ Ids = {0}
  BY DEF Init, Ids
<1>4. HeldTypes /\ NetworkTypes
  BY <1>3 DEF Init, HeldTypes, NetworkTypes
<1>5. TaskType
  BY <1>3, NoTaskType DEF Init, TaskType
<1> QED BY <1>1, <1>2, <1>4, <1>5 DEF TypeOK

\* What an action leaves alone keeps its type.
LEMMA TypesKept ==
    ASSUME TypeOK
    PROVE  /\ UNCHANGED control /\ UNCHANGED issued => ControlTypes' /\ TaskType'
           /\ UNCHANGED signals => SignalTypes'
           /\ UNCHANGED <<judged, alwaysProtect, action>> => JudgedTypes'
           /\ UNCHANGED <<held, issued>> => HeldTypes'
           /\ UNCHANGED loop => LoopTypes'
           /\ UNCHANGED provider => NetworkTypes'
<1>1. UNCHANGED control /\ UNCHANGED issued => ControlTypes' /\ TaskType'
  BY DEF TypeOK, ControlTypes, TaskType, Ids, control
<1>2. UNCHANGED signals => SignalTypes'
  BY DEF TypeOK, SignalTypes, signals
<1>3. UNCHANGED <<judged, alwaysProtect, action>> => JudgedTypes'
  BY DEF TypeOK, JudgedTypes, judged
<1>4. UNCHANGED <<held, issued>> => HeldTypes'
  BY DEF TypeOK, HeldTypes, Ids, held
<1>5. UNCHANGED loop => LoopTypes'
  BY DEF TypeOK, LoopTypes, loop
<1>6. UNCHANGED provider => NetworkTypes'
  BY DEF TypeOK, NetworkTypes, provider
<1> QED BY <1>1, <1>2, <1>3, <1>4, <1>5, <1>6

LEMMA TypeSignal == TypeOK /\ Signal => TypeOK'
<1> SUFFICES ASSUME TypeOK, Signal PROVE TypeOK'
  OBVIOUS
<1>1. UNCHANGED <<control, judged, alwaysProtect, action, held, loop, provider>>
  BY DEF Signal, OperationCompleted, OperationSuspended, OperationResumed, QodStatusChanged,
         CongestionUpdated, DeviceStatusChanged
<1>2. UNCHANGED issued
  BY <1>1 DEF provider
<1>3. SignalTypes'
  <2> USE DEF TypeOK, SignalTypes
  <2>1. CASE OperationCompleted
    BY <2>1 DEF OperationCompleted
  <2>2. CASE OperationSuspended
    BY <2>2 DEF OperationSuspended
  <2>3. CASE OperationResumed
    BY <2>3 DEF OperationResumed
  <2>4. CASE QodStatusChanged
    BY <2>4 DEF QodStatusChanged
  <2>5. CASE CongestionUpdated
    BY <2>5, ConstantsAssumption DEF CongestionUpdated
  <2>6. CASE DeviceStatusChanged
    BY <2>6 DEF DeviceStatusChanged
  <2> QED BY <2>1, <2>2, <2>3, <2>4, <2>5, <2>6 DEF Signal
<1> QED BY <1>1, <1>2, <1>3, TypesKept DEF TypeOK

LEMMA GoToTypes ==
    ASSUME TypeOK, NEW p \in Awaits, GoTo(p), emitting' \in Steps \union {"none"},
           failing' \in BOOLEAN, issued' \in Nat
    PROVE  ControlTypes' /\ TaskType'
<1>1. 0 \in Ids'
  BY DEF Ids
<1> QED BY <1>1, GoToType DEF ControlTypes, TaskType

LEMMA AttemptFailsTypes ==
    ASSUME TypeOK, NEW limit \in Nat, NEW p \in Awaits, AttemptFails(limit, p),
           at \in DOMAIN FirstCall, emitting = "none", issued' \in Nat
    PROVE  ControlTypes' /\ TaskType'
<1>1. 0 \in Ids'
  BY DEF Ids
<1> QED BY <1>1, AttemptFailsType DEF ControlTypes, TaskType, TypeOK

LEMMA ProceedTypes ==
    ASSUME TypeOK, NEW t, Proceed(t),
           t \in [attempt : Nat, call : Calls, session : Ids', attachment : Ids', errors : BOOLEAN]
    PROVE  ControlTypes' /\ TaskType'
BY DEF Proceed, TypeOK, ControlTypes, TaskType

LEMMA TypeDeciding ==
    ASSUME TypeOK,
           \/ Recorded \/ CheckDeviceStatus \/ Refuse \/ QueryCongestion \/ GetPolicyConfig
           \/ Assess \/ DecideAllocation
    PROVE  TypeOK'
<1> USE DEF EmitThen, Silently, Raise
<1>0. issued \in Nat /\ failing \in BOOLEAN
  BY DEF TypeOK, NetworkTypes, ControlTypes
<1>a. Deciding \union {"done", "failed"} \subseteq Awaits
  BY DEF Awaits, Closed
<1>1. CASE Recorded
  <2>1. ControlTypes' /\ TaskType'
    BY <1>1 DEF Recorded, provider, TypeOK, ControlTypes, TaskType, Ids
  <2> QED BY <1>1, <2>1, TypesKept DEF Recorded, TypeOK, provider
<1>2. CASE CheckDeviceStatus
  <2>1. ControlTypes' /\ TaskType'
    BY <1>0, <1>2, <1>a, GoToTypes DEF CheckDeviceStatus, provider, Deciding, Steps
  <2> QED BY <1>2, <2>1, TypesKept DEF CheckDeviceStatus, TypeOK, provider
<1>3. CASE Refuse
  <2>1. ControlTypes' /\ TaskType'
    BY <1>0, <1>3, <1>a, GoToTypes DEF Refuse, provider, Steps
  <2> QED BY <1>3, <2>1, TypesKept DEF Refuse, TypeOK, provider
<1>4. CASE QueryCongestion
  <2>1. ControlTypes' /\ TaskType'
    BY <1>0, <1>4, <1>a, GoToTypes DEF QueryCongestion, provider, Deciding, Steps
  <2>2. JudgedTypes'
    BY <1>4, ConstantsAssumption DEF QueryCongestion, TypeOK, JudgedTypes
  <2> QED BY <1>4, <2>1, <2>2, TypesKept DEF QueryCongestion, TypeOK, provider
<1>5. CASE GetPolicyConfig
  <2>1. ControlTypes' /\ TaskType'
    BY <1>0, <1>5, <1>a, GoToTypes DEF GetPolicyConfig, provider, Deciding
  <2>2. JudgedTypes'
    BY <1>5 DEF GetPolicyConfig, TypeOK, JudgedTypes, judged
  <2> QED BY <1>5, <2>1, <2>2, TypesKept DEF GetPolicyConfig, TypeOK, provider
<1>6. CASE Assess
  <2>1. ControlTypes' /\ TaskType'
    BY <1>0, <1>6, <1>a, GoToTypes DEF Assess, provider, Deciding, Steps
  <2>2. JudgedTypes'
    BY <1>6 DEF Assess, TypeOK, JudgedTypes, Levels
  <2> QED BY <1>6, <2>1, <2>2, TypesKept DEF Assess, TypeOK, provider
<1>7. CASE DecideAllocation
  <2>1. ControlTypes' /\ TaskType'
    BY <1>0, <1>7, <1>a, GoToTypes DEF DecideAllocation, provider, Deciding, Steps
  <2>2. JudgedTypes'
    BY <1>7, DecideInActions DEF DecideAllocation, TypeOK, JudgedTypes, judged
  <2> QED BY <1>7, <2>1, <2>2, TypesKept DEF DecideAllocation, TypeOK, provider
<1> QED BY <1>1, <1>2, <1>3, <1>4, <1>5, <1>6, <1>7

\* The provider hands out a new id.
LEMMA IssuedTypes ==
    ASSUME TypeOK, issued' = issued + 1 \/ issued' = issued
    PROVE  /\ issued' \in Nat /\ issued' \in Ids' /\ Ids \subseteq Ids'
           /\ HeldTypes /\ UNCHANGED held => HeldTypes'
           /\ 1..issued \subseteq 1..issued'
<1>1. issued \in Nat
  BY DEF TypeOK, NetworkTypes
<1>2. issued' \in Nat /\ issued' \in Ids' /\ Ids \subseteq Ids' /\ 1..issued \subseteq 1..issued'
  BY <1>1 DEF Ids
<1> QED BY <1>2 DEF HeldTypes, held

LEMMA TypeAllocation ==
    ASSUME TypeOK, CreateQodSession \/ AttachWhileAllocating \/ UndoCreate \/ Allocated
    PROVE  TypeOK'
<1>0. /\ issued \in Nat /\ failing \in BOOLEAN
      /\ AllocateAttempts \in Nat /\ "failed" \in Awaits
      /\ At("allocate") => at \in DOMAIN FirstCall /\ emitting = "none"
  BY ConstantsAssumption, FirstCalls
     DEF TypeOK, NetworkTypes, ControlTypes, Awaits, Closed, At
<1>1. CASE CreateQodSession
  <2>1. issued' = issued + 1 \/ issued' = issued
    BY <1>1 DEF CreateQodSession
  <2>2. ControlTypes' /\ TaskType'
    <3>1. CASE AttemptFails(AllocateAttempts, "failed")
      BY <1>0, <1>1, <2>1, <3>1, IssuedTypes, AttemptFailsTypes DEF CreateQodSession
    <3>2. CASE Proceed([task EXCEPT !.session = issued', !.call =
                           IF action = "QOD_AND_SLICE" /\ sliceReady THEN "attach" ELSE "report"])
      <4>1. [task EXCEPT !.session = issued', !.call =
                IF action = "QOD_AND_SLICE" /\ sliceReady THEN "attach" ELSE "report"]
            \in [attempt : Nat, call : Calls, session : Ids', attachment : Ids', errors : BOOLEAN]
        BY <2>1, IssuedTypes DEF TypeOK, TaskType, Calls
      <4> QED BY <3>2, <4>1, ProceedTypes
    <3> QED BY <1>1, <3>1, <3>2 DEF CreateQodSession
  <2>3. NetworkTypes'
    BY <1>0, <1>1 DEF CreateQodSession, TypeOK, NetworkTypes
  <2> QED BY <1>1, <2>1, <2>2, <2>3, IssuedTypes, TypesKept DEF CreateQodSession, TypeOK
<1>2. CASE AttachWhileAllocating
  <2>1. issued' = issued + 1 \/ issued' = issued
    BY <1>2 DEF AttachWhileAllocating
  <2>2. ControlTypes' /\ TaskType'
    <3>1. /\ [task EXCEPT !.attachment = issued', !.call = "report"]
             \in [attempt : Nat, call : Calls, session : Ids', attachment : Ids', errors : BOOLEAN]
          /\ [task EXCEPT !.call = "undo"]
             \in [attempt : Nat, call : Calls, session : Ids', attachment : Ids', errors : BOOLEAN]
      BY <2>1, IssuedTypes DEF TypeOK, TaskType, Calls
    <3> QED BY <1>2, <3>1, ProceedTypes DEF AttachWhileAllocating
  <2>3. NetworkTypes'
    BY <1>0, <1>2 DEF AttachWhileAllocating, TypeOK, NetworkTypes
  <2> QED BY <1>2, <2>1, <2>2, <2>3, IssuedTypes, TypesKept DEF AttachWhileAllocating, TypeOK
<1>3. CASE UndoCreate
  <2>1. ControlTypes' /\ TaskType'
    BY <1>0, <1>3, AttemptFailsTypes DEF UndoCreate
  <2>2. NetworkTypes'
    BY <1>3 DEF UndoCreate, TypeOK, NetworkTypes
  <2> QED BY <1>0, <1>3, <2>1, <2>2, TypesKept DEF UndoCreate, TypeOK
<1>4. CASE Allocated
  <2>1. ControlTypes' /\ TaskType'
    BY <1>0, <1>4, GoToTypes DEF Allocated, EmitThen, provider, Awaits, Holding, Steps
  <2>2. SignalTypes'
    BY <1>4 DEF Allocated, TypeOK, SignalTypes
  <2>3. HeldTypes'
    BY <1>4 DEF Allocated, TypeOK, HeldTypes, TaskType, provider, Ids
  <2>4. LoopTypes'
    BY <1>4 DEF Allocated, TypeOK, SignalTypes, LoopTypes
  <2> QED BY <1>4, <2>1, <2>2, <2>3, <2>4, TypesKept DEF Allocated, TypeOK
<1> QED BY <1>1, <1>2, <1>3, <1>4

LEMMA TypeMonitor ==
    ASSUME TypeOK, Confirmed \/ ConfirmTimesOut \/ PollQod \/ Monitor
    PROVE  TypeOK'
<1> USE DEF EmitThen, Silently, Raise
<1>0. issued \in Nat /\ failing \in BOOLEAN /\ Chunk \in Nat
  BY ConstantsAssumption DEF TypeOK, NetworkTypes, ControlTypes, Chunk
<1>a. Holding \union {"release"} \subseteq Awaits
  BY DEF Awaits
<1>b. {"confirm", "poll", "monitor", "extend", "escalate"} \subseteq Holding
  BY DEF Holding, Looping
<1>1. CASE Confirmed
  <2>1. ControlTypes' /\ TaskType'
    BY <1>0, <1>1, <1>a, <1>b, GoToTypes DEF Confirmed, provider, Steps
  <2> QED BY <1>1, <2>1, TypesKept DEF Confirmed, TypeOK, provider
<1>2. CASE ConfirmTimesOut
  <2>1. ControlTypes' /\ TaskType'
    BY <1>0, <1>2, <1>a, <1>b, GoToTypes DEF ConfirmTimesOut, provider
  <2> QED BY <1>2, <2>1, TypesKept DEF ConfirmTimesOut, TypeOK, provider
<1>3. CASE PollQod
  <2>1. ControlTypes' /\ TaskType'
    BY <1>0, <1>3, <1>a, <1>b, GoToTypes DEF PollQod, provider, Steps
  <2>2. SignalTypes'
    BY <1>3 DEF PollQod, TypeOK, SignalTypes
  <2> QED BY <1>3, <2>1, <2>2, TypesKept DEF PollQod, TypeOK, provider
<1>4. CASE WakeCompleted
  <2>1. ControlTypes' /\ TaskType'
    BY <1>0, <1>4, <1>a, <1>b, GoToTypes DEF WakeCompleted, provider
  <2> QED BY <1>4, <2>1, TypesKept DEF WakeCompleted, TypeOK, provider
<1>5. CASE WakeSuspended \/ WakeResumed
  <2>1. ControlTypes' /\ TaskType'
    BY <1>0, <1>5, <1>a, <1>b, GoToTypes DEF WakeSuspended, WakeResumed, provider, Steps
  <2>2. LoopTypes'
    BY <1>5 DEF WakeSuspended, WakeResumed, TypeOK, LoopTypes
  <2> QED BY <1>5, <2>1, <2>2, TypesKept DEF WakeSuspended, WakeResumed, TypeOK, provider
<1>6. CASE WakeDeviceLost \/ WakeDeviceBack
  <2>1. ControlTypes' /\ TaskType'
    BY <1>0, <1>6, <1>a, <1>b, GoToTypes DEF WakeDeviceLost, WakeDeviceBack, provider, Steps
  <2>2. LoopTypes'
    BY <1>6 DEF WakeDeviceLost, WakeDeviceBack, TypeOK, LoopTypes
  <2> QED BY <1>6, <2>1, <2>2, TypesKept DEF WakeDeviceLost, WakeDeviceBack, TypeOK, provider
<1>7. CASE WakeCongestion
  <2>1. ControlTypes' /\ TaskType'
    BY <1>0, <1>7, <1>a, <1>b, GoToTypes DEF WakeCongestion, provider
  <2>2. LoopTypes'
    BY <1>7 DEF WakeCongestion, TypeOK, LoopTypes, SignalTypes
  <2> QED BY <1>7, <2>1, <2>2, TypesKept DEF WakeCongestion, TypeOK, provider
<1>8. CASE WaitTimesOut
  <2>1. ControlTypes' /\ TaskType'
    BY <1>0, <1>8, <1>a, <1>b, GoToTypes DEF WaitTimesOut, LoopHead, provider
  <2>2. LoopTypes'
    BY <1>0, <1>8 DEF WaitTimesOut, TypeOK, LoopTypes
  <2> QED BY <1>8, <2>1, <2>2, TypesKept DEF WaitTimesOut, TypeOK, provider
<1>9. CASE ExtendQod \/ SliceUnavailable
  <2>1. ControlTypes' /\ TaskType'
    BY <1>0, <1>9, <1>a, <1>b, GoToTypes DEF ExtendQod, SliceUnavailable, provider
  <2> QED BY <1>9, <2>1, TypesKept DEF ExtendQod, SliceUnavailable, TypeOK, provider
<1>10. CASE AttachWhileHeld
  <2>1. issued' = issued + 1 \/ issued' = issued
    BY <1>10 DEF AttachWhileHeld
  <2>2. ControlTypes' /\ TaskType'
    <3>1. CASE AttemptFails(AllocateAttempts, "release")
      <4>1. at \in DOMAIN FirstCall /\ emitting = "none" /\ AllocateAttempts \in Nat
        BY <1>10, FirstCalls, ConstantsAssumption DEF AttachWhileHeld, At
      <4> QED BY <1>a, <2>1, <3>1, <4>1, IssuedTypes, AttemptFailsTypes
    <3>2. CASE Proceed([task EXCEPT !.attachment = issued', !.call = "report"])
      <4>1. [task EXCEPT !.attachment = issued', !.call = "report"]
            \in [attempt : Nat, call : Calls, session : Ids', attachment : Ids', errors : BOOLEAN]
        BY <2>1, IssuedTypes DEF TypeOK, TaskType, Calls
      <4> QED BY <3>2, <4>1, ProceedTypes
    <3> QED BY <1>10, <3>1, <3>2 DEF AttachWhileHeld
  <2>3. NetworkTypes'
    BY <1>0, <1>10 DEF AttachWhileHeld, TypeOK, NetworkTypes
  <2> QED BY <1>10, <2>1, <2>2, <2>3, IssuedTypes, TypesKept DEF AttachWhileHeld, TypeOK
<1>11. CASE Escalated
  <2>1. ControlTypes' /\ TaskType'
    BY <1>0, <1>11, <1>a, <1>b, GoToTypes DEF Escalated, provider, Steps
  <2>2. HeldTypes'
    BY <1>11 DEF Escalated, TypeOK, HeldTypes, TaskType, provider, Ids
  <2>3. JudgedTypes'
    BY <1>11 DEF Escalated, TypeOK, JudgedTypes, judged, Actions
  <2> QED BY <1>11, <2>1, <2>2, <2>3, TypesKept DEF Escalated, TypeOK
<1> QED BY <1>1, <1>2, <1>3, <1>4, <1>5, <1>6, <1>7, <1>8, <1>9, <1>10, <1>11 DEF Monitor

LEMMA TypeRelease ==
    ASSUME TypeOK, DeleteQodSession \/ DetachDevice \/ Released
    PROVE  TypeOK'
<1>0. issued \in Nat /\ failing \in BOOLEAN /\ ReleaseAttempts \in Nat /\ {"done", "failed"} \subseteq Awaits
  BY ConstantsAssumption DEF TypeOK, NetworkTypes, ControlTypes, Awaits, Closed
<1>1. At("release") => at \in DOMAIN FirstCall /\ emitting = "none"
  BY FirstCalls DEF At
<1>2. ASSUME NEW errors, AttemptEnds(errors), At("release"), UNCHANGED issued
      PROVE  ControlTypes' /\ TaskType'
  <2>1. CASE errors
    BY <1>0, <1>1, <1>2, <2>1, AttemptFailsTypes DEF AttemptEnds
  <2>2. CASE ~errors
    <3>1. [task EXCEPT !.call = "report"]
          \in [attempt : Nat, call : Calls, session : Ids', attachment : Ids', errors : BOOLEAN]
      BY <1>2 DEF TypeOK, TaskType, Calls, Ids
    <3> QED BY <1>2, <2>2, <3>1, ProceedTypes DEF AttemptEnds
  <2> QED BY <2>1, <2>2
<1>3. CASE DeleteQodSession
  <2>1. ControlTypes' /\ TaskType'
    <3>1. PICK outcome \in DeleteOutcomes(session \in sessions) :
             IF attachment # 0
             THEN Proceed([task EXCEPT !.call = "detach", !.errors = outcome # "ok"])
             ELSE AttemptEnds(outcome # "ok")
      BY <1>3 DEF DeleteQodSession
    <3>2. [task EXCEPT !.call = "detach", !.errors = outcome # "ok"]
          \in [attempt : Nat, call : Calls, session : Ids', attachment : Ids', errors : BOOLEAN]
      BY <1>3 DEF DeleteQodSession, TypeOK, TaskType, Calls, Ids
    <3> QED BY <1>2, <1>3, <3>1, <3>2, ProceedTypes DEF DeleteQodSession
  <2>2. NetworkTypes'
    BY <1>3 DEF DeleteQodSession, TypeOK, NetworkTypes
  <2> QED BY <1>3, <2>1, <2>2, TypesKept DEF DeleteQodSession, TypeOK
<1>4. CASE DetachDevice
  <2>1. ControlTypes' /\ TaskType'
    BY <1>2, <1>4 DEF DetachDevice
  <2>2. NetworkTypes'
    BY <1>4 DEF DetachDevice, TypeOK, NetworkTypes
  <2> QED BY <1>4, <2>1, <2>2, TypesKept DEF DetachDevice, TypeOK
<1>5. CASE Released
  <2>1. ControlTypes' /\ TaskType'
    BY <1>0, <1>5, GoToTypes DEF Released, EmitThen, provider, Steps
  <2> QED BY <1>5, <2>1, TypesKept DEF Released, TypeOK, provider
<1> QED BY <1>3, <1>4, <1>5

LEMMA TypeSurroundings ==
    ASSUME TypeOK, AttemptDies \/ SessionExpires \/ WorkerRestarts
    PROVE  TypeOK'
<1>1. CASE AttemptDies
  <2>1. /\ ReleaseAttempts \in Nat /\ AllocateAttempts \in Nat
        /\ {"release", "failed"} \subseteq Awaits /\ issued' \in Nat
    BY <1>1, ConstantsAssumption
       DEF AttemptDies, provider, TypeOK, NetworkTypes, Awaits, Closed
  <2>2. ControlTypes' /\ TaskType'
    BY <1>1, <2>1, AttemptFailsTypes DEF AttemptDies
  <2> QED BY <1>1, <2>2, TypesKept DEF AttemptDies, TypeOK, provider
<1>2. CASE SessionExpires
  <2>1. NetworkTypes'
    BY <1>2 DEF SessionExpires, TypeOK, NetworkTypes
  <2> QED BY <1>2, <2>1, TypesKept DEF SessionExpires, TypeOK
<1>3. CASE WorkerRestarts
  <2>1. NetworkTypes'
    BY <1>3 DEF WorkerRestarts, TypeOK, NetworkTypes
  <2> QED BY <1>3, <2>1, TypesKept DEF WorkerRestarts, TypeOK
<1> QED BY <1>1, <1>2, <1>3

LEMMA TypeStep == TypeOK /\ [Next]_vars => TypeOK'
<1> SUFFICES ASSUME TypeOK, [Next]_vars PROVE TypeOK'
  OBVIOUS
<1>1. CASE Workflow
  BY <1>1, TypeDeciding, TypeAllocation, TypeMonitor, TypeRelease DEF Workflow
<1>2. CASE Signal \/ AttemptDies \/ SessionExpires \/ WorkerRestarts
  BY <1>2, TypeSignal, TypeSurroundings
<1>3. CASE UNCHANGED vars
  BY <1>3, TypesKept DEF vars, provider, TypeOK
<1> QED BY <1>1, <1>2, <1>3 DEF Next

\* Every variable keeps its type, for every size of the constants.
THEOREM TypeCorrect == Spec => []TypeOK
<1> QED BY TypeInit, TypeStep, PTL DEF Spec

---------------------------------------------------------------------------
(* Behaviour *)

Safe == Stages /\ ReleaseProgress /\ BudgetLeft /\ RoutineStops

\* Where the network is called next, the attempt is fresh.
FreshAt(p) ==
    /\ task'.attachment = 0 /\ task'.errors = FALSE
    /\ p = "release" => task'.call = "delete"
    /\ p = "escalate" => task'.call = "attach"
    /\ p = "allocate" => task'.call = "create"

LEMMA GoToFresh == ASSUME NEW p, GoTo(p) PROVE at' = p /\ FreshAt(p)
<1>1. CASE p \in DOMAIN FirstCall
  <2>1. task' = [attempt |-> 1, call |-> FirstCall[p], session |-> 0, attachment |-> 0,
                 errors |-> FALSE]
    BY <1>1 DEF GoTo, First, NoTask
  <2> QED BY <1>1, <2>1, FirstCalls DEF GoTo, FreshAt
<1>2. CASE p \notin DOMAIN FirstCall
  BY <1>2, FirstCalls DEF GoTo, NoTask, FreshAt
<1> QED BY <1>1, <1>2

LEMMA RaiseFresh ==
    ASSUME NEW p, Raise(p) PROVE at' = p /\ emitting' = "none" /\ failing' /\ FreshAt(p)
BY GoToFresh DEF Raise, Silently

LEMMA AttemptFailsFresh ==
    ASSUME NEW limit, NEW p, AttemptFails(limit, p), at \in DOMAIN FirstCall, emitting = "none"
    PROVE  /\ emitting' = "none" /\ FreshAt(at')
           /\ \/ at' = at /\ failing' = failing
              \/ at' = p /\ failing' = TRUE
<1>1. CASE task.attempt < limit
  <2>1. task' = [attempt |-> task.attempt + 1, call |-> FirstCall[at], session |-> 0,
                 attachment |-> 0, errors |-> FALSE]
    BY <1>1 DEF AttemptFails, First, NoTask
  <2> QED BY <1>1, <2>1, FirstCalls DEF AttemptFails, FreshAt
<1>2. CASE ~(task.attempt < limit)
  BY <1>2, GoToFresh DEF AttemptFails, Raise, Silently
<1> QED BY <1>1, <1>2

LEMMA MaxWaitPositive == MaxWait \in Nat /\ MaxWait > 0 /\ SuspendedMax \in Nat /\ SuspendedMax > 0
BY ConstantsAssumption DEF MaxWait

LEMMA SafeInit == Init => Safe
BY MaxWaitPositive DEF Init, Safe, Stages, ReleaseProgress, BudgetLeft, RoutineStops, Deciding,
                       Holding, Looping

\* Signals, recorded decisions, expiring sessions, a re-read slice id: none of
\* them moves the coroutine or adds anything at the provider.
LEMMA SafeElsewhere ==
    ASSUME Safe, Signal \/ Recorded \/ SessionExpires \/ WorkerRestarts \/ UNCHANGED vars
    PROVE  Safe'
<1>1. /\ UNCHANGED <<at, task, judged, held, loop, attachments>>
      /\ sessions' \subseteq sessions /\ emitting' \in {emitting, "none"}
  <2>1. CASE Signal
    BY <2>1 DEF Signal, OperationCompleted, OperationSuspended, OperationResumed,
                QodStatusChanged, CongestionUpdated, DeviceStatusChanged, control, provider
  <2>2. CASE Recorded
    BY <2>2 DEF Recorded, provider
  <2>3. CASE SessionExpires \/ WorkerRestarts
    BY <2>3 DEF SessionExpires, WorkerRestarts, control
  <2>4. CASE UNCHANGED vars
    BY <2>4 DEF vars, control, provider
  <2> QED BY <2>1, <2>2, <2>3, <2>4
<1>2. Stages' /\ BudgetLeft' /\ RoutineStops'
  BY <1>1 DEF Safe, Stages, BudgetLeft, RoutineStops, judged, held, loop
<1>3. ReleaseProgress'
  BY <1>1 DEF Safe, ReleaseProgress, held
<1> QED BY <1>2, <1>3 DEF Safe

LEMMA RoutineIsRefused ==
    ASSUME NEW reading, criticality = "LOW", NEW cfg
    PROVE  Decide(Undisturbed(reading), cfg) = "NONE"
BY DEF Decide, Undisturbed

LEMMA SafeDeciding ==
    ASSUME Safe,
           \/ CheckDeviceStatus \/ Refuse \/ QueryCongestion \/ GetPolicyConfig
           \/ Assess \/ DecideAllocation
    PROVE  Safe'
<1> USE DEF EmitThen, Silently, Raise
<1>1. /\ at \in Deciding \ {"allocate"} /\ UNCHANGED <<held, loop, provider>>
      /\ emitting' # "RELEASED"
  BY DEF CheckDeviceStatus, Refuse, QueryCongestion, GetPolicyConfig, Assess, DecideAllocation,
         At, Deciding
<1>2. at' \in Deciding \union Closed
  BY GoToFresh DEF CheckDeviceStatus, Refuse, QueryCongestion, GetPolicyConfig, Assess,
                   DecideAllocation, Deciding, Closed
<1>3. criticality' = "LOW" => at' \in {"decide", "done"}
  <2>1. CASE CheckDeviceStatus \/ Refuse \/ QueryCongestion \/ GetPolicyConfig
    BY <2>1 DEF CheckDeviceStatus, Refuse, QueryCongestion, GetPolicyConfig, At, judged, Safe,
                RoutineStops
  <2>2. CASE Assess
    BY <2>2, GoToFresh DEF Assess
  <2>3. CASE DecideAllocation
    BY <2>3, GoToFresh, RoutineIsRefused DEF DecideAllocation, judged
  <2> QED BY <2>1, <2>2, <2>3
<1>4. Stages'
  BY <1>1, <1>2 DEF Safe, Stages, held, provider, Deciding, Closed
<1>5. ReleaseProgress'
  BY <1>1, <1>2 DEF Safe, Stages, ReleaseProgress, held, provider, Deciding, Closed
<1>6. BudgetLeft'
  BY <1>1 DEF Safe, BudgetLeft, loop
<1>7. RoutineStops'
  BY <1>1, <1>3 DEF Safe, Stages, RoutineStops, provider
<1> QED BY <1>4, <1>5, <1>6, <1>7 DEF Safe

LEMMA SafeAllocating ==
    ASSUME Safe,
           \/ CreateQodSession \/ AttachWhileAllocating \/ UndoCreate
           \/ AttemptDies /\ at = "allocate"
    PROVE  Safe'
<1>1. at = "allocate" /\ UNCHANGED <<held, loop, judged>>
  BY DEF CreateQodSession, AttachWhileAllocating, UndoCreate, AttemptDies, At
<1>2. at' \in {"allocate", "failed"} /\ emitting' = "none"
  <2>1. CASE AttemptFails(AllocateAttempts, "failed")
    BY <1>1, <2>1, FirstCalls, AttemptFailsFresh
       DEF CreateQodSession, AttachWhileAllocating, UndoCreate, AttemptDies, At
  <2>2. CASE \E t : Proceed(t)
    BY <1>1, <2>2 DEF Proceed, CreateQodSession, AttachWhileAllocating, UndoCreate, AttemptDies, At
  <2> QED BY <1>1, <2>1, <2>2
          DEF CreateQodSession, AttachWhileAllocating, UndoCreate, AttemptDies
<1>3. Stages' /\ BudgetLeft' /\ RoutineStops'
  BY <1>1, <1>2 DEF Safe, Stages, BudgetLeft, RoutineStops, held, loop, judged, Deciding, Holding,
                    Looping
<1>4. ReleaseProgress'
  BY <1>1, <1>2 DEF Safe, ReleaseProgress
<1> QED BY <1>3, <1>4 DEF Safe

LEMMA SafeAllocated == ASSUME Safe, Allocated PROVE Safe'
<1>1. at = "allocate" /\ at' = "confirm" /\ emitting' = "ALLOCATED"
      /\ UNCHANGED <<waited, suspendedFor, judged>>
  BY GoToFresh DEF Allocated, EmitThen, At
<1>2. Stages' /\ ReleaseProgress' /\ RoutineStops'
  BY <1>1 DEF Safe, Stages, ReleaseProgress, RoutineStops, Deciding, judged
<1>3. BudgetLeft'
  BY <1>1 DEF Safe, BudgetLeft, Deciding
<1> QED BY <1>2, <1>3 DEF Safe

\* The steps taken while something is held.
Hold == \/ Confirmed \/ ConfirmTimesOut \/ PollQod \/ Monitor
        \/ AttemptDies /\ at = "escalate"

\* Where such a step leads, and when it lets go.
LEMMA HoldShape ==
    ASSUME TypeOK, Safe, Hold
    PROVE  /\ at \in Holding /\ at' \in Holding \union {"release"}
           /\ emitting' # "RELEASED" /\ UNCHANGED <<judged, sessions>>
           /\ at' = "release" => task'.call = "delete"
           /\ at' = "escalate" => attachment' = 0
           /\ at' \in Holding => waited' < MaxWait /\ suspendedFor' < SuspendedMax
           /\ at' \notin Holding => completed \/ failing' \/ BudgetUsed
<1> USE DEF EmitThen, Silently, At, Waiting
<1>0. /\ {"confirm", "poll", "monitor", "extend", "escalate"} \subseteq Holding
      /\ "release" \notin Holding
  BY DEF Holding, Looping
<1>1. CASE Confirmed \/ ConfirmTimesOut
  BY <1>0, <1>1, GoToFresh DEF Confirmed, ConfirmTimesOut, Safe, BudgetLeft, loop, provider
<1>2. CASE PollQod
  <2>1. /\ at = "poll" /\ UNCHANGED <<judged, held, loop, provider>>
        /\ \/ at' = "monitor" /\ emitting' = "QOS_STATUS_CHANGED"
           \/ at' = "release" /\ emitting' = "none" /\ failing' /\ task'.call = "delete"
    <3>1. CASE Raise("release")
      BY <1>2, <3>1, RaiseFresh DEF PollQod, FreshAt
    <3>2. CASE EmitThen("QOS_STATUS_CHANGED", "monitor")
      BY <1>2, <3>2, GoToFresh DEF PollQod
    <3> QED BY <1>2, <3>1, <3>2 DEF PollQod
  <2> QED BY <1>0, <2>1 DEF Safe, BudgetLeft, loop, provider
<1>3. CASE WakeCompleted
  BY <1>0, <1>3, GoToFresh DEF WakeCompleted, provider, FreshAt
<1>4. CASE WakeSuspended
  BY <1>0, <1>4, GoToFresh DEF WakeSuspended, Safe, BudgetLeft, provider, held
<1>5. CASE WakeResumed \/ WakeDeviceLost \/ WakeDeviceBack
  BY <1>0, <1>5, GoToFresh DEF WakeResumed, WakeDeviceLost, WakeDeviceBack, Safe, BudgetLeft,
                               provider
<1>6. CASE WakeCongestion
  BY <1>0, <1>6, GoToFresh DEF WakeCongestion, Safe, BudgetLeft, provider, held
<1>7. CASE WaitTimesOut
  <2>1. \/ /\ waited' < MaxWait /\ suspendedFor' < SuspendedMax
           /\ at' \in {"monitor", "extend"}
        \/ ~(waited' < MaxWait /\ suspendedFor' < SuspendedMax) /\ at' = "release"
    BY <1>7, GoToFresh DEF WaitTimesOut, LoopHead
  <2>2. suspended \in BOOLEAN /\ waited' \in Nat /\ suspendedFor' \in Nat
    BY <1>7, TypeMonitor DEF TypeOK, LoopTypes, SignalTypes, Monitor
  <2>3. waited < MaxWait /\ suspendedFor < SuspendedMax
    BY <1>0, <1>7 DEF WaitTimesOut, Safe, BudgetLeft
  <2>4. at' = "release" => BudgetUsed
    BY <1>7, <2>1, <2>2, <2>3, MaxWaitPositive DEF WaitTimesOut, BudgetUsed
  <2> QED BY <1>0, <1>7, <2>1, <2>4, GoToFresh DEF WaitTimesOut, provider, FreshAt
<1>8. CASE ExtendQod \/ SliceUnavailable
  <2>1. /\ at \in {"extend", "escalate"} /\ UNCHANGED <<judged, held, loop, provider>>
        /\ emitting' = "none"
        /\ \/ at' = "monitor"
           \/ at' = "release" /\ failing' /\ task'.call = "delete"
    BY <1>8, GoToFresh, RaiseFresh DEF ExtendQod, SliceUnavailable, FreshAt
  <2> QED BY <1>0, <2>1 DEF Safe, BudgetLeft, loop, provider
<1>9. CASE AttachWhileHeld \/ (AttemptDies /\ at = "escalate")
  <2>1. /\ at = "escalate" /\ emitting = "none" /\ UNCHANGED <<held, loop, judged, sessions>>
        /\ attachment = 0
    BY <1>9 DEF AttachWhileHeld, AttemptDies, provider, Safe, Stages
  <2>2. /\ emitting' = "none"
        /\ \/ at' = "escalate"
           \/ at' = "release" /\ failing' = TRUE /\ task'.call = "delete"
    <3>1. CASE AttemptFails(AllocateAttempts, "release")
      BY <2>1, <3>1, FirstCalls, AttemptFailsFresh DEF FreshAt
    <3>2. CASE \E t : Proceed(t)
      BY <2>1, <3>2 DEF Proceed
    <3> QED BY <1>9, <2>1, <3>1, <3>2 DEF AttachWhileHeld, AttemptDies
  <2> QED BY <1>0, <2>1, <2>2 DEF Safe, BudgetLeft, loop, held
<1>10. CASE Escalated
  BY <1>0, <1>10, GoToFresh DEF Escalated, Safe, BudgetLeft, provider, loop
<1> QED BY <1>1, <1>2, <1>3, <1>4, <1>5, <1>6, <1>7, <1>8, <1>9, <1>10 DEF Hold, Monitor

LEMMA SafeHold == ASSUME TypeOK, Safe, Hold PROVE Safe'
<1>0. Holding \intersect (Deciding \union Closed \union {"release"}) = {}
  BY DEF Holding, Looping, Deciding, Closed
<1>1. Stages'
  BY <1>0, HoldShape DEF Stages, Deciding
<1>2. ReleaseProgress'
  BY <1>0, HoldShape DEF ReleaseProgress, Closed
<1>3. BudgetLeft'
  BY <1>0, HoldShape DEF BudgetLeft, Deciding
<1>4. RoutineStops'
  BY <1>0, HoldShape DEF Safe, RoutineStops, judged, Deciding, Closed
<1> QED BY <1>1, <1>2, <1>3, <1>4 DEF Safe

LEMMA SafeRelease ==
    ASSUME TypeOK, Safe,
           \/ DeleteQodSession \/ DetachDevice
           \/ AttemptDies /\ at = "release"
    PROVE  Safe'
<1>1. at = "release" /\ emitting = "none" /\ UNCHANGED <<held, loop, judged>>
  BY DEF DeleteQodSession, DetachDevice, AttemptDies, At
<1>2. ASSUME NEW limit, AttemptFails(limit, "failed")
      PROVE  /\ at' \in {"release", "failed"} /\ emitting' = "none"
             /\ at' = "release" => task'.call = "delete"
  BY <1>1, <1>2, FirstCalls, AttemptFailsFresh DEF FreshAt
<1>3. ASSUME NEW t, Proceed(t)
      PROVE  at' = "release" /\ emitting' = "none" /\ task' = t
  BY <1>1, <1>3 DEF Proceed
<1>4. 0 \notin attachments /\ task \in [attempt : Nat, call : Calls, session : Ids,
                                        attachment : Ids, errors : BOOLEAN]
  BY DEF TypeOK, NetworkTypes, TaskType
<1>5. /\ at' \in {"release", "failed"} /\ emitting' = "none"
      /\ at' = "release" =>
            /\ task'.call \in {"delete", "detach", "report"}
            /\ task'.call = "detach" /\ ~task'.errors => session' \notin sessions'
            /\ task'.call = "report" => session' \notin sessions' /\ attachment' \notin attachments'
  <2>1. CASE DeleteQodSession
    <3>1. PICK outcome \in DeleteOutcomes(session \in sessions) :
             /\ sessions' = IF outcome = "rejected" THEN sessions ELSE sessions \ {session}
             /\ IF attachment # 0
                THEN Proceed([task EXCEPT !.call = "detach", !.errors = outcome # "ok"])
                ELSE AttemptEnds(outcome # "ok")
      BY <2>1 DEF DeleteQodSession
    <3>2. outcome = "ok" => session \notin sessions'
      BY <3>1
    <3>3. UNCHANGED attachments
      BY <2>1 DEF DeleteQodSession
    <3>4. CASE attachment # 0
      <4>1. task' = [task EXCEPT !.call = "detach", !.errors = outcome # "ok"]
        BY <1>3, <3>1, <3>4
      <4>2. task'.call = "detach" /\ task'.errors = (outcome # "ok")
        BY <1>4, <4>1
      <4> QED BY <1>1, <1>3, <3>1, <3>2, <3>4, <4>2 DEF held
    <3>5. CASE attachment = 0
      <4>1. CASE outcome = "ok"
        <5>1. Proceed([task EXCEPT !.call = "report"])
          BY <3>1, <3>5, <4>1 DEF AttemptEnds
        <5> QED BY <1>1, <1>3, <1>4, <3>2, <3>3, <3>5, <4>1, <5>1 DEF held
      <4>2. CASE outcome # "ok"
        BY <1>2, <3>1, <3>5, <4>2 DEF AttemptEnds
      <4> QED BY <4>1, <4>2
    <3> QED BY <3>4, <3>5
  <2>2. CASE DetachDevice
    <3>1. PICK outcome \in DeleteOutcomes(attachment \in attachments) :
             /\ attachments' = IF outcome = "rejected" THEN attachments
                                                       ELSE attachments \ {attachment}
             /\ AttemptEnds(task.errors \/ outcome # "ok")
      BY <2>2 DEF DetachDevice
    <3>2. UNCHANGED sessions /\ task.call = "detach"
      BY <2>2 DEF DetachDevice
    <3>3. CASE ~task.errors /\ outcome = "ok"
      <4>1. Proceed([task EXCEPT !.call = "report"])
        BY <3>1, <3>3 DEF AttemptEnds
      <4>2. session \notin sessions
        BY <1>1, <3>2, <3>3 DEF Safe, ReleaseProgress
      <4> QED BY <1>1, <1>3, <1>4, <3>1, <3>2, <3>3, <4>1, <4>2 DEF held
    <3>4. CASE task.errors \/ outcome # "ok"
      BY <1>2, <3>1, <3>4 DEF AttemptEnds
    <3> QED BY <3>3, <3>4
  <2>3. CASE AttemptDies /\ at = "release"
    BY <1>2, <2>3 DEF AttemptDies
  <2> QED BY <2>1, <2>2, <2>3
<1>6. Stages' /\ BudgetLeft'
  BY <1>5 DEF Stages, BudgetLeft, Deciding, Holding, Looping
<1>7. RoutineStops'
  BY <1>1 DEF Safe, RoutineStops, judged
<1>8. ReleaseProgress'
  BY <1>5 DEF ReleaseProgress
<1> QED BY <1>6, <1>7, <1>8 DEF Safe

LEMMA SafeReleased == ASSUME Safe, Released PROVE Safe'
<1>1. at = "release" /\ at' \in Closed /\ UNCHANGED <<held, judged, provider>>
      /\ session \notin sessions /\ attachment \notin attachments
  BY GoToFresh DEF Released, EmitThen, At, Closed, Safe, ReleaseProgress
<1>2. Stages' /\ BudgetLeft'
  BY <1>1 DEF Stages, BudgetLeft, Deciding, Holding, Looping, Closed
<1>3. ReleaseProgress'
  BY <1>1 DEF ReleaseProgress, held, provider, Closed
<1>4. RoutineStops'
  BY <1>1 DEF Safe, RoutineStops, judged
<1> QED BY <1>2, <1>3, <1>4 DEF Safe

LEMMA InductiveStep == Inductive /\ [Next]_vars => Inductive'
<1> SUFFICES ASSUME Inductive, [Next]_vars PROVE Inductive'
  OBVIOUS
<1>1. TypeOK /\ Safe
  BY DEF Inductive, Safe
<1>2. TypeOK'
  BY <1>1, TypeStep
<1>3. AttemptDies => at \in {"allocate", "escalate", "release"}
  BY FirstCalls DEF AttemptDies
<1>4. Safe'
  BY <1>1, <1>3, SafeElsewhere, SafeDeciding, SafeAllocating, SafeAllocated, SafeHold, SafeRelease,
     SafeReleased DEF Next, Workflow, Hold
<1> QED BY <1>2, <1>4 DEF Inductive, Safe

\* The inductive invariant, for every choice of faults and every size of the
\* constants.
THEOREM InductiveInvariant == Spec => []Inductive
<1>1. Init => Inductive
  BY TypeInit, SafeInit DEF Inductive, Safe
<1> QED BY <1>1, InductiveStep, PTL DEF Spec

\* What the trail reports as released is released at the network: release() may
\* have been retried any number of times, with either half done before.
THEOREM ReleaseIsReal == Spec => []ReleasedIsGone
<1>1. Inductive => ReleasedIsGone
  BY DEF Inductive, ReleaseProgress, ReleasedIsGone
<1> QED BY <1>1, InductiveInvariant, PTL

\* An operation judged LOW never occupies anything on the network.
THEOREM RoutineStaysFree == Spec => []RoutineHoldsNothing
<1>1. Inductive => RoutineHoldsNothing
  BY DEF Inductive, RoutineStops, RoutineHoldsNothing
<1> QED BY <1>1, InductiveInvariant, PTL

\* While something is held, the workflow is in its hold, or does not move.
LEMMA HoldingSteps ==
    ASSUME [Next]_vars, at \in Holding
    PROVE  Hold \/ UNCHANGED <<at, held, attachments>>
<1>1. at \notin Deciding \union Closed \union {"release"}
  BY DEF Holding, Looping, Deciding, Closed
<1>2. CASE Signal \/ Recorded \/ SessionExpires \/ WorkerRestarts \/ UNCHANGED vars
  BY <1>2 DEF Signal, OperationCompleted, OperationSuspended, OperationResumed,
     QodStatusChanged, CongestionUpdated, DeviceStatusChanged, Recorded, SessionExpires,
     WorkerRestarts, vars, control, provider
<1>3. ~ \/ CheckDeviceStatus \/ Refuse \/ QueryCongestion \/ GetPolicyConfig \/ Assess
        \/ DecideAllocation \/ CreateQodSession \/ AttachWhileAllocating \/ UndoCreate
        \/ Allocated \/ DeleteQodSession \/ DetachDevice \/ Released
  BY <1>1 DEF At, Deciding, CheckDeviceStatus, Refuse, QueryCongestion, GetPolicyConfig, Assess,
     DecideAllocation, CreateQodSession, AttachWhileAllocating, UndoCreate, Allocated,
     DeleteQodSession, DetachDevice, Released
<1>4. AttemptDies => at = "escalate"
  BY <1>1, FirstCalls DEF AttemptDies, Deciding
<1> QED BY <1>2, <1>3, <1>4 DEF Next, Workflow, Hold

\* What is held is let go for one of three reasons only, and the valve of a
\* running operation never ends a suspended one.
THEOREM HoldIsKept == Spec => HeldUntilOver
<1>1. ASSUME Inductive, [Next]_vars
      PROVE  [LetGo => completed \/ failing' \/ BudgetUsed]_vars
  <2>1. LetGo => at \in Holding /\ at' \notin Holding /\ at' # at
    BY DEF LetGo
  <2>2. TypeOK /\ Safe
    BY <1>1 DEF Inductive, Safe
  <2> QED BY <1>1, <2>1, <2>2, HoldingSteps, HoldShape
<1> QED BY <1>1, InductiveInvariant, PTL DEF Spec, HeldUntilOver

-----------------------------------------------------------------------------
(***************************************************************************)
(* Implementation of the lease                                             *)
(***************************************************************************)

Over == {"release"} \union Closed

\* Nothing attached is detached, and nothing known is forgotten, during the hold.
LEMMA HoldOnlyAdds ==
    ASSUME TypeOK, Safe, Hold, attachment \in attachments
    PROVE  attachment' \in attachments'
<1>1. attachment # 0
  BY DEF TypeOK, NetworkTypes
<1>2. CASE AttachWhileHeld
  BY <1>2 DEF AttachWhileHeld, held
<1>3. CASE Escalated
  BY <1>1, <1>3 DEF Escalated, At, Safe, Stages
<1>4. CASE \/ Confirmed \/ ConfirmTimesOut \/ PollQod \/ WakeCompleted \/ WakeSuspended
           \/ WakeResumed \/ WakeDeviceLost \/ WakeDeviceBack \/ WakeCongestion \/ WaitTimesOut
           \/ ExtendQod \/ SliceUnavailable \/ AttemptDies
  BY <1>4 DEF Confirmed, ConfirmTimesOut, PollQod, WakeCompleted, WakeSuspended, WakeResumed,
     WakeDeviceLost, WakeDeviceBack, WakeCongestion, WaitTimesOut, ExtendQod, SliceUnavailable,
     AttemptDies, held, provider
<1> QED BY <1>2, <1>3, <1>4 DEF Hold, Monitor

\* What is over stays over.
LEMMA OverStays == ASSUME [Next]_vars, at \in Over PROVE at' \in Over
<1>1. at \notin Deciding \union Holding
  BY DEF Over, Closed, Deciding, Holding, Looping
<1>2. CASE Signal \/ Recorded \/ SessionExpires \/ WorkerRestarts \/ UNCHANGED vars
  BY <1>2 DEF Signal, OperationCompleted, OperationSuspended, OperationResumed,
     QodStatusChanged, CongestionUpdated, DeviceStatusChanged, Recorded, SessionExpires,
     WorkerRestarts, vars, control
<1>3. CASE AttemptDies
  BY <1>1, <1>3, FirstCalls, AttemptFailsFresh DEF AttemptDies, Over, Closed, Deciding, Holding,
                                                   Looping
<1>4. CASE DeleteQodSession \/ DetachDevice
  <2>1. ASSUME NEW errors, AttemptEnds(errors), At("release")
        PROVE  at' \in Over
    <3>1. CASE AttemptFails(ReleaseAttempts, "failed")
      BY <2>1, <3>1, FirstCalls, AttemptFailsFresh DEF At, Over, Closed
    <3>2. CASE \E t : Proceed(t)
      BY <2>1, <3>2 DEF Proceed, At, Over
    <3> QED BY <2>1, <3>1, <3>2 DEF AttemptEnds
  <2> QED BY <1>4, <2>1 DEF DeleteQodSession, DetachDevice, Proceed, At, Over
<1>5. CASE Released
  BY <1>5, GoToFresh DEF Released, EmitThen, Over, Closed
<1>6. ~ \/ CheckDeviceStatus \/ Refuse \/ QueryCongestion \/ GetPolicyConfig \/ Assess
        \/ DecideAllocation \/ CreateQodSession \/ AttachWhileAllocating \/ UndoCreate
        \/ Allocated \/ Confirmed \/ ConfirmTimesOut \/ PollQod \/ Monitor
  BY <1>1 DEF At, Waiting, Deciding, Holding, Looping, CheckDeviceStatus, Refuse, QueryCongestion,
     GetPolicyConfig, Assess, DecideAllocation, CreateQodSession, AttachWhileAllocating,
     UndoCreate, Allocated, Confirmed, ConfirmTimesOut, PollQod, Monitor, WakeCompleted,
     WakeSuspended, WakeResumed, WakeDeviceLost, WakeDeviceBack, WakeCongestion, WaitTimesOut,
     ExtendQod, SliceUnavailable, AttachWhileHeld, Escalated
<1> QED BY <1>2, <1>3, <1>4, <1>5, <1>6 DEF Next, Workflow

LEMMA LeaseStep ==
    ASSUME Inductive, [Next]_vars, TypeOK' PROVE [Lease!Next]_(Lease!vars)
<1> USE DEF Lease!Next, Lease!vars, Lease!Grant, Lease!Refuse, Lease!Raise, Lease!GiveUp
<1>0. /\ at \in Deciding \union Holding \union Over
      /\ at' \in Deciding \union Holding \union Over
      /\ Deciding \intersect Holding = {} /\ Deciding \intersect Over = {}
      /\ Holding \intersect Over = {}
  BY DEF Inductive, TypeOK, ControlTypes, Awaits, Over, Deciding, Holding, Looping, Closed
<1>1. CASE at \in Deciding
  BY <1>0, <1>1
<1>2. CASE at \in Holding
  <2>1. TypeOK /\ Safe
    BY DEF Inductive, Safe
  <2>2. at' \in Holding \union Over
    BY <1>2, <2>1, HoldingSteps, HoldShape DEF Over
  <2>3. at' \in Holding /\ attachment \in attachments => attachment' \in attachments'
    BY <1>2, <2>1, HoldingSteps, HoldOnlyAdds DEF held
  <2> QED BY <1>0, <1>2, <2>2, <2>3
<1>3. CASE at \in Over
  BY <1>0, <1>3, OverStays
<1> QED BY <1>0, <1>1, <1>2, <1>3

\* The workflow, with every fault, implements the lease: granted at most once,
\* raised at most once and never lowered while it lasts, given up once.
THEOREM LeaseIsImplemented == Spec => ImplementsLease
<1>1. Init => Lease!Init
  BY DEF Init, Lease!Init, Deciding, Holding, Looping
<1>2. ASSUME Inductive, [Next]_vars PROVE [Lease!Next]_(Lease!vars)
  BY <1>2, LeaseStep, TypeStep DEF Inductive
<1> QED BY <1>1, <1>2, InductiveInvariant, PTL DEF Spec, ImplementsLease, Lease!Spec

-----------------------------------------------------------------------------
(***************************************************************************)
(* Nothing is leaked as long as no answer and no worker is lost            *)
(***************************************************************************)

LEMMA KnownInit == Init => Known
BY DEF Init, Known, NoTask

\* The outcomes left: a call takes effect and says so, or does neither.
LEMMA NoLossOutcomes == NoLoss => Outcomes \subseteq {"ok", "rejected"} /\ ~AttemptDies
BY DEF NoLoss, Outcomes, AttemptDies

LEMMA KnownAllocating ==
    ASSUME NoLoss, TypeOK, Safe, Known,
           CreateQodSession \/ AttachWhileAllocating \/ UndoCreate \/ Allocated
    PROVE  Known'
<1>1. /\ at = "allocate" /\ emitting = "none" /\ attachment = 0 /\ 0 \notin attachments
      /\ at \in DOMAIN FirstCall /\ issued \in Nat
      /\ task \in [attempt : Nat, call : Calls, session : Ids, attachment : Ids,
                   errors : BOOLEAN]
  BY FirstCalls DEF TypeOK, NetworkTypes, TaskType, Safe, Stages, CreateQodSession,
                    AttachWhileAllocating, UndoCreate, Allocated, At, Deciding
<1>2. task.call # "report" => task.attachment = 0 /\ attachments = {}
  BY <1>1 DEF Known
<1>3. ASSUME AttemptFails(AllocateAttempts, "failed")
      PROVE  at' \in {"allocate", "failed"} /\ task'.attachment = 0
  BY <1>1, <1>3, AttemptFailsFresh DEF FreshAt
<1>4. ASSUME NEW t, Proceed(t) PROVE at' = "allocate" /\ task' = t
  BY <1>1, <1>4 DEF Proceed
<1>5. CASE CreateQodSession
  <2>1. /\ at' \in {"allocate", "failed"} /\ task'.attachment = 0
    <3>1. CASE Proceed([task EXCEPT !.session = issued', !.call =
                           IF action = "QOD_AND_SLICE" /\ sliceReady THEN "attach" ELSE "report"])
      <4> DEFINE next == IF action = "QOD_AND_SLICE" /\ sliceReady THEN "attach" ELSE "report"
      <4>1. at' = "allocate" /\ task' = [task EXCEPT !.session = issued', !.call = next]
        BY <1>1, <3>1 DEF Proceed
      <4> HIDE DEF next
      <4>2. task'.attachment = task.attachment
        BY <1>1, <4>1
      <4>3. task.call = "create"
        BY <1>5 DEF CreateQodSession
      <4> QED BY <1>2, <4>1, <4>2, <4>3
    <3> QED BY <1>3, <1>5, <3>1 DEF CreateQodSession
  <2> QED BY <1>1, <1>2, <1>5, <2>1 DEF CreateQodSession, Known, held
<1>6. CASE AttachWhileAllocating
  <2>1. PICK outcome \in {"ok", "rejected"} :
           /\ IF outcome = "rejected"
              THEN UNCHANGED <<attachments, issued>>
              ELSE issued' = issued + 1 /\ attachments' = attachments \union {issued'}
           /\ IF outcome = "ok"
              THEN Proceed([task EXCEPT !.attachment = issued', !.call = "report"])
              ELSE Proceed([task EXCEPT !.call = "undo"])
    BY <1>6, NoLossOutcomes DEF AttachWhileAllocating
  <2>2. task.call = "attach" /\ UNCHANGED held
    BY <1>6 DEF AttachWhileAllocating
  <2>3. CASE outcome = "ok"
    <3>1. at' = "allocate" /\ task' = [task EXCEPT !.attachment = issued', !.call = "report"]
      BY <1>4, <2>1, <2>3
    <3>2. task'.attachment = issued' /\ task'.call = "report"
      BY <1>1, <3>1
    <3> QED BY <1>1, <1>2, <2>1, <2>2, <2>3, <3>1, <3>2 DEF Known, held
  <2>4. CASE outcome = "rejected"
    <3>1. at' = "allocate" /\ task' = [task EXCEPT !.call = "undo"]
      BY <1>4, <2>1, <2>4
    <3>2. task'.attachment = task.attachment
      BY <1>1, <3>1
    <3> QED BY <1>1, <1>2, <2>1, <2>2, <2>4, <3>1, <3>2 DEF Known, held
  <2> QED BY <2>1, <2>3, <2>4
<1>7. CASE UndoCreate
  BY <1>1, <1>2, <1>3, <1>7 DEF UndoCreate, Known, held
<1>8. CASE Allocated
  BY <1>1, <1>8, GoToFresh DEF Allocated, EmitThen, FreshAt, Known, provider
<1> QED BY <1>5, <1>6, <1>7, <1>8

LEMMA KnownHold == ASSUME NoLoss, TypeOK, Safe, Known, Hold PROVE Known'
<1>0. /\ at' # "allocate"
      /\ at' = "escalate" => attachment' = 0
  BY HoldShape DEF Holding, Looping
<1>1. CASE \/ Confirmed \/ ConfirmTimesOut \/ PollQod \/ WakeCompleted \/ WakeSuspended
           \/ WakeResumed \/ WakeDeviceLost \/ WakeDeviceBack \/ WakeCongestion \/ WaitTimesOut
           \/ ExtendQod \/ SliceUnavailable
  <2>1. UNCHANGED <<held, attachments>> /\ task.attachment = 0
    BY <1>1 DEF Confirmed, ConfirmTimesOut, PollQod, WakeCompleted, WakeSuspended, WakeResumed,
       WakeDeviceLost, WakeDeviceBack, WakeCongestion, WaitTimesOut, ExtendQod, SliceUnavailable,
       At, Waiting, provider, Known
  <2>2. task'.attachment = 0
    BY <1>1, GoToFresh, RaiseFresh DEF Confirmed, ConfirmTimesOut, PollQod, WakeCompleted,
       WakeSuspended, WakeResumed, WakeDeviceLost, WakeDeviceBack, WakeCongestion, WaitTimesOut,
       ExtendQod, SliceUnavailable, EmitThen, Silently, FreshAt
  <2> QED BY <1>0, <2>1, <2>2 DEF Known, held
<1>2. CASE AttachWhileHeld
  <2>1. /\ at = "escalate" /\ emitting = "none" /\ task.call = "attach" /\ UNCHANGED held
        /\ attachment = 0 /\ at \in DOMAIN FirstCall
    BY <1>2, FirstCalls DEF AttachWhileHeld, At, Safe, Stages
  <2>2. task.attachment = 0 /\ attachments = {}
    BY <2>1 DEF Known, TypeOK, NetworkTypes
  <2>3. PICK outcome \in {"ok", "rejected"} :
           /\ IF outcome = "rejected"
              THEN UNCHANGED <<attachments, issued>>
              ELSE issued' = issued + 1 /\ attachments' = attachments \union {issued'}
           /\ IF outcome = "ok"
              THEN Proceed([task EXCEPT !.attachment = issued', !.call = "report"])
              ELSE AttemptFails(AllocateAttempts, "release")
    BY <1>2, NoLossOutcomes DEF AttachWhileHeld
  <2>4. CASE outcome = "ok"
    <3>1. at' = "escalate" /\ task' = [task EXCEPT !.attachment = issued', !.call = "report"]
      BY <2>1, <2>3, <2>4 DEF Proceed
    <3>2. task'.attachment = issued' /\ task'.call = "report"
      BY <3>1 DEF TypeOK, TaskType
    <3> QED BY <2>1, <2>2, <2>3, <2>4, <3>1, <3>2 DEF Known, held
  <2>5. CASE outcome = "rejected"
    <3>1. AttemptFails(AllocateAttempts, "release") /\ UNCHANGED attachments
      BY <2>3, <2>5
    <3>2. task'.attachment = 0
      BY <2>1, <3>1, AttemptFailsFresh DEF FreshAt
    <3> QED BY <1>0, <2>1, <2>2, <3>1, <3>2 DEF Known, held
  <2> QED BY <2>3, <2>4, <2>5
<1>3. CASE Escalated
  <2>1. at = "escalate" /\ attachment' = task.attachment /\ UNCHANGED attachments
    BY <1>3 DEF Escalated, At, provider
  <2>2. at' = "monitor" /\ task'.attachment = 0
    BY <1>3, GoToFresh DEF Escalated, EmitThen, FreshAt
  <2> QED BY <2>1, <2>2 DEF Known, TypeOK, NetworkTypes
<1> QED BY <1>1, <1>2, <1>3, NoLossOutcomes DEF Hold, Monitor

LEMMA KnownRelease ==
    ASSUME TypeOK, Known, DeleteQodSession \/ DetachDevice \/ Released
    PROVE  Known'
<1>1. /\ at = "release" /\ emitting = "none" /\ UNCHANGED held
      /\ attachments' \subseteq attachments /\ at \in DOMAIN FirstCall
  BY FirstCalls DEF DeleteQodSession, DetachDevice, Released, At, provider
<1>2. task.attachment = 0 /\ task \in [attempt : Nat, call : Calls, session : Ids,
                                       attachment : Ids, errors : BOOLEAN]
  BY <1>1 DEF Known, TypeOK, TaskType
<1>3. ASSUME NEW errors, AttemptEnds(errors) PROVE at' \in Over /\ task'.attachment = 0
  <2>1. CASE errors
    BY <1>1, <1>3, <2>1, AttemptFailsFresh DEF AttemptEnds, FreshAt, Over, Closed
  <2>2. CASE ~errors
    BY <1>1, <1>2, <1>3, <2>2 DEF AttemptEnds, Proceed, Over
  <2> QED BY <2>1, <2>2
<1>4. at' \in Over /\ task'.attachment = 0
  <2>1. CASE DeleteQodSession
    <3>1. ASSUME NEW e, Proceed([task EXCEPT !.call = "detach", !.errors = e])
          PROVE  at' \in Over /\ task'.attachment = 0
      BY <1>1, <1>2, <3>1 DEF Proceed, Over
    <3> QED BY <1>3, <2>1, <3>1 DEF DeleteQodSession
  <2>2. CASE DetachDevice
    BY <1>3, <2>2 DEF DetachDevice
  <2>3. CASE Released
    BY <2>3, GoToFresh DEF Released, EmitThen, FreshAt, Over, Closed
  <2> QED BY <2>1, <2>2, <2>3
<1> QED BY <1>1, <1>2, <1>4 DEF Known, held, Over, Closed

LEMMA KnownStep == ASSUME NoLoss, Inductive, Known, [Next]_vars PROVE Known'
<1>0. TypeOK /\ Safe
  BY DEF Inductive, Safe
<1>1. CASE Signal \/ Recorded \/ SessionExpires \/ WorkerRestarts \/ UNCHANGED vars
  <2>1. UNCHANGED <<at, task, held, attachments>>
    BY <1>1 DEF Signal, OperationCompleted, OperationSuspended, OperationResumed,
       QodStatusChanged, CongestionUpdated, DeviceStatusChanged, Recorded, SessionExpires,
       WorkerRestarts, vars, control, provider
  <2> QED BY <2>1 DEF Known, held
<1>2. CASE \/ CheckDeviceStatus \/ Refuse \/ QueryCongestion \/ GetPolicyConfig \/ Assess
           \/ DecideAllocation
  <2>1. at \in Deciding \ {"allocate"} /\ UNCHANGED <<held, provider>>
    BY <1>2 DEF CheckDeviceStatus, Refuse, QueryCongestion, GetPolicyConfig, Assess,
       DecideAllocation, At, Deciding
  <2>2. task'.attachment = 0
    BY <1>2, GoToFresh, RaiseFresh DEF CheckDeviceStatus, Refuse, QueryCongestion,
       GetPolicyConfig, Assess, DecideAllocation, EmitThen, Silently, FreshAt
  <2> QED BY <1>0, <2>1, <2>2 DEF Known, Safe, Stages, held, provider
<1> QED BY <1>0, <1>1, <1>2, KnownAllocating, KnownHold, KnownRelease, NoLossOutcomes
        DEF Next, Workflow, Hold

\* A completed operation leaves no slice attachment behind, as long as no answer
\* and no worker is lost while one is being made.
THEOREM NothingIsLeaked == ASSUME NoLoss PROVE Spec => []NothingAttachedAfterwards
<1>1. Inductive /\ Known => NothingAttachedAfterwards
  BY DEF Inductive, TypeOK, NetworkTypes, ReleaseProgress, Known, NothingAttachedAfterwards
<1>2. Inductive /\ Known /\ [Next]_vars => Known'
  BY KnownStep
<1> QED BY <1>1, <1>2, KnownInit, InductiveInvariant, PTL DEF Spec

\* Under the same assumption the operation occupies the slice once at most.
THEOREM SliceIsAttachedOnce == ASSUME NoLoss PROVE Spec => []AttachedOnce
<1>1. ASSUME Inductive, Known PROVE AttachedOnce
  <2>1. PICK x : attachments \subseteq {x}
    BY <1>1 DEF Inductive, TypeOK, NetworkTypes, Known
  <2>2. IsFiniteSet({x}) /\ Cardinality({x}) = 1
    BY FS_Singleton
  <2>3. Cardinality(attachments) <= 1
    BY <2>1, <2>2, FS_Subset, FS_CardinalityType
  <2> QED BY <2>3 DEF AttachedOnce
<1>2. Inductive /\ Known /\ [Next]_vars => Known'
  BY KnownStep
<1> QED BY <1>1, <1>2, KnownInit, InductiveInvariant, PTL DEF Spec

=============================================================================
