------------------------------ MODULE Facility ------------------------------
(***************************************************************************)
(* One job of a facility's plan, as                                        *)
(* server/src/facility/facility-system.base.ts drives it: dispatched, moved *)
(* along its lifecycle by timers, paused at the gate for a decision,       *)
(* aborted, held and resumed by operators, and put back by a reset.  Jobs  *)
(* of a plan share nothing but the plan, so one stands for all.            *)
(*                                                                         *)
(* The server is a single event loop: code runs to its next await without  *)
(* interruption, and what it has read before the await may be stale after  *)
(* it.  An await is an entry in `dispatching`, `suspending`, `resuming` or *)
(* `gates`.                                                                *)
(*                                                                         *)
(* A reset replaces the job object.  Continuations and timers of the old   *)
(* object go on working on it, so the objects are kept apart: object j is  *)
(* the job of the j-th plan, and `plan` is the plan that requests find.    *)
(***************************************************************************)
EXTENDS Integers

CONSTANTS
    Last,           \* the lifecycle has positions 1..Last; Last is terminal
    Gate,           \* the position of gateState
    Failures,       \* what may fail: "call" (Temporal or the read model), "read"
    MaxRequests     \* bound on dispatches and resets together

ASSUME FacilityAssumption ==
    /\ Last \in Nat /\ Gate \in 1..(Last - 1)
    /\ Failures \subseteq {"call", "read"}
    /\ MaxRequests \in Nat \ {0}

VARIABLES
    serial,       \* the clients make no call on the job while another is unanswered
    plan,         \* the current plan
    jobs,         \* object -> [state, heldFrom, operation]
    timers,       \* pending transitions: [job, from]
    gates,        \* gate polls: [job, chain, asking, late]
    dispatching,  \* dispatch() awaits accept(): [job, operation]
    suspending,   \* suspend() awaits events.suspend(): [job, operation]
    resuming,     \* resume() awaits events.resume(): [job, to, told]
    issued,       \* operation ids minted
    operations    \* [started, decided, suspended, completed]: what the workflow of
                  \* the operation did and was told; completed: signalComplete() was
                  \* called, which nobody waits for

vars == <<serial, plan, jobs, timers, gates, dispatching, suspending, resuming, issued, operations>>

Objects    == 1..(MaxRequests + 1)
Operations == 1..MaxRequests

\* A chain of gate polls ends before the job can reach the gate again, so a job
\* has no more of them than it was dispatched times.
Chains      == 1..(MaxRequests + 1)
Polls(j, c) == {g \in gates : g.job = j /\ g.chain = c}

\* Lifecycle states are positions; the others are in no lifecycle.
Lifecycle == 1..Last
Ticks     == [job : Objects, from : Lifecycle]
QUEUED  == -1
ABORTED == -2
HELD    == -3
States  == Lifecycle \union {QUEUED, ABORTED, HELD}
Ended   == {Last, ABORTED}

isJobInFlight(state)   == state \notin {QUEUED} \union Ended
isLoadCommitted(state) == state = HELD \/ state > Gate

\* lifecycle[lifecycle.indexOf(state) + 1]: a state that is in no lifecycle is
\* followed by the first position.
Following(state) == IF state \in Lifecycle THEN state + 1 ELSE 1

Init ==
    /\ serial \in BOOLEAN
    /\ plan = 1
    /\ jobs = [j \in Objects |-> [state |-> QUEUED, heldFrom |-> 0, operation |-> 0]]
    /\ timers = {} /\ gates = {}
    /\ dispatching = {} /\ suspending = {} /\ resuming = {}
    /\ issued = 0
    /\ operations = [o \in Operations |-> [started |-> FALSE, decided |-> FALSE,
                                           suspended |-> FALSE, completed |-> FALSE]]

-----------------------------------------------------------------------------
\* A request on the job is waiting for its answer.
Unanswered(j) == \E c \in dispatching \union suspending \union resuming : c.job = j
MayCall       == serial => ~Unanswered(plan)
MayIssue      == issued + plan <= MaxRequests

\* A poll chain of its own for every visit to the gate.
NewGate(j) == [job |-> j, asking |-> TRUE, late |-> FALSE,
               chain |-> CHOOSE c \in Chains : \A g \in gates : g.job = j => g.chain # c]

\* signalComplete(), for a job that was dispatched.
Completed(operation) == IF operation = 0 THEN operations
                        ELSE [operations EXCEPT ![operation].completed = TRUE]

\* transition(): the new state, and what follows by itself from there.  pending
\* and polling are the timers and the polls that are left.
Enter(j, job, state, pending, polling) ==
    /\ jobs' = [jobs EXCEPT ![j] = [job EXCEPT !.state = state]]
    /\ gates' = IF state = Gate THEN polling \union {NewGate(j)} ELSE polling
    /\ timers' = IF state \in Lifecycle \ {Gate, Last}
                 THEN pending \union {[job |-> j, from |-> state]} ELSE pending
    /\ operations' = IF state \in Ended THEN Completed(job.operation) ELSE operations

-----------------------------------------------------------------------------
(***************************************************************************)
(* dispatch(): the state is tested, then accept() is awaited, which starts *)
(* the workflow and registers the operation; then the job is written.      *)
(***************************************************************************)

Dispatch ==
    /\ MayCall /\ MayIssue
    /\ jobs[plan].state = QUEUED
    /\ issued' = issued + 1
    /\ dispatching' = dispatching \union {[job |-> plan, operation |-> issued']}
    /\ UNCHANGED <<serial, plan, jobs, timers, gates, suspending, resuming, operations>>

WorkflowStarts ==
    \E d \in dispatching :
        /\ ~operations[d.operation].started
        /\ operations' = [operations EXCEPT ![d.operation].started = TRUE]
        /\ UNCHANGED <<serial, plan, jobs, timers, gates, dispatching, suspending, resuming, issued>>

Dispatched ==
    \E d \in dispatching :
        /\ operations[d.operation].started
        /\ dispatching' = dispatching \ {d}
        /\ Enter(d.job, [jobs[d.job] EXCEPT !.operation = d.operation], 1, timers, gates)
        /\ UNCHANGED <<serial, plan, suspending, resuming, issued>>

\* Temporal refuses the event, or the operation cannot be registered.
DispatchFails ==
    /\ "call" \in Failures
    /\ \E d \in dispatching : dispatching' = dispatching \ {d}
    /\ UNCHANGED <<serial, plan, jobs, timers, gates, suspending, resuming, issued, operations>>

-----------------------------------------------------------------------------
(***************************************************************************)
(* abort(), suspend(), resume(), reset()                                   *)
(***************************************************************************)

\* Mutant: an abort always gives the connectivity back, as it used to.
AbortReleasing ==
    /\ MayCall
    /\ isJobInFlight(jobs[plan].state)
    /\ Enter(plan, jobs[plan], ABORTED, timers, gates)
    /\ UNCHANGED <<serial, plan, dispatching, suspending, resuming, issued>>

\* Mutant: the state is replaced before it is remembered.
HoldForgetting(j) ==
    /\ Enter(j, [jobs[j] EXCEPT !.heldFrom = HELD], HELD, timers, gates)
    /\ suspending' = suspending \union
                     (IF jobs[j].operation = 0 THEN {}
                      ELSE {[job |-> j, operation |-> jobs[j].operation]})

\* The job stops where it is, and its workflow is told.
Hold(j) ==
    /\ Enter(j, [jobs[j] EXCEPT !.heldFrom = jobs[j].state], HELD, timers, gates)
    /\ suspending' = suspending \union
                     (IF jobs[j].operation = 0 THEN {}
                      ELSE {[job |-> j, operation |-> jobs[j].operation]})

\* abort(): a cancellation before the gate, a suspension after it.
Abort ==
    /\ MayCall
    /\ isJobInFlight(jobs[plan].state) /\ jobs[plan].state # HELD
    /\ IF isLoadCommitted(jobs[plan].state)
       THEN Hold(plan)
       ELSE Enter(plan, jobs[plan], ABORTED, timers, gates) /\ UNCHANGED suspending
    /\ UNCHANGED <<serial, plan, dispatching, resuming, issued>>

\* suspend(): a held job is left as it is.
Suspend ==
    /\ MayCall
    /\ isJobInFlight(jobs[plan].state) /\ isLoadCommitted(jobs[plan].state)
    /\ jobs[plan].state # HELD
    /\ Hold(plan)
    /\ UNCHANGED <<serial, plan, dispatching, resuming, issued>>

WorkflowSuspends ==
    \E c \in suspending :
        /\ operations' = [operations EXCEPT ![c.operation].suspended = TRUE]
        /\ suspending' = suspending \ {c}
        /\ UNCHANGED <<serial, plan, jobs, timers, gates, dispatching, resuming, issued>>

\* resume(): where to go back to is read before the await.
Resume ==
    /\ MayCall
    /\ jobs[plan].state = HELD
    /\ resuming' = resuming \union {[job |-> plan, to |-> jobs[plan].heldFrom,
                                     told |-> jobs[plan].operation = 0]}
    /\ UNCHANGED <<serial, plan, jobs, timers, gates, dispatching, suspending, issued, operations>>

WorkflowResumes ==
    \E r \in resuming :
        /\ ~r.told
        /\ operations' = [operations EXCEPT ![jobs[r.job].operation].suspended = FALSE]
        /\ resuming' = (resuming \ {r}) \union {[r EXCEPT !.told = TRUE]}
        /\ UNCHANGED <<serial, plan, jobs, timers, gates, dispatching, suspending, issued>>

\* Mutant: the job is put back without its sequence being continued.
ResumedStanding ==
    \E r \in resuming :
        /\ r.told
        /\ resuming' = resuming \ {r}
        /\ jobs' = [jobs EXCEPT ![r.job].state = r.to, ![r.job].heldFrom = 0]
        /\ UNCHANGED <<serial, plan, timers, gates, dispatching, suspending, issued, operations>>

\* Mutant: the job moves on while the workflow is still being told.
ResumedEarly ==
    \E r \in resuming :
        /\ resuming' = resuming \ {r}
        /\ Enter(r.job, [jobs[r.job] EXCEPT !.heldFrom = 0], r.to, timers, gates)
        /\ UNCHANGED <<serial, plan, dispatching, suspending, issued>>

Resumed ==
    \E r \in resuming :
        /\ r.told
        /\ resuming' = resuming \ {r}
        /\ Enter(r.job, [jobs[r.job] EXCEPT !.heldFrom = 0], r.to, timers, gates)
        /\ UNCHANGED <<serial, plan, dispatching, suspending, issued>>

\* The call fails, before or after it has reached the workflow: the request
\* fails and the job stays held.
ResumeFails ==
    /\ "call" \in Failures
    /\ \E r \in resuming : resuming' = resuming \ {r}
    /\ UNCHANGED <<serial, plan, jobs, timers, gates, dispatching, suspending, issued, operations>>

\* reset(): nothing is cancelled, only what requests find is replaced.
Reset ==
    /\ MayIssue
    /\ plan' = plan + 1
    /\ operations' = IF isJobInFlight(jobs[plan].state) THEN Completed(jobs[plan].operation)
                     ELSE operations
    /\ UNCHANGED <<serial, jobs, timers, gates, dispatching, suspending, resuming, issued>>

-----------------------------------------------------------------------------
(***************************************************************************)
(* Timers and the gate                                                     *)
(***************************************************************************)

\* Mutant: the timer does not look where the job has got to.
TimerFiresUnguarded(t) ==
    /\ t \in timers
    /\ Enter(t.job, jobs[t.job], Following(t.from), timers \ {t}, gates)
    /\ UNCHANGED <<serial, plan, dispatching, suspending, resuming, issued>>

\* A timer of a state the job has left abandons itself.  Two timers for the same
\* state of the same job are one entry: the second would find the state left.
TimerFires(t) ==
    /\ t \in timers
    /\ IF jobs[t.job].state = t.from
       THEN Enter(t.job, jobs[t.job], Following(t.from), timers \ {t}, gates)
       ELSE timers' = timers \ {t} /\ UNCHANGED <<jobs, gates, operations>>
    /\ UNCHANGED <<serial, plan, dispatching, suspending, resuming, issued>>

DeadlinePasses(j, c) ==
    \E g \in Polls(j, c) :
        /\ ~g.late
        /\ gates' = (gates \ {g}) \union {[g EXCEPT !.late = TRUE]}
        /\ UNCHANGED <<serial, plan, jobs, timers, dispatching, suspending, resuming, issued,
                       operations>>

\* poll(), up to the await of hasDecision().
PollGate(j, c) ==
    \E g \in Polls(j, c) :
        /\ ~g.asking
        /\ gates' = (gates \ {g}) \union
                    (IF jobs[j].state = Gate THEN {[g EXCEPT !.asking = TRUE]} ELSE {})
        /\ UNCHANGED <<serial, plan, jobs, timers, dispatching, suspending, resuming, issued,
                       operations>>

hasDecision(j) == jobs[j].operation # 0 /\ operations[jobs[j].operation].decided

\* The answer arrives: openGate() from wherever the job is by now, or the next
\* poll.
GateAnswered(j, c) ==
    \E g \in Polls(j, c) :
        /\ g.asking
        /\ LET open == hasDecision(j) \/ g.late IN
           IF open /\ Following(jobs[j].state) \in Lifecycle
           THEN Enter(j, jobs[j], Following(jobs[j].state), timers, gates \ {g})
           ELSE /\ gates' = (gates \ {g}) \union (IF open THEN {} ELSE {[g EXCEPT !.asking = FALSE]})
                /\ UNCHANGED <<jobs, timers, operations>>
        /\ UNCHANGED <<serial, plan, dispatching, suspending, resuming, issued>>

\* findByOperation() rejects: poll() rejects, and nobody schedules the next one.
GateReadFails(j, c) ==
    /\ "read" \in Failures
    /\ \E g \in Polls(j, c) : g.asking /\ gates' = gates \ {g}
    /\ UNCHANGED <<serial, plan, jobs, timers, dispatching, suspending, resuming, issued, operations>>

-----------------------------------------------------------------------------
\* The call that tells the workflow of the suspension fails.
SuspendFails ==
    /\ "call" \in Failures
    /\ \E c \in suspending : suspending' = suspending \ {c}
    /\ UNCHANGED <<serial, plan, jobs, timers, gates, dispatching, resuming, issued, operations>>

\* The agent records its decision.
Decided ==
    \E o \in Operations :
        /\ operations[o].started /\ ~operations[o].decided
        /\ operations' = [operations EXCEPT ![o].decided = TRUE]
        /\ UNCHANGED <<serial, plan, jobs, timers, gates, dispatching, suspending, resuming, issued>>

-----------------------------------------------------------------------------
Requests == Dispatch \/ Abort \/ Suspend \/ Resume \/ Reset
Answers  == \/ WorkflowStarts \/ Dispatched \/ DispatchFails
            \/ WorkflowResumes \/ Resumed \/ ResumeFails
            \/ WorkflowSuspends \/ SuspendFails
Gates    == \E j \in Objects, c \in Chains : \/ DeadlinePasses(j, c) \/ PollGate(j, c)
                                            \/ GateAnswered(j, c) \/ GateReadFails(j, c)

Next == Requests \/ Answers \/ Gates \/ Decided \/ \E t \in Ticks : TimerFires(t)

Spec == Init /\ [][Next]_vars

\* The event loop runs every callback whose timer is due and every continuation
\* whose promise has settled.  Nothing makes a client call, or the agent decide.
FairSpec ==
    /\ Spec
    /\ \A t \in Ticks : WF_vars(TimerFires(t))
    /\ \A j \in Objects, c \in Chains :
          /\ WF_vars(DeadlinePasses(j, c)) /\ WF_vars(PollGate(j, c))
          /\ WF_vars(GateAnswered(j, c) \/ GateReadFails(j, c))

-----------------------------------------------------------------------------
(***************************************************************************)
(* Properties                                                              *)
(***************************************************************************)

Job == [state : States, heldFrom : {0} \union Lifecycle, operation : {0} \union Operations]

\* Every variable keeps its type; what a job was held from is in its lifecycle.
TypeOK ==
    /\ serial \in BOOLEAN /\ plan \in Objects /\ issued \in {0} \union Operations
    /\ jobs \in [Objects -> Job]
    /\ timers \subseteq Ticks
    /\ gates \subseteq [job : Objects, chain : Chains, asking : BOOLEAN, late : BOOLEAN]
    /\ dispatching \subseteq [job : Objects, operation : Operations]
    /\ suspending \subseteq [job : Objects, operation : Operations]
    /\ resuming \subseteq [job : Objects, to : Lifecycle, told : BOOLEAN]
    /\ operations \in [Operations -> [started : BOOLEAN, decided : BOOLEAN,
                                      suspended : BOOLEAN, completed : BOOLEAN]]

\* When clients wait for their answers, a resume that comes back from its await
\* finds the job still held where it was when it was called.
ResumeFindsHalt ==
    serial => \A r \in resuming : jobs[r.job].state = HELD /\ jobs[r.job].heldFrom = r.to

\* "The workflow is told first: the valve should be counting again before the job
\* can reach its terminal state": a job that moves is not suspended for its workflow.
ToldBeforeMoving ==
    serial => \A j \in Objects : jobs[j].state \in Lifecycle /\ jobs[j].operation # 0 =>
                  ~operations[jobs[j].operation].suspended

\* Connectivity is given back only for a job that has finished, that was aborted
\* with nothing committed, or that a reset drops: never with a load in the air.
ReleasedOnlyWhenSafe ==
    [][\A j \in Objects : LET o == jobs'[j].operation IN
          o # 0 /\ operations'[o].completed /\ ~operations[o].completed =>
             \/ plan' # plan
             \/ jobs'[j].state = Last
             \/ jobs'[j].state = ABORTED /\ ~isLoadCommitted(jobs[j].state)]_vars

\* A job under way does not get stuck: it ends or somebody holds it, unless the
\* gate it waits at is not polled any more.
JobsEnd ==
    \A j \in Objects : jobs[j].state \in Lifecycle ~>
        \/ jobs[j].state \in Ended \union {HELD}
        \/ jobs[j].state = Gate /\ ~\E g \in gates : g.job = j

\* "The deadline always fires, so an agent that is down, slow or unreachable
\* delays work by at most the hold and can never prevent it"
\* (server/src/facility/facility-system.base.ts:321).
GateOpens == \A j \in Objects : jobs[j].state = Gate ~> jobs[j].state # Gate

\* "Aborting is a cancellation, the job is done"
\* (server/src/facility/facility-system.base.ts:140).
AbortIsFinal ==
    [][\A j \in Objects : jobs[j].state = ABORTED => jobs'[j].state = ABORTED]_vars
=============================================================================
