# FlowGuard: a TLA+ development

FlowGuard grants an operation (a crane lift, a drone sortie) guaranteed network
quality for as long as it is critical, and takes it back when it is over.  A
language model judges how critical the operation is, a pure function decides what
is allocated, a Temporal workflow allocates, monitors and releases, a NestJS server
carries business events in and decision records out, and a dashboard shows it live.
This directory models the parts of that system in which something can go wrong that a
test would hardly reach, checks them with TLC on small instances, and proves the most
important properties with TLAPS for every value of the constants.

Paths below are relative to the repository.  `agent/` stands for
`agent/src/flowguard_agent/`, `server/` for `server/src/`, `client/` for `client/src/`.


## 1. Inventory

### Agent (Python, Temporal worker)

| Component | State | Operations | Hard behaviours | What makes it correct |
|---|---|---|---|---|
| Allocation policy, `agent/policy/rules.py` | none | `decide()` | six ordered rules, rank thresholds, four configuration fields | grants exactly what somebody is entitled to; congestion alone never acts; graver never means weaker |
| Workflow, `agent/workflows/critical_operation.py` | signal fields, the allocation, the monitor loop's locals | `run`, six signals, `_confirm_qos_available`, `_monitor`, `_protect_suspended`, `_reassess_congestion`, `_release`, `_emit` | signals at every await, several at once; two time budgets; errors that unwind through `finally`; worker crashes; a session that runs out while signals restart the wait | what is allocated is released, once, and not before there is a reason; a halted load keeps and gets its connectivity; nothing is held for ever |
| Network activities, `agent/activities/network.py` | none between calls | reads, `allocate`, `escalate_to_slice`, `poll_qod`, `extend_qod`, `release` | a retried attempt repeats calls that already took effect; partial release | no resource without an owner; released means gone |
| Providers, `agent/network/*_provider.py` | sessions, attachments, the slice id found by `bootstrap()` | create, get, extend, delete, attach, detach | lost answers; deletes that are not idempotent (Nokia) against deletes that are (mock); sessions expire, attachments do not | - |
| Reasoning graph, `agent/graph/`, `agent/tools/`, `agent/activities/reasoning.py` | the graph state of one attempt of the assessment | classify, gather evidence, escalate, validate, route; three read tools | loops that need a bound; a verdict the network contradicts; attempts that go on after they were given up | ends within its bounds; no safety claim stands that the network contradicts or that nobody looked into |
| Emission and telemetry, `agent/activities/emit.py`, `agent/graph/trace_sink.py`, `agent/observability/` | the sink's counter and its off switch | post a decision record, post a trace event | retries after a lost answer; a sink that goes silent in the middle | never stops the workflow; what is watched live is what is recorded |
| Model client and prompts, `agent/llm/`, `agent/prompts/` | none | one completion | - | - |
| Worker, `agent/worker.py`, `agent/config.py` | none | start | restart in the middle of activities | - |

### Server (NestJS)

| Component | State | Operations | Hard behaviours | What makes it correct |
|---|---|---|---|---|
| Facility systems, `server/facility/` | plans of jobs, pending timers, gate polls (in memory) | `dispatch`, `abort`, `suspend`, `resume`, `reset`, timed transitions, the gate | state tested before an await and used after it; timers of jobs that were held or replaced; overlapping requests | connectivity is given back only when nothing is in the air; a held job stays held; a job does not get stuck |
| Event intake, `server/events/` | none | `accept`, `complete`, `suspend`, `resume` | the workflow starts before the row exists; a status is written after the signal it follows | the row reflects the execution |
| Orchestrator adapter, `server/temporal/` | none | start with conflict policy, signal | a re-submitted id; an execution that has closed | one running execution per operation |
| Decision log, `server/decision-log/` | append-only records | `record` | append and projection are two writes; duplicates; late records | no decision is discarded, told or counted twice; every one is projected |
| Operations read model, `server/operations/` | one row per operation | `register`, `apply`, `applyIfPresent`, the queries | writers of the same row race; a record in the middle of an operation is read as the one at its start | the status follows the decisions |
| Webhooks, `server/webhooks/` | none | relay QoD, device and congestion callbacks | callbacks before the row exists or after it ended, reordered, or overtaken by the answer of an activity | no level or status that matters is lost |
| Realtime gateway, `server/realtime/` | sockets and rooms | handshake, publish | a socket joins the room of the organization its session had at the handshake | a tab sees events of its own organization only |
| Reasoning trace relay, `server/decision-log/reasoning-trace.service.ts` | none | publish | nothing is kept for a page that opens later | - |
| Accounts and sessions, `server/auth/`, `server/admin/`, `server/users/` | users, organizations, sessions; a window of login attempts | login, me, open an organization, logout; create a user, assign it, create an organization | a session saved from what was read before another request changed it; assignments between the steps of a load | the tenant of a request is the one on the page; an assignment takes effect on the next load |
| Simulator, `server/simulator/` | pending timers | run a scenario | - | - |
| Metrics, health, configuration, database | - | reads | - | - |

### Dashboard (React) and deployment

| Component | State | Operations | Hard behaviours | What makes it correct |
|---|---|---|---|---|
| Live panels, `client/hooks/`, `client/api/` | what each panel fetched, merged with what is pushed | fetch, reload, merge a push, refetch after a while, run a command | a fetch and the pushes are not ordered with each other; pushes repeat what was fetched or are lost with the connection | a panel shows what a fresh load would show; a decision is listed once |
| Reasoning views, `client/features/live/`, `client/features/graph/` | the events of the run on the page | rows and graph from the live trace, and from the record | events lost, an attempt that failed, a page opened in the middle | live and recorded are the same lines |
| Session and shell, `client/auth/`, `client/components/layout/`, `client/pages/users.tsx` | the identity of the tab, its one socket, what is mounted, the list of accounts | sign in and out, switch organization, navigate, reload, administer | a socket closed under panels that listen on it; a list merged by hand | header, data, live events and session are of one organization |
| Rendering and demonstration, the rest of `client/` | animation only | - | - | - |

`deploy/` and `.github/` are shell, systemd and CI.

### How the parts interact

    facility -- accept / suspend / resume / complete --> event intake
    event intake -- start, signals --> workflow (through Temporal)
    network -- callbacks --> webhooks -- signals --> workflow
    workflow -- activities --> provider (create, attach, extend, delete, detach)
    workflow -- assess --> reasoning graph -- trace events --> relay --> dashboard
    workflow -- emit --> decision log --> read model --> realtime gateway --> dashboard
    facility gate -- reads --> decision log
    dashboard -- session --> every route; its organization is the tenant

Three loops close over these arrows.  The *connectivity loop*: a job is dispatched, a
workflow allocates, the job ends, the workflow releases.  The *gate loop*: the
workflow's DECIDED record opens the gate that the job waits at.  The *callback loop*:
what the workflow emits sets the row's status, and the row's status decides which
callbacks of the network reach the workflow.


## 2. Plan

In the order of importance.

| Module | What | Status |
|---|---|---|
| `Policy`, `MCPolicy`, `PolicyProofs` | `decide()` against an order-free entitlement | done, proved |
| `ConnectivityLease` | abstract specification: granted once, only ever raised, given up once | done |
| `CriticalOperation`, `CriticalOperationProofs` | the workflow with its activities and the provider; extends `Policy`, implements `ConnectivityLease` | done, safety proved |
| `Facility`, `FacilityProofs` | the life of a job | done, safety proved |
| `ReadModel`, `ReadModelProofs` | intake, decision log and row of one operation: accept and emission race, append and projection fail apart, attempts that go on after they were given up | done, safety proved |
| `QodSession`, `QodSessionProofs` | the session against the clock: duration, chunks, extensions, budgets, and the callbacks that the webhooks let through | done, safety proved |
| `Judgement` | abstract specification: a judgement within a bounded number of calls, or a failure | done |
| `Assessment`, `AssessmentProofs`, `ReasoningWatch` | the reasoning graph, its attempts and its trace; implements `Judgement`; the page that watches it | done, safety proved, the page included |
| `Accounts`, `AccountsProofs` | session, tab, socket and room; administration | done, safety proved |
| `Console`, `ConsoleProofs` | the seven live panels | done, safety proved |
| cancellation | cancellation of a workflow at each await, `_emit` and the assessment swallowing it | left, as a fault of `CriticalOperation` |
| composition | `Facility` with the signals of `CriticalOperation`: the load in the air and the connectivity it has | left |

Runs are few on purpose: each asks a question of its own, with bounds that keep it
under a minute or two.


## 3. The modules and the code

### Policy

`Decide(c, cfg)` is `decide()` with the conditions as one record and the outcome
reduced to the action.  `Entitled` and `EntitledToSlice` say without any order who
deserves protection; `AtLeastAsGrave` orders the conditions.  `MCPolicy` turns the
function into a behaviour: any conditions, any configuration, and each step changes
one condition.

### CriticalOperation

One execution of the workflow.  The coroutine gives way only at an await, so a
state of the model is a coroutine parked at an await, and an action is the code from
one await to the next.

* `at` is the await: `checkDevice`, `queryCongestion`, `policyConfig`, `assess`,
  `decide` (the `_emit` of the assessment is over), `allocate`, `confirm`, `poll`,
  `monitor`, `extend`, `escalate`, `release`, and `refuse`, `done`, `failed`.
* `_emit` is an await in front of all of these: `emitting` holds the step being
  recorded, and the coroutine goes on when it is recorded or given up (`Recorded`).
* The fields that signals write are `completed`, `suspended`, `congestion`,
  `deviceDown`, `qosStatus`.  `Signal` may happen at every await.
* `session` and `attachment` are the allocation dict: what the workflow *knows*.
  `sessions` and `attachments` are what is *live* at the provider.  The hazards live
  in the difference.
* `task` is the activity attempt in flight: which attempt, the provider call it is
  about to make, and what it has been handed and the workflow does not know yet.
  `allocate`, `escalate_to_slice` and `release` are therefore several actions each,
  and a crash or a lost answer can fall between any two calls.  `AttemptFails`
  retries from the first call, or raises the `ActivityError` when the attempts are
  used up.
* `known`, `waited`, `suspendedFor`, `wasSuspended`, `deviceLost` are the locals of
  `_monitor()`.  Its wake-ups are one action per branch (`WakeCompleted`,
  `WakeSuspended`, `WakeResumed`, `WakeDeviceLost`, `WakeDeviceBack`,
  `WakeCongestion`, `WaitTimesOut`), each with the negation of the earlier branches
  in its guard.
* `failing` is an error that unwinds; the `finally` block is `at = "release"`.

Outside the repository, and therefore assumed: signals of an activation are applied
before its timers, so a wait whose condition has become true does not time out; a
closed execution takes no signal; an attempt that dies is retried.

`Faults` selects what may go wrong: `rejected`, `lost`, `crash`, `expire`,
`bootstrap`.  `IdempotentDelete` is the difference between the two providers.

### ConnectivityLease

What the operation is promised.  `phase` goes from deciding to held to over, `level`
may only be raised while held.  In the refinement mapping of `CriticalOperation` the
level is read off the provider's *live* attachments, so an attachment that vanishes
while it is held would be a violation.

### QodSession

The same workflow against the clock, with everything that does not depend on time
folded away: the policy, what the slice does, and the wording of the entries.  `left` is
what the network counts down, `timer` what the coroutine waits for, and a tick takes one
off both; the code between two awaits takes no time (`Urgent`), an activity takes up to
`Latency`.
`callbacks` are QoD notifications on their way, in no order.  A webhook reaches the
workflow by the row of its operation: a status or device callback needs a row, a
congestion callback one that is not COMPLETED, so `row` is none, active or ended, and
`Halted`, `DeviceLeft` and `Reassessed` are what the trail of a wake makes of it.
`Returned` is the answer of `allocate` replacing the status a callback wrote before it;
`Poll` makes that good.  The poll is three steps, with time and callbacks between
them: it is sent (`Poll`), the activity reads the network (`Read`), and the answer is
assigned (`Polled`), over whatever a callback wrote in between.  Entries of the trail are
awaited, so they are phases with a timer like the other activities: ALLOCATED is
`announcing`, QOS_STATUS_CHANGED is `recording`, and what a wake awaits, an attached slice
and its entries, is `handling`.  `Land` is the entry reaching the row.  `Wake` begins a
whole new chunk and counts nothing of the one it interrupts, as the code does.

### Facility

One job.  A lifecycle state is its position in the lifecycle; QUEUED, ABORTED and
HELD are in no lifecycle, which matters because `lifecycle.indexOf(state) + 1` is 0
for them (`Following`).  The server is one event loop, so an action is the code
between two awaits: `Dispatch`, `WorkflowStarts`, `Dispatched` are `dispatch()` before,
in and after `accept()`; `Resume`, `WorkflowResumes`, `Resumed` likewise.  `Enter` is
`transition()`, with the timer, the gate or the completion signal it starts.  A reset
leaves the old object to its timers, so jobs are kept per plan.  `serial` says whether
the clients wait for an answer before they call again; both kinds are explored.

### ReadModel

One operation, from the server's side.  The row has three writers, each with an await
between two steps.  `Accept` and `Register` are `accept()` before and after the workflow
was started; `Complete` and `CompletionProjected` are `complete()`; `AppendRecord` and
`ProjectAndPush` are `record()`.  Requests in the server are `accepting`, `completing`
and `recording`.  The workflow is reduced to the order in which it emits (`Script`, read
off `run()`) and to one emission at a time; which attempt of it is awaited is `waiting`,
so a request in `recording` that is not the awaited one is a leftover.  A decision is
its position in `emitted`, which stands for `occurredAt`: it is `workflow.now()`, and an
activity lies between two emissions.  `AttemptFails` is both an answer that never comes
and the end of the agent's patience with a request that goes on.  In the middle of a
hold `Script` lets the workflow be decided again with NONE, which is what a load that
halts while its device is away gets.

### Assessment, Judgement, ReasoningWatch

`Assessment` is the activity `assess_criticality`.  `run[a]` is the graph state of
attempt `a`; `at` says in front of which node, inside which node, or between which tool
calls it is, so a failure can fall between any two of its awaits.  `Route` and
`Validated` are `route()` and `validate()`.  The model may answer anything and ask for
any tools; of its confidence only the comparison with the threshold is kept.  Every
start and end of a node or a tool call goes through `Emit`, the HTTP sink: it numbers
the event, posts it, and is silent for the rest of the attempt after one failure.
`TimeOut` is Temporal giving an attempt up, which goes on in the worker beside the next
one and numbers its events from 1 under the same run id; `stream` is what the page
keeps, told apart by that number.

`Judgement` is what the workflow is promised: at most three passes per attempt, a
bounded number of attempts, a judgement that does not contradict itself, or a failure.

`ReasoningWatch` is the page.  `RowsFromEvents` and `ViewFromLive` fold the live events,
`RowsFromRecord` and `ViewFromRecord` read the record, and `ReasoningWalk` is what the
decision graph draws of either.  Each of these is one loop of the page: `Folded` says what
such a loop has come to after each element, as a recursive function over the positions;
the community modules' `FoldLeft` recurses over the subsets of the positions, which does
not give the step from one event to the next that the proof takes.  `FoldRow`, `AddLine`, `AddCalls`, `FoldView` and `VisitLine` are the
bodies of the loops.

### Accounts

A browser has one `session` on the server.  A `tab` has what it holds itself: the
identity of its last answer, one socket, whether its panels listen on that socket, what
they fetched, and the users page.  A request in `calls` is sent, has read the session
(`Arrive`), has been answered (`Handle`, `Fetched`, `Listed`, `Managed`), and is then
applied by the tab (`Answer`): between reading the session and saving it, and between
the answer and its arrival, others may come.  `Render` is what React makes of a new
state: the content is keyed on the organization and mounts anew when that changes.
`Identified` closes the socket before it sets the identity.  `Handshake` joins the room
of the session's organization at that moment.

`Lost` loses the request before the server sees it, or the answer after the server has
done what it was asked; `Unanswered` is what the tab makes of either, which is the same,
because it cannot tell them apart.  Where the server did it and the tab does not know, the
two are apart: `astray` says that a switch ended so, `unheard` which accounts were created
or moved so.  Both are history, read by the properties alone.  One bound: a tab learns of
a loss only when the server is done with the call.

### Console

One panel, any of seven, over the operations of a tenant.  `View` is what the server
would answer to a fetch of that panel; `MergeActive`, `MergeHistory`, `MergeQueue`,
`MergeOperation`, `MergeRecords` and `MergeFeed` are the hooks' updates for a push, and
`Refresh` the debounced fetch of the metrics.  `Answered` replaces what the panel had.
A write is `unpublished` until its push goes out, then on the `wire`, which keeps its
order and loses everything with the connection.

There are two orders.  `log` is the order of writing; `occurred` has the same entries by
`occurredAt`, which the worker sets before it emits (`Dated`), so that emissions that cross
or are retried are written in another order.  The server sorts the trail and the feed by
`occurredAt`; the trail's hook sorts what is pushed in the same way, the feed's hook puts
it on top.  Two entries with the same `occurredAt` are not modelled.  An operation the
server does not know is answered with 404, which sets the panel's error.  Two histories
tell the properties what happened: `missed`, that a push was lost with the connection, or
to an answer older than it, and nothing was fetched since; `crossed`, that something was
not written in the order it occurred, or not pushed in the order it was written.


## 4. The runs

| Run | Question | Bounds |
|---|---|---|
| `policy` (MCPolicy.cfg) | Do the ordered rules grant exactly the entitlement, monotonically, and never because of congestion alone? | none: all 144 conditions and 36 configurations |
| `op_faults` (OpFaults.cfg) | Does anything get attached twice, left behind, withdrawn without a reason, or granted to routine work, when calls are refused and sessions expire? Is the lease implemented? | expected duration 2, valve 4, suspension budget 3, two attempts per activity, readings LOW and HIGH, non-idempotent deletes |
| `op_live` (OpLive.cfg) | When workers die, answers are lost and the slice is not ready: is what is reported released gone, does a completion end the execution, does silence, and does a halted load get its slice? | two attempts of `release` and one of the others, one reading, suspension budget 2, idempotent deletes |
| `qod_session` (QodSession.cfg) | Does a quiet hold ever lapse, is a hold bounded whatever arrives, is what a dead worker leaves behind reclaimed, is a congestion level or a status lost? | expected duration 2, valve 4, suspension budget 3, grace 7, confirmation 1, latency 1, three signals, one lost answer; 10.0 million states in about 100 s |
| `facility` (Facility.cfg) | Does a job stay held, go back where it was, tell its workflow first, release only when safe, and never get stuck? | four positions with the gate at the second, two dispatches and resets together, failing calls and reads |
| `read_model` (ReadModel.cfg) | Is a decision ever discarded, told twice or counted twice, and do decisions overtake each other on the way to the row? | two submitters, two executions, seven decisions, two attempts each, two requests at a time, two faults |
| `reasoning` (Reasoning.cfg) | Does the graph end within its bounds with a sound judgement, is the promise implemented, and is what was watched what is recorded? | two tools, one tool call, three passes, two attempts, two faults, a page opened before the first event or none |
| `accounts` (Accounts.cfg) | Do page, events and session agree, do the panels listen, do assignments take effect, is the users page current? | one administrator, two members, two organizations, one tab, one loss (a request, an answer or a connection), two changes of accounts; 1.0 million states |
| `console` (Console.cfg) | Does merging pushes into what was fetched give what a fresh fetch would? | each of the seven panels, two operations of two versions, limits 2, two fetches, one lost connection, entries written up to one place late; 5.2 million states in about 90 s |
| `op_stranded_crash` | README.md:45 against the code | expects a violation |
| `facility_revived` | facility-system.base.ts:140 against the code | expects a violation |
| `read_model_shut_early` | decision-log.service.ts:148 against the code | expects a violation |

**Why the bounds are enough.**

* *Workflow.*  The chunk is the expected duration, so the valve (twice that) takes two
  time-outs and the suspension budget one or two: every order of counting the two
  budgets occurs, and the final timeout overshoots the suspension budget as it does in
  the code.  Two attempts are the least with which a retry repeats a call and the least
  with which the last attempt differs from the first.  MEDIUM readings differ from HIGH
  ones only inside `Decide`, which `policy` covers alone.  Ids are bounded by the attempts
  and the wake-ups that attach.
* *Session.*  The grace is one tick more than the confirmation and the activities that a
  hold awaits up to the end of its budget take together; three signals are enough to halt, to report a level and to lose the
  device in one hold, or to wake the monitor in each of its chunks; one lost answer of an
  extension makes the retry extend twice.
* *Facility.*  The positions are one before the gate, the gate, one with the load
  committed, and the end; two requests out of dispatch and reset give an overlapping
  dispatch, a dispatch that comes back to a replaced plan, and a reset under a running job.
* *Read model.*  Seven decisions take an operation from its first check to its release, or
  a refused one to the end of its second execution; two faults are enough to give a
  decision up, or to leave a request behind and lose another.
* *Reasoning.*  One tool call out of two tools still has every verdict of the location
  tool, and none; three passes are the code's limit.  A post fails in the first attempt
  only, a timeout falls into the first pass, and an attempt nobody waits for gets the
  shortest answers: later ones change nothing that is read.  The proofs have none of these
  bounds except where `MayFail` and `Answers` name them.
* *Accounts.*  Two organizations and an administrator are the least that can disagree; of
  the two members one may not exist yet.  Two changes create an account and move it.  In
  this run a user waits for a call that changes something before going on (`Overlap` is
  empty): the buttons are busy one by one, and what happens without that assumption is
  in *Other counterexamples* below.
* *Console.*  Two operations make four decisions, and a limit of two pushes some off the
  feed; both operations fit on the page of the history (with a page of one its total goes
  wrong, see *Other counterexamples*).  A second fetch and one lost connection give a
  fetch after a loss.
  No order is assumed away: a fetch that was read before a push may arrive after it,
  pushes go out in any order, and entries are written after ones that occurred later
  (`MaxLate`: at most one of them).  `InStep` names the exceptions in its premise instead,
  by the histories `missed` and `crossed`.

`CHECK_DEADLOCK FALSE` is set where the system stops: a closed execution, a finished
job, a judged assessment, a log with nothing left to write.

**Fairness.**  `op_live` assumes weak fairness of the workflow's own steps and of
nothing else: no signal is ever required to arrive.  Temporal justifies it, since every
activity has a `start_to_close_timeout` and every wait in the code has a timeout, so some
activation always follows.  `SafetyValve` has the premise that signals stop, because the
code restarts its timer with every signal.  `facility` assumes that the event loop fires
every timer and runs every gate poll, each on its own, because Node runs all due
callbacks; no client call, no answer of Temporal and no decision of the agent is
required.  `reasoning` assumes weak fairness of each attempt's steps: the clients of
the model and of the provider have timeouts, and so has the activity.

**What the violations show.**

* `op_stranded_crash`: attach, crash, attach again; the first attachment has no owner
  and no duration.
* `facility_revived`: the gate awaits the decision log, the job is aborted, the answer
  opens the gate; ABORTED is in no lifecycle, so the job starts at the first position
  again, with a workflow that has been told to release.
* `read_model_shut_early`: the device leaves, the load halts, `decide()` answers NONE
  because the device is away, and the projection takes that record for the refusal it
  is at the start of an operation: the row says COMPLETED while session and slice are
  held, and congestion callbacks no longer reach the workflow.

**Other counterexamples.**  These configurations are not runs; each checks a stronger
statement that the code does not keep.  `tlc -config X.cfg M` reproduces it.

| Configuration | Module, property | What happens |
|---|---|---|
| OpRevoked.cfg | `CriticalOperation`, `SuspensionNeverReleases` | the call that should protect a halted load fails for good, and the error takes the `finally` block's way out: the session is deleted (critical_operation.py:130) |
| OpRefused.cfg | `CriticalOperation`, `SuspendedNotRefused` | `run()` asks `decide()` without `suspended`, so an early suspension does not count (rules.py:92) |
| QodLapses.cfg | `QodSession`, `GuaranteeHeld` | every wake restarts a whole chunk, so with signals in every chunk the session lapses before the next extension, which then fails and ends the workflow (critical_operation.py:426 "Hold the guarantee") |
| FacilityGateStuck.cfg | `Facility`, `GateOpens` | the gate's read rejects, nobody schedules the next poll, and the deadline is only looked at by the next poll (facility-system.base.ts:321) |
| ReadModelUnprojected.cfg | `ReadModel`, `AckedIsPushed` | append, rejected projection, retry, `duplicate: true`: the decision counts as recorded and was neither projected nor pushed (decision-log.service.ts:32) |
| ReasoningRetried.cfg | `ReasoningWatch`, `SameLines` | the events of two attempts share run id and numbers, and a tool that is called twice is joined by its name: the live lines are not those of the record (reasoning-stream.tsx) |
| AccountsOverlap.cfg | `Accounts`, `OneOrganizationOnThePage` | a second switch before the answer to the first: answers and saved sessions cross (app-shell.tsx).  Two tabs of one browser do the same |
| AccountsLost.cfg | `Accounts`, `OneOrganizationWhateverIsLost` | the server opens another organization and its answer is lost: the session is in the new one, the tab and its socket in the old one, and the next fetch shows the new one's data under the old name (auth-context.tsx:87) |
| ConsoleDropped.cfg | `Console`, `CaughtUp` | a push is lost with the connection, or to an older answer that arrives after it and replaces the list; nobody fetches again (status-band.tsx:38, use-resource.ts:57) |
| ConsoleLingers.cfg | `Console`, `InStepCrossed` | of two pushes of an operation the one that ends it arrives first; the older one puts it back among the active operations (use-operations.ts:29) |
| ConsoleCrossed.cfg | `Console`, `InStepCrossed` | two emissions cross: the feed has them in the order of arrival, a fresh load by `occurredAt` (use-decision-feed.ts:41, mongo-decision-log.repository.ts:85) |
| ConsolePage.cfg | `Console`, `TotalIsRight` | an operation that is not on the page of the history goes on: the hook takes it for a new one and adds one to the total, which the server had counted already (use-operations-history.ts:66) |


## 5. The proofs

All theorems hold for every value of the constants that satisfies the `ASSUME` of the
module (positive durations, budgets and attempts; any readings, tools and faults).

* **PolicyProofs.**  `EntitlementIsGranted`, `ProtectionIsMonotone` and
  `CongestionNeverTriggers`.  The argument: `DecideIsEntitlement` compares the ordered
  rules with the entitlement by cases, `EntitlementGrows` shows that entitlement only
  grows with the conditions, and the strength of an action is a function of the two
  entitlements.
* **CriticalOperationProofs.**  `TypeCorrect`: one lemma per group of actions, each
  showing that the parts of `TypeOK` the action touches are kept.  None of the safety
  properties is inductive: that the slice is attached once depends on where the coroutine
  may be when it asks for it.
  `Inductive` adds what the place says: nothing is live before `allocate`, the slice is
  only asked for when it is not held (`Stages`); an attempt of `release` that has got to
  its second call without an error has deleted the session (`ReleaseProgress`); both
  budgets have something left while anything is held (`BudgetLeft`); routine work never
  gets past the decision (`RoutineStops`).  From `InductiveInvariant` follow
  `ReleaseIsReal`, `RoutineStaysFree`, `HoldIsKept` and `LeaseIsImplemented`, under every
  choice of faults.
* `NothingIsLeaked` and `SliceIsAttachedOnce` have the premise `NoLoss`: no answer and
  no worker is lost.  Without it they are false, which is what `op_stranded_crash` shows.
  Their extra invariant, `Known`, says that every live attachment is known to the
  workflow or to the attempt that is about to report it.
* **ReadModelProofs.**  `TypeCorrect`, and for every fault `NothingIsDiscarded`,
  `DashboardIsToldOnce` and `OperationIsCountedOnce`.  That a decision is told once is not
  inductive; `Tracked` adds that a request about to tell it is the only such request and
  has not told it yet.  `RowFollowsDecisions` rests on `InStep`: without faults at most one
  request is in the server, it is the awaited one, and the row shows the decision before.
* **AssessmentProofs.**  For any tools, limits, number of attempts and faults.  `Sound`,
  whose invariance is `SoundAlways`, says of every attempt, judged or not, what its place
  means (`Tidy`): in front of a pass it has one reason more than passes made; it gathers
  and escalates at most once; once enriched, the evidence is in its trace; and a safety
  claim that comes to `validate` was made after the evidence.  `Judged` carries that over
  to the judgement, which is the latest attempt's.  From it follow `TypeCorrect`,
  `PassesBounded` (three passes, whatever `MaxAttempts` is), `ContradictionIsHeeded`,
  `SafetyWasLookedInto`, and `PromiseIsKept`: the safety part of `ImplementsJudgement`,
  the refinement by steps.
* **AssessmentProofs, the page.**  `WatchedIsRecorded` states `LiveIsTheRecord` for traces
  of any length.  Three things make it a proof.
  *The loops.*  That a loop over a sequence is defined, and that one more element is one
  more turn of its body, is an induction.  The library's induction theorems take an
  operator and cannot be used; but a set of naturals has a least element (`LeastElement`,
  from the well-foundedness of `<`), and `UpTo` says the same of the set of the numbers an
  argument has reached.  From it follow `LoopExists` and `LoopGoesOn`, and for each loop
  its three laws: what it makes of nothing, that its result has its type, and what it
  makes of one element more (`EventAppend`, `LineAppend`, `VisitAppend`, `ViewAppend`,
  `DoneAppend`, `CalledAppend`).
  *The invariant.*  `Followed` says it for an attempt that is still under way.  While the
  first attempt is the only one (`Alone`): the events kept are told apart by their numbers
  (`Numbered`); a page that has them all shows the record so far plus the node under way,
  with the tools that answered and the one that was asked (`ShownBy`); and the rows of
  the record so far do not depend on the calls before the evidence is in, and list exactly
  them afterwards (`Written`).  It needs `Written` because the live calls grow one by one
  while the record's tool lines are all written when the gatherer returns
  (`GatheredShown`, `ToolsFillTheRow`), joined by name with the calls, which is where
  `NoToolTwice` is used.  `FollowedAlways` is its invariance: one lemma for what the page
  makes of each step (`EnterShown`, `CallShown`, `ReturnShown`, `GatheredShown`,
  `LeaveShown`), and one for `Emit`, which may lose the event (`EmitShown`).
  *The order.*  The page sorts what it keeps by number; that the event with number i stands
  at place i, and the next one last, is a bijection with `1..n` (`PlacedBySeq`,
  `NextEvent`).
* **FacilityProofs.**  `IInv` has five parts.  `Counted` bounds the poll chains by the
  dispatches there were, which is why a visit to the gate always finds a number for its
  chain; `Halts` says which states a hold can come from; `Owned` that an operation belongs
  to one job.  `Serial` is what holds when clients wait for their answers: one call on a job
  at a time (`OneCall`), which finds the job as it left it (`Still`), and one poll chain
  per visit (`OnePoll`).  From it follow `HaltIsFound` and `ToldFirst`.  `ReleaseIsSafe`
  is about steps and holds for every interleaving, overlapping calls, resets and failures
  included.
* **QodSessionProofs.**  Each property has a strengthening of its own.  `LevelsAreNotMissed`
  rests on `Levelled`: what is undecided differs from what is known, and nothing is
  undecided before there is an allocation.  `HoldBounded` rests on `Budget`: what was waited
  is a whole number of chunks, and `held` exceeds it by no more than a chunk and what the
  wakes account for.  `LeftSoonReclaimed` rests on `Reclaimed`.
  `ShownIsCurrent` rests on `Asks`: what a poll has read is REQUESTED only if the network had
  not answered when it was sent.
  `HeldUntilWoken` has the premise `Timely`: `Margin`, the first duration and its grace less
  a chunk, the confirmation and `Multiplier + 3` activities, is positive.  The activities
  are ALLOCATED on the trail, the poll, QOS_STATUS_CHANGED, what is left of `allocate`, and
  the extensions the budget has room for.  With the code's 60 s, 10 s and factor 4, and an
  operation of at least 30 s, that is seven activities in 50 s: each has to answer within
  about 7 s, retries included.  The code does not ensure it: an emission alone may take
  15 s three times before it is given up, so a server that hangs can cost a quiet operation
  its session.  `Extended` shows why the budget comes in: an extension adds exactly the
  chunk that passed, and the activity that extends takes its time out of the grace.  The
  premise is no stronger than it has to be in the run: with `Grace` one less than in
  `QodSession.cfg`, TLC lets a quiet session lapse.
* **AccountsProofs.**  `AssignmentTakesEffect` holds for any tabs and any overlap.  Its
  invariant, `Assigned`, follows the organization of a member from the account to the
  page: whoever is named, in the session or in an answer, has an account; what a request
  read for a member, and the session and the tab, name the account's organization unless it was
  moved since the tab was loaded.  `PageIsOfOneOrganization` and `PanelsStayLive` have the
  premise `Awaited`: one tab, whose switches and sign-outs are waited for, while requests
  and answers are lost, connections drop, the tab is reloaded at any moment and admins change what they
  like.  Without it both are false (*Other counterexamples* in section 4).  Their invariant,
  `Placed`, says that a tab is in one of three situations (asking who is signed in, at the
  sign-in page, or in the dashboard), which calls there can then be, and what their
  answers carry.  `RosterStaysCurrent` has the premise `Alone`: one tab, in which opening
  the page, creating, assigning and signing out are waited for.  Its invariant, `Roster`,
  says that what the page lists and what the server has differ by exactly what has been
  answered and not been seen yet, and by the accounts in `unheard`.  The exceptions are in
  the properties and not in the premises: `astray` and `unheard` are set by a lost answer
  alone, and are gone when the tab hears again who is signed in where, or leaves the users
  page; without the first TLC finds `AccountsLost.cfg`.
* **ConsoleProofs.**  `ListedOnce` holds for every order and every loss; its invariant,
  `Tidy`, says that neither a panel nor an answer under way repeats what it lists.
  `PanelsStayInStep` has one premise, `OnOnePage`: the page of the history holds every
  operation, without which TLC finds `ConsolePage.cfg`.  What `InStep` itself excepts is
  needed as well (`ConsoleDropped.cfg`, `ConsoleLingers.cfg`, `ConsoleCrossed.cfg`).  The
  invariant, `KeepsPace`, has these parts.  `Channel`: while nothing crossed, pushes are on
  the wire in the order of their numbers.  `Following`, while nothing was missed, and
  nothing crossed but for the panels that sort: with the positions S of the log still to
  come, what the list shows is the log without S (`Shows`); an answer under way shows the
  log as it was read, and of what was written since nothing has been received yet; the
  answer of a command is an entry of the log.  `MetricsFollow`: the metrics are about to be
  fetched again or are up to date.  `InTheirTime`: the list and the answer of the records
  are in the order of `occurredAt`, whatever crosses and is lost.  With nothing to come, one
  list only shows the log, and a fresh load gives that list (`SettledSame`).  `Console`
  selects by position (`At`, `Kept`) and not by a recursive walk over the sequence, so that
  none of this needs an induction over data.

Only model-checked: all liveness (`CompletionEnds`, `SafetyValve`, `SuspendedGetsSlice`,
`JobsEnd`, and the liveness of `ImplementsJudgement`), because the prover does not reason
about fairness.  Every safety invariant and every action property that a passing run
checks is stated by a theorem.


## 6. Not modelled

* Cancellation and termination of a workflow, and the query `get_state`.
* What the model answers and why: `Assessment` takes any answer, `CriticalOperation` any
  judgement, including the substitute set by `POLICY_FAIL_OPEN`.
* The columns of the row other than its status.  The facility's gate sees the decision
  log only as "decided or not, or the read fails".
* In `ReadModel`: the statuses RELEASING and PENDING, once written late, stay; the model
  has the behaviour, and `RowIsCurrent` exempts them.  No document of the repository says
  what such a row should show.
* In `Accounts`: the login throttle (`server/auth/login-rate-limiter.ts`,
  `login-throttle.guard.ts`, a counter per address and window in one process), passwords,
  the first administrator created at start, the expiry of a session.
* In `Console`: resetting the plan (`FACILITY_PLAN_RESET`).
* The sentences of the dashboard: operation summary, decision trail, analysis, holdings.
  They are pure functions of the records, and no other part reads them; where one of them
  can mislead it is listed among the hazards in `PROJECT.json`.
* Rendering, the scripted demonstration with its recording, drawings and camera, the
  simulator's scenarios (which call the event intake as the facility does), DTOs and type
  declarations, configuration, wire formats of the provider, prompts, telemetry, seeding
  and deployment.  These make up most of the repository's lines, the client alone more than half,
  and they hold no state that another part depends on: this is why the modules cover the
  agent, the server's services and the client's hooks, and a small share of all lines.
* In `CriticalOperation`: the result of a device or congestion read is any value; a
  read activity is one step that returns or fails after all its attempts; the mock
  provider's memory is not lost with its worker.
