--------------------------- MODULE FacilityProofs ---------------------------
(***************************************************************************)
(* What holds of a job's life whatever the lifecycle, the position of its  *)
(* gate, the number of requests and the failures.                          *)
(***************************************************************************)
EXTENDS Facility, FiniteSetTheorems, TLAPS

Poll == [job : Objects, chain : Chains, asking : BOOLEAN, late : BOOLEAN]

-----------------------------------------------------------------------------
(***************************************************************************)
(* The inductive invariants                                                *)
(***************************************************************************)

PollsOf(j)    == {g \in gates : g.job = j}
BeforeGate(s) == IF s \in Lifecycle /\ s < Gate THEN 1 ELSE 0

\* A poll chain is begun by a job that comes from before the gate, and a job is put
\* there by a dispatch, or by the end of another chain: chains are bounded by dispatches.
Counted ==
    /\ IsFiniteSet(gates) /\ IsFiniteSet(dispatching)
    /\ issued + plan <= MaxRequests + 1
    /\ \A j \in Objects :
          Cardinality(PollsOf(j)) + BeforeGate(jobs[j].state) + Cardinality(dispatching) <= issued

\* A job is held behind the gate only, and neither the gate nor the end has a timer.
Halts ==
    /\ \A j \in Objects : jobs[j].state = HELD => jobs[j].heldFrom > Gate
    /\ \A r \in resuming : r.to > Gate
    /\ \A t \in timers : t.from \notin {Gate, Last}

\* An operation is dispatched for one job, once.
Owned ==
    /\ \A d \in dispatching : d.operation <= issued /\ \A j \in Objects : jobs[j].operation # d.operation
    /\ \A d, e \in dispatching : d.operation = e.operation => d = e
    /\ \A j \in Objects : jobs[j].operation <= issued
    /\ \A j, k \in Objects : jobs[j].operation = jobs[k].operation /\ jobs[j].operation # 0 => j = k

\* The parts that hold when clients wait for their answers.  One call on a job at a time:
OneCall ==
    /\ \A d, e \in dispatching : d.job = e.job => d = e
    /\ \A c, e \in suspending  : c.job = e.job => c = e
    /\ \A r, e \in resuming    : r.job = e.job => r = e
    /\ \A d \in dispatching, c \in suspending : d.job # c.job
    /\ \A d \in dispatching, r \in resuming   : d.job # r.job
    /\ \A c \in suspending,  r \in resuming   : c.job # r.job

\* The job stays where it was when it was called,
Still ==
    /\ \A d \in dispatching : jobs[d.job].state = QUEUED
    /\ \A c \in suspending  : jobs[c.job].state = HELD /\ jobs[c.job].operation = c.operation
    /\ \A r \in resuming :
          /\ jobs[r.job].state = HELD /\ jobs[r.job].heldFrom = r.to
          /\ r.told /\ jobs[r.job].operation # 0 => ~operations[jobs[r.job].operation].suspended

\* the gate is polled once, and only while the job waits there or has been aborted,
OnePoll ==
    \A g \in gates : /\ jobs[g.job].state \in {Gate, ABORTED}
                     /\ \A h \in gates : g.job = h.job => g = h

\* and a workflow is suspended only for a job that is held.
SuspendedIsHeld ==
    /\ \A j \in Objects : jobs[j].operation # 0 /\ operations[jobs[j].operation].suspended
                             => jobs[j].state = HELD
    /\ \A d \in dispatching : ~operations[d.operation].suspended
    /\ \A o \in Operations : o > issued => ~operations[o].suspended

Serial == serial => OneCall /\ Still /\ OnePoll /\ SuspendedIsHeld

IInv == TypeOK /\ Counted /\ Halts /\ Owned /\ Serial

-----------------------------------------------------------------------------
(***************************************************************************)
(* transition()                                                            *)
(***************************************************************************)

LEMMA Positions == /\ Gate \in Lifecycle /\ Last \in Lifecycle /\ 1 \in Lifecycle /\ 1 # Last
                   /\ Gate < Last /\ Lifecycle \subseteq Nat
                   /\ QUEUED \notin Lifecycle /\ ABORTED \notin Lifecycle /\ HELD \notin Lifecycle
                   /\ QUEUED # ABORTED /\ QUEUED # HELD /\ ABORTED # HELD
                   /\ \A s \in States : Following(s) \in Int /\ (s # Last => Following(s) \in Lifecycle)
BY FacilityAssumption DEF Lifecycle, QUEUED, ABORTED, HELD, States, Following

\* There is always a chain that a new visit to the gate can have for itself.
LEMMA FreeChain ==
    ASSUME TypeOK, Counted, NEW j \in Objects
    PROVE  NewGate(j) \in Poll /\ \A g \in gates : g.job = j => g.chain # NewGate(j).chain
<1>1. Chains = 1..(MaxRequests + 1) /\ MaxRequests + 1 \in Nat
  BY FacilityAssumption DEF Chains
<1>2. IsFiniteSet(Chains) /\ Cardinality(Chains) = MaxRequests + 1
  BY <1>1, FS_Interval
<1>3. IsFiniteSet(PollsOf(j)) /\ Cardinality(PollsOf(j)) \in Nat
  BY FS_Subset, FS_CardinalityType DEF Counted, PollsOf
<1>4. Cardinality(PollsOf(j)) <= MaxRequests
  <2>1. Cardinality(dispatching) \in Nat /\ plan \in Nat /\ plan >= 1 /\ issued \in Nat
    BY FS_CardinalityType, FacilityAssumption DEF Counted, TypeOK, Objects, Operations
  <2>2. BeforeGate(jobs[j].state) \in Nat
    BY DEF BeforeGate
  <2>3. /\ Cardinality(PollsOf(j)) + BeforeGate(jobs[j].state) + Cardinality(dispatching) <= issued
        /\ issued + plan <= MaxRequests + 1
    BY DEF Counted
  <2> QED BY <2>1, <2>2, <2>3, <1>3, FacilityAssumption
<1>5. \E c \in Chains : \A g \in gates : g.job = j => g.chain # c
  <2> SUFFICES ASSUME \A c \in Chains : \E g \in gates : g.job = j /\ g.chain = c
               PROVE  FALSE
    OBVIOUS
  <2> DEFINE h == [c \in Chains |-> CHOOSE g \in PollsOf(j) : g.chain = c]
  <2>1. \A c \in Chains : h[c] \in PollsOf(j) /\ h[c].chain = c
    BY DEF PollsOf
  <2>2. h \in Injection(Chains, PollsOf(j))
    BY <2>1 DEF Injection, IsInjective
  <2>3. Cardinality(Chains) <= Cardinality(PollsOf(j))
    BY <2>2, <1>3, FS_Injection
  <2> QED BY <2>3, <1>2, <1>3, <1>4, FacilityAssumption
<1> QED BY <1>5 DEF NewGate, Poll

\* One more element is at most one more.
LEMMA OneMore ==
    ASSUME NEW S, NEW x, IsFiniteSet(S)
    PROVE  /\ IsFiniteSet(S \union {x})
           /\ Cardinality(S \union {x}) \in Nat /\ Cardinality(S) \in Nat
           /\ Cardinality(S \union {x}) <= Cardinality(S) + 1
<1>1. /\ IsFiniteSet(S \union {x})
      /\ Cardinality(S \union {x}) = IF x \in S THEN Cardinality(S) ELSE Cardinality(S) + 1
  BY FS_AddElement
<1>2. Cardinality(S) \in Nat
  BY FS_CardinalityType
<1> QED BY <1>1, <1>2

\* A poll is dropped, or goes on as another one of the same job.
LEMMA Replaced ==
    ASSUME IsFiniteSet(gates), NEW g \in gates, NEW others,
           others = {} \/ \E h : others = {h} /\ h.job = g.job,
           gates' = (gates \ {g}) \union others
    PROVE  /\ IsFiniteSet(gates')
           /\ \A j \in Objects : /\ Cardinality(PollsOf(j)) \in Nat
                                 /\ Cardinality(PollsOf(j)') \in Nat
                                 /\ Cardinality(PollsOf(j)') <= Cardinality(PollsOf(j))
<1>1. IsFiniteSet(gates')
  <2>1. IsFiniteSet(gates \ {g})
    BY FS_RemoveElement
  <2>2. CASE others = {}
    BY <2>1, <2>2
  <2>3. ASSUME NEW h, others = {h}
        PROVE  IsFiniteSet(gates')
    BY <2>1, <2>3, OneMore
  <2> QED BY <2>2, <2>3
<1>2. ASSUME NEW j \in Objects
      PROVE  /\ Cardinality(PollsOf(j)) \in Nat
             /\ Cardinality(PollsOf(j)') \in Nat
             /\ Cardinality(PollsOf(j)') <= Cardinality(PollsOf(j))
  <2> DEFINE P == PollsOf(j)
  <2>1. IsFiniteSet(P) /\ Cardinality(P) \in Nat
    BY FS_Subset, FS_CardinalityType DEF PollsOf
  <2>2. CASE g.job # j
    <3>1. PollsOf(j)' = P
      BY <2>2 DEF PollsOf
    <3> QED BY <3>1, <2>1
  <2>3. CASE g.job = j
    <3>1. g \in P
      BY <2>3 DEF PollsOf
    <3>2. PollsOf(j)' = P \ {g} \/ \E h : PollsOf(j)' = (P \ {g}) \union {h}
      BY <2>3 DEF PollsOf
    <3> HIDE DEF P
    <3>3. IsFiniteSet(P \ {g}) /\ Cardinality(P \ {g}) = Cardinality(P) - 1
      BY <3>1, <2>1, FS_RemoveElement
    <3>4. Cardinality(P \ {g}) \in Nat
      BY <3>3, FS_CardinalityType
    <3>5. CASE PollsOf(j)' = P \ {g}
      BY <3>5, <3>3, <3>4, <2>1 DEF P
    <3>6. CASE \E h : PollsOf(j)' = (P \ {g}) \union {h}
      <4>1. PICK h : PollsOf(j)' = (P \ {g}) \union {h}
        BY <3>6
      <4>2. /\ Cardinality((P \ {g}) \union {h}) \in Nat
            /\ Cardinality((P \ {g}) \union {h}) <= Cardinality(P \ {g}) + 1
        BY <3>3, OneMore
      <4> QED BY <4>1, <4>2, <3>3, <3>4, <2>1 DEF P
    <3> QED BY <3>2, <3>5, <3>6
  <2> QED BY <2>2, <2>3
<1> QED BY <1>1, <1>2

\* What a job that enters a state adds to what its dispatches account for.
Reaches(s) == IF s \in 1..Gate THEN 1 ELSE 0

\* What a transition leaves behind, one variable at a time.
Entering(j, job, state, polling) ==
    /\ jobs' \in [Objects -> Job]
    /\ jobs'[j].state = state /\ jobs'[j].heldFrom = job.heldFrom
    /\ jobs'[j].operation = job.operation
    /\ \A k \in Objects : k # j => jobs'[k] = jobs[k]
    /\ timers' \subseteq Ticks
    /\ \A t \in timers' : t \in timers \/ t.from \notin {Gate, Last}
    /\ gates' \subseteq Poll /\ IsFiniteSet(gates')
    /\ state # Gate => gates' = polling
    /\ \A g \in gates' \ polling : g.job = j
    /\ \A g, h \in gates' \ polling : g = h
    /\ \A k \in Objects :
          /\ Cardinality(PollsOf(k)') \in Nat /\ Cardinality({g \in polling : g.job = k}) \in Nat
          /\ Cardinality(PollsOf(k)') + BeforeGate(jobs'[k].state)
                <= Cardinality({g \in polling : g.job = k})
                   + IF k = j THEN Reaches(state) ELSE BeforeGate(jobs[k].state)
    /\ operations' \in [Operations -> [started : BOOLEAN, decided : BOOLEAN,
                                       suspended : BOOLEAN, completed : BOOLEAN]]
    /\ \A o \in Operations : operations'[o].suspended = operations[o].suspended
    /\ \A o \in Operations : operations'[o].completed # operations[o].completed
                                => state \in Ended /\ o = job.operation

LEMMA Entered ==
    ASSUME TypeOK, Counted, NEW j \in Objects, NEW job \in Job, NEW state \in States,
           NEW pending \in SUBSET timers, NEW polling \in SUBSET gates,
           Enter(j, job, state, pending, polling)
    PROVE  Entering(j, job, state, polling)
<1>1. NewGate(j) \in Poll
  BY FreeChain
<1>2. /\ jobs' = [jobs EXCEPT ![j] = [job EXCEPT !.state = state]]
      /\ gates' = IF state = Gate THEN polling \union {NewGate(j)} ELSE polling
      /\ timers' = IF state \in Lifecycle \ {Gate, Last}
                   THEN pending \union {[job |-> j, from |-> state]} ELSE pending
      /\ operations' = IF state \in Ended THEN Completed(job.operation) ELSE operations
  BY DEF Enter
<1>3. /\ jobs' \in [Objects -> Job]
      /\ jobs'[j].state = state /\ jobs'[j].heldFrom = job.heldFrom
      /\ jobs'[j].operation = job.operation
      /\ \A k \in Objects : k # j => jobs'[k] = jobs[k]
  <2>1. [job EXCEPT !.state = state] \in Job
    BY DEF Job
  <2> QED BY <1>2, <2>1 DEF TypeOK, Job
<1>4. timers' \subseteq Ticks /\ \A t \in timers' : t \in timers \/ t.from \notin {Gate, Last}
  BY <1>2 DEF TypeOK, Ticks
<1>5. /\ gates' \subseteq Poll /\ NewGate(j).job = j
      /\ state # Gate => gates' = polling
      /\ state = Gate => gates' = polling \union {NewGate(j)}
  BY <1>1, <1>2 DEF TypeOK, Poll, NewGate
<1>6. /\ operations' \in [Operations -> [started : BOOLEAN, decided : BOOLEAN,
                                         suspended : BOOLEAN, completed : BOOLEAN]]
      /\ \A o \in Operations : operations'[o].suspended = operations[o].suspended
      /\ \A o \in Operations : operations'[o].completed # operations[o].completed
                                  => state \in Ended /\ o = job.operation
  BY <1>2 DEF TypeOK, Completed, Job
<1>7. IsFiniteSet(polling) /\ IsFiniteSet(gates')
  <2>1. IsFiniteSet(polling)
    BY FS_Subset DEF Counted
  <2> QED BY <2>1, <1>5, OneMore
<1>8. ASSUME NEW k \in Objects
      PROVE  /\ Cardinality(PollsOf(k)') \in Nat /\ Cardinality({g \in polling : g.job = k}) \in Nat
             /\ Cardinality(PollsOf(k)') + BeforeGate(jobs'[k].state)
                   <= Cardinality({g \in polling : g.job = k})
                      + IF k = j THEN Reaches(state) ELSE BeforeGate(jobs[k].state)
  <2> DEFINE P == {g \in polling : g.job = k}
  <2>1. IsFiniteSet(P) /\ Cardinality(P) \in Nat
    BY <1>7, FS_Subset, FS_CardinalityType
  <2>2. /\ BeforeGate(jobs'[k].state) \in Nat /\ BeforeGate(jobs[k].state) \in Nat
        /\ Reaches(state) \in Nat
    BY DEF BeforeGate, Reaches
  <2>3. CASE k # j \/ state # Gate
    <3>1. PollsOf(k)' = P
      BY <2>3, <1>5 DEF PollsOf
    <3>2. BeforeGate(state) <= Reaches(state)
      BY Positions, FacilityAssumption DEF BeforeGate, Reaches, Lifecycle
    <3>3. k = j => BeforeGate(jobs'[k].state) = BeforeGate(state)
      BY <1>3
    <3>4. k # j => BeforeGate(jobs'[k].state) = BeforeGate(jobs[k].state)
      BY <1>3
    <3> QED BY <3>1, <3>2, <3>3, <3>4, <2>1, <2>2
  <2>4. CASE k = j /\ state = Gate
    <3>1. PollsOf(k)' = P \union {NewGate(j)}
      BY <2>4, <1>5 DEF PollsOf
    <3>2. Cardinality(P \union {NewGate(j)}) \in Nat
          /\ Cardinality(P \union {NewGate(j)}) <= Cardinality(P) + 1
      BY <2>1, OneMore
    <3>3. Reaches(state) = 1 /\ BeforeGate(jobs'[k].state) = 0
      BY <2>4, <1>3, FacilityAssumption DEF Reaches, BeforeGate
    <3> QED BY <3>1, <3>2, <3>3, <2>1, <2>4
  <2> QED BY <2>3, <2>4
<1> QED BY <1>3, <1>4, <1>5, <1>6, <1>7, <1>8 DEF Entering

\* The job objects and their operations are numbers, in the bounds of the model.
LEMMA Numbers ==
    ASSUME IInv
    PROVE  /\ Objects \subseteq Nat /\ Operations \subseteq Nat /\ 0 \notin Operations
           /\ plan \in Objects /\ plan >= 1 /\ issued \in Nat /\ issued <= MaxRequests
           /\ Cardinality(dispatching) \in Nat
           /\ \A j \in Objects : /\ Cardinality(PollsOf(j)) \in Nat
                                 /\ BeforeGate(jobs[j].state) \in Nat
<1>1. /\ Objects \subseteq Nat /\ Operations \subseteq Nat /\ 0 \notin Operations
      /\ plan \in Objects /\ plan >= 1 /\ issued \in Nat /\ issued <= MaxRequests
  BY FacilityAssumption DEF IInv, TypeOK, Objects, Operations
<1>2. Cardinality(dispatching) \in Nat
  BY FS_CardinalityType DEF IInv, Counted
<1>3. ASSUME NEW j \in Objects
      PROVE  Cardinality(PollsOf(j)) \in Nat /\ BeforeGate(jobs[j].state) \in Nat
  BY FS_Subset, FS_CardinalityType DEF IInv, Counted, PollsOf, BeforeGate
<1> QED BY <1>1, <1>2, <1>3

\* A step that gives no job more polls than it takes from before the gate.
LEMMA StillCounted ==
    ASSUME IInv, issued' = issued, plan' = plan, dispatching' \subseteq dispatching,
           IsFiniteSet(gates'),
           \A k \in Objects :
              /\ Cardinality(PollsOf(k)') \in Nat
              /\ Cardinality(PollsOf(k)') + BeforeGate(jobs'[k].state)
                    <= Cardinality(PollsOf(k)) + BeforeGate(jobs[k].state)
    PROVE  Counted'
<1>1. /\ IsFiniteSet(dispatching') /\ Cardinality(dispatching') \in Nat
      /\ Cardinality(dispatching') <= Cardinality(dispatching)
  BY FS_Subset, FS_CardinalityType DEF IInv, Counted
<1>2. ASSUME NEW k \in Objects
      PROVE  (Cardinality(PollsOf(k)) + BeforeGate(jobs[k].state) + Cardinality(dispatching) <= issued)'
  <2>1. BeforeGate(jobs'[k].state) \in Nat
    BY DEF BeforeGate
  <2>2. Cardinality(PollsOf(k)) + BeforeGate(jobs[k].state) + Cardinality(dispatching) <= issued
    BY DEF IInv, Counted
  <2> QED BY <1>1, <2>1, <2>2, Numbers
<1>3. issued' + plan' <= MaxRequests + 1
  BY DEF IInv, Counted
<1> QED BY <1>1, <1>2, <1>3 DEF Counted

\* The same when the job objects and their polls are left alone.
LEMMA CountedAlone ==
    ASSUME IInv, UNCHANGED <<issued, plan, gates, jobs>>, dispatching' \subseteq dispatching
    PROVE  Counted'
<1>1. IsFiniteSet(gates')
  BY DEF IInv, Counted
<1>2. ASSUME NEW k \in Objects
      PROVE  /\ Cardinality(PollsOf(k)') \in Nat
             /\ Cardinality(PollsOf(k)') + BeforeGate(jobs'[k].state)
                   <= Cardinality(PollsOf(k)) + BeforeGate(jobs[k].state)
  <2>1. PollsOf(k)' = PollsOf(k)
    BY DEF PollsOf
  <2> QED BY <2>1, Numbers
<1> QED BY <1>1, <1>2, StillCounted

-----------------------------------------------------------------------------
(***************************************************************************)
(* dispatch()                                                              *)
(***************************************************************************)

LEMMA DispatchStep == ASSUME IInv, Dispatch PROVE IInv'
<1> DEFINE d == [job |-> plan, operation |-> issued + 1]
<1>1. /\ issued' = issued + 1 /\ dispatching' = dispatching \union {d}
      /\ UNCHANGED <<serial, plan, jobs, timers, gates, suspending, resuming, operations>>
      /\ jobs[plan].state = QUEUED /\ issued + plan <= MaxRequests
      /\ serial => ~Unanswered(plan)
  BY DEF Dispatch, MayIssue, MayCall
<1>2. issued + 1 \in Operations
  BY <1>1, Numbers, FacilityAssumption DEF Operations
<1>3. TypeOK'
  BY <1>1, <1>2, Numbers DEF IInv, TypeOK
<1>4. Counted'
  <2>1. /\ IsFiniteSet(dispatching') /\ Cardinality(dispatching') \in Nat
        /\ Cardinality(dispatching') <= Cardinality(dispatching) + 1
    BY <1>1, OneMore DEF IInv, Counted
  <2>2. ASSUME NEW j \in Objects
        PROVE  (Cardinality(PollsOf(j)) + BeforeGate(jobs[j].state) + Cardinality(dispatching) <= issued)'
    <3>1. PollsOf(j)' = PollsOf(j) /\ jobs' = jobs
      BY <1>1 DEF PollsOf
    <3>2. Cardinality(PollsOf(j)) + BeforeGate(jobs[j].state) + Cardinality(dispatching) <= issued
      BY DEF IInv, Counted
    <3> QED BY <1>1, <2>1, <3>1, <3>2, Numbers
  <2>3. IsFiniteSet(gates') /\ issued' + plan' <= MaxRequests + 1
    BY <1>1, Numbers, FacilityAssumption DEF IInv, Counted
  <2> QED BY <2>1, <2>2, <2>3 DEF Counted
<1>5. Halts'
  BY <1>1 DEF IInv, Halts
<1>6. Owned'
  BY <1>1, Numbers DEF IInv, Owned, TypeOK, Job
<1>7. Serial'
  <2> SUFFICES ASSUME serial PROVE (OneCall /\ Still /\ OnePoll /\ SuspendedIsHeld)'
    BY <1>1 DEF Serial
  <2>1. OneCall /\ Still /\ OnePoll /\ SuspendedIsHeld
    BY DEF IInv, Serial
  <2>2. OneCall'
    BY <1>1, <2>1 DEF OneCall, Unanswered
  <2>3. Still' /\ OnePoll'
    BY <1>1, <2>1 DEF Still, OnePoll
  <2>4. SuspendedIsHeld'
    BY <1>1, <1>2, <2>1, Numbers DEF SuspendedIsHeld
  <2> QED BY <2>2, <2>3, <2>4
<1> QED BY <1>3, <1>4, <1>5, <1>6, <1>7 DEF IInv

LEMMA DispatchedStep == ASSUME IInv, Dispatched PROVE IInv'
<1>1. PICK d \in dispatching :
        /\ dispatching' = dispatching \ {d}
        /\ Enter(d.job, [jobs[d.job] EXCEPT !.operation = d.operation], 1, timers, gates)
        /\ UNCHANGED <<serial, plan, suspending, resuming, issued>>
  BY DEF Dispatched
<1> DEFINE job == [jobs[d.job] EXCEPT !.operation = d.operation]
<1>2. /\ d.job \in Objects /\ d.operation \in Operations /\ job \in Job
      /\ job.heldFrom = jobs[d.job].heldFrom /\ job.operation = d.operation
  BY DEF IInv, TypeOK, Job
<1>3. Entering(d.job, job, 1, gates)
  <2>1. 1 \in States /\ TypeOK /\ Counted
    BY Positions DEF States, IInv
  <2> QED BY <1>1, <1>2, <2>1, Entered
<1> HIDE DEF job
<1>4. TypeOK'
  BY <1>1, <1>3 DEF IInv, TypeOK, Entering, Poll
<1>5. Counted'
  <2>1. IsFiniteSet(dispatching') /\ Cardinality(dispatching') = Cardinality(dispatching) - 1
    BY <1>1, FS_RemoveElement DEF IInv, Counted
  <2>2. Cardinality(dispatching') \in Nat
    BY <2>1, FS_CardinalityType
  <2>3. ASSUME NEW k \in Objects
        PROVE  (Cardinality(PollsOf(k)) + BeforeGate(jobs[k].state) + Cardinality(dispatching) <= issued)'
    <3>1. /\ Cardinality(PollsOf(k)') \in Nat
          /\ Cardinality(PollsOf(k)') + BeforeGate(jobs'[k].state)
                <= Cardinality(PollsOf(k)) + IF k = d.job THEN Reaches(1) ELSE BeforeGate(jobs[k].state)
      BY <1>3 DEF Entering, PollsOf
    <3>2. BeforeGate(jobs'[k].state) \in Nat /\ Reaches(1) \in Nat /\ Reaches(1) <= 1
      BY DEF BeforeGate, Reaches
    <3>3. Cardinality(PollsOf(k)) + BeforeGate(jobs[k].state) + Cardinality(dispatching) <= issued
      BY DEF IInv, Counted
    <3> QED BY <1>1, <2>1, <2>2, <3>1, <3>2, <3>3, Numbers
  <2>4. IsFiniteSet(gates') /\ issued' + plan' <= MaxRequests + 1
    BY <1>1, <1>3 DEF Entering, IInv, Counted
  <2> QED BY <2>1, <2>3, <2>4 DEF Counted
<1>6. Halts'
  BY <1>1, <1>2, <1>3, Positions DEF IInv, Halts, Entering
<1>7. Owned'
  BY <1>1, <1>2, <1>3, Numbers DEF IInv, Owned, Entering
<1>8. Serial'
  <2> SUFFICES ASSUME serial PROVE (OneCall /\ Still /\ OnePoll /\ SuspendedIsHeld)'
    BY <1>1 DEF Serial
  <2>1. OneCall /\ Still /\ OnePoll /\ SuspendedIsHeld
    BY DEF IInv, Serial
  <2>2. OneCall'
    BY <1>1, <2>1 DEF OneCall
  <2>3. Still'
    BY <1>1, <1>2, <1>3, <2>1 DEF Still, OneCall, Entering, IInv, TypeOK, Job
  <2>4. OnePoll'
    <3>1. \A g \in gates : g.job # d.job
      BY <2>1, Positions DEF Still, OnePoll
    <3> QED BY <1>2, <1>3, <2>1, <3>1 DEF OnePoll, Entering, IInv, TypeOK
  <2>5. SuspendedIsHeld'
    BY <1>1, <1>2, <1>3, <2>1 DEF SuspendedIsHeld, Entering, IInv, TypeOK, Job
  <2> QED BY <2>2, <2>3, <2>4, <2>5
<1> QED BY <1>4, <1>5, <1>6, <1>7, <1>8 DEF IInv

LEMMA WorkflowStartsStep == ASSUME IInv, WorkflowStarts PROVE IInv'
<1>1. PICK d \in dispatching :
        /\ operations' = [operations EXCEPT ![d.operation].started = TRUE]
        /\ UNCHANGED <<serial, plan, jobs, timers, gates, dispatching, suspending, resuming, issued>>
  BY DEF WorkflowStarts
<1>2. \A o \in Operations : operations'[o].suspended = operations[o].suspended
  BY <1>1 DEF IInv, TypeOK
<1>3. TypeOK'
  BY <1>1 DEF IInv, TypeOK
<1>4. Counted'
  BY <1>1, CountedAlone
<1>5. Halts' /\ Owned'
  BY <1>1 DEF IInv, Halts, Owned
<1>6. Serial'
  <2> SUFFICES ASSUME serial PROVE (OneCall /\ Still /\ OnePoll /\ SuspendedIsHeld)'
    BY <1>1 DEF Serial
  <2>1. OneCall /\ Still /\ OnePoll /\ SuspendedIsHeld
    BY DEF IInv, Serial
  <2>2. OneCall' /\ OnePoll'
    BY <1>1, <2>1 DEF OneCall, OnePoll
  <2>3. Still' /\ SuspendedIsHeld'
    BY <1>1, <1>2, <2>1 DEF Still, SuspendedIsHeld, IInv, TypeOK, Job
  <2> QED BY <2>2, <2>3
<1> QED BY <1>3, <1>4, <1>5, <1>6 DEF IInv

\* A call that fails is forgotten and has changed nothing here.
LEMMA CallFailsStep ==
    ASSUME IInv,
           dispatching' \subseteq dispatching, suspending' \subseteq suspending,
           resuming' \subseteq resuming,
           UNCHANGED <<serial, plan, jobs, timers, gates, issued, operations>>
    PROVE  IInv'
<1>1. TypeOK'
  BY DEF IInv, TypeOK
<1>2. Counted'
  BY CountedAlone
<1>3. Halts' /\ Owned'
  BY DEF IInv, Halts, Owned
<1>4. Serial'
  <2>1. OneCall => OneCall'
    BY DEF OneCall
  <2>2. Still /\ OnePoll /\ SuspendedIsHeld => (Still /\ OnePoll /\ SuspendedIsHeld)'
    BY DEF Still, OnePoll, SuspendedIsHeld
  <2> QED BY <2>1, <2>2 DEF IInv, Serial
<1> QED BY <1>1, <1>2, <1>3, <1>4 DEF IInv

-----------------------------------------------------------------------------
(***************************************************************************)
(* abort(), suspend(), resume(), reset()                                   *)
(***************************************************************************)

\* A job that stops behind the gate.
LEMMA HoldStep ==
    ASSUME IInv, MayCall, isJobInFlight(jobs[plan].state), isLoadCommitted(jobs[plan].state),
           jobs[plan].state # HELD, Hold(plan),
           UNCHANGED <<serial, plan, dispatching, resuming, issued>>
    PROVE  IInv'
<1> DEFINE job   == [jobs[plan] EXCEPT !.heldFrom = jobs[plan].state]
           calls == IF jobs[plan].operation = 0 THEN {}
                    ELSE {[job |-> plan, operation |-> jobs[plan].operation]}
<1>1. /\ Enter(plan, job, HELD, timers, gates)
      /\ suspending' = suspending \union calls
      /\ UNCHANGED <<serial, plan, dispatching, resuming, issued>>
  BY DEF Hold
<1>2. /\ plan \in Objects /\ jobs[plan] \in Job /\ jobs[plan].state \in Lifecycle
      /\ jobs[plan].state > Gate
  BY Numbers DEF IInv, TypeOK, Job, isJobInFlight, isLoadCommitted, States, Ended
<1>3. /\ job \in Job /\ job.heldFrom > Gate /\ job.operation = jobs[plan].operation
      /\ calls \subseteq [job : Objects, operation : Operations]
  BY <1>2 DEF Job
<1>4. Entering(plan, job, HELD, gates)
  <2>1. HELD \in States /\ TypeOK /\ Counted
    BY DEF States, IInv
  <2> QED BY <1>1, <1>2, <1>3, <2>1, Entered
<1> HIDE DEF job
<1>5. HELD \notin 1..Gate /\ HELD # Gate /\ HELD \notin Ended /\ gates' = gates
  BY <1>4, Positions, FacilityAssumption DEF Lifecycle, Ended, Entering
<1>6. TypeOK'
  BY <1>1, <1>3, <1>4 DEF IInv, TypeOK, Entering, Poll
<1>7. Counted'
  <2>1. IsFiniteSet(gates')
    BY <1>4 DEF Entering
  <2>2. ASSUME NEW k \in Objects
        PROVE  /\ Cardinality(PollsOf(k)') \in Nat
               /\ Cardinality(PollsOf(k)') + BeforeGate(jobs'[k].state)
                     <= Cardinality(PollsOf(k)) + BeforeGate(jobs[k].state)
    <3>1. /\ Cardinality(PollsOf(k)') \in Nat
          /\ Cardinality(PollsOf(k)') + BeforeGate(jobs'[k].state)
                <= Cardinality(PollsOf(k)) + IF k = plan THEN Reaches(HELD) ELSE BeforeGate(jobs[k].state)
      BY <1>4 DEF Entering, PollsOf
    <3>2. Reaches(HELD) = 0 /\ BeforeGate(jobs'[k].state) \in Nat
      BY <1>5 DEF Reaches, BeforeGate
    <3> QED BY <3>1, <3>2, Numbers
  <2> QED BY <1>1, <2>1, <2>2, StillCounted
<1>8. Halts'
  BY <1>1, <1>2, <1>3, <1>4 DEF IInv, Halts, Entering
<1>9. Owned'
  BY <1>1, <1>2, <1>3, <1>4 DEF IInv, Owned, Entering
<1>10. Serial'
  <2> SUFFICES ASSUME serial PROVE (OneCall /\ Still /\ OnePoll /\ SuspendedIsHeld)'
    BY <1>1 DEF Serial
  <2>1. OneCall /\ Still /\ OnePoll /\ SuspendedIsHeld
    BY DEF IInv, Serial
  <2>2. ~Unanswered(plan)
    BY DEF MayCall
  <2>3. OneCall'
    BY <1>1, <2>1, <2>2 DEF OneCall, Unanswered
  <2>4. Still'
    BY <1>1, <1>2, <1>3, <1>4, <2>1, <2>2 DEF Still, Entering, Unanswered, IInv, TypeOK, Job
  <2>5. OnePoll'
    <3>1. jobs[plan].state \notin {Gate, ABORTED}
      BY <1>2, Positions, FacilityAssumption
    <3> QED BY <1>2, <1>4, <1>5, <2>1, <3>1 DEF OnePoll, Entering, IInv, TypeOK
  <2>6. SuspendedIsHeld'
    BY <1>1, <1>2, <1>3, <1>4, <2>1 DEF SuspendedIsHeld, Entering, IInv, TypeOK, Job
  <2> QED BY <2>3, <2>4, <2>5, <2>6
<1> QED BY <1>6, <1>7, <1>8, <1>9, <1>10 DEF IInv

LEMMA SuspendStep == ASSUME IInv, Suspend PROVE IInv'
BY HoldStep DEF Suspend

LEMMA AbortStep == ASSUME IInv, Abort PROVE IInv'
<1>1. /\ MayCall /\ isJobInFlight(jobs[plan].state) /\ jobs[plan].state # HELD
      /\ UNCHANGED <<serial, plan, dispatching, resuming, issued>>
  BY DEF Abort
<1>2. CASE isLoadCommitted(jobs[plan].state)
  BY <1>1, <1>2, HoldStep DEF Abort
<1>3. CASE ~isLoadCommitted(jobs[plan].state)
  <2>1. Enter(plan, jobs[plan], ABORTED, timers, gates) /\ UNCHANGED suspending
    BY <1>3 DEF Abort
  <2>2. /\ plan \in Objects /\ jobs[plan] \in Job /\ jobs[plan].state \in Lifecycle
    BY <1>1, Numbers DEF IInv, TypeOK, Job, isJobInFlight, States, Ended
  <2>3. Entering(plan, jobs[plan], ABORTED, gates)
    <3>1. ABORTED \in States /\ TypeOK /\ Counted
      BY DEF States, IInv
    <3> QED BY <2>1, <2>2, <3>1, Entered
  <2>4. ABORTED \notin 1..Gate /\ ABORTED # Gate /\ ABORTED # HELD /\ gates' = gates
    BY <2>3, Positions, FacilityAssumption DEF Lifecycle, Entering
  <2>5. TypeOK'
    BY <1>1, <2>1, <2>3 DEF IInv, TypeOK, Entering, Poll
  <2>6. Counted'
    <3>1. IsFiniteSet(gates')
      BY <2>3 DEF Entering
    <3>2. ASSUME NEW k \in Objects
          PROVE  /\ Cardinality(PollsOf(k)') \in Nat
                 /\ Cardinality(PollsOf(k)') + BeforeGate(jobs'[k].state)
                       <= Cardinality(PollsOf(k)) + BeforeGate(jobs[k].state)
      <4>1. /\ Cardinality(PollsOf(k)') \in Nat
            /\ Cardinality(PollsOf(k)') + BeforeGate(jobs'[k].state)
                  <= Cardinality(PollsOf(k)) + IF k = plan THEN Reaches(ABORTED) ELSE BeforeGate(jobs[k].state)
        BY <2>3 DEF Entering, PollsOf
      <4>2. Reaches(ABORTED) = 0 /\ BeforeGate(jobs'[k].state) \in Nat
        BY <2>4 DEF Reaches, BeforeGate
      <4> QED BY <4>1, <4>2, Numbers
    <3> QED BY <1>1, <3>1, <3>2, StillCounted
  <2>7. Halts'
    BY <1>1, <2>2, <2>3, <2>4 DEF IInv, Halts, Entering
  <2>8. Owned'
    BY <1>1, <2>2, <2>3 DEF IInv, Owned, Entering
  <2>9. Serial'
    <3> SUFFICES ASSUME serial PROVE (OneCall /\ Still /\ OnePoll /\ SuspendedIsHeld)'
      BY <1>1 DEF Serial
    <3>1. OneCall /\ Still /\ OnePoll /\ SuspendedIsHeld /\ ~Unanswered(plan)
      BY <1>1 DEF IInv, Serial, MayCall
    <3>2. OneCall'
      BY <1>1, <2>1, <3>1 DEF OneCall
    <3>3. Still'
      BY <1>1, <2>1, <2>2, <2>3, <3>1 DEF Still, Entering, Unanswered, IInv, TypeOK, Job
    <3>4. OnePoll'
      BY <2>2, <2>3, <2>4, <3>1 DEF OnePoll, Entering, IInv, TypeOK
    <3>5. SuspendedIsHeld'
      BY <1>1, <2>2, <2>3, <3>1 DEF SuspendedIsHeld, Entering, IInv, TypeOK, Job
    <3> QED BY <3>2, <3>3, <3>4, <3>5
  <2> QED BY <2>5, <2>6, <2>7, <2>8, <2>9 DEF IInv
<1> QED BY <1>2, <1>3

LEMMA WorkflowSuspendsStep == ASSUME IInv, WorkflowSuspends PROVE IInv'
<1>1. PICK c \in suspending :
        /\ operations' = [operations EXCEPT ![c.operation].suspended = TRUE]
        /\ suspending' = suspending \ {c}
        /\ UNCHANGED <<serial, plan, jobs, timers, gates, dispatching, resuming, issued>>
  BY DEF WorkflowSuspends
<1>2. c.operation \in Operations /\ c.job \in Objects
  BY DEF IInv, TypeOK
<1>3. /\ operations'[c.operation].suspended
      /\ \A o \in Operations : o # c.operation => operations'[o] = operations[o]
  BY <1>1, <1>2 DEF IInv, TypeOK
<1>4. TypeOK'
  BY <1>1 DEF IInv, TypeOK
<1>5. Counted'
  BY <1>1, CountedAlone
<1>6. Halts' /\ Owned'
  BY <1>1 DEF IInv, Halts, Owned
<1>7. Serial'
  <2> SUFFICES ASSUME serial PROVE (OneCall /\ Still /\ OnePoll /\ SuspendedIsHeld)'
    BY <1>1 DEF Serial
  <2>1. OneCall /\ Still /\ OnePoll /\ SuspendedIsHeld
    BY DEF IInv, Serial
  <2>2. OneCall' /\ OnePoll'
    BY <1>1, <2>1 DEF OneCall, OnePoll
  <2>3. /\ jobs[c.job].state = HELD /\ jobs[c.job].operation = c.operation
        /\ \A r \in resuming : r.job # c.job
    BY <2>1 DEF Still, OneCall
  <2>4. \A j \in Objects : jobs[j].operation = c.operation => j = c.job
    BY <1>2, <2>3, Numbers DEF IInv, Owned
  <2>5. Still'
    BY <1>1, <1>2, <1>3, <2>1, <2>3, <2>4 DEF Still, IInv, TypeOK, Job
  <2>6. SuspendedIsHeld'
    BY <1>1, <1>2, <1>3, <2>1, <2>3, <2>4, Numbers DEF SuspendedIsHeld, IInv, Owned, TypeOK, Job
  <2> QED BY <2>2, <2>5, <2>6
<1> QED BY <1>4, <1>5, <1>6, <1>7 DEF IInv

LEMMA ResumeStep == ASSUME IInv, Resume PROVE IInv'
<1> DEFINE r == [job |-> plan, to |-> jobs[plan].heldFrom, told |-> jobs[plan].operation = 0]
<1>1. /\ MayCall /\ jobs[plan].state = HELD
      /\ resuming' = resuming \union {r}
      /\ UNCHANGED <<serial, plan, jobs, timers, gates, dispatching, suspending, issued, operations>>
  BY DEF Resume
<1>2. plan \in Objects /\ jobs[plan].heldFrom > Gate /\ jobs[plan].heldFrom \in Lifecycle
  BY <1>1, Numbers, FacilityAssumption DEF IInv, Halts, TypeOK, Job
<1>3. /\ r \in [job : Objects, to : Lifecycle, told : BOOLEAN]
      /\ r.job = plan /\ r.to = jobs[plan].heldFrom /\ (r.told => jobs[plan].operation = 0)
  <2>1. CASE jobs[plan].operation = 0
    <3>1. (jobs[plan].operation = 0) = TRUE
      BY <2>1
    <3>2. r = [job |-> plan, to |-> jobs[plan].heldFrom, told |-> TRUE]
      BY <3>1
    <3> QED BY <3>2, <2>1, <1>2
  <2>2. CASE jobs[plan].operation # 0
    <3>1. (jobs[plan].operation = 0) = FALSE
      BY <2>2
    <3>2. r = [job |-> plan, to |-> jobs[plan].heldFrom, told |-> FALSE]
      BY <3>1
    <3> QED BY <3>2, <2>2, <1>2
  <2> QED BY <2>1, <2>2
<1> HIDE DEF r
<1>4. TypeOK'
  BY <1>1, <1>3 DEF IInv, TypeOK
<1>5. Counted'
  BY <1>1, CountedAlone
<1>6. Halts' /\ Owned'
  BY <1>1, <1>2, <1>3 DEF IInv, Halts, Owned
<1>7. Serial'
  <2> SUFFICES ASSUME serial PROVE (OneCall /\ Still /\ OnePoll /\ SuspendedIsHeld)'
    BY <1>1 DEF Serial
  <2>1. OneCall /\ Still /\ OnePoll /\ SuspendedIsHeld
    BY DEF IInv, Serial
  <2>2. ~Unanswered(plan)
    BY <1>1 DEF MayCall
  <2>3. OneCall'
    BY <1>1, <1>3, <2>1, <2>2 DEF OneCall, Unanswered
  <2>4. Still' /\ OnePoll' /\ SuspendedIsHeld'
    BY <1>1, <1>3, <2>1 DEF Still, OnePoll, SuspendedIsHeld
  <2> QED BY <2>3, <2>4
<1> QED BY <1>4, <1>5, <1>6, <1>7 DEF IInv

LEMMA WorkflowResumesStep == ASSUME IInv, WorkflowResumes PROVE IInv'
<1>1. PICK r \in resuming :
        /\ ~r.told
        /\ operations' = [operations EXCEPT ![jobs[r.job].operation].suspended = FALSE]
        /\ resuming' = (resuming \ {r}) \union {[r EXCEPT !.told = TRUE]}
        /\ UNCHANGED <<serial, plan, jobs, timers, gates, dispatching, suspending, issued>>
  BY DEF WorkflowResumes
<1> DEFINE told == [r EXCEPT !.told = TRUE]
<1>2. /\ r.job \in Objects /\ r.to \in Lifecycle /\ told.job = r.job /\ told.to = r.to /\ told.told
      /\ told \in [job : Objects, to : Lifecycle, told : BOOLEAN]
  BY DEF IInv, TypeOK
<1>3. /\ resuming' = (resuming \ {r}) \union {told}
      /\ \A o \in Operations : /\ operations'[o].suspended => operations[o].suspended
                               /\ o = jobs[r.job].operation => ~operations'[o].suspended
  BY <1>1 DEF IInv, TypeOK
<1>4. operations' \in [Operations -> [started : BOOLEAN, decided : BOOLEAN,
                                      suspended : BOOLEAN, completed : BOOLEAN]]
  BY <1>1 DEF IInv, TypeOK
<1> HIDE DEF told
<1>5. TypeOK'
  BY <1>1, <1>2, <1>3, <1>4 DEF IInv, TypeOK
<1>6. Counted'
  BY <1>1, CountedAlone
<1>7. Halts' /\ Owned'
  <2>1. Halts'
    BY <1>1, <1>2, <1>3 DEF IInv, Halts
  <2>2. Owned'
    BY <1>1 DEF IInv, Owned
  <2> QED BY <2>1, <2>2
<1>8. Serial'
  <2> SUFFICES ASSUME serial PROVE (OneCall /\ Still /\ OnePoll /\ SuspendedIsHeld)'
    BY <1>1 DEF Serial
  <2>1. OneCall /\ Still /\ OnePoll /\ SuspendedIsHeld
    BY DEF IInv, Serial
  <2>2. OneCall'
    BY <1>1, <1>2, <1>3, <2>1 DEF OneCall
  <2>3. Still'
    BY <1>1, <1>2, <1>3, <2>1 DEF Still, IInv, TypeOK, Job
  <2>4. OnePoll'
    BY <1>1, <2>1 DEF OnePoll
  <2>5. SuspendedIsHeld'
    BY <1>1, <1>3, <2>1 DEF SuspendedIsHeld, IInv, TypeOK, Job
  <2> QED BY <2>2, <2>3, <2>4, <2>5
<1> QED BY <1>5, <1>6, <1>7, <1>8 DEF IInv

LEMMA ResumedStep == ASSUME IInv, Resumed PROVE IInv'
<1>1. PICK r \in resuming :
        /\ r.told /\ resuming' = resuming \ {r}
        /\ Enter(r.job, [jobs[r.job] EXCEPT !.heldFrom = 0], r.to, timers, gates)
        /\ UNCHANGED <<serial, plan, dispatching, suspending, issued>>
  BY DEF Resumed
<1> DEFINE job == [jobs[r.job] EXCEPT !.heldFrom = 0]
<1>2. /\ r.job \in Objects /\ r.to \in Lifecycle /\ r.to > Gate
      /\ job \in Job /\ job.operation = jobs[r.job].operation
  BY DEF IInv, Halts, TypeOK, Job
<1>3. Entering(r.job, job, r.to, gates)
  <2>1. r.to \in States /\ TypeOK /\ Counted
    BY <1>2 DEF States, IInv
  <2> QED BY <1>1, <1>2, <2>1, Entered
<1> HIDE DEF job
<1>4. r.to \notin 1..Gate /\ r.to # Gate /\ r.to # HELD /\ r.to # ABORTED /\ gates' = gates
  BY <1>2, <1>3, Positions, FacilityAssumption DEF Entering
<1>5. TypeOK'
  BY <1>1, <1>3 DEF IInv, TypeOK, Entering, Poll
<1>6. Counted'
  <2>1. IsFiniteSet(gates')
    BY <1>3 DEF Entering
  <2>2. ASSUME NEW k \in Objects
        PROVE  /\ Cardinality(PollsOf(k)') \in Nat
               /\ Cardinality(PollsOf(k)') + BeforeGate(jobs'[k].state)
                     <= Cardinality(PollsOf(k)) + BeforeGate(jobs[k].state)
    <3>1. /\ Cardinality(PollsOf(k)') \in Nat
          /\ Cardinality(PollsOf(k)') + BeforeGate(jobs'[k].state)
                <= Cardinality(PollsOf(k)) + IF k = r.job THEN Reaches(r.to) ELSE BeforeGate(jobs[k].state)
      BY <1>3 DEF Entering, PollsOf
    <3>2. Reaches(r.to) = 0 /\ BeforeGate(jobs'[k].state) \in Nat
      BY <1>4 DEF Reaches, BeforeGate
    <3> QED BY <3>1, <3>2, Numbers
  <2> QED BY <1>1, <2>1, <2>2, StillCounted
<1>7. Halts'
  BY <1>1, <1>2, <1>3, <1>4 DEF IInv, Halts, Entering
<1>8. Owned'
  BY <1>1, <1>2, <1>3 DEF IInv, Owned, Entering
<1>9. Serial'
  <2> SUFFICES ASSUME serial PROVE (OneCall /\ Still /\ OnePoll /\ SuspendedIsHeld)'
    BY <1>1 DEF Serial
  <2>1. OneCall /\ Still /\ OnePoll /\ SuspendedIsHeld
    BY DEF IInv, Serial
  <2>2. OneCall'
    BY <1>1, <2>1 DEF OneCall
  <2>3. Still'
    BY <1>1, <1>2, <1>3, <2>1 DEF Still, OneCall, Entering, IInv, TypeOK, Job
  <2>4. OnePoll'
    <3>1. jobs[r.job].state \notin {Gate, ABORTED}
      BY <2>1, Positions DEF Still
    <3> QED BY <1>2, <1>3, <1>4, <2>1, <3>1 DEF OnePoll, Entering, IInv, TypeOK
  <2>5. SuspendedIsHeld'
    <3>1. jobs[r.job].operation # 0 => ~operations[jobs[r.job].operation].suspended
      BY <1>1, <2>1 DEF Still
    <3>2. ASSUME NEW j \in Objects, jobs'[j].operation # 0, operations'[jobs'[j].operation].suspended
          PROVE  jobs'[j].state = HELD
      <4>1. jobs'[j].operation = jobs[j].operation /\ jobs[j].operation \in Operations
        BY <1>2, <1>3, <3>2 DEF Entering, IInv, TypeOK, Job
      <4>2. operations[jobs[j].operation].suspended
        BY <1>3, <3>2, <4>1 DEF Entering
      <4>3. j # r.job
        BY <3>1, <3>2, <4>1, <4>2
      <4> QED BY <1>2, <1>3, <2>1, <3>2, <4>1, <4>2, <4>3 DEF SuspendedIsHeld, Entering
    <3>3. /\ \A d \in dispatching' : ~operations'[d.operation].suspended
          /\ \A o \in Operations : o > issued' => ~operations'[o].suspended
      BY <1>1, <1>3, <2>1 DEF SuspendedIsHeld, Entering, IInv, TypeOK
    <3> QED BY <3>2, <3>3 DEF SuspendedIsHeld
  <2> QED BY <2>2, <2>3, <2>4, <2>5
<1> QED BY <1>5, <1>6, <1>7, <1>8, <1>9 DEF IInv

LEMMA ResetStep == ASSUME IInv, Reset PROVE IInv'
<1>1. /\ issued + plan <= MaxRequests /\ plan' = plan + 1
      /\ operations' = operations \/ operations' = Completed(jobs[plan].operation)
      /\ UNCHANGED <<serial, jobs, timers, gates, dispatching, suspending, resuming, issued>>
  BY DEF Reset, MayIssue
<1>2. /\ operations' \in [Operations -> [started : BOOLEAN, decided : BOOLEAN,
                                         suspended : BOOLEAN, completed : BOOLEAN]]
      /\ \A o \in Operations : operations'[o].suspended = operations[o].suspended
  <2>1. CASE operations' = operations
    BY <2>1 DEF IInv, TypeOK
  <2>2. CASE operations' = Completed(jobs[plan].operation)
    <3>1. jobs[plan].operation \in {0} \union Operations
      BY Numbers DEF IInv, TypeOK, Job
    <3>2. CASE jobs[plan].operation = 0
      BY <2>2, <3>2 DEF Completed, IInv, TypeOK
    <3>3. CASE jobs[plan].operation # 0
      <4> DEFINE o == jobs[plan].operation
      <4>1. o \in Operations /\ operations' = [operations EXCEPT ![o].completed = TRUE]
        BY <2>2, <3>1, <3>3 DEF Completed
      <4> HIDE DEF o
      <4> QED BY <4>1 DEF IInv, TypeOK
    <3> QED BY <3>2, <3>3
  <2> QED BY <1>1, <2>1, <2>2
<1>3. TypeOK'
  <2>1. plan' \in Objects
    BY <1>1, Numbers, FacilityAssumption DEF Objects
  <2> QED BY <1>1, <1>2, <2>1 DEF IInv, TypeOK
<1>4. Counted'
  <2>1. \A k \in Objects : PollsOf(k)' = PollsOf(k)
    BY <1>1 DEF PollsOf
  <2>2. issued' + plan' <= MaxRequests + 1
    BY <1>1, Numbers, FacilityAssumption DEF IInv, TypeOK
  <2>3. ASSUME NEW k \in Objects
        PROVE  (Cardinality(PollsOf(k)) + BeforeGate(jobs[k].state) + Cardinality(dispatching) <= issued)'
    BY <1>1, <2>1 DEF IInv, Counted
  <2>4. IsFiniteSet(gates') /\ IsFiniteSet(dispatching')
    BY <1>1 DEF IInv, Counted
  <2> QED BY <2>2, <2>3, <2>4 DEF Counted
<1>5. Halts' /\ Owned'
  BY <1>1 DEF IInv, Halts, Owned
<1>6. Serial'
  <2> SUFFICES ASSUME serial PROVE (OneCall /\ Still /\ OnePoll /\ SuspendedIsHeld)'
    BY <1>1 DEF Serial
  <2>1. OneCall /\ Still /\ OnePoll /\ SuspendedIsHeld
    BY DEF IInv, Serial
  <2>2. OneCall' /\ OnePoll'
    BY <1>1, <2>1 DEF OneCall, OnePoll
  <2>3. Still' /\ SuspendedIsHeld'
    BY <1>1, <1>2, <2>1 DEF Still, SuspendedIsHeld, IInv, TypeOK, Job
  <2> QED BY <2>2, <2>3
<1> QED BY <1>3, <1>4, <1>5, <1>6 DEF IInv

-----------------------------------------------------------------------------
(***************************************************************************)
(* Timers and the gate                                                     *)
(***************************************************************************)

LEMMA TimerFiresStep == ASSUME IInv, NEW t \in Ticks, TimerFires(t) PROVE IInv'
<1>1. /\ t \in timers /\ UNCHANGED <<serial, plan, dispatching, suspending, resuming, issued>>
      /\ t.job \in Objects /\ t.from \in Lifecycle /\ t.from \notin {Gate, Last}
  <2>1. t \in timers /\ UNCHANGED <<serial, plan, dispatching, suspending, resuming, issued>>
    BY DEF TimerFires
  <2> QED BY <2>1 DEF Ticks, IInv, Halts
<1>2. CASE jobs[t.job].state = t.from
  <2> DEFINE next == t.from + 1
  <2>1. Enter(t.job, jobs[t.job], next, timers \ {t}, gates)
    BY <1>1, <1>2 DEF TimerFires, Following
  <2>2. /\ jobs[t.job] \in Job /\ next \in Lifecycle /\ next \in States
        /\ timers \ {t} \in SUBSET timers /\ gates \in SUBSET gates
    BY <1>1, Positions, FacilityAssumption DEF IInv, TypeOK, Lifecycle, States
  <2>3. Entering(t.job, jobs[t.job], next, gates)
    <3>1. TypeOK /\ Counted
      BY DEF IInv
    <3> HIDE DEF next
    <3> QED BY <1>1, <2>1, <2>2, <3>1, Entered
  <2>4. TypeOK'
    BY <1>1, <2>3 DEF IInv, TypeOK, Entering, Poll
  <2>5. Counted'
    <3>1. IsFiniteSet(gates')
      BY <2>3 DEF Entering
    <3>2. ASSUME NEW k \in Objects
          PROVE  /\ Cardinality(PollsOf(k)') \in Nat
                 /\ Cardinality(PollsOf(k)') + BeforeGate(jobs'[k].state)
                       <= Cardinality(PollsOf(k)) + BeforeGate(jobs[k].state)
      <4>1. /\ Cardinality(PollsOf(k)') \in Nat
            /\ Cardinality(PollsOf(k)') + BeforeGate(jobs'[k].state)
                  <= Cardinality(PollsOf(k)) + IF k = t.job THEN Reaches(next) ELSE BeforeGate(jobs[k].state)
        BY <2>3 DEF Entering, PollsOf
      <4>2. Reaches(next) = BeforeGate(t.from) /\ BeforeGate(jobs'[k].state) \in Nat
        BY <1>1, Positions, FacilityAssumption DEF Reaches, BeforeGate, Lifecycle
      <4>3. k = t.job => BeforeGate(t.from) = BeforeGate(jobs[k].state)
        BY <1>2
      <4> HIDE DEF next
      <4> QED BY <4>1, <4>2, <4>3, Numbers
    <3> QED BY <1>1, <3>1, <3>2, StillCounted
  <2>6. next # HELD /\ t.from \notin {HELD, QUEUED, ABORTED}
    BY <1>1, <2>2, Positions
  <2> HIDE DEF next
  <2>7. Halts'
    BY <1>1, <2>2, <2>3, <2>6 DEF IInv, Halts, Entering
  <2>8. Owned'
    BY <1>1, <2>2, <2>3 DEF IInv, Owned, Entering
  <2>9. Serial'
    <3> SUFFICES ASSUME serial PROVE (OneCall /\ Still /\ OnePoll /\ SuspendedIsHeld)'
      BY <1>1 DEF Serial
    <3>1. OneCall /\ Still /\ OnePoll /\ SuspendedIsHeld
      BY DEF IInv, Serial
    <3>2. OneCall'
      BY <1>1, <3>1 DEF OneCall
    <3>3. Still'
      BY <1>1, <1>2, <2>2, <2>3, <2>6, <3>1 DEF Still, Entering, IInv, TypeOK, Job
    <3>4. OnePoll'
      <4>1. \A g \in gates : g.job # t.job
        BY <1>1, <1>2, <2>6, <3>1 DEF OnePoll
      <4> QED BY <1>1, <2>3, <3>1, <4>1 DEF OnePoll, Entering, IInv, TypeOK
    <3>5. SuspendedIsHeld'
      BY <1>1, <1>2, <2>2, <2>3, <2>6, <3>1 DEF SuspendedIsHeld, Entering, IInv, TypeOK, Job
    <3> QED BY <3>2, <3>3, <3>4, <3>5
  <2> QED BY <2>4, <2>5, <2>7, <2>8, <2>9 DEF IInv
<1>3. CASE jobs[t.job].state # t.from
  <2>1. timers' = timers \ {t} /\ UNCHANGED <<jobs, gates, operations>>
    BY <1>3 DEF TimerFires
  <2>2. TypeOK'
    BY <1>1, <2>1 DEF IInv, TypeOK
  <2>3. Counted'
    BY <1>1, <2>1, CountedAlone
  <2>4. Halts' /\ Owned'
    BY <1>1, <2>1 DEF IInv, Halts, Owned
  <2>5. Serial'
    BY <1>1, <2>1 DEF IInv, Serial, OneCall, Still, OnePoll, SuspendedIsHeld
  <2> QED BY <2>2, <2>3, <2>4, <2>5 DEF IInv
<1> QED BY <1>2, <1>3

\* A poll that goes on as another one of the same job, or is over.
LEMMA PollStep ==
    ASSUME IInv, NEW g \in gates, NEW others \in SUBSET Poll,
           others = {} \/ \E h : others = {h} /\ h.job = g.job,
           gates' = (gates \ {g}) \union others,
           UNCHANGED <<serial, plan, jobs, timers, dispatching, suspending, resuming, issued,
                       operations>>
    PROVE  IInv'
<1>1. TypeOK'
  BY DEF IInv, TypeOK, Poll
<1>2. Counted'
  <2>1. /\ IsFiniteSet(gates')
        /\ \A j \in Objects : /\ Cardinality(PollsOf(j)) \in Nat /\ Cardinality(PollsOf(j)') \in Nat
                              /\ Cardinality(PollsOf(j)') <= Cardinality(PollsOf(j))
    <3>1. IsFiniteSet(gates)
      BY DEF IInv, Counted
    <3> QED BY <3>1, Replaced
  <2>2. \A k \in Objects :
           /\ Cardinality(PollsOf(k)') \in Nat
           /\ Cardinality(PollsOf(k)') + BeforeGate(jobs'[k].state)
                 <= Cardinality(PollsOf(k)) + BeforeGate(jobs[k].state)
    BY <2>1, Numbers
  <2> QED BY <2>1, <2>2, StillCounted
<1>3. Halts' /\ Owned'
  BY DEF IInv, Halts, Owned
<1>4. Serial'
  <2>1. OneCall /\ Still /\ SuspendedIsHeld => (OneCall /\ Still /\ SuspendedIsHeld)'
    BY DEF OneCall, Still, SuspendedIsHeld
  <2>2. OnePoll => OnePoll'
    BY DEF OnePoll
  <2> QED BY <2>1, <2>2 DEF IInv, Serial
<1> QED BY <1>1, <1>2, <1>3, <1>4 DEF IInv

LEMMA PollOver ==
    ASSUME IInv, NEW g \in gates, gates' = gates \ {g},
           UNCHANGED <<serial, plan, jobs, timers, dispatching, suspending, resuming, issued,
                       operations>>
    PROVE  IInv'
<1>1. gates' = (gates \ {g}) \union {} /\ {} \in SUBSET Poll
  OBVIOUS
<1> QED BY <1>1, PollStep

LEMMA PollGoesOn ==
    ASSUME IInv, NEW g \in gates, NEW h \in Poll, h.job = g.job,
           gates' = (gates \ {g}) \union {h},
           UNCHANGED <<serial, plan, jobs, timers, dispatching, suspending, resuming, issued,
                       operations>>
    PROVE  IInv'
<1> DEFINE others == {h}
<1>1. others \in SUBSET Poll /\ others = {h} /\ gates' = (gates \ {g}) \union others
  OBVIOUS
<1> HIDE DEF others
<1> QED BY <1>1, PollStep

\* A deadline, a poll or a failed read.
LEMMA GatesStep ==
    ASSUME IInv, NEW j \in Objects, NEW c \in Chains,
           DeadlinePasses(j, c) \/ PollGate(j, c) \/ GateReadFails(j, c)
    PROVE  IInv'
<1>1. \A g \in gates : /\ [g EXCEPT !.late = TRUE] \in Poll /\ [g EXCEPT !.late = TRUE].job = g.job
                       /\ [g EXCEPT !.asking = TRUE] \in Poll /\ [g EXCEPT !.asking = TRUE].job = g.job
  BY DEF IInv, TypeOK, Poll
<1>2. CASE DeadlinePasses(j, c)
  <2>1. PICK g \in Polls(j, c) :
          /\ gates' = (gates \ {g}) \union {[g EXCEPT !.late = TRUE]}
          /\ UNCHANGED <<serial, plan, jobs, timers, dispatching, suspending, resuming, issued,
                         operations>>
    BY <1>2 DEF DeadlinePasses
  <2>2. g \in gates
    BY DEF Polls
  <2> QED BY <1>1, <2>1, <2>2, PollGoesOn
<1>3. CASE PollGate(j, c)
  <2>1. PICK g \in Polls(j, c) :
          /\ gates' = (gates \ {g}) \union
                      (IF jobs[j].state = Gate THEN {[g EXCEPT !.asking = TRUE]} ELSE {})
          /\ UNCHANGED <<serial, plan, jobs, timers, dispatching, suspending, resuming, issued,
                         operations>>
    BY <1>3 DEF PollGate
  <2>2. g \in gates
    BY DEF Polls
  <2>3. CASE jobs[j].state = Gate
    <3>1. gates' = (gates \ {g}) \union {[g EXCEPT !.asking = TRUE]}
      BY <2>1, <2>3
    <3> QED BY <1>1, <2>1, <2>2, <3>1, PollGoesOn
  <2>4. CASE jobs[j].state # Gate
    <3>1. gates' = gates \ {g}
      BY <2>1, <2>4
    <3> QED BY <2>1, <2>2, <3>1, PollOver
  <2> QED BY <2>3, <2>4
<1>4. CASE GateReadFails(j, c)
  <2>1. PICK g \in Polls(j, c) : gates' = gates \ {g}
    BY <1>4 DEF GateReadFails
  <2>2. UNCHANGED <<serial, plan, jobs, timers, dispatching, suspending, resuming, issued,
                    operations>>
    BY <1>4 DEF GateReadFails
  <2>3. g \in gates
    BY DEF Polls
  <2> QED BY <2>1, <2>2, <2>3, PollOver
<1> QED BY <1>2, <1>3, <1>4

LEMMA GateAnsweredStep ==
    ASSUME IInv, NEW j \in Objects, NEW c \in Chains, GateAnswered(j, c)
    PROVE  IInv'
<1> DEFINE next == Following(jobs[j].state)
<1>1. PICK g \in Polls(j, c) :
        LET open == hasDecision(j) \/ g.late IN
           IF open /\ next \in Lifecycle
           THEN Enter(j, jobs[j], next, timers, gates \ {g})
           ELSE /\ gates' = (gates \ {g}) \union (IF open THEN {} ELSE {[g EXCEPT !.asking = FALSE]})
                /\ UNCHANGED <<jobs, timers, operations>>
  BY DEF GateAnswered
<1>2. /\ UNCHANGED <<serial, plan, dispatching, suspending, resuming, issued>>
      /\ g \in gates /\ g.job = j
  BY DEF GateAnswered, Polls
<1>3. CASE (hasDecision(j) \/ g.late) /\ next \in Lifecycle
  <2>1. Enter(j, jobs[j], next, timers, gates \ {g})
    BY <1>1, <1>3
  <2>2. /\ jobs[j] \in Job /\ next \in States
        /\ gates \ {g} \in SUBSET gates
    BY <1>3 DEF IInv, TypeOK, States
  <2>3. Entering(j, jobs[j], next, gates \ {g})
    <3>1. TypeOK /\ Counted
      BY DEF IInv
    <3> HIDE DEF next
    <3> QED BY <2>1, <2>2, <3>1, Entered
  <2>4. TypeOK'
    BY <1>2, <2>3 DEF IInv, TypeOK, Entering, Poll
  <2>5. Counted'
    <3> DEFINE Left(k) == {h \in gates \ {g} : h.job = k}
    <3>1. IsFiniteSet(gates')
      BY <2>3 DEF Entering
    <3>2. ASSUME NEW k \in Objects
          PROVE  /\ Cardinality(PollsOf(k)') \in Nat
                 /\ Cardinality(PollsOf(k)') + BeforeGate(jobs'[k].state)
                       <= Cardinality(PollsOf(k)) + BeforeGate(jobs[k].state)
      <4>1. /\ Cardinality(PollsOf(k)') \in Nat /\ Cardinality(Left(k)) \in Nat
            /\ Cardinality(PollsOf(k)') + BeforeGate(jobs'[k].state)
                  <= Cardinality(Left(k)) + IF k = j THEN Reaches(next) ELSE BeforeGate(jobs[k].state)
        BY <2>3 DEF Entering
      <4>2. /\ BeforeGate(jobs'[k].state) \in Nat /\ BeforeGate(jobs[k].state) \in Nat
            /\ Reaches(next) \in Nat /\ Reaches(next) <= 1
        BY DEF Reaches, BeforeGate
      <4>3. CASE k # j
        <5>1. Left(k) = PollsOf(k)
          BY <1>2, <4>3 DEF PollsOf
        <5> QED BY <4>1, <4>2, <4>3, <5>1
      <4>4. CASE k = j
        <5>1. Left(k) = PollsOf(k) \ {g} /\ g \in PollsOf(k)
          BY <1>2, <4>4 DEF PollsOf
        <5>2. IsFiniteSet(PollsOf(k))
          BY FS_Subset DEF IInv, Counted, PollsOf
        <5>3. Cardinality(Left(k)) = Cardinality(PollsOf(k)) - 1
          BY <5>1, <5>2, FS_RemoveElement
        <5> HIDE DEF next, Left
        <5> QED BY <4>1, <4>2, <4>4, <5>3, Numbers
      <4> QED BY <4>3, <4>4
    <3> QED BY <1>2, <3>1, <3>2, StillCounted
  <2>6. next # HELD
    BY <1>3, Positions
  <2>7. Halts'
    BY <1>2, <2>2, <2>3, <2>6 DEF IInv, Halts, Entering
  <2>8. Owned'
    BY <1>2, <2>2, <2>3 DEF IInv, Owned, Entering
  <2>9. Serial'
    <3> SUFFICES ASSUME serial PROVE (OneCall /\ Still /\ OnePoll /\ SuspendedIsHeld)'
      BY <1>2 DEF Serial
    <3>1. OneCall /\ Still /\ OnePoll /\ SuspendedIsHeld
      BY DEF IInv, Serial
    <3>2. jobs[j].state \in {Gate, ABORTED} /\ jobs[j].state \notin {HELD, QUEUED}
          /\ \A h \in gates \ {g} : h.job # j
      BY <1>2, <3>1, Positions DEF OnePoll
    <3> HIDE DEF next
    <3>3. OneCall'
      BY <1>2, <3>1 DEF OneCall
    <3>4. Still'
      <4>1. /\ \A d \in dispatching : d.job # j /\ d.job \in Objects
            /\ \A e \in suspending : e.job # j /\ e.job \in Objects
            /\ \A r \in resuming : r.job # j /\ r.job \in Objects
        BY <3>1, <3>2 DEF Still, IInv, TypeOK
      <4>2. /\ \A k \in Objects : k # j => jobs'[k] = jobs[k]
            /\ \A o \in Operations : operations'[o].suspended = operations[o].suspended
        BY <2>3 DEF Entering
      <4> QED BY <1>2, <3>1, <4>1, <4>2 DEF Still, IInv, TypeOK, Job
    <3>5. OnePoll'
      BY <2>3, <3>1, <3>2 DEF OnePoll, Entering, IInv, TypeOK
    <3>6. SuspendedIsHeld'
      BY <1>2, <2>2, <2>3, <3>1, <3>2 DEF SuspendedIsHeld, Entering, IInv, TypeOK, Job
    <3> QED BY <3>3, <3>4, <3>5, <3>6
  <2> QED BY <2>4, <2>5, <2>7, <2>8, <2>9 DEF IInv
<1>4. CASE ~((hasDecision(j) \/ g.late) /\ next \in Lifecycle)
  <2>1. /\ gates' = (gates \ {g}) \union (IF hasDecision(j) \/ g.late
                                          THEN {} ELSE {[g EXCEPT !.asking = FALSE]})
        /\ UNCHANGED <<jobs, timers, operations>>
    BY <1>1, <1>4
  <2>2. CASE hasDecision(j) \/ g.late
    <3>1. gates' = gates \ {g}
      BY <2>1, <2>2
    <3> QED BY <1>2, <2>1, <3>1, PollOver
  <2>3. CASE ~(hasDecision(j) \/ g.late)
    <3>1. /\ gates' = (gates \ {g}) \union {[g EXCEPT !.asking = FALSE]}
          /\ [g EXCEPT !.asking = FALSE] \in Poll /\ [g EXCEPT !.asking = FALSE].job = g.job
      BY <1>2, <2>1, <2>3 DEF IInv, TypeOK, Poll
    <3> QED BY <1>2, <2>1, <3>1, PollGoesOn
  <2> QED BY <2>2, <2>3
<1> QED BY <1>3, <1>4

LEMMA DecidedStep == ASSUME IInv, Decided PROVE IInv'
<1>1. PICK p \in Operations :
        /\ operations' = [operations EXCEPT ![p].decided = TRUE]
        /\ UNCHANGED <<serial, plan, jobs, timers, gates, dispatching, suspending, resuming, issued>>
  BY DEF Decided
<1>2. \A o \in Operations : operations'[o].suspended = operations[o].suspended
  BY <1>1 DEF IInv, TypeOK
<1>3. TypeOK'
  BY <1>1 DEF IInv, TypeOK
<1>4. Counted'
  BY <1>1, CountedAlone
<1>5. Halts' /\ Owned'
  BY <1>1 DEF IInv, Halts, Owned
<1>6. Serial'
  <2> SUFFICES ASSUME serial PROVE (OneCall /\ Still /\ OnePoll /\ SuspendedIsHeld)'
    BY <1>1 DEF Serial
  <2>1. OneCall /\ Still /\ OnePoll /\ SuspendedIsHeld
    BY DEF IInv, Serial
  <2>2. OneCall' /\ OnePoll'
    BY <1>1, <2>1 DEF OneCall, OnePoll
  <2>3. Still' /\ SuspendedIsHeld'
    BY <1>1, <1>2, <2>1 DEF Still, SuspendedIsHeld, IInv, TypeOK, Job
  <2> QED BY <2>2, <2>3
<1> QED BY <1>3, <1>4, <1>5, <1>6 DEF IInv

-----------------------------------------------------------------------------
(***************************************************************************)
(* The invariants of the specification                                     *)
(***************************************************************************)

LEMMA InitInv == Init => IInv
<1> SUFFICES ASSUME Init PROVE IInv
  OBVIOUS
<1>1. TypeOK
  BY FacilityAssumption DEF Init, TypeOK, Job, States, Objects, Operations
<1>2. Counted
  <2>1. IsFiniteSet({}) /\ Cardinality({}) = 0
    BY FS_EmptySet
  <2>2. \A j \in Objects : PollsOf(j) = {} /\ BeforeGate(jobs[j].state) = 0
    BY Positions DEF Init, PollsOf, BeforeGate
  <2> QED BY <2>1, <2>2, FacilityAssumption DEF Init, Counted
<1>3. Halts /\ Owned
  BY Positions DEF Init, Halts, Owned
<1>4. Serial
  BY DEF Init, Serial, OneCall, Still, OnePoll, SuspendedIsHeld
<1> QED BY <1>1, <1>2, <1>3, <1>4 DEF IInv

LEMMA NextInv == IInv /\ [Next]_vars => IInv'
<1> SUFFICES ASSUME IInv, [Next]_vars PROVE IInv'
  OBVIOUS
<1>1. CASE Requests
  BY <1>1, DispatchStep, AbortStep, SuspendStep, ResumeStep, ResetStep DEF Requests
<1>2. CASE Answers
  <2>1. CASE DispatchFails \/ ResumeFails \/ SuspendFails
    BY <2>1, CallFailsStep DEF DispatchFails, ResumeFails, SuspendFails
  <2> QED BY <1>2, <2>1, WorkflowStartsStep, DispatchedStep, WorkflowResumesStep, ResumedStep,
             WorkflowSuspendsStep DEF Answers
<1>3. CASE Gates
  BY <1>3, GatesStep, GateAnsweredStep DEF Gates
<1>4. CASE Decided
  BY <1>4, DecidedStep
<1>5. CASE \E t \in Ticks : TimerFires(t)
  BY <1>5, TimerFiresStep
<1>6. CASE UNCHANGED vars
  <2>1. IInv' <=> IInv
    BY <1>6, CallFailsStep DEF vars
  <2> QED BY <2>1
<1> QED BY <1>1, <1>2, <1>3, <1>4, <1>5, <1>6 DEF Next

LEMMA Invariance == Spec => []IInv
BY InitInv, NextInv, PTL DEF Spec

\* Every variable keeps its type: a job is resumed to a state of its lifecycle, and a
\* visit to the gate always finds a poll chain for itself.
THEOREM TypeCorrect == Spec => []TypeOK
<1>1. IInv => TypeOK
  BY DEF IInv
<1> QED BY <1>1, Invariance, PTL

\* When clients wait for their answers, resume() comes back from its await to the halt
\* it has read before it: nothing else puts a held job back, or holds it anew.
THEOREM HaltIsFound == Spec => []ResumeFindsHalt
<1>1. IInv => ResumeFindsHalt
  BY DEF IInv, Serial, Still, ResumeFindsHalt
<1> QED BY <1>1, Invariance, PTL

\* When clients wait for their answers, a job that moves has a workflow that is not
\* suspended: the suspension that a halt sends arrives before the resume that ends it.
THEOREM ToldFirst == Spec => []ToldBeforeMoving
<1>1. IInv => ToldBeforeMoving
  BY Positions DEF IInv, Serial, SuspendedIsHeld, ToldBeforeMoving
<1> QED BY <1>1, Invariance, PTL

-----------------------------------------------------------------------------
(***************************************************************************)
(* Connectivity is given back by signalComplete()                          *)
(***************************************************************************)

\* The operation that a transition gives back is that of the job that makes it.
LEMMA Released ==
    ASSUME IInv, IInv', NEW k \in Objects, NEW job \in Job, NEW state \in States,
           NEW pending, NEW polling, Enter(k, job, state, pending, polling),
           NEW j \in Objects, jobs'[j].operation # 0,
           operations'[jobs'[j].operation].completed,
           ~operations[jobs'[j].operation].completed
    PROVE  j = k /\ state \in Ended /\ jobs'[j].state = state
<1> DEFINE o == jobs'[j].operation
<1>1. /\ jobs' = [jobs EXCEPT ![k] = [job EXCEPT !.state = state]]
      /\ operations' = IF state \in Ended THEN Completed(job.operation) ELSE operations
  BY DEF Enter
<1>2. o \in Operations /\ operations'[o].completed /\ ~operations[o].completed
  BY DEF IInv, TypeOK, Job
<1>3. jobs'[k].operation = job.operation /\ jobs'[k].state = state
  BY <1>1 DEF IInv, TypeOK, Job
<1>4. state \in Ended /\ o = job.operation
  <2> HIDE DEF o
  <2> QED BY <1>1, <1>2 DEF Completed, IInv, TypeOK
<1>5. j = k
  BY <1>2, <1>3, <1>4, Numbers DEF IInv, Owned
<1> QED BY <1>3, <1>4, <1>5

\* Only a transition gives a connectivity back, unless the plan is replaced.
LEMMA OnlyEntered ==
    ASSUME IInv, [Next]_vars, plan' = plan, NEW o \in Operations,
           operations'[o].completed, ~operations[o].completed
    PROVE  \/ Abort \/ Suspend \/ Dispatched \/ Resumed
           \/ \E t \in Ticks : TimerFires(t)
           \/ \E j \in Objects, c \in Chains : GateAnswered(j, c)
<1>1. operations' # operations
  OBVIOUS
<1>2. ~WorkflowStarts /\ ~WorkflowSuspends /\ ~WorkflowResumes /\ ~Decided
  <2>1. ~WorkflowStarts
    BY DEF WorkflowStarts, IInv, TypeOK
  <2>2. ~WorkflowSuspends
    <3>1. ASSUME NEW p, operations' = [operations EXCEPT ![p].suspended = TRUE]
          PROVE  FALSE
      BY <3>1 DEF IInv, TypeOK
    <3> QED BY <3>1 DEF WorkflowSuspends
  <2>3. ~WorkflowResumes
    <3>1. ASSUME NEW p, operations' = [operations EXCEPT ![p].suspended = FALSE]
          PROVE  FALSE
      BY <3>1 DEF IInv, TypeOK
    <3> QED BY <3>1 DEF WorkflowResumes
  <2>4. ~Decided
    BY DEF Decided, IInv, TypeOK
  <2> QED BY <2>1, <2>2, <2>3, <2>4
<1>3. ~Dispatch /\ ~Resume /\ ~DispatchFails /\ ~ResumeFails /\ ~SuspendFails
  BY <1>1 DEF Dispatch, Resume, DispatchFails, ResumeFails, SuspendFails
<1>4. ~Reset
  BY Numbers DEF Reset
<1>5. ASSUME NEW j \in Objects, NEW c \in Chains
      PROVE  ~DeadlinePasses(j, c) /\ ~PollGate(j, c) /\ ~GateReadFails(j, c)
  BY <1>1 DEF DeadlinePasses, PollGate, GateReadFails
<1> QED BY <1>1, <1>2, <1>3, <1>4, <1>5 DEF Next, Requests, Answers, Gates, vars

LEMMA ReleaseStep ==
    ASSUME IInv, IInv', [Next]_vars, plan' = plan, NEW j \in Objects,
           jobs'[j].operation # 0,
           operations'[jobs'[j].operation].completed,
           ~operations[jobs'[j].operation].completed
    PROVE  \/ jobs'[j].state = Last
           \/ jobs'[j].state = ABORTED /\ ~isLoadCommitted(jobs[j].state)
<1> DEFINE o == jobs'[j].operation
<1>1. /\ o \in Operations /\ plan \in Objects
      /\ Lifecycle \subseteq States /\ HELD \in States /\ ABORTED \in States
      /\ HELD \notin Ended /\ \A s \in Lifecycle \intersect Ended : s = Last
  BY Numbers, Positions DEF IInv, TypeOK, Job, States, Ended
<1>2. ASSUME Hold(plan), isJobInFlight(jobs[plan].state), jobs[plan].state # HELD
      PROVE  FALSE
  <2> DEFINE job == [jobs[plan] EXCEPT !.heldFrom = jobs[plan].state]
  <2>1. job \in Job
    <3>1. jobs[plan] \in Job /\ jobs[plan].state \in States
      BY <1>1 DEF IInv, TypeOK, Job
    <3>2. jobs[plan].state \in Lifecycle
      BY <1>2, <3>1 DEF isJobInFlight, States, Ended
    <3> QED BY <3>1, <3>2 DEF Job
  <2>2. Enter(plan, job, HELD, timers, gates)
    BY <1>2 DEF Hold
  <2> HIDE DEF job
  <2>3. HELD \in Ended
    BY <1>1, <2>1, <2>2, Released
  <2> QED BY <1>1, <2>3
<1>3. CASE Suspend
  BY <1>2, <1>3 DEF Suspend
<1>4. CASE Abort
  <2>1. /\ ~isLoadCommitted(jobs[plan].state) /\ jobs[plan] \in Job
        /\ Enter(plan, jobs[plan], ABORTED, timers, gates)
    BY <1>1, <1>2, <1>4 DEF Abort, IInv, TypeOK
  <2>2. j = plan /\ jobs'[j].state = ABORTED
    BY <1>1, <2>1, Released
  <2> QED BY <2>1, <2>2
<1>5. CASE Dispatched
  <2>1. PICK d \in dispatching :
          Enter(d.job, [jobs[d.job] EXCEPT !.operation = d.operation], 1, timers, gates)
    BY <1>5 DEF Dispatched
  <2>2. d.job \in Objects /\ [jobs[d.job] EXCEPT !.operation = d.operation] \in Job
    BY DEF IInv, TypeOK, Job
  <2>3. 1 \in Ended
    BY <1>1, <2>1, <2>2, Positions, Released
  <2> QED BY <1>1, <2>3, Positions
<1>6. CASE Resumed
  <2>1. PICK r \in resuming :
          Enter(r.job, [jobs[r.job] EXCEPT !.heldFrom = 0], r.to, timers, gates)
    BY <1>6 DEF Resumed
  <2>2. /\ r.job \in Objects /\ [jobs[r.job] EXCEPT !.heldFrom = 0] \in Job
        /\ r.to \in Lifecycle
    BY DEF IInv, TypeOK, Job
  <2>3. r.to \in Ended /\ jobs'[j].state = r.to
    BY <1>1, <2>1, <2>2, Released
  <2> QED BY <1>1, <2>2, <2>3
<1>7. CASE \E t \in Ticks : TimerFires(t)
  <2>1. PICK t \in Ticks : TimerFires(t)
    BY <1>7
  <2>2. t.job \in Objects /\ jobs[t.job] \in Job /\ t.from # Last /\ t.from \in States
    BY <1>1, <2>1 DEF Ticks, TimerFires, IInv, TypeOK, Halts
  <2>3. CASE Enter(t.job, jobs[t.job], Following(t.from), timers \ {t}, gates)
    <3>1. Following(t.from) \in Lifecycle
      BY <2>2, Positions
    <3>2. Following(t.from) \in Ended /\ jobs'[j].state = Following(t.from)
      BY <1>1, <2>2, <2>3, <3>1, Released
    <3> QED BY <1>1, <3>1, <3>2
  <2>4. CASE UNCHANGED operations
    BY <2>4
  <2> QED BY <2>1, <2>3, <2>4 DEF TimerFires
<1>8. CASE \E k \in Objects, c \in Chains : GateAnswered(k, c)
  <2>1. PICK k \in Objects, c \in Chains : GateAnswered(k, c)
    BY <1>8
  <2> DEFINE next == Following(jobs[k].state)
  <2>2. \/ UNCHANGED operations
        \/ next \in Lifecycle /\ \E g \in gates : Enter(k, jobs[k], next, timers, gates \ {g})
    BY <2>1 DEF GateAnswered, Polls
  <2>3. CASE UNCHANGED operations
    BY <2>3
  <2>4. CASE next \in Lifecycle /\ \E g \in gates : Enter(k, jobs[k], next, timers, gates \ {g})
    <3>1. jobs[k] \in Job
      BY DEF IInv, TypeOK
    <3> HIDE DEF next
    <3>2. next \in Ended /\ jobs'[j].state = next
      BY <1>1, <2>4, <3>1, Released
    <3> QED BY <1>1, <2>4, <3>2
  <2> QED BY <2>2, <2>3, <2>4
<1>9. \/ Abort \/ Suspend \/ Dispatched \/ Resumed
      \/ \E t \in Ticks : TimerFires(t)
      \/ \E k \in Objects, c \in Chains : GateAnswered(k, c)
  BY <1>1, OnlyEntered
<1> QED BY <1>3, <1>4, <1>5, <1>6, <1>7, <1>8, <1>9

\* Connectivity is given back only for a job that reaches the end of its lifecycle, that
\* is aborted with nothing committed, or that a reset drops: whatever calls, timers, polls
\* and continuations of replaced plans come in between.
THEOREM ReleaseIsSafe == Spec => ReleasedOnlyWhenSafe
<1>1. IInv /\ IInv' /\ [Next]_vars =>
        [\A j \in Objects : LET o == jobs'[j].operation IN
          o # 0 /\ operations'[o].completed /\ ~operations[o].completed =>
             \/ plan' # plan
             \/ jobs'[j].state = Last
             \/ jobs'[j].state = ABORTED /\ ~isLoadCommitted(jobs[j].state)]_vars
  BY ReleaseStep
<1> QED BY <1>1, Invariance, PTL DEF Spec, ReleasedOnlyWhenSafe

=============================================================================
