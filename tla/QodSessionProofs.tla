-------------------------- MODULE QodSessionProofs --------------------------
(***************************************************************************)
(* What holds of a session against the clock, whatever the duration, the   *)
(* chunks, the budgets, the grace and the time activities take.            *)
(***************************************************************************)
EXTENDS QodSession, TLAPS

-----------------------------------------------------------------------------
(***************************************************************************)
(* Arithmetic of whole chunks                                              *)
(***************************************************************************)

LEMMA Product == \A a, b \in Int : a * b \in Int /\ (a + 1) * b = a * b + b /\ 0 * b = 0
OBVIOUS

LEMMA ProductNat == \A a, b \in Nat : a * b \in Nat
OBVIOUS

LEMMA ProductLess ==
    ASSUME NEW a \in Int, NEW b \in Int, NEW k \in Nat \ {0}, a * k < b * k
    PROVE  a < b
<1> SUFFICES ASSUME b <= a PROVE FALSE
  OBVIOUS
<1>1. PICK d \in Nat : a = b + d
  <2>1. a - b \in Nat /\ a = b + (a - b)
    OBVIOUS
  <2> QED BY <2>1
<1>2. a * k = b * k + d * k /\ d * k >= 0
  BY <1>1
<1> QED BY <1>2

LEMMA ProductMonotone ==
    ASSUME NEW a \in Int, NEW b \in Int, NEW k \in Nat, a <= b
    PROVE  a * k <= b * k
<1>1. b - a \in Nat /\ b = a + (b - a)
  OBVIOUS
<1>2. (b - a) * k >= 0 /\ b * k = a * k + (b - a) * k
  BY <1>1
<1> QED BY <1>2

LEMMA Constants ==
    /\ Expected \in Nat \ {0} /\ Grace \in Nat /\ ConfirmWait \in Nat /\ Latency \in Nat
    /\ Multiplier \in Nat \ {0} /\ SuspendedMax \in Nat /\ MaxWait \in Nat \ {0}
    /\ Chunk \in Nat \ {0} /\ Expected <= Chunk
<1>1. Chunk \in Nat \ {0} /\ Expected <= Chunk
  BY QodAssumption DEF Chunk
<1>2. MaxWait \in Nat \ {0}
  BY QodAssumption DEF MaxWait
<1> QED BY <1>1, <1>2, QodAssumption

\* Whole chunks cover what they are made of, and the chunk that is begun below it.
LEMMA WholeChunk ==
    ASSUME NEW n \in Nat
    PROVE  /\ WholeChunks(n) \in Nat
           /\ \A a \in Nat : a * Chunk < n => a * Chunk + Chunk <= WholeChunks(n)
<1> DEFINE K == Chunk
           q == (n + K - 1) \div K
<1>1. K \in Nat \ {0} /\ n + K - 1 \in Nat
  BY Constants
<1> HIDE DEF K
<1>2. q \in Nat /\ q * K <= n + K - 1 /\ n + K - 1 < q * K + K
  BY <1>1
<1>3. WholeChunks(n) = q * K
  BY DEF WholeChunks, K
<1> HIDE DEF q
<1>4. ASSUME NEW a \in Nat, a * K < n
      PROVE  a * K + K <= q * K
  <2>1. n <= q * K /\ a * K \in Nat /\ q * K \in Nat
    BY <1>1, <1>2
  <2>2. a < q
    BY <1>1, <1>2, <1>4, <2>1, ProductLess
  <2>3. a + 1 <= q
    BY <1>2, <2>2
  <2>4. (a + 1) * K <= q * K
    BY <1>1, <1>2, <2>3, ProductMonotone
  <2> QED BY <1>1, <2>4, Product
<1>5. q * K \in Nat
  BY <1>1, <1>2
<1> QED BY <1>3, <1>4, <1>5 DEF K

-----------------------------------------------------------------------------
(***************************************************************************)
(* The inductive invariants                                                *)
(***************************************************************************)

Before == {"allocating", "created", "announcing", "confirming", "polling", "recording"}

\* What an await has left is at most what it began with, and the network's session goes
\* from nothing over REQUESTED to AVAILABLE, with time left for as long as it is.
Session ==
    /\ phase \in {"allocating", "created", "announcing", "polling", "recording", "extending"}
          => timer <= Latency
    /\ phase = "confirming" => timer <= ConfirmWait
    /\ phase = "waiting" => timer <= Chunk
    /\ phase = "allocating" => status = "NONE"
    /\ status = "NONE" => phase \in {"allocating", "dead"}
    /\ status \in {"NONE", "REQUESTED"} => "AVAILABLE" \notin statuses
    /\ status = "REQUESTED" => left = Expected + Grace
    /\ status = "AVAILABLE" => left > 0

\* A level that came after the allocation and was not decided on differs from the known one.
Levelled ==
    /\ undecided => latest # known
    /\ phase \in {"allocating", "created"} => ~undecided

\* A network that had answered when the poll was sent is not read as REQUESTED.
Asks ==
    /\ phase \in {"allocating", "created", "announcing", "confirming"} => polled = "NONE"
    /\ phase = "polling" /\ asked # "REQUESTED" => status # "REQUESTED" /\ polled # "REQUESTED"

\* The budgets are used up in whole chunks; what was waited beyond them, wakes account for.
Multiple(n) == \E a \in Nat : n = a * Chunk

Budget ==
    /\ Multiple(waited) /\ Multiple(suspendedFor)
    /\ waited <= WholeChunks(MaxWait) /\ suspendedFor <= WholeChunks(SuspendedMax)
    /\ phase \in {"waiting", "handling", "extending"} => waited < MaxWait /\ suspendedFor < SuspendedMax
    /\ phase \in Before => waited = 0 /\ suspendedFor = 0 /\ held = 0 /\ wakes = 0
    /\ phase = "waiting"   => held + timer <= waited + suspendedFor + wakes * Chunk + Chunk
    /\ phase \in {"handling", "extending"} => held <= waited + suspendedFor + wakes * Chunk

\* A chunk is asked for after a chunk has gone by.
Asked == Expected + Grace + lost * Chunk

Reclaimed ==
    /\ phase \in Before => left <= Asked
    /\ phase = "waiting" /\ status = "AVAILABLE"   => left <= Asked + timer
    /\ phase = "extending" /\ status = "AVAILABLE" => left <= Asked

\* Until something wakes the monitor, the session is left what the grace exceeds the
\* awaits by: those before the first chunk, and one for every extension so far.
Margin == Expected + Grace - Chunk - ConfirmWait - (Multiplier + 3) * Latency

Spent ==
    /\ phase = "created"    => left >= Expected + Grace - Latency + timer
    /\ phase = "announcing" => left >= Expected + Grace - 2 * Latency + timer
    /\ phase = "confirming" => left >= Expected + Grace - 2 * Latency - ConfirmWait + timer
    /\ phase = "polling"    => left >= Expected + Grace - 3 * Latency - ConfirmWait + timer
    /\ phase = "recording"  => left >= Expected + Grace - 4 * Latency - ConfirmWait + timer

\* What the grace still has to cover after n extensions.
Remaining(n) == (Multiplier - 1 - n) * Latency

Extended(n) ==
    /\ n < Multiplier /\ waited = n * Chunk
    /\ status = "AVAILABLE" => left >= Margin + timer + Remaining(n)

Quiet ==
    wakes = 0 =>
        /\ ~deviceLost /\ ~wasSuspended /\ suspendedFor = 0 /\ phase # "handling"
        /\ phase \in {"created", "announcing", "confirming", "polling", "recording", "waiting",
                     "extending"} => ~Lapsed
        /\ status = "AVAILABLE" => Spent
        /\ Monitoring => \E n \in Nat : Extended(n)

-----------------------------------------------------------------------------
(***************************************************************************)
(* Types                                                                   *)
(***************************************************************************)

\* A signal, a callback or the row leaves the session, the clock and the monitor alone.
Hears == Register \/ Land \/ QodCallback \/ CongestionCallback \/ DeviceCallback \/ Complete \/ Halt

LEMMA HearsAlone ==
    Hears => UNCHANGED <<phase, timer, status, left, statuses, shown, waited, suspendedFor,
                         wasSuspended, deviceLost, known, held, wakes, lost, polled, asked>>
BY DEF Hears, Register, Land, QodCallback, CongestionCallback, DeviceCallback, Complete, Halt,
       Signal, network, told, locals, counters, poll

\* What a wake may change: the monitor waits again, releases, or handles what woke it.
LEMMA WakeAlone ==
    ASSUME Wake, TypeOK
    PROVE  /\ phase = "waiting" /\ wakes' = IF completed THEN wakes ELSE wakes + 1
           /\ UNCHANGED <<status, left, statuses, callbacks, row, qos, poll, shown, waited,
                          suspendedFor, completed, suspended, reachable, latest, signals, held, lost>>
           /\ Again \/ (~completed /\ phase' = "handling" /\ timer' = 3 * Latency)
           /\ news' \in {"none", "active", "ended"}
           /\ wasSuspended' \in {wasSuspended, suspended} /\ deviceLost' \in {deviceLost, ~reachable}
           /\ \/ known' = known /\ undecided' = undecided
              \/ known' = latest /\ undecided' = FALSE
           /\ completed => UNCHANGED <<wasSuspended, deviceLost>>
<1> USE DEF Wake, WakeAt, network
<1>1. /\ phase = "waiting" /\ wakes' = IF completed THEN wakes ELSE wakes + 1
      /\ UNCHANGED <<status, left, statuses, callbacks, row, qos, poll, shown, waited,
                     suspendedFor, completed, suspended, reachable, latest, signals, held, lost>>
  OBVIOUS
<1>2. CASE completed
  BY <1>1, <1>2 DEF TypeOK
<1>3. CASE ~completed /\ suspended # wasSuspended
  BY <1>1, <1>3 DEF Halted, Handles, TypeOK
<1>4. CASE ~completed /\ suspended = wasSuspended /\ ~reachable # deviceLost
  BY <1>1, <1>4 DEF DeviceLeft, Handles, TypeOK
<1>5. CASE ~completed /\ suspended = wasSuspended /\ ~reachable = deviceLost
  BY <1>1, <1>5 DEF Reassessed, Handles, TypeOK
<1> QED BY <1>2, <1>3, <1>4, <1>5

LEMMA TypeInit == Init => TypeOK /\ Session
<1> SUFFICES ASSUME Init PROVE TypeOK /\ Session
  OBVIOUS
<1>1. TypeOK
  <2>1. phase \in Phases /\ timer \in Nat
    BY Constants DEF Init, Phases, Awaits
  <2>2. status \in QosStatuses \cup {"NONE"} /\ left \in Nat /\ statuses \subseteq QosStatuses
        /\ callbacks \subseteq QosStatuses
    BY DEF Init, QosStatuses
  <2>3. row \in {"none", "active", "ended"} /\ news \in {"none", "active", "ended"}
    BY DEF Init
  <2>4. /\ qos \in QosStatuses \cup {"NONE"} /\ shown \in QosStatuses \cup {"NONE"}
        /\ polled \in QosStatuses \cup {"NONE"} /\ asked \in QosStatuses \cup {"NONE"}
    BY DEF Init, QosStatuses
  <2>5. waited \in Nat /\ suspendedFor \in Nat /\ held \in Nat /\ wakes \in Nat
    BY DEF Init
  <2>6. wasSuspended \in BOOLEAN /\ deviceLost \in BOOLEAN
    BY DEF Init
  <2>7. known \in Levels \cup {"none"} /\ latest \in Levels \cup {"none"} /\ undecided \in BOOLEAN
    BY DEF Init, Levels
  <2>8. completed \in BOOLEAN /\ suspended \in BOOLEAN /\ reachable \in BOOLEAN
    BY DEF Init
  <2>9. signals \in 0..MaxSignals /\ lost \in 0..MaxLost
    BY QodAssumption DEF Init
  <2> QED BY <2>1, <2>2, <2>3, <2>4, <2>5, <2>6, <2>7, <2>8, <2>9 DEF TypeOK
<1>2. Session
  BY Constants DEF Init, Session
<1> QED BY <1>1, <1>2

LEMMA TypeStep ==
    ASSUME TypeOK, Session, [Next]_vars
    PROVE  TypeOK' /\ Session'
<1> USE Constants, QodAssumption
<1> USE DEF network, told, locals, counters, trail, poll, Phases, Awaits, QosStatuses, Levels
<1>1. CASE Hears
  <2>1. TypeOK'
    <3>1. CASE Register
      BY <3>1 DEF Register, TypeOK
    <3>2. CASE QodCallback
      BY <3>2 DEF QodCallback, TypeOK
    <3>3. CASE CongestionCallback
      BY <3>3 DEF CongestionCallback, Signal, TypeOK
    <3>4. CASE DeviceCallback
      BY <3>4 DEF DeviceCallback, Signal, TypeOK
    <3>5. CASE Complete
      BY <3>5 DEF Complete, TypeOK
    <3>6. CASE Halt
      BY <3>6 DEF Halt, Signal, TypeOK
    <3>7. CASE Land
      BY <3>7 DEF Land, TypeOK
    <3> QED BY <1>1, <3>1, <3>2, <3>3, <3>4, <3>5, <3>6, <3>7 DEF Hears
  <2>2. Session'
    BY <1>1, HearsAlone DEF Session
  <2> QED BY <2>1, <2>2
<1>2. CASE Answer
  BY <1>2 DEF Answer, Becomes, TypeOK, Session
<1>3. CASE Clock
  <2>1. /\ timer' \in Nat /\ timer' <= timer /\ held' \in Nat
        /\ UNCHANGED <<phase, trail, qos, poll, shown, locals, told, wakes, lost>>
    BY <1>3 DEF Clock, Tick, TypeOK
  <2>2. \/ UNCHANGED <<status, left, statuses, callbacks>>
        \/ /\ status = "AVAILABLE" /\ status' = "AVAILABLE" /\ left' = left - 1 /\ left' > 0
           /\ UNCHANGED <<statuses, callbacks>>
        \/ /\ status = "AVAILABLE" /\ status' = "UNAVAILABLE" /\ left' = 0
           /\ statuses' = statuses \cup {"UNAVAILABLE"} /\ callbacks' = callbacks \cup {"UNAVAILABLE"}
    BY <1>3 DEF Clock, Tick, Becomes, TypeOK, Session
  <2>3. TypeOK'
    <3>1. left' \in Nat
      BY <2>2 DEF TypeOK
    <3>2. /\ status' \in QosStatuses \cup {"NONE"} /\ statuses' \subseteq QosStatuses
          /\ callbacks' \subseteq QosStatuses
      BY <2>2 DEF TypeOK
    <3> QED BY <2>1, <3>1, <3>2 DEF TypeOK
  <2>4. Session'
    BY <2>1, <2>2 DEF TypeOK, Session
  <2> QED BY <2>3, <2>4
<1>4. CASE Die
  BY <1>4 DEF Die, TypeOK, Session
<1>5. CASE Create
  BY <1>5 DEF Create, TypeOK, Session
<1>6. CASE Returned
  BY <1>6 DEF Returned, TypeOK, Session
<1>7. CASE Announced
  BY <1>7 DEF Announced, TypeOK, Session
<1>18. CASE Confirmed
  BY <1>18 DEF Confirmed, Records, TypeOK, Session
<1>8. CASE Poll
  BY <1>8 DEF Poll, TypeOK, Session
<1>9. CASE Read
  BY <1>9 DEF Read, TypeOK, Session
<1>17. CASE Polled
  BY <1>17 DEF Polled, Records, TypeOK, Session
<1>10. CASE Wake
  <2>1. /\ wakes' \in Nat /\ known' \in {known, latest} /\ undecided' \in BOOLEAN
        /\ wasSuspended' \in BOOLEAN /\ deviceLost' \in BOOLEAN
    <3>1. wakes' \in Nat
      <4>1. wakes' = IF completed THEN wakes ELSE wakes + 1
        BY <1>10, WakeAlone
      <4>2. wakes \in Nat
        BY DEF TypeOK
      <4> QED BY <4>1, <4>2
    <3>2. known' \in {known, latest} /\ undecided' \in BOOLEAN
      BY <1>10, WakeAlone DEF TypeOK
    <3>3. wasSuspended' \in BOOLEAN
      BY <1>10, WakeAlone DEF TypeOK
    <3>4. deviceLost' \in BOOLEAN
      BY <1>10, WakeAlone DEF TypeOK
    <3> QED BY <3>1, <3>2, <3>3, <3>4
  <2>2. \/ phase' = "waiting" /\ timer' = Chunk
        \/ phase' = "releasing" /\ timer' = 0
        \/ phase' = "handling" /\ timer' = 3 * Latency
    BY <1>10, WakeAlone DEF Again
  <2>3. TypeOK'
    <3>1. phase' \in Phases /\ timer' \in Nat
      BY <2>2
    <3>2. /\ status' \in QosStatuses \cup {"NONE"} /\ left' \in Nat /\ statuses' \subseteq QosStatuses
          /\ callbacks' \subseteq QosStatuses /\ row' \in {"none", "active", "ended"}
          /\ news' \in {"none", "active", "ended"}
      BY <1>10, WakeAlone DEF TypeOK
    <3>3. /\ qos' \in QosStatuses \cup {"NONE"} /\ shown' \in QosStatuses \cup {"NONE"}
          /\ polled' \in QosStatuses \cup {"NONE"} /\ asked' \in QosStatuses \cup {"NONE"}
      BY <1>10, WakeAlone DEF TypeOK
    <3>4. /\ waited' \in Nat /\ suspendedFor' \in Nat /\ held' \in Nat
          /\ known' \in Levels \cup {"none"} /\ latest' \in Levels \cup {"none"}
          /\ signals' \in 0..MaxSignals /\ lost' \in 0..MaxLost
      BY <1>10, <2>1, WakeAlone DEF TypeOK
    <3>5. completed' \in BOOLEAN /\ suspended' \in BOOLEAN /\ reachable' \in BOOLEAN
      BY <1>10, WakeAlone DEF TypeOK
    <3> QED BY <2>1, <3>1, <3>2, <3>3, <3>4, <3>5 DEF TypeOK
  <2>4. Session'
    BY <1>10, <2>2, WakeAlone DEF Session
  <2> QED BY <2>3, <2>4
<1>16. CASE Recorded \/ Handled
  <2>1. \/ phase' = "waiting" /\ timer' = Chunk
        \/ phase' = "releasing" /\ timer' = 0
    BY <1>16 DEF Recorded, Handled, Again
  <2>2. /\ UNCHANGED <<network, callbacks, trail, qos, poll, shown, locals, told, counters>>
        /\ phase \in {"recording", "handling"}
    BY <1>16 DEF Recorded, Handled
  <2>3. TypeOK'
    BY <2>1, <2>2 DEF TypeOK
  <2>4. Session'
    BY <2>1, <2>2 DEF Session
  <2> QED BY <2>3, <2>4
<1>11. CASE ChunkOver
  BY <1>11 DEF ChunkOver, Again, Continues, TypeOK, Session
<1>12. CASE Extend
  BY <1>12 DEF Extend, Again, Continues, TypeOK, Session
<1>13. CASE ExtendFails
  BY <1>13 DEF ExtendFails, TypeOK, Session
<1>14. CASE Release
  BY <1>14 DEF Release, TypeOK, Session
<1>15. CASE UNCHANGED vars
  BY <1>15 DEF vars, TypeOK, Session
<1> QED BY <1>1, <1>2, <1>3, <1>4, <1>5, <1>6, <1>7, <1>8, <1>9, <1>10, <1>11, <1>12, <1>13,
           <1>14, <1>15, <1>16, <1>17, <1>18 DEF Next, Workflow, Hears

\* Every variable keeps its type, and the network's session its order.
THEOREM TypeCorrect == Spec => [](TypeOK /\ Session)
BY TypeInit, TypeStep, PTL DEF Spec

-----------------------------------------------------------------------------
(***************************************************************************)
(* Congestion                                                              *)
(***************************************************************************)

LEMMA LevelStep ==
    ASSUME TypeOK, Levelled, [Next]_vars
    PROVE  Levelled'
<1> USE DEF network, told, locals, counters, trail, poll
<1>1. CASE CongestionCallback
  BY <1>1 DEF CongestionCallback, Signal, Allocated, Levelled, TypeOK
<1>2. CASE Register \/ Land \/ QodCallback \/ DeviceCallback \/ Complete \/ Halt \/ Answer
  BY <1>2 DEF Register, Land, QodCallback, DeviceCallback, Complete, Halt, Answer, Signal, Levelled
<1>3. CASE Clock \/ Die
  BY <1>3 DEF Clock, Tick, Die, Levelled
<1>4. CASE Create
  BY <1>4 DEF Create, Levelled
<1>5. CASE Returned
  BY <1>5 DEF Returned, Levelled
<1>6. CASE Wake
  <2>1. latest' = latest /\ phase' \notin {"allocating", "created"}
    BY <1>6, WakeAlone DEF Again
  <2>2. \/ known' = known /\ undecided' = undecided
        \/ known' = latest /\ undecided' = FALSE
    BY <1>6, WakeAlone
  <2> QED BY <2>1, <2>2 DEF Levelled
<1>7. CASE Announced \/ Confirmed \/ Poll \/ Read \/ Polled \/ Recorded \/ Handled \/ ChunkOver
           \/ Extend \/ ExtendFails \/ Release
  <2>1. undecided' = undecided /\ latest' = latest /\ known' = known
    BY <1>7 DEF Announced, Confirmed, Poll, Read, Polled, Recorded, Handled, ChunkOver, Extend,
                ExtendFails, Release
  <2>2. phase' \notin {"allocating", "created"}
    BY <1>7 DEF Announced, Confirmed, Poll, Read, Polled, Recorded, Handled, ChunkOver, Extend,
                ExtendFails, Release, Again, Records
  <2> QED BY <2>1, <2>2 DEF Levelled
<1>8. CASE UNCHANGED vars
  BY <1>8 DEF vars, Levelled
<1> QED BY <1>1, <1>2, <1>3, <1>4, <1>5, <1>6, <1>7, <1>8 DEF Next, Workflow

\* A congestion level that arrives after the allocation, while the workflow confirms,
\* extends or handles something else, wakes the monitor as soon as it waits.
THEOREM LevelsAreNotMissed == Spec => []NoLevelMissed
<1>1. Init => Levelled
  BY DEF Init, Levelled
<1>2. TypeOK /\ Levelled /\ [Next]_vars => Levelled'
  BY LevelStep
<1>3. Levelled => NoLevelMissed
  BY DEF Levelled, NoLevelMissed
<1> QED BY <1>1, <1>2, <1>3, TypeCorrect, PTL DEF Spec

LEMMA AskStep ==
    ASSUME TypeOK, Session, Asks, [Next]_vars
    PROVE  Asks'
<1> USE DEF network, told, locals, counters, trail, poll
<1>1. CASE Hears \/ UNCHANGED vars
  BY <1>1, HearsAlone DEF vars, Asks
<1>2. CASE Answer \/ Clock \/ Die
  <2>1. UNCHANGED <<polled, asked>> /\ phase' \in {phase, "dead"}
    BY <1>2 DEF Answer, Clock, Tick, Die
  <2>2. status' \in {status, "AVAILABLE", "UNAVAILABLE"}
    BY <1>2 DEF Answer, Clock, Tick, Die, Becomes
  <2> QED BY <2>1, <2>2 DEF Asks
<1>3. CASE Create \/ Returned \/ Announced
  BY <1>3 DEF Create, Returned, Announced, Asks
<1>4. CASE Poll
  BY <1>4 DEF Poll, Asks
<1>5. CASE Read
  BY <1>5 DEF Read, Asks
<1>6. CASE Wake
  <2>1. phase' \in {"waiting", "releasing", "handling"}
    BY <1>6, WakeAlone DEF Again
  <2> QED BY <2>1 DEF Asks
<1>7. CASE Confirmed \/ Polled \/ Recorded \/ Handled \/ ChunkOver \/ Extend \/ ExtendFails \/ Release
  <2>1. phase' \in {"recording", "waiting", "releasing", "extending", "over"}
    BY <1>7 DEF Confirmed, Polled, Recorded, Handled, ChunkOver, Extend, ExtendFails, Release,
                Records, Again
  <2> QED BY <2>1 DEF Asks
<1> QED BY <1>1, <1>2, <1>3, <1>4, <1>5, <1>6, <1>7 DEF Next, Workflow, Hears

\* The trail is given REQUESTED only when the network had not answered by the time the poll
\* was sent, whichever callbacks were lost on a missing row or replaced by the allocation.
THEOREM ShownIsCurrent == Spec => NeverShownStale
<1>1. ASSUME TypeOK, Asks, [Next]_vars, shown' = "REQUESTED", shown # shown'
      PROVE  asked = "REQUESTED"
  <2> USE DEF network, told, locals, counters, trail, poll
  <2>1. CASE Confirmed
    BY <1>1, <2>1 DEF Confirmed, Settled, Records
  <2>2. CASE Polled
    BY <1>1, <2>2 DEF Polled, Records, Asks
  <2>3. CASE Hears \/ Wake
    BY <1>1, <2>3, HearsAlone, WakeAlone
  <2>4. CASE Answer \/ Clock \/ Die
    BY <1>1, <2>4 DEF Answer, Clock, Tick, Die
  <2>5. CASE Create \/ Returned \/ Announced \/ Poll \/ Read \/ Recorded \/ Handled \/ ChunkOver
             \/ Extend \/ ExtendFails \/ Release
    BY <1>1, <2>5 DEF Create, Returned, Announced, Poll, Read, Recorded, Handled, ChunkOver,
                      Extend, ExtendFails, Release
  <2>6. CASE UNCHANGED vars
    BY <1>1, <2>6 DEF vars
  <2> QED BY <1>1, <2>1, <2>2, <2>3, <2>4, <2>5, <2>6 DEF Next, Workflow, Hears
<1>2. Init => Asks
  BY DEF Init, Asks
<1>3. TypeOK /\ Session /\ Asks /\ [Next]_vars => Asks'
  BY AskStep
<1>4. TypeOK /\ Asks /\ [Next]_vars
         => [shown' = "REQUESTED" /\ shown # shown' => asked = "REQUESTED"]_vars
  BY <1>1
<1> QED BY <1>2, <1>3, <1>4, TypeCorrect, PTL DEF Spec, NeverShownStale

-----------------------------------------------------------------------------
(***************************************************************************)
(* The budgets                                                             *)
(***************************************************************************)

LEMMA OneChunkMore == \A n : Multiple(n) => Multiple(n + Chunk) /\ n \in Nat
<1> SUFFICES ASSUME NEW n, Multiple(n) PROVE Multiple(n + Chunk) /\ n \in Nat
  OBVIOUS
<1>1. PICK a \in Nat : n = a * Chunk
  BY DEF Multiple
<1>2. a * Chunk \in Nat /\ (a + 1) * Chunk = a * Chunk + Chunk /\ a + 1 \in Nat
  BY Constants, ProductNat, Product
<1> QED BY <1>1, <1>2 DEF Multiple

\* A budget that is not used up has room for a whole chunk.
LEMMA Room ==
    ASSUME NEW n \in Nat, NEW m, Multiple(m), m < n
    PROVE  m + Chunk <= WholeChunks(n)
BY WholeChunk DEF Multiple

LEMMA Sums ==
    ASSUME TypeOK
    PROVE  /\ wakes * Chunk \in Nat /\ (wakes + 1) * Chunk = wakes * Chunk + Chunk
           /\ lost * Chunk \in Nat /\ (lost + 1) * Chunk = lost * Chunk + Chunk
           /\ WholeChunks(MaxWait) \in Nat /\ WholeChunks(SuspendedMax) \in Nat
<1>1. wakes \in Nat /\ lost \in Nat
  BY QodAssumption DEF TypeOK
<1>2. wakes * Chunk \in Nat /\ lost * Chunk \in Nat
  BY <1>1, Constants, ProductNat
<1>3. (wakes + 1) * Chunk = wakes * Chunk + Chunk /\ (lost + 1) * Chunk = lost * Chunk + Chunk
  BY <1>1, Constants, Product
<1> QED BY <1>2, <1>3, Constants, WholeChunk

LEMMA BudgetInit == Init => Budget /\ HoldIsBounded
<1> SUFFICES ASSUME Init PROVE Budget /\ HoldIsBounded
  OBVIOUS
<1>1. waited = 0 /\ suspendedFor = 0 /\ held = 0 /\ wakes = 0 /\ phase = "allocating"
  BY DEF Init
<1>2. Multiple(0) /\ 0 * Chunk = 0
  BY Constants, Product DEF Multiple
<1>3. WholeChunks(MaxWait) \in Nat /\ WholeChunks(SuspendedMax) \in Nat
  BY Constants, WholeChunk
<1> QED BY <1>1, <1>2, <1>3 DEF Budget, HoldIsBounded

LEMMA BudgetStep ==
    ASSUME TypeOK, TypeOK', Session, Budget, HoldIsBounded, [Next]_vars
    PROVE  Budget' /\ HoldIsBounded'
<1> USE DEF network, told, locals, counters, trail, poll, Before
<1> DEFINE W == WholeChunks(MaxWait)
           S == WholeChunks(SuspendedMax)
<1>1. /\ W \in Nat /\ S \in Nat /\ wakes * Chunk \in Nat /\ Chunk \in Nat \ {0}
      /\ timer \in Nat /\ waited \in Nat /\ suspendedFor \in Nat /\ held \in Nat
      /\ MaxWait \in Nat /\ SuspendedMax \in Nat
  BY Sums, Constants DEF TypeOK
<1>2. CASE Hears \/ Answer \/ UNCHANGED vars
  <2>1. UNCHANGED <<phase, timer, waited, suspendedFor, held, wakes>>
    BY <1>2, HearsAlone DEF Answer, vars
  <2>2. Budget'
    BY <2>1 DEF Budget, Multiple
  <2>3. HoldIsBounded'
    BY <2>1 DEF HoldIsBounded
  <2> QED BY <2>2, <2>3
<1>3. CASE Clock
  <2>1. UNCHANGED <<phase, waited, suspendedFor, wakes>>
    BY <1>3 DEF Clock, Tick
  <2>2. /\ phase = "waiting" => held' = held + 1 /\ timer' = timer - 1 /\ timer > 0
        /\ phase # "waiting" => held' = held
    BY <1>3 DEF Clock, Tick, Awaits
  <2>3. Budget'
    <3>1. Multiple(waited') /\ Multiple(suspendedFor')
      BY <2>1 DEF Budget
    <3>2. phase = "waiting" => held' + timer' <= waited + suspendedFor + wakes * Chunk + Chunk
      BY <1>1, <2>2 DEF Budget
    <3> HIDE DEF W, S
    <3> QED BY <2>1, <2>2, <3>1, <3>2 DEF Budget
  <2>4. CASE phase = "waiting"
    <3>1. /\ waited + Chunk <= W /\ suspendedFor <= S
      BY <1>1, <2>4, Room DEF Budget
    <3>2. timer' \in Nat /\ held' + timer' <= waited + suspendedFor + wakes * Chunk + Chunk
      BY <1>1, <2>1, <2>2, <2>3, <2>4 DEF Budget
    <3> HIDE DEF W, S
    <3>3. held' <= W + S + wakes * Chunk
      BY <1>1, <2>2, <2>4, <3>1, <3>2
    <3> QED BY <2>1, <2>3, <3>3 DEF HoldIsBounded, W, S
  <2>5. CASE phase # "waiting"
    BY <2>1, <2>2, <2>3, <2>5 DEF HoldIsBounded
  <2> QED BY <2>3, <2>4, <2>5
<1>4. CASE Die \/ Create \/ Announced \/ Confirmed \/ Poll \/ Read \/ Polled \/ Release \/ ExtendFails
  <2>1. UNCHANGED <<waited, suspendedFor, held, wakes>>
    BY <1>4 DEF Die, Create, Announced, Confirmed, Poll, Read, Polled, Release, ExtendFails
  <2>2. \/ phase \in Before /\ phase' \in Before
        \/ phase' \in {"dead", "over", "releasing"}
    BY <1>4 DEF Die, Create, Announced, Confirmed, Poll, Read, Polled, Records, Release, ExtendFails
  <2>3. Multiple(waited') /\ Multiple(suspendedFor')
    BY <2>1 DEF Budget
  <2>4. Budget'
    BY <2>1, <2>2, <2>3 DEF Budget
  <2> QED BY <2>1, <2>4 DEF HoldIsBounded
<1>5. CASE Returned
  <2>1. /\ UNCHANGED <<waited, suspendedFor, held, wakes>>
        /\ phase \in Before /\ phase' = "announcing"
    BY <1>5 DEF Returned
  <2>2. Multiple(waited') /\ Multiple(suspendedFor')
    BY <2>1 DEF Budget
  <2>3. Budget'
    BY <2>1, <2>2 DEF Budget
  <2> QED BY <2>1, <2>3 DEF HoldIsBounded
<1>6. CASE Recorded
  <2>1. /\ UNCHANGED <<waited, suspendedFor, held, wakes>> /\ phase \in Before /\ Again
    BY <1>6 DEF Recorded
  <2>2. /\ waited = 0 /\ suspendedFor = 0 /\ held = 0 /\ wakes = 0
        /\ Multiple(waited) /\ Multiple(suspendedFor)
    BY <2>1 DEF Budget
  <2>3. Budget'
    BY <1>1, <2>1, <2>2 DEF Budget, Again, Continues
  <2> QED BY <2>1, <2>3 DEF HoldIsBounded
<1>7. CASE Wake
  <2>1. /\ UNCHANGED <<waited, suspendedFor, held>> /\ phase = "waiting"
        /\ Again \/ (~completed /\ phase' = "handling")
        /\ completed' = completed /\ wakes' = IF completed THEN wakes ELSE wakes + 1
    BY <1>7, WakeAlone
  <2>2. Multiple(waited') /\ Multiple(suspendedFor')
    BY <2>1 DEF Budget
  <2>3. CASE completed
    <3>1. phase' = "releasing" /\ wakes' = wakes
      BY <2>1, <2>3 DEF Again, Continues
    <3>2. Budget'
      BY <2>1, <2>2, <3>1 DEF Budget
    <3> QED BY <2>1, <3>1, <3>2 DEF HoldIsBounded
  <2>4. CASE ~completed
    <3>1. wakes' * Chunk = wakes * Chunk + Chunk
      BY <2>1, <2>4, Sums
    <3>2. held' <= waited' + suspendedFor' + wakes' * Chunk
      BY <1>1, <2>1, <3>1 DEF Budget
    <3>3. /\ wakes' * Chunk \in Nat /\ phase' \in {"waiting", "handling", "releasing"}
          /\ phase' = "waiting" => timer' = Chunk /\ waited' < MaxWait /\ suspendedFor' < SuspendedMax
      BY <1>1, <2>1, <3>1 DEF Again, Continues
    <3>4. Budget'
      BY <1>1, <2>1, <2>2, <3>2, <3>3 DEF Budget
    <3>5. held' <= W + S + wakes' * Chunk
      BY <1>1, <2>1, <3>1 DEF HoldIsBounded
    <3> QED BY <3>4, <3>5 DEF HoldIsBounded
  <2> QED BY <2>3, <2>4
<1>8. CASE ChunkOver
  <2>1. /\ phase = "waiting" /\ timer = 0 /\ UNCHANGED <<held, wakes>>
        /\ \/ waited' = waited /\ suspendedFor' = suspendedFor + Chunk
           \/ waited' = waited + Chunk /\ suspendedFor' = suspendedFor
        /\ \/ phase' = "extending" /\ waited' < MaxWait /\ suspendedFor' < SuspendedMax
           \/ Again
    BY <1>8 DEF ChunkOver
  <2>2. Multiple(waited') /\ Multiple(suspendedFor')
    BY <2>1, OneChunkMore DEF Budget
  <2>3. waited' <= W /\ suspendedFor' <= S
    BY <1>1, <2>1, Room DEF Budget
  <2>4. held' <= waited' + suspendedFor' + wakes * Chunk
    BY <1>1, <2>1 DEF Budget
  <2>5. /\ phase' \in {"waiting", "extending", "releasing"}
        /\ phase' \in {"waiting", "extending"} => waited' < MaxWait /\ suspendedFor' < SuspendedMax
        /\ phase' = "waiting" => timer' = Chunk
    BY <2>1 DEF Again, Continues
  <2>6. waited' \in Nat /\ suspendedFor' \in Nat /\ held' \in Nat
    BY DEF TypeOK
  <2> HIDE DEF W, S
  <2>7. Budget'
    BY <1>1, <2>1, <2>2, <2>3, <2>4, <2>5, <2>6 DEF Budget, W, S
  <2>8. held' <= W + S + wakes * Chunk
    BY <1>1, <2>3, <2>4, <2>6
  <2> QED BY <2>1, <2>7, <2>8 DEF HoldIsBounded, W, S
<1>9. CASE Extend \/ Handled
  <2>1. /\ phase \in {"handling", "extending"} /\ UNCHANGED <<waited, suspendedFor, held, wakes>>
        /\ Again \/ UNCHANGED <<phase, timer>> \/ phase' = "releasing"
    BY <1>9 DEF Extend, Handled
  <2>2. Multiple(waited') /\ Multiple(suspendedFor')
    BY <2>1 DEF Budget
  <2>3. Budget'
    BY <1>1, <2>1, <2>2 DEF Budget, Again, Continues
  <2> QED BY <2>1, <2>3 DEF HoldIsBounded
<1> QED BY <1>2, <1>3, <1>4, <1>5, <1>6, <1>7, <1>8, <1>9 DEF Next, Workflow, Hears

\* The session is held for whole chunks of the valve and of the suspension budget, and one
\* more chunk for every wake, whatever signals come, and when.
THEOREM HoldBounded == Spec => []HoldIsBounded
<1>1. Init => Budget /\ HoldIsBounded
  BY BudgetInit
<1>2. TypeOK /\ TypeOK' /\ Session /\ Budget /\ HoldIsBounded /\ [Next]_vars => Budget' /\ HoldIsBounded'
  BY BudgetStep
<1> QED BY <1>1, <1>2, TypeCorrect, PTL DEF Spec

-----------------------------------------------------------------------------
(***************************************************************************)
(* What a dead worker leaves behind                                        *)
(***************************************************************************)

\* The clock takes from what is left of an available session, and of nothing else.
LEMMA TickSession ==
    ASSUME TypeOK, Session, Clock
    PROVE  /\ phase' = phase /\ lost' = lost /\ wakes' = wakes
           /\ UNCHANGED <<waited, suspendedFor, wasSuspended, deviceLost>>
           /\ phase \in Awaits => timer > 0 /\ timer' = timer - 1
           /\ \/ UNCHANGED <<status, left, statuses>>
                 /\ status # "AVAILABLE"
              \/ /\ status = "AVAILABLE" /\ status' = "AVAILABLE" /\ left' = left - 1
                 /\ statuses' = statuses /\ left > 1
              \/ /\ status = "AVAILABLE" /\ status' = "UNAVAILABLE" /\ left = 1 /\ left' = 0
<1> USE DEF network, locals, told
<1>1. /\ phase' = phase /\ lost' = lost /\ wakes' = wakes
      /\ UNCHANGED <<waited, suspendedFor, wasSuspended, deviceLost>>
  BY DEF Clock, Tick
<1>2. phase \in Awaits => timer > 0 /\ timer' = timer - 1
  BY DEF Clock, Tick, Awaits
<1>3. \/ UNCHANGED <<status, left, statuses>> /\ status # "AVAILABLE"
      \/ /\ status = "AVAILABLE" /\ status' = "AVAILABLE" /\ left' = left - 1
         /\ statuses' = statuses /\ left > 1
      \/ /\ status = "AVAILABLE" /\ status' = "UNAVAILABLE" /\ left = 1 /\ left' = 0
  BY DEF Clock, Tick, Becomes, TypeOK, Session
<1> QED BY <1>1, <1>2, <1>3

LEMMA ReclaimStep ==
    ASSUME TypeOK, TypeOK', Session, Reclaimed, ReclaimedSoon, [Next]_vars
    PROVE  Reclaimed' /\ ReclaimedSoon'
<1> USE DEF network, told, locals, counters, trail, poll, Before
<1> DEFINE l == lost * Chunk
<1>1. /\ l \in Nat /\ (lost + 1) * Chunk = l + Chunk /\ Chunk \in Nat \ {0}
      /\ Expected \in Nat /\ Grace \in Nat
      /\ timer \in Nat /\ left \in Nat /\ timer' \in Nat /\ left' \in Nat
  BY Sums, Constants DEF TypeOK
<1>2. ASSUME lost' = lost,
             left' <= Expected + Grace + l + Chunk,
             phase' \in Before => left' <= Expected + Grace + l,
             phase' = "waiting" /\ status' = "AVAILABLE" => left' <= Expected + Grace + l + timer',
             phase' = "extending" /\ status' = "AVAILABLE" => left' <= Expected + Grace + l
      PROVE  Reclaimed' /\ ReclaimedSoon'
  <2>1. (lost' + 1) * Chunk = l + Chunk
    BY <1>1, <1>2
  <2>2. ReclaimedSoon'
    BY <1>1, <1>2, <2>1 DEF ReclaimedSoon
  <2>3. Reclaimed'
    BY <1>2 DEF Reclaimed, Asked
  <2> QED BY <2>2, <2>3
<1>3. /\ left <= Expected + Grace + l + Chunk
      /\ phase \in Before => left <= Expected + Grace + l
      /\ phase = "waiting" /\ status = "AVAILABLE" => left <= Expected + Grace + l + timer
      /\ phase = "extending" /\ status = "AVAILABLE" => left <= Expected + Grace + l
      /\ status = "REQUESTED" => left <= Expected + Grace + l
  BY <1>1 DEF Reclaimed, ReclaimedSoon, Asked, Session
<1> HIDE DEF l
<1>4. CASE Hears \/ Die \/ Returned \/ Announced \/ Confirmed \/ Poll \/ Read \/ Polled \/ ExtendFails
           \/ UNCHANGED vars
  <2>1. UNCHANGED <<left, status, lost>>
    BY <1>4, HearsAlone DEF Die, Returned, Announced, Confirmed, Poll, Read, Polled, ExtendFails, vars
  <2>2. \/ phase' = phase /\ timer' = timer
        \/ phase \in Before /\ phase' \in Before
        \/ phase' \in {"dead", "releasing"}
    BY <1>4, HearsAlone DEF Die, Returned, Announced, Confirmed, Poll, Read, Polled, Records,
                            ExtendFails, vars
  <2> QED BY <1>2, <1>3, <2>1, <2>2
<1>5. CASE Answer
  <2>1. UNCHANGED <<left, phase, timer, lost>> /\ status = "REQUESTED"
    BY <1>5 DEF Answer, Becomes
  <2> QED BY <1>1, <1>2, <1>3, <2>1
<1>6. CASE Clock
  <2>1. /\ phase' = phase /\ lost' = lost
        /\ phase \in Awaits => timer > 0 /\ timer' = timer - 1
        /\ \/ left' = left /\ status # "AVAILABLE" /\ status' = status
           \/ left' = left - 1 /\ left >= 1 /\ status = "AVAILABLE"
    BY <1>1, <1>6, TickSession
  <2>2. /\ left' <= Expected + Grace + l + Chunk
        /\ phase' \in Before => left' <= Expected + Grace + l
    BY <1>1, <1>3, <2>1
  <2>3. phase' = "waiting" /\ status' = "AVAILABLE" => left' <= Expected + Grace + l + timer'
    BY <1>1, <1>3, <2>1 DEF Awaits
  <2>4. phase' = "extending" /\ status' = "AVAILABLE" => left' <= Expected + Grace + l
    BY <1>1, <1>3, <2>1
  <2> QED BY <1>2, <2>1, <2>2, <2>3, <2>4
<1>7. CASE Create
  <2>1. left' = Expected + Grace /\ phase' = "created" /\ lost' = lost
    BY <1>7 DEF Create
  <2> QED BY <1>1, <1>2, <2>1
<1>8. CASE Recorded \/ Handled \/ Wake
  <2>1. UNCHANGED <<left, status, lost>>
    BY <1>8, WakeAlone DEF Recorded, Handled
  <2>2. \/ phase' \in {"releasing", "handling"}
        \/ phase' = "waiting" /\ timer' = Chunk
    BY <1>8, WakeAlone DEF Recorded, Handled, Again
  <2> QED BY <1>1, <1>2, <1>3, <2>1, <2>2
<1>9. CASE ChunkOver
  <2>1. UNCHANGED <<left, status, lost>> /\ phase = "waiting" /\ timer = 0
    BY <1>9 DEF ChunkOver
  <2>2. \/ phase' = "releasing"
        \/ phase' = "waiting" /\ timer' = Chunk
        \/ phase' = "extending"
    BY <1>9 DEF ChunkOver, Again
  <2>3. status = "AVAILABLE" => left <= Expected + Grace + l
    BY <1>1, <1>3, <2>1
  <2>4. phase' \notin Before
    BY <2>2
  <2> QED BY <1>1, <1>2, <1>3, <2>1, <2>2, <2>3, <2>4
<1>10. CASE Extend
  <2>1. /\ phase = "extending" /\ status = "AVAILABLE" /\ left' = left + Chunk /\ status' = status
    BY <1>10 DEF Extend
  <2>2. CASE lost' = lost /\ Again
    <3>1. \/ phase' = "releasing"
          \/ phase' = "waiting" /\ timer' = Chunk
      BY <2>2 DEF Again
    <3>2. left' <= Expected + Grace + l + Chunk
      BY <1>1, <1>3, <2>1
    <3>3. phase' \notin Before /\ phase' # "extending"
      BY <3>1
    <3> QED BY <1>2, <2>2, <3>1, <3>2, <3>3
  <2>3. CASE lost' = lost + 1 /\ phase' = phase
    <3>1. lost' * Chunk = l + Chunk
      BY <1>1, <2>3
    <3>2. lost' \in Nat /\ (lost' + 1) * Chunk = lost' * Chunk + Chunk
      BY Constants, QodAssumption, Product DEF TypeOK
    <3>3. left' <= Expected + Grace + lost' * Chunk
      BY <1>1, <1>3, <2>1, <3>1
    <3>4. left' <= Expected + Grace + (lost' + 1) * Chunk
      <4> DEFINE m == lost' * Chunk
      <4>1. m \in Nat /\ left' <= Expected + Grace + m
        BY <1>1, <3>1, <3>3
      <4>2. (lost' + 1) * Chunk = m + Chunk
        BY <3>2
      <4> HIDE DEF m
      <4>3. left' <= Expected + Grace + (m + Chunk)
        BY <1>1, <4>1
      <4> QED BY <4>2, <4>3
    <3> QED BY <2>1, <2>3, <3>3, <3>4 DEF Reclaimed, ReclaimedSoon, Asked
  <2> QED BY <1>10, <2>2, <2>3 DEF Extend
<1>11. CASE Release
  <2>1. left' = 0 /\ phase' = "over" /\ lost' = lost
    BY <1>11 DEF Release
  <2> QED BY <1>1, <1>2, <2>1
<1> QED BY <1>4, <1>5, <1>6, <1>7, <1>8, <1>9, <1>10, <1>11 DEF Next, Workflow, Hears

\* Whenever the worker dies, what it leaves behind is gone after the duration first asked
\* for, and one chunk for a late grant and one for every extension whose answer was lost.
THEOREM LeftSoonReclaimed == Spec => []ReclaimedSoon
<1>1. Init => Reclaimed /\ ReclaimedSoon
  <2> SUFFICES ASSUME Init PROVE Reclaimed /\ ReclaimedSoon
    OBVIOUS
  <2>1. left = 0 /\ phase = "allocating" /\ lost = 0
    BY DEF Init
  <2>2. 0 * Chunk = 0 /\ (0 + 1) * Chunk = Chunk
    BY Constants, Product
  <2> QED BY <2>1, <2>2, Constants DEF Reclaimed, ReclaimedSoon, Asked
<1>2. TypeOK /\ TypeOK' /\ Session /\ Reclaimed /\ ReclaimedSoon /\ [Next]_vars
         => Reclaimed' /\ ReclaimedSoon'
  BY ReclaimStep
<1> QED BY <1>1, <1>2, TypeCorrect, PTL DEF Spec

-----------------------------------------------------------------------------
(***************************************************************************)
(* A hold that nothing wakes                                               *)
(***************************************************************************)

\* The grace covers the time that is spent beside the chunks: the answer of allocate, the
\* entry ALLOCATED, the wait for a callback, the poll, the entry QOS_STATUS_CHANGED, and an
\* extension for each further chunk below the valve.
Timely == Margin > 0

LEMMA Extensions ==
    /\ Margin \in Int /\ Remaining(0) \in Nat
    /\ Expected + Grace = Margin + Chunk + ConfirmWait + Remaining(0) + 4 * Latency
    /\ \A n \in Nat : /\ n < Multiplier => Remaining(n) \in Nat /\ Remaining(n) <= Remaining(0)
                      /\ n + 1 < Multiplier => Remaining(n) = Remaining(n + 1) + Latency
                      /\ n * Chunk < MaxWait => n < Multiplier
<1>1. /\ Multiplier - 1 \in Nat /\ Remaining(0) = (Multiplier - 1) * Latency
      /\ (Multiplier + 3) * Latency = (Multiplier - 1) * Latency + 4 * Latency
      /\ (Multiplier - 1) * Latency \in Nat /\ (Multiplier + 3) * Latency \in Nat
  <2>1. Multiplier - 1 \in Nat /\ Remaining(0) = (Multiplier - 1) * Latency
    BY Constants DEF Remaining
  <2>2. \A a \in Nat : (a + 4) * Latency = a * Latency + 4 * Latency
    BY Constants
  <2>3. (Multiplier - 1) + 4 = Multiplier + 3
    BY Constants
  <2>4. (Multiplier + 3) * Latency = (Multiplier - 1) * Latency + 4 * Latency
    BY <2>1, <2>2, <2>3
  <2>5. (Multiplier - 1) * Latency \in Nat /\ (Multiplier + 3) * Latency \in Nat
    BY <2>1, Constants, ProductNat
  <2> QED BY <2>1, <2>4, <2>5
<1>2. Expected + Grace = Margin + Chunk + ConfirmWait + Remaining(0) + 4 * Latency
  <2> DEFINE p == (Multiplier + 3) * Latency
  <2>1. p \in Nat /\ p = Remaining(0) + 4 * Latency /\ Remaining(0) \in Nat
    BY <1>1
  <2>2. Margin = Expected + Grace - Chunk - ConfirmWait - p
    BY DEF Margin
  <2> HIDE DEF p
  <2> QED BY <2>1, <2>2, Constants
<1>3. Margin \in Int
  BY <1>1, Constants DEF Margin
<1>4. ASSUME NEW n \in Nat, n < Multiplier
      PROVE  Remaining(n) \in Nat /\ Remaining(n) <= Remaining(0)
  <2>1. Multiplier - 1 - n \in Nat /\ Multiplier - 1 - n <= Multiplier - 1
    BY <1>4, Constants
  <2> QED BY <1>1, <2>1, Constants, ProductNat, ProductMonotone DEF Remaining
<1>5. ASSUME NEW n \in Nat, n + 1 < Multiplier
      PROVE  Remaining(n) = Remaining(n + 1) + Latency
  <2>1. Multiplier - 1 - (n + 1) \in Int /\ Multiplier - 1 - n = (Multiplier - 1 - (n + 1)) + 1
    BY Constants
  <2>2. ((Multiplier - 1 - (n + 1)) + 1) * Latency = (Multiplier - 1 - (n + 1)) * Latency + Latency
    BY <2>1, Constants, Product
  <2> QED BY <2>1, <2>2 DEF Remaining
<1>6. ASSUME NEW n \in Nat, n * Chunk < MaxWait
      PROVE  n < Multiplier
  <2>1. MaxWait <= Multiplier * Chunk
    <3>1. Expected * Multiplier <= Chunk * Multiplier
      BY Constants, ProductMonotone
    <3>2. Chunk * Multiplier = Multiplier * Chunk
      BY Constants
    <3> QED BY <3>1, <3>2 DEF MaxWait
  <2>2. n * Chunk \in Int /\ Multiplier * Chunk \in Int
    BY Constants, Product
  <2>3. n * Chunk < Multiplier * Chunk
    BY <1>6, <2>1, <2>2, Constants
  <2> QED BY <2>3, Constants, ProductLess
<1> QED BY <1>1, <1>2, <1>3, <1>4, <1>5, <1>6

LEMMA QuietStep ==
    ASSUME TypeOK, TypeOK', Session, Budget, Timely, Quiet, [Next]_vars
    PROVE  Quiet'
<1> USE DEF network, told, locals, counters, trail, poll
<1> DEFINE Held == {"created", "announcing", "confirming", "polling", "recording", "waiting", "extending"}
           R    == Remaining(0)
<1>1. /\ Expected + Grace = Margin + Chunk + ConfirmWait + R + 4 * Latency
      /\ Margin \in Nat /\ Margin >= 1 /\ Chunk \in Nat /\ ConfirmWait \in Nat
      /\ R \in Nat /\ Latency \in Nat /\ Expected \in Nat /\ Grace \in Nat
      /\ timer \in Nat /\ timer' \in Nat /\ left \in Nat /\ left' \in Nat
  BY Extensions, Constants DEF Timely, TypeOK
<1>2. wakes' = wakes \/ wakes' # 0
  <2>1. wakes' \in {wakes, wakes + 1} /\ wakes \in Nat
    BY HearsAlone, WakeAlone
       DEF TypeOK, Next, Workflow, Hears, Answer, Clock, Tick, Die, Create, Returned, Announced,
           Confirmed, Poll, Read, Polled, Recorded, Handled, ChunkOver, Extend, ExtendFails,
           Release, vars
  <2> QED BY <2>1
<1> SUFFICES ASSUME wakes = 0, wakes' = 0
             PROVE  /\ ~deviceLost' /\ ~wasSuspended' /\ suspendedFor' = 0 /\ phase' # "handling"
                    /\ phase' \in Held => ~Lapsed'
                    /\ status' = "AVAILABLE" => Spent'
                    /\ Monitoring' => \E n \in Nat : Extended(n)'
  BY <1>2 DEF Quiet
<1>3. /\ ~deviceLost /\ ~wasSuspended /\ suspendedFor = 0 /\ phase # "handling"
      /\ phase \in Held => ~Lapsed
      /\ status = "AVAILABLE" => Spent
      /\ Monitoring => \E n \in Nat : Extended(n)
  BY DEF Quiet
<1> HIDE DEF R
<1>4. CASE Hears \/ UNCHANGED vars
  <2>1. UNCHANGED <<phase, timer, status, left, statuses, waited, suspendedFor, wasSuspended, deviceLost>>
    BY <1>4, HearsAlone DEF vars
  <2> QED BY <1>3, <2>1 DEF Lapsed, Spent, Monitoring, Extended
<1>5. CASE Die \/ ExtendFails \/ Release \/ Wake
  <2>1. CASE Wake
    <3>1. wakes' = IF completed THEN wakes ELSE wakes + 1
      BY <2>1, WakeAlone
    <3>2. completed
      BY <3>1
    <3>3. phase' = "releasing" /\ UNCHANGED <<suspendedFor, wasSuspended, deviceLost>>
      BY <2>1, <3>2, WakeAlone DEF Again, Continues
    <3> QED BY <1>3, <3>3 DEF Spent, Monitoring
  <2>2. CASE Die \/ ExtendFails \/ Release
    <3>1. /\ phase' \in {"dead", "over", "releasing"}
          /\ UNCHANGED <<suspendedFor, wasSuspended, deviceLost>>
      BY <2>2 DEF Die, ExtendFails, Release
    <3> QED BY <1>3, <3>1 DEF Spent, Monitoring
  <2> QED BY <1>5, <2>1, <2>2
<1>6. CASE Answer
  <2>1. /\ status = "REQUESTED" /\ left' = left /\ left = Expected + Grace
        /\ UNCHANGED <<phase, timer, waited, suspendedFor, wasSuspended, deviceLost>>
        /\ "AVAILABLE" \notin statuses
        /\ \/ status' = "AVAILABLE"
           \/ status' = "UNAVAILABLE" /\ statuses' = statuses \cup {"UNAVAILABLE"}
    BY <1>6 DEF Answer, Becomes, Session
  <2>2. Spent'
    BY <1>1, <2>1 DEF Spent, Session
  <2>3. ASSUME Monitoring, NEW n \in Nat, Extended(n)
        PROVE  Extended(n)'
    <3>1. Remaining(n) \in Nat /\ Remaining(n) <= R
      BY <2>3, Extensions DEF Extended, R
    <3>2. timer <= Chunk + Latency
      BY <1>1, <1>3, <2>3 DEF Monitoring, Session
    <3>3. left' >= Margin + timer' + Remaining(n)
      BY <1>1, <2>1, <3>1, <3>2
    <3> QED BY <2>1, <2>3, <3>3 DEF Extended
  <2> QED BY <1>3, <2>1, <2>2, <2>3 DEF Lapsed, Monitoring
<1>7. CASE Clock
  <2>1. /\ phase' = phase /\ UNCHANGED <<waited, suspendedFor, wasSuspended, deviceLost>>
        /\ phase \in Held => timer > 0 /\ timer' = timer - 1
        /\ \/ UNCHANGED <<status, left, statuses>> /\ status # "AVAILABLE"
           \/ /\ status = "AVAILABLE" /\ status' = "AVAILABLE" /\ left' = left - 1
              /\ statuses' = statuses
           \/ status = "AVAILABLE" /\ left = 1 /\ status' = "UNAVAILABLE"
    BY <1>7, TickSession DEF Awaits
  <2>2. phase \in Held /\ status = "AVAILABLE" => left > 1
    <3>1. ASSUME phase \in {"created", "announcing", "confirming", "polling", "recording"},
                 status = "AVAILABLE"
          PROVE  left > 1
      BY <1>1, <1>3, <2>1, <3>1 DEF Spent
    <3>2. ASSUME Monitoring, status = "AVAILABLE"
          PROVE  left > 1
      <4>1. PICK n \in Nat : Extended(n)
        BY <1>3, <3>2
      <4>2. Remaining(n) \in Nat /\ left >= Margin + timer + Remaining(n)
        BY <3>2, <4>1, Extensions DEF Extended
      <4> QED BY <1>1, <1>3, <2>1, <3>2, <4>2 DEF Monitoring
    <3> QED BY <3>1, <3>2 DEF Monitoring
  <2>3. phase' \in Held => ~Lapsed'
    BY <1>3, <2>1, <2>2 DEF Lapsed
  <2>4. status' = "AVAILABLE" => Spent'
    <3> SUFFICES ASSUME status' = "AVAILABLE" PROVE Spent'
      OBVIOUS
    <3>1. /\ left' = left - 1 /\ phase' = phase /\ Spent
          /\ phase \in Held => timer' = timer - 1
      BY <1>3, <2>1
    <3>2. CASE phase = "created"
      BY <1>1, <3>1, <3>2 DEF Spent
    <3>3. CASE phase = "confirming"
      BY <1>1, <3>1, <3>3 DEF Spent
    <3>4. CASE phase = "polling"
      BY <1>1, <3>1, <3>4 DEF Spent
    <3>5. CASE phase = "announcing"
      BY <1>1, <3>1, <3>5 DEF Spent
    <3>6. CASE phase = "recording"
      BY <1>1, <3>1, <3>6 DEF Spent
    <3> QED BY <3>1, <3>2, <3>3, <3>4, <3>5, <3>6 DEF Spent
  <2>5. ASSUME Monitoring, NEW n \in Nat, Extended(n)
        PROVE  Extended(n)'
    <3>1. Remaining(n) \in Nat
      BY <2>5, Extensions DEF Extended
    <3>2. status' = "AVAILABLE" => left' >= Margin + timer' + Remaining(n)
      BY <1>1, <1>3, <2>1, <2>5, <3>1 DEF Extended, Monitoring
    <3> QED BY <2>1, <2>5, <3>2 DEF Extended
  <2> QED BY <1>3, <2>1, <2>3, <2>4, <2>5 DEF Monitoring
<1>8. CASE Create
  <2>1. /\ status' = "REQUESTED" /\ phase' = "created" /\ statuses' = statuses \cup {"REQUESTED"}
        /\ UNCHANGED <<suspendedFor, wasSuspended, deviceLost>> /\ status = "NONE"
    BY <1>8 DEF Create, Session
  <2> QED BY <1>3, <2>1 DEF Lapsed, Monitoring, Session
<1>9. CASE Returned \/ Announced \/ Confirmed \/ Poll \/ Read \/ Polled
  <2>1. /\ UNCHANGED <<left, status, statuses, suspendedFor, wasSuspended, deviceLost>>
        /\ phase \in Held /\ phase' \in {"announcing", "confirming", "polling", "recording"}
    BY <1>9 DEF Returned, Announced, Confirmed, Poll, Read, Polled, Records
  <2>2. status' = "AVAILABLE" => Spent'
    <3> SUFFICES ASSUME status' = "AVAILABLE" PROVE Spent'
      OBVIOUS
    <3>1. Spent /\ left' = left
      BY <1>3, <2>1
    <3>2. CASE Returned
      <4>1. left >= Expected + Grace - Latency + timer /\ phase' = "announcing" /\ timer' = Latency
        BY <3>1, <3>2 DEF Returned, Spent
      <4> QED BY <1>1, <3>1, <4>1 DEF Spent
    <3>3. CASE Announced
      <4>1. /\ left >= Expected + Grace - 2 * Latency + timer
            /\ phase' = "confirming" /\ timer' = ConfirmWait
        BY <3>1, <3>3 DEF Announced, Spent
      <4> QED BY <1>1, <3>1, <4>1 DEF Spent
    <3>4. CASE Poll
      <4>1. /\ left >= Expected + Grace - 2 * Latency - ConfirmWait + timer
            /\ phase' = "polling" /\ timer' = Latency
        BY <3>1, <3>4 DEF Poll, Spent
      <4> QED BY <1>1, <3>1, <4>1 DEF Spent
    <3>5. CASE Read
      <4>1. phase' = "polling" /\ phase = "polling" /\ timer' = timer
        BY <3>5 DEF Read
      <4> QED BY <3>1, <4>1 DEF Spent
    <3>6. CASE Confirmed
      <4>1. /\ left >= Expected + Grace - 2 * Latency - ConfirmWait + timer
            /\ phase' = "recording" /\ timer' = Latency
        BY <3>1, <3>6 DEF Confirmed, Records, Spent
      <4> QED BY <1>1, <3>1, <4>1 DEF Spent
    <3>7. CASE Polled
      <4>1. /\ left >= Expected + Grace - 3 * Latency - ConfirmWait + timer
            /\ phase' = "recording" /\ timer' = Latency
        BY <3>1, <3>7 DEF Polled, Records, Spent
      <4> QED BY <1>1, <3>1, <4>1 DEF Spent
    <3> QED BY <1>9, <3>2, <3>3, <3>4, <3>5, <3>6, <3>7
  <2> QED BY <1>3, <2>1, <2>2 DEF Lapsed, Monitoring
<1>10. CASE Recorded
  <2>1. /\ UNCHANGED <<left, status, statuses, waited, suspendedFor, wasSuspended, deviceLost>>
        /\ phase = "recording"
        /\ \/ phase' = "releasing"
           \/ phase' = "waiting" /\ timer' = Chunk
    BY <1>10 DEF Recorded, Again
  <2>2. status = "AVAILABLE" => left >= Margin + Chunk + R
    BY <1>1, <1>3, <2>1 DEF Spent
  <2>3. waited' = 0 * Chunk
    BY <2>1, Constants, Product DEF Budget, Before
  <2>4. phase' = "waiting" => Extended(0)'
    BY <1>1, <2>1, <2>2, <2>3, Constants DEF Extended, R
  <2> QED BY <1>3, <2>1, <2>4 DEF Lapsed, Spent, Monitoring
<1>11. CASE ChunkOver
  <2>1. /\ phase = "waiting" /\ timer = 0 /\ ~suspended
        /\ UNCHANGED <<left, status, statuses, suspendedFor, wasSuspended, deviceLost>>
        /\ waited' = waited + Chunk
    BY <1>3, <1>11 DEF ChunkOver, Woken, TypeOK
  <2>2. \/ phase' = "releasing"
        \/ phase' = "extending" /\ timer' = Latency /\ waited' < MaxWait
    BY <1>3, <1>11 DEF ChunkOver, Again, Continues
  <2>3. PICK n \in Nat : Extended(n)
    BY <1>3, <2>1 DEF Monitoring
  <2>4. waited' = (n + 1) * Chunk /\ n + 1 \in Nat
    BY <2>1, <2>3, Constants, Product DEF Extended
  <2>5. phase' = "extending" => Extended(n + 1)'
    <3> SUFFICES ASSUME phase' = "extending" PROVE Extended(n + 1)'
      OBVIOUS
    <3>1. n + 1 < Multiplier
      BY <2>2, <2>4, Extensions
    <3>2. Remaining(n) = Remaining(n + 1) + Latency /\ Remaining(n + 1) \in Nat
      BY <2>4, <3>1, Extensions
    <3>3. status' = "AVAILABLE" => left' >= Margin + timer' + Remaining(n + 1)
      BY <1>1, <2>1, <2>2, <2>3, <3>2 DEF Extended
    <3> QED BY <2>4, <3>1, <3>3 DEF Extended
  <2> QED BY <1>3, <2>1, <2>2, <2>4, <2>5 DEF Lapsed, Spent, Monitoring
<1>12. CASE Extend
  <2>1. /\ phase = "extending" /\ status = "AVAILABLE" /\ left' = left + Chunk
        /\ UNCHANGED <<status, statuses, waited, suspendedFor, wasSuspended, deviceLost>>
        /\ \/ phase' = "releasing"
           \/ phase' = "waiting" /\ timer' = Chunk
           \/ phase' = phase /\ timer' = timer
    BY <1>12 DEF Extend, Again
  <2>2. PICK n \in Nat : Extended(n)
    BY <1>3, <2>1 DEF Monitoring
  <2>3. Remaining(n) \in Nat
    BY <2>2, Extensions DEF Extended
  <2>4. phase' # "releasing" => left' >= Margin + timer' + Remaining(n)
    BY <1>1, <2>1, <2>2, <2>3 DEF Extended
  <2>5. phase' # "releasing" => Extended(n)'
    BY <2>1, <2>2, <2>4 DEF Extended
  <2> QED BY <1>3, <2>1, <2>5 DEF Lapsed, Spent, Monitoring
<1>13. CASE Handled
  BY <1>3, <1>13 DEF Handled
<1> QED BY <1>4, <1>5, <1>6, <1>7, <1>8, <1>9, <1>10, <1>11, <1>12, <1>13 DEF Next, Workflow, Hears

\* When activities answer in the time the grace leaves for them, a session that was granted
\* does not lapse under a monitor that nothing wakes, however long the operation overruns.
\* With the code's 60 s, 10 s and factor 4, that is 7 s for an operation of at least 30 s:
\* the 50 s of grace that the callback's wait leaves, over 7 activities, entries included.
THEOREM HeldUntilWoken == Timely => (Spec => []HeldWhileQuiet)
<1> SUFFICES ASSUME Timely PROVE Spec => []HeldWhileQuiet
  OBVIOUS
<1>1. Init => Quiet /\ Budget /\ HoldIsBounded
  BY BudgetInit DEF Init, Quiet, Monitoring
<1>2. TypeOK /\ TypeOK' /\ Session /\ Budget /\ HoldIsBounded /\ Quiet /\ [Next]_vars
         => Quiet' /\ Budget' /\ HoldIsBounded'
  BY BudgetStep, QuietStep
<1>3. Quiet => HeldWhileQuiet
  BY DEF Quiet, HeldWhileQuiet, GuaranteeHeld, Monitoring
<1> QED BY <1>1, <1>2, <1>3, TypeCorrect, PTL DEF Spec

=============================================================================
