---------------------------- MODULE ConsoleProofs ----------------------------
(***************************************************************************)
(* What is proved about the panels of the dashboard (Console).               *)
(*                                                                         *)
(* NoDecisionTwice rests on Tidy: neither what a panel shows nor an answer   *)
(* under way repeats an operation (the panels that show operations) or an    *)
(* entry of the log (the others).                                           *)
(*                                                                         *)
(* InStep rests on KeepsPace, which says what a panel shows while pushes are *)
(* still to come: with the positions S of the log still to come, the list    *)
(* shows the log without S (Shows).  An answer shows the log without any S   *)
(* that has all that was written since it was read (AnswerHolds); a write    *)
(* puts its entry into S, a push that is merged takes it out.  With S empty  *)
(* there is one list that shows the log, the one a fresh load would show     *)
(* (SettledSame).                                                          *)
(***************************************************************************)
EXTENDS Console, FiniteSetTheorems, SequenceTheorems, TLAPS

---------------------------------------------------------------------------
(* Selections: At(s, K) lists the elements of s at the positions K *)

\* How many positions of K there are up to i.
Rank(K, i) == Cardinality({j \in K : j <= i})

LEMMA RankGrows ==
    ASSUME NEW n \in Nat, NEW K \in SUBSET (1..n)
    PROVE  /\ IsFiniteSet(K) /\ Cardinality(K) \in Nat
           /\ \A i \in K : Rank(K, i) \in 1..Cardinality(K)
           /\ \A i, j \in K : i < j => Rank(K, i) < Rank(K, j)
<1>1. IsFiniteSet(1..n)
  BY FS_Interval
<1>2. IsFiniteSet(K) /\ Cardinality(K) \in Nat
  BY <1>1, FS_Subset, FS_CardinalityType
<1> DEFINE Up(i) == {j \in K : j <= i}
<1>3. ASSUME NEW i \in K
      PROVE  IsFiniteSet(Up(i)) /\ Cardinality(Up(i)) \in 1..Cardinality(K)
  <2>1. Up(i) \in SUBSET K /\ i \in Up(i)
    BY <1>3
  <2>2. IsFiniteSet(Up(i)) /\ Cardinality(Up(i)) <= Cardinality(K)
    BY <1>2, <2>1, FS_Subset
  <2>3. Cardinality(Up(i)) \in Nat /\ Cardinality(Up(i)) # 0
    BY <2>1, <2>2, FS_CardinalityType, FS_EmptySet
  <2> QED BY <1>2, <2>2, <2>3
<1>4. ASSUME NEW i \in K, NEW j \in K, i < j
      PROVE  Cardinality(Up(i)) < Cardinality(Up(j))
  <2>0. K \subseteq Nat
    OBVIOUS
  <2>1. Up(i) \in SUBSET Up(j) /\ j \in Up(j) /\ j \notin Up(i)
    <3>1. (\A k \in K : k <= i => k <= j) /\ j <= j /\ ~(j <= i)
      BY <1>4, <2>0
    <3>2. Up(i) \in SUBSET Up(j)
      BY <3>1
    <3> QED BY <3>1, <3>2
  <2>2. Cardinality(Up(i)) <= Cardinality(Up(j)) /\ Cardinality(Up(j)) # Cardinality(Up(i))
    BY <1>3, <2>1, FS_Subset
  <2> QED BY <1>3, <2>2
<1> QED BY <1>2, <1>3, <1>4 DEF Rank

\* What At lists: an increasing enumeration of the positions.
Enumerates(p, K) ==
    /\ p \in [1..Cardinality(K) -> K]
    /\ \A m \in DOMAIN p : Rank(K, p[m]) = m
    /\ \A m, n \in DOMAIN p : m < n => p[m] < p[n]
    /\ \A i \in K : \E m \in DOMAIN p : p[m] = i

LEMMA AtEnumerates ==
    ASSUME NEW E, NEW s \in Seq(E), NEW K \in SUBSET DOMAIN s
    PROVE  /\ IsFiniteSet(K) /\ Cardinality(K) \in Nat
           /\ At(s, K) \in Seq(E) /\ Len(At(s, K)) = Cardinality(K)
           /\ \E p : /\ Enumerates(p, K)
                     /\ \A m \in 1..Cardinality(K) : At(s, K)[m] = s[p[m]]
<1>0. Len(s) \in Nat /\ DOMAIN s = 1..Len(s)
  OBVIOUS
<1>1. /\ IsFiniteSet(K) /\ Cardinality(K) \in Nat
      /\ \A i \in K : Rank(K, i) \in 1..Cardinality(K)
      /\ \A i, j \in K : i < j => Rank(K, i) < Rank(K, j)
  BY <1>0, RankGrows
<1> DEFINE C == Cardinality(K)
           rank == [i \in K |-> Rank(K, i)]
           p == [m \in 1..C |-> CHOOSE i \in K : Rank(K, i) = m]
<1>2. rank \in Injection(K, 1..C)
  BY <1>0, <1>1 DEF Injection, IsInjective
<1>3. rank \in Surjection(K, 1..C)
  BY <1>1, <1>2, FS_Injection, FS_Interval
<1>4. \A m \in 1..C : \E i \in K : Rank(K, i) = m
  BY <1>3 DEF Surjection
<1>5. p \in [1..C -> K] /\ \A m \in 1..C : Rank(K, p[m]) = m
  BY <1>4
<1>6. \A m, n \in 1..C : m < n => p[m] < p[n]
  <2> SUFFICES ASSUME NEW m \in 1..C, NEW n \in 1..C, m < n PROVE p[m] < p[n]
    OBVIOUS
  <2>1. p[m] \in K /\ p[n] \in K /\ Rank(K, p[m]) = m /\ Rank(K, p[n]) = n
    BY <1>5
  <2>2. p[m] \in 1..Len(s) /\ p[n] \in 1..Len(s)
    BY <2>1, <1>0
  <2>3. ~(p[n] < p[m]) /\ p[n] # p[m]
    BY <1>1, <2>1
  <2> HIDE DEF p
  <2> QED BY <1>0, <2>2, <2>3
<1>7. ASSUME NEW i \in K PROVE \E m \in 1..C : p[m] = i
  <2> DEFINE m == Rank(K, i)
  <2>1. m \in 1..C
    BY <1>1
  <2>2. p[m] \in K /\ Rank(K, p[m]) = m
    BY <1>5, <2>1
  <2>3. ~(p[m] < i) /\ ~(i < p[m]) /\ m \in Nat
    BY <1>1, <2>1, <2>2
  <2>4. p[m] \in 1..Len(s) /\ i \in 1..Len(s)
    BY <1>0, <2>2
  <2>5. p[m] = i
    <3> HIDE DEF p, m
    <3> QED BY <1>0, <2>3, <2>4
  <2> QED BY <2>1, <2>5
<1>8. Enumerates(p, K)
  <2> HIDE DEF p
  <2>1. DOMAIN p = 1..C
    BY <1>5
  <2> QED BY <1>5, <1>6, <1>7, <2>1 DEF Enumerates
<1>9. At(s, K) = [m \in 1..C |-> s[p[m]]]
  BY DEF At, Rank
<1>10. \A m \in 1..C : s[p[m]] \in E
  <2> HIDE DEF p
  <2> QED BY <1>0, <1>5
<1>11. At(s, K) \in Seq(E) /\ Len(At(s, K)) = C
  <2> HIDE DEF p
  <2> QED BY <1>1, <1>9, <1>10
<1>12. \A m \in 1..C : At(s, K)[m] = s[p[m]]
  BY <1>9
<1> QED BY <1>1, <1>8, <1>11, <1>12
---------------------------------------------------------------------------
(* The log *)

Entries == [op : Ops, version : 0..Final]
Answers == [loaded : BOOLEAN, failed : BOOLEAN, items : Seq(Entries), total : Nat]

Positions(o) == {i \in DOMAIN log : log[i].op = o}

\* An operation's entries carry the versions 1, 2, .. in the order they were written, and
\* an operation starts after those before it.
Numbered ==
    /\ log \in Seq(Entries)
    /\ \A i \in DOMAIN log : log[i].version = Rank(Positions(log[i].op), i)
    /\ \A i \in DOMAIN log : \A o \in Ops :
           o < log[i].op => \E j \in DOMAIN log : j < i /\ log[j].op = o

LEMMA OpsAreNat == Ops \subseteq Nat \ {0} /\ Cardinality(Ops) \in Nat /\ Ops = 1..Cardinality(Ops)
BY ConsoleAssumption, FS_CardinalityType

LEMMA VersionsCount ==
    ASSUME log \in Seq(Entries), NEW o
    PROVE  /\ Positions(o) \in SUBSET (1..Len(log)) /\ IsFiniteSet(Positions(o))
           /\ VersionOf(o) = Cardinality(Positions(o)) /\ VersionOf(o) \in Nat
<1>1. Len(log) \in Nat /\ DOMAIN log = 1..Len(log)
  OBVIOUS
<1>2. Positions(o) \in SUBSET (1..Len(log))
  BY <1>1 DEF Positions
<1> QED BY <1>1, <1>2, RankGrows DEF VersionOf, Positions

\* What the versions say: they tell entries of an operation apart and in which order they
\* were written, and none is missing.
LEMMA LogFacts ==
    ASSUME Numbered
    PROVE  /\ \A i \in DOMAIN log : log[i].version \in 1..VersionOf(log[i].op)
           /\ \A i, j \in DOMAIN log :
                 log[i].op = log[j].op => (i < j <=> log[i].version < log[j].version)
           /\ \A i, j \in DOMAIN log : log[i] = log[j] => i = j
           /\ \A o \in Ops : VersionOf(o) \in 0..Final
           /\ \A o \in Ops : \A v \in 1..VersionOf(o) :
                 \E i \in DOMAIN log : log[i] = Entry(o, v)
<1>0. Len(log) \in Nat /\ DOMAIN log = 1..Len(log) /\ log \in Seq(Entries)
  BY DEF Numbered
<1>a. \A i \in DOMAIN log : log[i] \in Entries
  BY <1>0
<1>1. ASSUME NEW i \in DOMAIN log PROVE log[i].version \in 1..VersionOf(log[i].op)
  <2>1. i \in Positions(log[i].op)
    BY DEF Positions
  <2> QED BY <1>0, <2>1, VersionsCount, RankGrows DEF Numbered
<1>2. ASSUME NEW i \in DOMAIN log, NEW j \in DOMAIN log, log[i].op = log[j].op, i < j
      PROVE  log[i].version < log[j].version
  <2>1. i \in Positions(log[i].op) /\ j \in Positions(log[i].op)
    BY <1>2 DEF Positions
  <2>2. Positions(log[i].op) \in SUBSET (1..Len(log))
    BY <1>0, VersionsCount
  <2>3. Rank(Positions(log[i].op), i) < Rank(Positions(log[i].op), j)
    BY <1>0, <1>2, <2>1, <2>2, RankGrows
  <2> QED BY <1>2, <2>3 DEF Numbered
<1>3. \A i \in DOMAIN log : log[i].version \in Nat
  BY <1>1, <1>0, VersionsCount
<1>4. \A i, j \in DOMAIN log :
         log[i].op = log[j].op => (i < j <=> log[i].version < log[j].version)
  <2> SUFFICES ASSUME NEW i \in DOMAIN log, NEW j \in DOMAIN log, log[i].op = log[j].op
               PROVE  i < j <=> log[i].version < log[j].version
    OBVIOUS
  <2>1. CASE i = j
    BY <2>1, <1>0, <1>3
  <2>2. CASE i < j
    BY <2>2, <1>2
  <2>3. CASE j < i
    <3>1. log[j].version < log[i].version
      BY <2>3, <1>2
    <3> QED BY <3>1, <2>3, <1>0, <1>3
  <2> QED BY <2>1, <2>2, <2>3, <1>0
<1>5. \A i, j \in DOMAIN log : log[i] = log[j] => i = j
  <2> SUFFICES ASSUME NEW i \in DOMAIN log, NEW j \in DOMAIN log, log[i] = log[j]
               PROVE  i = j
    OBVIOUS
  <2>1. ~(i < j) /\ ~(j < i)
    BY <1>3, <1>4
  <2> QED BY <1>0, <2>1
<1>6. ASSUME NEW o \in Ops, NEW v \in 1..VersionOf(o)
      PROVE  \E i \in DOMAIN log : log[i] = Entry(o, v)
  <2>1. /\ Positions(o) \in SUBSET DOMAIN log
        /\ VersionOf(o) = Cardinality(Positions(o)) /\ VersionOf(o) \in Nat
    BY <1>0, VersionsCount
  <2>2. PICK p : Enumerates(p, Positions(o))
    BY <1>0, <2>1, AtEnumerates
  <2>3. p[v] \in Positions(o) /\ Rank(Positions(o), p[v]) = v
    BY <2>1, <2>2 DEF Enumerates
  <2>4. p[v] \in DOMAIN log /\ log[p[v]].op = o
    BY <2>3 DEF Positions
  <2>5. log[p[v]].version = v
    BY <2>3, <2>4 DEF Numbered
  <2>6. log[p[v]] = Entry(o, v)
    BY <1>a, <2>4, <2>5 DEF Entries, Entry
  <2> QED BY <2>4, <2>6
<1>7. ASSUME NEW o \in Ops PROVE VersionOf(o) \in 0..Final
  <2>1. VersionOf(o) \in Nat
    BY <1>0, VersionsCount
  <2>2. CASE VersionOf(o) = 0
    BY <2>2, ConsoleAssumption
  <2>3. CASE VersionOf(o) # 0
    <3>1. VersionOf(o) \in 1..VersionOf(o)
      BY <2>1, <2>3
    <3>2. PICK i \in DOMAIN log : log[i] = Entry(o, VersionOf(o))
      BY <3>1, <1>6
    <3>3. log[i].version = VersionOf(o)
      BY <3>2 DEF Entry
    <3> QED BY <3>3, <1>a DEF Entries
  <2> QED BY <2>2, <2>3
<1> QED BY <1>1, <1>4, <1>5, <1>6, <1>7

LEMMA NewEntry ==
    ASSUME Numbered, NEW o \in Ops
    PROVE  ~Has(Entry(o, VersionOf(o) + 1), log)
<1> SUFFICES ASSUME NEW i \in DOMAIN log, log[i] = Entry(o, VersionOf(o) + 1) PROVE FALSE
  BY DEF Has
<1>1. log[i].op = o /\ log[i].version = VersionOf(o) + 1
  BY DEF Entry
<1>2. log[i].version \in 1..VersionOf(o) /\ VersionOf(o) \in Nat
  BY <1>1, LogFacts, ConsoleAssumption
<1> QED BY <1>1, <1>2

\* Writing a change gives the operation its next version and leaves the others alone.
LEMMA WriteNumbers ==
    ASSUME Numbered, NEW o \in Ops, Written(o)
    PROVE  /\ Numbered'
           /\ log' = Append(log, Entry(o, VersionOf(o) + 1))
           /\ VersionOf(o)' = VersionOf(o) + 1
           /\ \A p \in Ops \ {o} : VersionOf(p)' = VersionOf(p)
<1> DEFINE n == Len(log)
           e == Entry(o, VersionOf(o) + 1)
           After(p) == {j \in DOMAIN log' : log'[j].op = p}
<1>0. n \in Nat /\ DOMAIN log = 1..n /\ log \in Seq(Entries) /\ VersionOf(o) \in Nat
  BY VersionsCount DEF Numbered
<1>1. log' = Append(log, e) /\ e.version <= Final /\ \A p \in Ops : p < o => VersionOf(p) > 0
  BY DEF Written
<1>2. e \in Entries /\ e.op = o /\ e.version = VersionOf(o) + 1
  BY <1>0, <1>1, ConsoleAssumption DEF Entries, Entry
<1> HIDE DEF e
<1>3. /\ log' \in Seq(Entries) /\ DOMAIN log' = 1..(n + 1)
      /\ log'[n + 1] = e /\ \A i \in 1..n : log'[i] = log[i]
  BY <1>0, <1>1, <1>2
<1>4. \A p : After(p) = IF p = o THEN Positions(p) \cup {n + 1} ELSE Positions(p)
  <2> SUFFICES ASSUME NEW p
               PROVE  After(p) = IF p = o THEN Positions(p) \cup {n + 1} ELSE Positions(p)
    OBVIOUS
  <2>1. \A i : i \in 1..(n + 1) <=> i \in 1..n \/ i = n + 1
    BY <1>0
  <2>2. CASE p = o
    BY <1>0, <1>2, <1>3, <2>1, <2>2 DEF Positions
  <2>3. CASE p # o
    BY <1>0, <1>2, <1>3, <2>1, <2>3 DEF Positions
  <2> QED BY <2>2, <2>3
<1> HIDE DEF After
<1>5. n + 1 \notin Positions(o)
  BY <1>0 DEF Positions
<1>6. \A p : VersionOf(p) = Cardinality(Positions(p)) /\ VersionOf(p)' = Cardinality(After(p))
  BY DEF VersionOf, Positions, After
<1>7. VersionOf(o)' = VersionOf(o) + 1
  BY <1>0, <1>4, <1>5, <1>6, VersionsCount, FS_AddElement
<1>8. \A p \in Ops \ {o} : VersionOf(p)' = VersionOf(p)
  BY <1>4, <1>6
<1>9. ASSUME NEW i \in DOMAIN log' PROVE log'[i].version = Rank(After(log'[i].op), i)
  <2>1. CASE i = n + 1
    <3>1. log'[i] = e /\ After(o) = {j \in After(o) : j <= n + 1}
      BY <1>0, <1>3, <1>4, <2>1, VersionsCount
    <3>2. Rank(After(o), i) = Cardinality(After(o))
      BY <2>1, <3>1 DEF Rank
    <3> QED BY <1>2, <1>6, <1>7, <3>1, <3>2
  <2>2. CASE i \in 1..n
    <3>1. log'[i] = log[i]
      BY <1>3, <2>2
    <3>2. \A p : {j \in After(p) : j <= i} = {j \in Positions(p) : j <= i}
      BY <1>0, <1>4, <2>2
    <3>3. Rank(After(log[i].op), i) = Rank(Positions(log[i].op), i)
      BY <3>2 DEF Rank
    <3> QED BY <1>0, <2>2, <3>1, <3>3 DEF Numbered
  <2> QED BY <1>0, <1>3, <2>1, <2>2
<1>10. ASSUME NEW i \in DOMAIN log', NEW p \in Ops, p < log'[i].op
       PROVE  \E j \in DOMAIN log' : j < i /\ log'[j].op = p
  <2>1. CASE i = n + 1
    <3>1. VersionOf(p) > 0
      BY <1>1, <1>2, <1>3, <1>10, <2>1
    <3>2. PICK j : j \in Positions(p)
      BY <1>0, <1>6, <3>1, VersionsCount, FS_EmptySet
    <3> QED BY <1>0, <1>3, <2>1, <3>2 DEF Positions
  <2>2. CASE i \in 1..n
    <3>1. PICK j \in DOMAIN log : j < i /\ log[j].op = p
      BY <1>0, <1>3, <1>10, <2>2 DEF Numbered
    <3> QED BY <1>0, <1>3, <3>1
  <2> QED BY <1>0, <1>3, <2>1, <2>2
<1>11. Numbered'
  BY <1>3, <1>9, <1>10 DEF Numbered, Positions, After
<1> QED BY <1>1, <1>7, <1>8, <1>11 DEF e
\* One row for each operation that has started, in the order they started, at its version.
LEMMA RowsAre ==
    ASSUME Numbered
    PROVE  /\ Rows \in Seq(Entries) /\ Len(Rows) \in 0..Cardinality(Ops)
           /\ \A i \in 1..Len(Rows) : Rows[i] = Entry(i, VersionOf(i))
           /\ \A o \in Ops : VersionOf(o) > 0 <=> o <= Len(Rows)
<1> DEFINE K == {i \in DOMAIN log : log[i].version = 1}
           N == Cardinality(K)
<1>0. /\ log \in Seq(Entries) /\ Len(log) \in Nat /\ DOMAIN log = 1..Len(log)
      /\ \A i \in DOMAIN log : log[i] \in Entries /\ log[i].op \in Ops
  <2>1. log \in Seq(Entries)
    BY DEF Numbered
  <2>2. Len(log) \in Nat /\ DOMAIN log = 1..Len(log) /\ \A i \in DOMAIN log : log[i] \in Entries
    BY <2>1
  <2> QED BY <2>1, <2>2 DEF Entries
<1>1. /\ \A i \in DOMAIN log : log[i].version \in 1..VersionOf(log[i].op)
      /\ \A i, j \in DOMAIN log :
            log[i].op = log[j].op => (i < j <=> log[i].version < log[j].version)
      /\ \A o \in Ops : VersionOf(o) \in 0..Final
      /\ \A o \in Ops : \A v \in 1..VersionOf(o) : \E i \in DOMAIN log : log[i] = Entry(o, v)
  BY LogFacts
<1>2. Started = At(log, K)
  BY DEF Started, Kept
<1>3. N \in Nat /\ Started \in Seq(Entries) /\ Len(Started) = N
  BY <1>0, <1>2, AtEnumerates
<1>4. PICK p : Enumerates(p, K) /\ \A m \in 1..N : Started[m] = log[p[m]]
  <2>1. K \in SUBSET DOMAIN log
    OBVIOUS
  <2>2. \E p : Enumerates(p, K) /\ \A m \in 1..Cardinality(K) : At(log, K)[m] = log[p[m]]
    <3> HIDE DEF K
    <3> QED BY <1>0, <2>1, AtEnumerates
  <2> QED BY <1>2, <2>2
<1>5. /\ DOMAIN p = 1..N
      /\ \A m \in 1..N : p[m] \in K /\ Rank(K, p[m]) = m
      /\ \A i \in K : \E m \in 1..N : p[m] = i
  BY <1>4 DEF Enumerates
<1>6. ASSUME NEW o \in Ops, VersionOf(o) > 0 PROVE \E i \in K : log[i].op = o
  <2>1. 1 \in 1..VersionOf(o)
    BY <1>1, <1>6
  <2>2. PICK i \in DOMAIN log : log[i] = Entry(o, 1)
    BY <1>1, <2>1
  <2> QED BY <2>2 DEF Entry
<1>7. ASSUME NEW m \in 1..N PROVE log[p[m]].op = m
  <2> DEFINE i == p[m]
             o == log[i].op
             B == {j \in K : j <= i}
             f == [j \in B |-> log[j].op]
  <2>1. i \in K /\ i \in DOMAIN log /\ log[i].version = 1 /\ Cardinality(B) = m /\ o \in Ops
    BY <1>0, <1>5 DEF Rank
  <2>2. IsFiniteSet(B)
    <3>1. B \in SUBSET (1..Len(log))
      BY <1>0
    <3>2. IsFiniteSet(1..Len(log))
      BY <1>0, FS_Interval
    <3> HIDE DEF B
    <3> QED BY <3>1, <3>2, FS_Subset
  <2>3. ASSUME NEW j \in B PROVE log[j].op \in 1..o
    <3>1. j \in DOMAIN log /\ log[j].version = 1 /\ j <= i /\ log[j].op \in Ops
      BY <1>0
    <3>2. SUFFICES ~(o < log[j].op)
      BY <2>1, <3>1, OpsAreNat
    <3>3. SUFFICES ASSUME o < log[j].op PROVE FALSE
      OBVIOUS
    <3>4. PICK k \in DOMAIN log : k < j /\ log[k].op = o
      BY <2>1, <3>1, <3>3 DEF Numbered
    <3>5. k < i
      BY <1>0, <2>1, <3>1, <3>4
    <3>6. log[k].version < log[i].version /\ log[k].version \in 1..VersionOf(log[k].op)
      BY <1>1, <2>1, <3>4, <3>5
    <3> QED BY <2>1, <3>6, <1>1, <3>4
  <2>4. ASSUME NEW j \in B, NEW k \in B, log[j].op = log[k].op PROVE j = k
    <3>1. j \in DOMAIN log /\ log[j].version = 1 /\ k \in DOMAIN log /\ log[k].version = 1
      OBVIOUS
    <3>2. ~(j < k) /\ ~(k < j)
      BY <1>1, <2>4, <3>1
    <3> QED BY <1>0, <3>1, <3>2
  <2>5. ASSUME NEW q \in 1..o PROVE \E j \in B : log[j].op = q
    <3>1. CASE q = o
      BY <1>0, <2>1, <3>1
    <3>2. CASE q # o
      <4>0. q < o /\ q \in Ops
        BY <2>1, <3>2, OpsAreNat
      <4>1. PICK k \in DOMAIN log : k < i /\ log[k].op = q
        BY <2>1, <4>0 DEF Numbered
      <4>2. VersionOf(q) > 0
        BY <1>1, <4>0, <4>1
      <4>3. PICK j \in K : log[j].op = q
        BY <1>6, <4>0, <4>2
      <4>4. j \in DOMAIN log /\ log[j].version = 1 /\ ~(log[k].version < log[j].version)
        BY <1>1, <4>1, <4>0
      <4>5. ~(k < j)
        BY <1>1, <4>1, <4>3, <4>4
      <4>6. j <= i
        BY <1>0, <2>1, <4>1, <4>4, <4>5
      <4> QED BY <4>3, <4>6
    <3> QED BY <3>1, <3>2
  <2>6. f \in Bijection(B, 1..o)
    <3>1. f \in [B -> 1..o]
      BY <2>3
    <3>2. f \in Injection(B, 1..o)
      BY <2>4, <3>1 DEF Injection, IsInjective
    <3>3. f \in Surjection(B, 1..o)
      BY <2>5, <3>1 DEF Surjection
    <3> QED BY <3>2, <3>3 DEF Bijection
  <2>7. Cardinality(1..o) = Cardinality(B)
    BY <2>2, <2>6, FS_Bijection DEF ExistsBijection
  <2> HIDE DEF o, B, i
  <2>8. Cardinality(1..o) = o
    <3>1. o \in Nat /\ o > 0 /\ o \in Int /\ 1 \in Int
      BY <2>1, OpsAreNat DEF o, i
    <3> QED BY <3>1, FS_Interval
  <2> QED BY <2>1, <2>7, <2>8 DEF o, i
<1>8. \A m \in 1..N : m \in Ops /\ VersionOf(m) > 0
  <2> SUFFICES ASSUME NEW m \in 1..N PROVE m \in Ops /\ VersionOf(m) > 0
    OBVIOUS
  <2>1. p[m] \in DOMAIN log /\ log[p[m]].op = m /\ log[p[m]].version = 1
    BY <1>5, <1>7
  <2>2. m \in Ops
    BY <1>0, <2>1
  <2> QED BY <1>1, <2>1, <2>2
<1>9. \A o \in Ops : VersionOf(o) > 0 => o \in 1..N
  <2> SUFFICES ASSUME NEW o \in Ops, VersionOf(o) > 0 PROVE o \in 1..N
    OBVIOUS
  <2>1. PICK i \in K : log[i].op = o
    BY <1>6
  <2>2. PICK m \in 1..N : p[m] = i
    BY <1>5, <2>1
  <2> QED BY <1>7, <2>1, <2>2
<1>10. N \in 0..Cardinality(Ops)
  BY <1>3, <1>8, OpsAreNat
<1>11. Rows = [m \in 1..N |-> Entry(m, VersionOf(m))]
  <2>1. \A m \in 1..N : Started[m].op = m
    BY <1>4, <1>7
  <2>2. DOMAIN Started = 1..N
    BY <1>3
  <2> QED BY <2>1, <2>2 DEF Rows
<1>12. \A m \in 1..N : Entry(m, VersionOf(m)) \in Entries
  BY <1>1, <1>8 DEF Entry, Entries
<1> HIDE DEF N
<1>13. Rows \in Seq(Entries) /\ Len(Rows) = N /\ \A i \in 1..N : Rows[i] = Entry(i, VersionOf(i))
  BY <1>3, <1>11, <1>12
<1> QED BY <1>3, <1>8, <1>9, <1>10, <1>13, OpsAreNat

---------------------------------------------------------------------------
(* Lists without a repetition, of operations or of entries *)

UniqueOps(s) == \A i, j \in DOMAIN s : s[i].op = s[j].op => i = j
Distinct(s)  == \A i, j \in DOMAIN s : s[i] = s[j] => i = j

\* t lists some elements of s, each position of s at most once.
PartOf(t, s) ==
    \E q : /\ q \in [DOMAIN t -> DOMAIN s]
           /\ \A i, j \in DOMAIN t : q[i] = q[j] => i = j
           /\ \A i \in DOMAIN t : t[i] = s[q[i]]

LEMMA PartsKeep ==
    ASSUME NEW s, NEW t, PartOf(t, s)
    PROVE  /\ UniqueOps(s) => UniqueOps(t)
           /\ Distinct(s) => Distinct(t)
<1>1. PICK q : /\ q \in [DOMAIN t -> DOMAIN s]
               /\ \A i, j \in DOMAIN t : q[i] = q[j] => i = j
               /\ \A i \in DOMAIN t : t[i] = s[q[i]]
  BY DEF PartOf
<1>2. UniqueOps(s) => UniqueOps(t)
  BY <1>1 DEF UniqueOps
<1>3. Distinct(s) => Distinct(t)
  BY <1>1 DEF Distinct
<1> QED BY <1>2, <1>3

LEMMA AtIsPart ==
    ASSUME NEW E, NEW s \in Seq(E), NEW K \in SUBSET DOMAIN s
    PROVE  At(s, K) \in Seq(E) /\ PartOf(At(s, K), s)
<1>1. /\ Cardinality(K) \in Nat /\ At(s, K) \in Seq(E) /\ Len(At(s, K)) = Cardinality(K)
      /\ \E p : Enumerates(p, K) /\ \A m \in 1..Cardinality(K) : At(s, K)[m] = s[p[m]]
  BY AtEnumerates
<1>2. PICK p : Enumerates(p, K) /\ \A m \in 1..Cardinality(K) : At(s, K)[m] = s[p[m]]
  BY <1>1
<1>3. DOMAIN At(s, K) = 1..Cardinality(K)
  BY <1>1
<1>4. p \in [1..Cardinality(K) -> DOMAIN s] /\ \A i, j \in 1..Cardinality(K) : p[i] = p[j] => i = j
  BY <1>2 DEF Enumerates
<1> QED BY <1>1, <1>2, <1>3, <1>4 DEF PartOf

LEMMA ReverseIs ==
    ASSUME NEW E, NEW s \in Seq(E)
    PROVE  /\ Reverse(s) \in Seq(E) /\ Len(Reverse(s)) = Len(s)
           /\ \A i \in 1..Len(s) : Reverse(s)[i] = s[(Len(s) - i) + 1]
           /\ PartOf(Reverse(s), s)
<1>1. Len(s) \in Nat /\ DOMAIN s = 1..Len(s)
  OBVIOUS
<1>2. /\ Reverse(s) \in Seq(E) /\ Len(Reverse(s)) = Len(s)
      /\ \A i \in 1..Len(s) : Reverse(s)[i] = s[(Len(s) - i) + 1]
  BY <1>1 DEF Reverse
<1> DEFINE q == [i \in 1..Len(s) |-> (Len(s) - i) + 1]
<1>3. /\ q \in [1..Len(s) -> 1..Len(s)]
      /\ \A i, j \in 1..Len(s) : q[i] = q[j] => i = j
      /\ \A i \in 1..Len(s) : Reverse(s)[i] = s[q[i]]
  BY <1>1, <1>2
<1>4. DOMAIN Reverse(s) = 1..Len(s)
  BY <1>1, <1>2
<1>5. PartOf(Reverse(s), s)
  <2> HIDE DEF q
  <2> QED BY <1>1, <1>3, <1>4 DEF PartOf
<1> QED BY <1>2, <1>5

LEMMA FirstOfIs ==
    ASSUME NEW E, NEW s \in Seq(E), NEW n \in Nat
    PROVE  /\ FirstOf(n, s) \in Seq(E)
           /\ Len(FirstOf(n, s)) = IF Len(s) < n THEN Len(s) ELSE n
           /\ \A i \in 1..Len(FirstOf(n, s)) : FirstOf(n, s)[i] = s[i]
           /\ PartOf(FirstOf(n, s), s)
<1> DEFINE m == IF Len(s) < n THEN Len(s) ELSE n
           t == FirstOf(n, s)
<1>1. Len(s) \in Nat /\ DOMAIN s = 1..Len(s) /\ m \in 0..Len(s)
  OBVIOUS
<1>2. t \in Seq(E) /\ Len(t) = m /\ \A i \in 1..m : t[i] = s[i]
  BY <1>1 DEF FirstOf
<1> HIDE DEF m, t
<1> DEFINE q == [i \in 1..m |-> i]
<1>3. /\ q \in [DOMAIN t -> DOMAIN s]
      /\ \A i, j \in DOMAIN t : q[i] = q[j] => i = j
      /\ \A i \in DOMAIN t : t[i] = s[q[i]]
  BY <1>1, <1>2
<1>4. PartOf(t, s)
  BY <1>3 DEF PartOf
<1> QED BY <1>2, <1>4 DEF m, t

ByOperation == {"active", "history", "queue", "operation"}
Neat(s)     == IF panel \in ByOperation THEN UniqueOps(s) ELSE Distinct(s)

LEMMA RowsUnique == ASSUME Numbered PROVE UniqueOps(Rows)
<1>1. Len(Rows) \in Nat /\ DOMAIN Rows = 1..Len(Rows)
  BY RowsAre
<1>2. \A i \in DOMAIN Rows : Rows[i].op = i
  BY <1>1, RowsAre DEF Entry
<1> QED BY <1>2 DEF UniqueOps

LEMMA EmptyIsNeat == UniqueOps(<<>>) /\ Distinct(<<>>) /\ <<>> \in Seq(Entries)
BY DEF UniqueOps, Distinct

---------------------------------------------------------------------------
(* The times entries occurred at *)

\* The same entries, each once; and unless something crossed in the same order.
Timed ==
    /\ occurred \in Seq(Entries) /\ Distinct(occurred)
    /\ \A x : Has(x, occurred) <=> Has(x, log)
    /\ crossed \in BOOLEAN /\ (~crossed => occurred = log)

\* An entry put before the n-th.
LEMMA InsertAtIs ==
    ASSUME NEW s \in Seq(Entries), NEW e \in Entries, NEW n \in 1..(Len(s) + 1)
    PROVE  /\ InsertAt(s, n, e) \in Seq(Entries) /\ Len(InsertAt(s, n, e)) = Len(s) + 1
           /\ \A i \in 1..(n - 1) : InsertAt(s, n, e)[i] = s[i]
           /\ InsertAt(s, n, e)[n] = e
           /\ \A i \in n..Len(s) : InsertAt(s, n, e)[i + 1] = s[i]
           /\ n = Len(s) + 1 => InsertAt(s, n, e) = Append(s, e)
<1> DEFINE a == SubSeq(s, 1, n - 1)
           b == SubSeq(s, n, Len(s))
           u == a \o <<e>>
           t == u \o b
<1>1. /\ Len(s) \in Nat /\ n \in Nat /\ n - 1 \in Nat /\ n - 1 <= Len(s)
      /\ a \in Seq(Entries) /\ Len(a) = n - 1 /\ \A i \in 1..(n - 1) : a[i] = s[i]
  OBVIOUS
<1>2. /\ b \in Seq(Entries) /\ Len(b) = (Len(s) - n) + 1
      /\ \A i \in 1..((Len(s) - n) + 1) : b[i] = s[(n + i) - 1]
  OBVIOUS
<1> HIDE DEF a, b
<1>3. /\ u \in Seq(Entries) /\ Len(u) = n /\ u[n] = e /\ \A i \in 1..(n - 1) : u[i] = a[i]
  BY <1>1
<1> HIDE DEF u
<1>4. /\ t \in Seq(Entries) /\ Len(t) = Len(u) + Len(b)
      /\ \A i \in 1..(Len(u) + Len(b)) : t[i] = IF i <= Len(u) THEN u[i] ELSE b[i - Len(u)]
  BY <1>2, <1>3, ConcatProperties
<1> HIDE DEF t
<1>5. Len(t) = Len(s) + 1 /\ t[n] = e /\ \A i \in 1..(n - 1) : t[i] = s[i]
  BY <1>1, <1>2, <1>3, <1>4
<1>6. ASSUME NEW i \in n..Len(s) PROVE t[i + 1] = s[i]
  <2>1. i + 1 \in 1..(Len(u) + Len(b)) /\ ~(i + 1 <= Len(u)) /\ (i + 1) - Len(u) = (i - n) + 1
    BY <1>1, <1>2, <1>3
  <2>2. (i - n) + 1 \in 1..((Len(s) - n) + 1) /\ (n + ((i - n) + 1)) - 1 = i
    BY <1>1
  <2>3. t[i + 1] = b[(i - n) + 1]
    BY <1>4, <2>1
  <2> QED BY <1>2, <2>2, <2>3
<1>7. ASSUME n = Len(s) + 1 PROVE t = Append(s, e)
  <2>1. /\ Append(s, e) \in Seq(Entries) /\ Len(Append(s, e)) = Len(s) + 1
        /\ Append(s, e)[Len(s) + 1] = e /\ \A i \in 1..Len(s) : Append(s, e)[i] = s[i]
    BY <1>1
  <2>2. \A i \in 1..(Len(s) + 1) : i = n \/ i \in 1..(n - 1)
    BY <1>1, <1>7
  <2>3. \A i \in 1..(Len(s) + 1) : t[i] = Append(s, e)[i]
    BY <1>1, <1>5, <1>7, <2>1, <2>2
  <2> QED BY <1>4, <1>5, <2>1, <2>3, SeqEqual
<1>8. t = InsertAt(s, n, e)
  BY DEF t, u, a, b, InsertAt
<1> QED BY <1>4, <1>5, <1>6, <1>7, <1>8

\* What is written next gets a time among those of the others, whose order stays.
LEMMA DatedIs ==
    ASSUME Numbered, Timed, NEW e \in Entries, ~Has(e, log), Dated(e), log' = Append(log, e)
    PROVE  /\ Timed' /\ (~crossed' => ~crossed)
           /\ \A c, d : OccurredBefore(c, d) => OccurredBefore(c, d)'
           /\ panel \notin {"records", "feed"} => crossed' = crossed
<1> DEFINE s == occurred
           N == Len(s)
<1>0. /\ s \in Seq(Entries) /\ Distinct(s) /\ \A x : Has(x, s) <=> Has(x, log)
      /\ crossed \in BOOLEAN /\ (~crossed => s = log)
      /\ N \in Nat /\ DOMAIN s = 1..N
  BY DEF Timed
<1>1. PICK n \in 1..(N + 1) :
         /\ n + (IF panel \in {"records", "feed"} THEN MaxLate ELSE 0) > N
         /\ occurred' = InsertAt(s, n, e) /\ crossed' = (crossed \/ n <= N)
  BY DEF Dated
<1> DEFINE t == occurred'
<1>2. /\ t \in Seq(Entries) /\ Len(t) = N + 1 /\ t[n] = e
      /\ \A i \in 1..(n - 1) : t[i] = s[i]
      /\ \A i \in n..N : t[i + 1] = s[i]
      /\ n = N + 1 => t = Append(s, e)
  <2>1. n \in 1..(Len(s) + 1)
    OBVIOUS
  <2> HIDE DEF s
  <2>2. /\ InsertAt(s, n, e) \in Seq(Entries) /\ Len(InsertAt(s, n, e)) = Len(s) + 1
        /\ \A i \in 1..(n - 1) : InsertAt(s, n, e)[i] = s[i]
        /\ InsertAt(s, n, e)[n] = e
        /\ \A i \in n..Len(s) : InsertAt(s, n, e)[i + 1] = s[i]
        /\ n = Len(s) + 1 => InsertAt(s, n, e) = Append(s, e)
    BY <1>0, <2>1, InsertAtIs
  <2>3. t = InsertAt(s, n, e)
    BY <1>1
  <2> HIDE DEF t
  <2> QED BY <2>2, <2>3
<1> HIDE DEF s, t, N
<1> DEFINE at(i) == IF i < n THEN i ELSE i + 1
<1>3. DOMAIN t = 1..(N + 1) /\ n \in DOMAIN t
  BY <1>0, <1>2
<1>4. /\ \A i \in 1..N : at(i) \in DOMAIN t /\ t[at(i)] = s[i] /\ at(i) # n
      /\ \A i, j \in 1..N : i < j => at(i) < at(j)
  <2>1. ASSUME NEW i \in 1..N PROVE at(i) \in 1..(N + 1) /\ at(i) # n /\ t[at(i)] = s[i]
    <3>1. CASE i < n
      <4>1. i \in 1..(n - 1) /\ i \in 1..(N + 1) /\ i # n
        BY <1>0, <3>1
      <4> QED BY <1>2, <3>1, <4>1
    <3>2. CASE ~(i < n)
      <4>1. i \in n..N /\ i + 1 \in 1..(N + 1) /\ i + 1 # n
        BY <1>0, <3>2
      <4> QED BY <1>2, <3>2, <4>1
    <3> QED BY <3>1, <3>2
  <2>2. \A i, j \in 1..N : i < j => at(i) < at(j)
    BY <1>0
  <2> HIDE DEF at
  <2> QED BY <1>3, <2>1, <2>2
<1>5. \A k \in DOMAIN t : k = n \/ \E i \in 1..N : k = at(i)
  <2> SUFFICES ASSUME NEW k \in DOMAIN t, k # n PROVE \E i \in 1..N : k = at(i)
    OBVIOUS
  <2>1. CASE k < n
    <3>1. k \in 1..N /\ k = at(k)
      BY <1>0, <1>3, <2>1
    <3> QED BY <3>1
  <2>2. CASE ~(k < n)
    <3>1. k - 1 \in 1..N /\ k = at(k - 1)
      BY <1>0, <1>3, <2>2
    <3> QED BY <3>1
  <2> QED BY <2>1, <2>2
<1> HIDE DEF at
<1>6. \A x : Has(x, t) <=> x = e \/ Has(x, s)
  <2> SUFFICES ASSUME NEW x PROVE Has(x, t) <=> x = e \/ Has(x, s)
    OBVIOUS
  <2>1. ASSUME Has(x, t) PROVE x = e \/ Has(x, s)
    <3>1. PICK k \in DOMAIN t : t[k] = x
      BY <2>1 DEF Has
    <3>2. CASE k = n
      BY <1>2, <3>1, <3>2
    <3>3. CASE k # n
      <4>1. PICK i \in 1..N : k = at(i)
        BY <1>5, <3>3
      <4> QED BY <1>0, <1>4, <3>1, <4>1 DEF Has
    <3> QED BY <3>2, <3>3
  <2>2. ASSUME Has(x, s) PROVE Has(x, t)
    <3>1. PICK i \in 1..N : s[i] = x
      BY <1>0, <2>2 DEF Has
    <3> QED BY <1>4, <3>1 DEF Has
  <2>3. Has(e, t)
    BY <1>2, <1>3 DEF Has
  <2> QED BY <2>1, <2>2, <2>3
<1>7. \A x : Has(x, log') <=> x = e \/ Has(x, log)
  <2>1. /\ log \in Seq(Entries) /\ Len(log) \in Nat /\ DOMAIN log = 1..Len(log)
        /\ DOMAIN log' = 1..(Len(log) + 1) /\ log'[Len(log) + 1] = e
        /\ \A i \in 1..Len(log) : log'[i] = log[i]
    BY DEF Numbered
  <2>2. /\ \A i \in DOMAIN log' : i = Len(log) + 1 \/ i \in DOMAIN log
        /\ Len(log) + 1 \in DOMAIN log' /\ \A i \in DOMAIN log : i \in DOMAIN log'
    BY <2>1
  <2> QED BY <2>1, <2>2 DEF Has
<1>8. Distinct(t)
  <2> SUFFICES ASSUME NEW j \in DOMAIN t, NEW k \in DOMAIN t, t[j] = t[k] PROVE j = k
    BY DEF Distinct
  <2>1. \A i \in 1..N : s[i] # e
    BY <1>0 DEF Has
  <2>2. CASE j = n \/ k = n
    BY <1>2, <1>4, <1>5, <2>1, <2>2
  <2>3. CASE j # n /\ k # n
    <3>1. PICK a, b \in 1..N : j = at(a) /\ k = at(b)
      BY <1>5, <2>3
    <3>2. a = b
      BY <1>0, <1>4, <3>1 DEF Distinct
    <3> QED BY <3>1, <3>2
  <2> QED BY <2>2, <2>3
<1>9. crossed' \in BOOLEAN /\ (~crossed' => ~crossed /\ ~(n <= N))
  BY <1>0, <1>1
<1>10. ~crossed' => t = log'
  <2> SUFFICES ASSUME ~crossed' PROVE t = log'
    OBVIOUS
  <2>1. n = N + 1
    BY <1>0, <1>9
  <2> QED BY <1>0, <1>2, <1>9, <2>1
<1>11. Timed'
  BY <1>0, <1>2, <1>6, <1>7, <1>8, <1>9, <1>10 DEF Timed, t, Has, Distinct
<1>12. \A c, d : OccurredBefore(c, d) => OccurredBefore(c, d)'
  <2> SUFFICES ASSUME NEW c, NEW d, OccurredBefore(c, d) PROVE OccurredBefore(c, d)'
    OBVIOUS
  <2>1. PICK i, j \in 1..N : i < j /\ s[i] = c /\ s[j] = d
    BY <1>0 DEF OccurredBefore, s
  <2>2. at(i) \in DOMAIN t /\ at(j) \in DOMAIN t /\ at(i) < at(j) /\ t[at(i)] = c /\ t[at(j)] = d
    BY <1>4, <2>1
  <2> QED BY <2>2 DEF OccurredBefore, t
<1>13. ASSUME panel \notin {"records", "feed"} PROVE crossed' = crossed
  <2>1. n + 0 > N
    BY <1>1, <1>13 DEF N, s
  <2>2. ~(n <= N)
    BY <1>0, <2>1
  <2> QED BY <1>0, <1>1, <2>2 DEF N, s
<1> QED BY <1>9, <1>11, <1>12, <1>13

\* The times put the entries into one order.
LEMMA TimesOrder ==
    ASSUME Timed
    PROVE  /\ \A c, d : OccurredBefore(c, d) => ~OccurredBefore(d, c) /\ c # d
           /\ \A c, d : Has(c, occurred) /\ Has(d, occurred) /\ c # d =>
                 OccurredBefore(c, d) \/ OccurredBefore(d, c)
           /\ \A b, c, d : OccurredBefore(b, c) /\ OccurredBefore(c, d) => OccurredBefore(b, d)
<1>1. /\ DOMAIN occurred \subseteq Nat
      /\ \A i, j \in DOMAIN occurred : occurred[i] = occurred[j] => i = j
  BY DEF Timed, Distinct
<1>2. ASSUME NEW c, NEW d, OccurredBefore(c, d) PROVE ~OccurredBefore(d, c) /\ c # d
  <2>1. PICK i, j \in DOMAIN occurred : i < j /\ occurred[i] = c /\ occurred[j] = d
    BY <1>2 DEF OccurredBefore
  <2>2. i # j /\ ~(j < i)
    BY <1>1, <2>1
  <2>3. c # d
    BY <1>1, <2>1, <2>2
  <2>4. ASSUME NEW k \in DOMAIN occurred, NEW m \in DOMAIN occurred,
               k < m, occurred[k] = d, occurred[m] = c
        PROVE  FALSE
    <3>1. k = j /\ m = i
      BY <1>1, <2>1, <2>4
    <3> QED BY <2>2, <2>4, <3>1
  <2> QED BY <2>3, <2>4 DEF OccurredBefore
<1>3. ASSUME NEW c, NEW d, Has(c, occurred), Has(d, occurred), c # d
      PROVE  OccurredBefore(c, d) \/ OccurredBefore(d, c)
  <2>1. PICK i, j \in DOMAIN occurred : occurred[i] = c /\ occurred[j] = d
    BY <1>3 DEF Has
  <2>2. i < j \/ j < i
    BY <1>1, <1>3, <2>1
  <2> QED BY <2>1, <2>2 DEF OccurredBefore
<1>4. ASSUME NEW b, NEW c, NEW d, OccurredBefore(b, c), OccurredBefore(c, d)
      PROVE  OccurredBefore(b, d)
  <2>1. PICK i, j \in DOMAIN occurred : i < j /\ occurred[i] = b /\ occurred[j] = c
    BY <1>4 DEF OccurredBefore
  <2>2. PICK k, m \in DOMAIN occurred : k < m /\ occurred[k] = c /\ occurred[m] = d
    BY <1>4 DEF OccurredBefore
  <2>3. j = k
    BY <1>1, <2>1, <2>2
  <2>4. i < m
    BY <1>1, <2>1, <2>2, <2>3
  <2> QED BY <2>1, <2>2, <2>4 DEF OccurredBefore
<1> QED BY <1>2, <1>3, <1>4

\* A list of written entries by the time they occurred at.
InTime(s) ==
    /\ \A k \in DOMAIN s : Has(s[k], occurred)
    /\ \A j, k \in DOMAIN s : j < k => OccurredBefore(s[j], s[k])

\* It is the only one of the entries it has.
LEMMA InTimeIs ==
    ASSUME Timed, NEW s \in Seq(Entries), InTime(s), NEW K \in SUBSET DOMAIN occurred,
           \A i \in DOMAIN occurred : i \in K <=> Has(occurred[i], s)
    PROVE  /\ Len(s) = Cardinality(K)
           /\ \A k \in 1..Len(s) : \E i \in K : occurred[i] = s[k] /\ Rank(K, i) = k
<1> DEFINE N == Len(s)
           p == [k \in 1..N |-> CHOOSE i \in DOMAIN occurred : occurred[i] = s[k]]
<1>0. /\ N \in Nat /\ DOMAIN s = 1..N /\ occurred \in Seq(Entries)
      /\ DOMAIN occurred = 1..Len(occurred) /\ Len(occurred) \in Nat
      /\ \A i, j \in DOMAIN occurred : occurred[i] = occurred[j] => i = j
  BY DEF Timed, Distinct
<1>1. \A k \in 1..N : p[k] \in DOMAIN occurred /\ occurred[p[k]] = s[k]
  BY <1>0 DEF InTime, Has
<1>2. p \in [1..N -> DOMAIN occurred]
  BY <1>1
<1> HIDE DEF p
<1>3. \A k \in 1..N : p[k] \in K
  BY <1>0, <1>1 DEF Has
<1>4. ASSUME NEW j \in 1..N, NEW k \in 1..N, j < k PROVE p[j] < p[k]
  <2>1. PICK a, b \in DOMAIN occurred : a < b /\ occurred[a] = s[j] /\ occurred[b] = s[k]
    BY <1>0, <1>4 DEF InTime, OccurredBefore
  <2>2. a = p[j] /\ b = p[k]
    BY <1>0, <1>1, <2>1
  <2> QED BY <2>1, <2>2
<1>5. ASSUME NEW i \in K PROVE \E k \in 1..N : p[k] = i
  <2>1. PICK k \in 1..N : s[k] = occurred[i]
    BY <1>0 DEF Has
  <2> QED BY <1>0, <1>1, <2>1
<1>6. p \in [1..N -> K]
  BY <1>2, <1>3
<1>7. \A k \in 1..N : p[k] \in Nat
  BY <1>0, <1>1
\* Those up to the k-th are k.
<1>8. ASSUME NEW k \in 0..N PROVE Cardinality({p[j] : j \in 1..k}) = k
  <2> DEFINE T == {p[j] : j \in 1..k}
             f == [j \in 1..k |-> p[j]]
  <2>1. \A j \in 1..k : j \in 1..N
    BY <1>0
  <2>2. \A i, j \in 1..k : p[i] = p[j] => i = j
    <3> SUFFICES ASSUME NEW i \in 1..k, NEW j \in 1..k, p[i] = p[j] PROVE i = j
      OBVIOUS
    <3>1. ~(i < j) /\ ~(j < i)
      BY <1>4, <1>7, <2>1
    <3> QED BY <1>0, <3>1
  <2>3. f \in Bijection(1..k, T)
    <3>1. f \in [1..k -> T]
      OBVIOUS
    <3> QED BY <2>2, <3>1 DEF Bijection, Injection, Surjection, IsInjective
  <2>4. k \in Nat /\ IsFiniteSet(1..k) /\ Cardinality(1..k) = k
    BY <1>0, FS_Interval
  <2> HIDE DEF f, T
  <2>5. Cardinality(T) = Cardinality(1..k)
    BY <2>3, <2>4, FS_Bijection DEF ExistsBijection
  <2> QED BY <2>4, <2>5 DEF T
<1>9. ASSUME NEW k \in 1..N PROVE Rank(K, p[k]) = k
  <2>1. ASSUME NEW i \in K, i <= p[k] PROVE \E j \in 1..k : i = p[j]
    <3>1. PICK j \in 1..N : p[j] = i
      BY <1>5
    <3>2. ~(k < j)
      BY <1>4, <1>7, <2>1, <3>1
    <3> QED BY <1>0, <3>1, <3>2
  <2>2. ASSUME NEW j \in 1..k PROVE p[j] \in K /\ p[j] <= p[k]
    <3>1. j \in 1..N /\ (j = k \/ j < k)
      BY <1>0
    <3> QED BY <1>3, <1>4, <1>7, <3>1
  <2>3. {i \in K : i <= p[k]} = {p[j] : j \in 1..k}
    BY <2>1, <2>2
  <2> QED BY <1>0, <1>8, <2>3 DEF Rank
<1>10. K = {p[j] : j \in 1..N}
  BY <1>3, <1>5
<1>11. N = Cardinality(K)
  BY <1>0, <1>8, <1>10
<1> QED BY <1>1, <1>3, <1>9, <1>11

LEMMA SameInTime ==
    ASSUME Timed, NEW s \in Seq(Entries), NEW t \in Seq(Entries), InTime(s), InTime(t),
           \A x : Has(x, s) <=> Has(x, t)
    PROVE  s = t
<1> DEFINE K == {i \in DOMAIN occurred : Has(occurred[i], s)}
<1>0. /\ Len(occurred) \in Nat /\ DOMAIN occurred = 1..Len(occurred)
      /\ K \in SUBSET (1..Len(occurred)) /\ K \in SUBSET DOMAIN occurred
      /\ \A i \in DOMAIN occurred : i \in K <=> Has(occurred[i], s)
      /\ \A i \in DOMAIN occurred : i \in K <=> Has(occurred[i], t)
  BY DEF Timed
<1> HIDE DEF K
<1>1. /\ Len(s) = Cardinality(K)
      /\ \A k \in 1..Len(s) : \E i \in K : occurred[i] = s[k] /\ Rank(K, i) = k
  BY <1>0, InTimeIs
<1>2. /\ Len(t) = Cardinality(K)
      /\ \A k \in 1..Len(t) : \E i \in K : occurred[i] = t[k] /\ Rank(K, i) = k
  BY <1>0, InTimeIs
<1>3. \A i, j \in K : Rank(K, i) = Rank(K, j) => i = j
  <2> SUFFICES ASSUME NEW i \in K, NEW j \in K, Rank(K, i) = Rank(K, j) PROVE i = j
    OBVIOUS
  <2>a. /\ Cardinality(K) \in Nat /\ \A h \in K : Rank(K, h) \in 1..Cardinality(K)
        /\ \A h, k \in K : h < k => Rank(K, h) < Rank(K, k)
    BY <1>0, RankGrows
  <2>1. Rank(K, i) \in Nat
    BY <2>a
  <2>2. ~(i < j) /\ ~(j < i)
    BY <2>1, <2>a
  <2> QED BY <1>0, <2>2
<1>4. ASSUME NEW k \in 1..Len(s) PROVE s[k] = t[k]
  <2>1. PICK i \in K : occurred[i] = s[k] /\ Rank(K, i) = k
    BY <1>1
  <2>2. PICK j \in K : occurred[j] = t[k] /\ Rank(K, j) = k
    BY <1>1, <1>2
  <2> QED BY <1>3, <2>1, <2>2
<1> QED BY <1>1, <1>2, <1>4, SeqEqual

---------------------------------------------------------------------------
(* What the server answers *)

LEMMA LoadedIs ==
    ASSUME NEW s \in Seq(Entries), NEW n \in Nat
    PROVE  /\ Loaded(s, n) \in Answers /\ Loaded(s, n).items = s /\ Loaded(s, n).total = n
           /\ Loaded(s, n).loaded /\ ~Loaded(s, n).failed
BY DEF Loaded, Answers

\* The server repeats nothing in an answer.
LEMMA ViewIs ==
    ASSUME Numbered, Timed, panel \in Panels
    PROVE  /\ View \in Answers /\ Neat(View.items) /\ (~View.failed => View.loaded)
           /\ View.failed => panel = "operation" /\ VersionOf(watched) = 0
<1>0. panel \in AllPanels /\ FeedLimit \in Nat /\ PageSize \in Nat
  BY ConsoleAssumption
<1>1. /\ Rows \in Seq(Entries) /\ Len(Rows) \in Nat /\ UniqueOps(Rows)
      /\ log \in Seq(Entries) /\ Len(log) \in Nat
      /\ occurred \in Seq(Entries) /\ Distinct(occurred)
  BY RowsAre, RowsUnique DEF Numbered, Timed
<1>2. CASE panel = "active"
  <2> DEFINE K == {i \in DOMAIN Rows : InFlight(Rows[i])}
             s == Reverse(At(Rows, K))
  <2>1. View = Loaded(s, 0)
    BY <1>2 DEF View, Kept
  <2>2. K \in SUBSET DOMAIN Rows
    OBVIOUS
  <2> HIDE DEF K
  <2>3. At(Rows, K) \in Seq(Entries) /\ UniqueOps(At(Rows, K))
    BY <1>1, <2>2, AtIsPart, PartsKeep
  <2>4. s \in Seq(Entries) /\ UniqueOps(s)
    BY <2>3, ReverseIs, PartsKeep
  <2> HIDE DEF s
  <2> QED BY <1>2, <2>1, <2>4, LoadedIs DEF Neat, ByOperation
<1>3. CASE panel = "history"
  <2> DEFINE s == FirstOf(PageSize, Reverse(Rows))
  <2>1. View = Loaded(s, Len(Rows))
    BY <1>3 DEF View
  <2>2. Reverse(Rows) \in Seq(Entries) /\ UniqueOps(Reverse(Rows))
    BY <1>1, ReverseIs, PartsKeep
  <2>3. s \in Seq(Entries) /\ UniqueOps(s)
    BY <1>0, <2>2, FirstOfIs, PartsKeep
  <2> HIDE DEF s
  <2> QED BY <1>1, <1>3, <2>1, <2>3, LoadedIs DEF Neat, ByOperation
<1>4. CASE panel = "queue"
  <2> DEFINE s == [o \in Ops |-> Entry(o, VersionOf(o))]
  <2>1. View = Loaded(s, 0)
    BY <1>4 DEF View
  <2>2. \A o \in Ops : Entry(o, VersionOf(o)) \in Entries /\ s[o].op = o
    BY LogFacts DEF Entry, Entries
  <2>3. s \in Seq(Entries) /\ DOMAIN s = Ops
    BY <2>2, OpsAreNat
  <2>4. UniqueOps(s)
    BY <2>2, <2>3 DEF UniqueOps
  <2> HIDE DEF s
  <2> QED BY <1>4, <2>1, <2>3, <2>4, LoadedIs DEF Neat, ByOperation
<1>5. CASE panel = "operation"
  <2> DEFINE K == {i \in DOMAIN Rows : Rows[i].op = watched}
             s == At(Rows, K)
  <2>1. View = IF VersionOf(watched) = 0 THEN Failed(Unloaded) ELSE Loaded(s, 0)
    BY <1>5 DEF View, Kept
  <2>2. K \in SUBSET DOMAIN Rows
    OBVIOUS
  <2> HIDE DEF K
  <2>3. s \in Seq(Entries) /\ UniqueOps(s)
    BY <1>1, <2>2, AtIsPart, PartsKeep
  <2>4. Failed(Unloaded) \in Answers /\ Failed(Unloaded).items = <<>> /\ Failed(Unloaded).failed
    BY EmptyIsNeat DEF Failed, Unloaded, Answers
  <2>5. Neat(<<>>)
    BY EmptyIsNeat DEF Neat
  <2> HIDE DEF s
  <2>6. CASE VersionOf(watched) = 0
    BY <1>5, <2>1, <2>4, <2>5, <2>6
  <2>7. CASE VersionOf(watched) # 0
    BY <1>5, <2>1, <2>3, <2>7, LoadedIs DEF Neat, ByOperation
  <2> QED BY <2>6, <2>7
<1>6. CASE panel = "records"
  <2> DEFINE K == {i \in DOMAIN occurred : occurred[i].op = watched}
             s == At(occurred, K)
  <2>1. View = Loaded(s, 0)
    BY <1>6 DEF View, Kept, Of
  <2>2. K \in SUBSET DOMAIN occurred
    OBVIOUS
  <2> HIDE DEF K
  <2>3. s \in Seq(Entries) /\ Distinct(s)
    BY <1>1, <2>2, AtIsPart, PartsKeep
  <2> HIDE DEF s
  <2> QED BY <1>6, <2>1, <2>3, LoadedIs DEF Neat, ByOperation
<1>7. CASE panel = "feed"
  <2> DEFINE s == FirstOf(FeedLimit, Reverse(occurred))
  <2>1. View = Loaded(s, 0)
    BY <1>7 DEF View
  <2>2. Reverse(occurred) \in Seq(Entries) /\ Distinct(Reverse(occurred))
    BY <1>1, ReverseIs, PartsKeep
  <2>3. s \in Seq(Entries) /\ Distinct(s)
    BY <1>0, <2>2, FirstOfIs, PartsKeep
  <2> HIDE DEF s
  <2> QED BY <1>7, <2>1, <2>3, LoadedIs DEF Neat, ByOperation
<1>8. CASE panel = "metrics"
  <2>1. View = Loaded(<<>>, Len(log))
    BY <1>8 DEF View
  <2>2. <<>> \in Seq(Entries) /\ Distinct(<<>>)
    BY EmptyIsNeat
  <2>3. View \in Answers /\ View.items = <<>> /\ View.loaded /\ ~View.failed
    BY <1>1, <2>1, <2>2, LoadedIs
  <2>4. Neat(<<>>)
    BY <1>8, <2>2 DEF Neat, ByOperation
  <2> QED BY <2>3, <2>4
<1> QED BY <1>0, <1>2, <1>3, <1>4, <1>5, <1>6, <1>7, <1>8 DEF AllPanels

---------------------------------------------------------------------------
(* What the hooks make of a push *)

LEMMA WithoutIs ==
    ASSUME NEW s \in Seq(Entries), NEW o
    PROVE  /\ Without(o, s) \in Seq(Entries)
           /\ \A m \in DOMAIN Without(o, s) :
                 \E i \in DOMAIN s : s[i].op # o /\ Without(o, s)[m] = s[i]
           /\ \A i \in DOMAIN s :
                 s[i].op # o => \E m \in DOMAIN Without(o, s) : Without(o, s)[m] = s[i]
           /\ UniqueOps(s) => UniqueOps(Without(o, s))
<1> DEFINE K == {i \in DOMAIN s : s[i].op # o}
           t == At(s, K)
<1>1. Without(o, s) = t
  BY DEF Without, Kept
<1>2. K \in SUBSET DOMAIN s
  OBVIOUS
<1>3. t \in Seq(Entries) /\ (UniqueOps(s) => UniqueOps(t))
  <2> HIDE DEF K
  <2> QED BY <1>2, AtIsPart, PartsKeep
<1>4. /\ Cardinality(K) \in Nat /\ Len(t) = Cardinality(K)
      /\ \E p : Enumerates(p, K) /\ \A m \in 1..Cardinality(K) : t[m] = s[p[m]]
  <2> HIDE DEF K
  <2> QED BY <1>2, AtEnumerates
<1>5. PICK p : Enumerates(p, K) /\ \A m \in 1..Cardinality(K) : t[m] = s[p[m]]
  BY <1>4
<1>6. DOMAIN t = 1..Cardinality(K) /\ DOMAIN p = 1..Cardinality(K)
  BY <1>3, <1>4, <1>5 DEF Enumerates
<1> HIDE DEF t
<1>7. \A m \in DOMAIN t : p[m] \in K /\ t[m] = s[p[m]]
  BY <1>5, <1>6 DEF Enumerates
<1>8. \A i \in K : \E m \in DOMAIN t : t[m] = s[i]
  BY <1>5, <1>6 DEF Enumerates
<1> QED BY <1>1, <1>3, <1>7, <1>8

LEMMA AppendIs ==
    ASSUME NEW s \in Seq(Entries), NEW e \in Entries
    PROVE  /\ Append(s, e) \in Seq(Entries)
           /\ (\A i \in DOMAIN s : s[i].op # e.op) /\ UniqueOps(s) => UniqueOps(Append(s, e))
<1>1. Append(s, e) \in Seq(Entries) /\ DOMAIN Append(s, e) = 1..(Len(s) + 1)
  OBVIOUS
<1>2. \A i \in DOMAIN Append(s, e) :
         \/ i \in DOMAIN s /\ Append(s, e)[i] = s[i]
         \/ i = Len(s) + 1 /\ Append(s, e)[i] = e
  OBVIOUS
<1> QED BY <1>1, <1>2 DEF UniqueOps

\* On top of a list, which may then be cut.
LEMMA OnTopIs ==
    ASSUME NEW s \in Seq(Entries), NEW e \in Entries
    PROVE  /\ <<e>> \o s \in Seq(Entries) /\ Len(<<e>> \o s) = Len(s) + 1
           /\ (<<e>> \o s)[1] = e /\ \A i \in 1..Len(s) : (<<e>> \o s)[i + 1] = s[i]
           /\ \A i \in 2..(Len(s) + 1) : (<<e>> \o s)[i] = s[i - 1]
           /\ (\A i \in DOMAIN s : s[i].op # e.op) /\ UniqueOps(s) => UniqueOps(<<e>> \o s)
           /\ (\A i \in DOMAIN s : s[i] # e) /\ Distinct(s) => Distinct(<<e>> \o s)
<1> DEFINE t == <<e>> \o s
<1>1. /\ t \in Seq(Entries) /\ Len(t) = Len(s) + 1 /\ Len(s) \in Nat
      /\ t[1] = e /\ \A i \in 2..(Len(s) + 1) : t[i] = s[i - 1]
  OBVIOUS
<1> HIDE DEF t
<1>2. DOMAIN t = 1..(Len(s) + 1) /\ DOMAIN s = 1..Len(s)
  BY <1>1
<1>3. \A i \in 1..Len(s) : t[i + 1] = s[i]
  BY <1>1
<1>4. \A i \in DOMAIN t : \/ i = 1 /\ t[i] = e
                          \/ i \in Nat /\ i - 1 \in DOMAIN s /\ t[i] = s[i - 1]
  <2> SUFFICES ASSUME NEW i \in DOMAIN t, i # 1
               PROVE  i \in Nat /\ i - 1 \in DOMAIN s /\ t[i] = s[i - 1]
    BY <1>1
  <2>1. i \in 2..(Len(s) + 1)
    BY <1>1, <1>2
  <2> QED BY <1>1, <1>2, <2>1
<1>5. (\A i \in DOMAIN s : s[i].op # e.op) /\ UniqueOps(s) => UniqueOps(t)
  <2> SUFFICES ASSUME \A i \in DOMAIN s : s[i].op # e.op, UniqueOps(s),
                      NEW i \in DOMAIN t, NEW j \in DOMAIN t, t[i].op = t[j].op
               PROVE  i = j
    BY DEF UniqueOps
  <2>1. CASE i = 1 /\ j = 1
    BY <2>1
  <2>2. CASE i - 1 \in DOMAIN s /\ t[i] = s[i - 1] /\ j - 1 \in DOMAIN s /\ t[j] = s[j - 1]
    <3>1. i - 1 = j - 1
      BY <2>2 DEF UniqueOps
    <3> QED BY <1>2, <3>1
  <2> QED BY <1>4, <2>1, <2>2
<1>6. (\A i \in DOMAIN s : s[i] # e) /\ Distinct(s) => Distinct(t)
  <2> SUFFICES ASSUME \A i \in DOMAIN s : s[i] # e, Distinct(s),
                      NEW i \in DOMAIN t, NEW j \in DOMAIN t, t[i] = t[j]
               PROVE  i = j
    BY DEF Distinct
  <2>1. CASE i = 1 /\ j = 1
    BY <2>1
  <2>2. CASE i - 1 \in DOMAIN s /\ t[i] = s[i - 1] /\ j - 1 \in DOMAIN s /\ t[j] = s[j - 1]
    <3>1. i - 1 = j - 1
      BY <2>2 DEF Distinct
    <3> QED BY <1>2, <3>1
  <2> QED BY <1>4, <2>1, <2>2
<1> QED BY <1>1, <1>3, <1>5, <1>6 DEF t

LEMMA InPlaceIs ==
    ASSUME NEW s \in Seq(Entries), NEW e \in Entries
    PROVE  /\ InPlace(e, s) \in Seq(Entries) /\ DOMAIN InPlace(e, s) = DOMAIN s
           /\ Len(InPlace(e, s)) = Len(s)
           /\ \A i \in DOMAIN s : InPlace(e, s)[i] = IF s[i].op = e.op THEN e ELSE s[i]
           /\ \A i \in DOMAIN s : InPlace(e, s)[i].op = s[i].op
           /\ UniqueOps(s) => UniqueOps(InPlace(e, s))
<1>1. /\ InPlace(e, s) \in Seq(Entries) /\ DOMAIN InPlace(e, s) = DOMAIN s
      /\ Len(InPlace(e, s)) = Len(s)
  BY DEF InPlace
<1>2. \A i \in DOMAIN s : InPlace(e, s)[i] = IF s[i].op = e.op THEN e ELSE s[i]
  BY DEF InPlace
<1>3. \A i \in DOMAIN s : InPlace(e, s)[i].op = s[i].op
  BY <1>2
<1> QED BY <1>1, <1>2, <1>3 DEF UniqueOps

LEMMA SingleIs ==
    ASSUME NEW e \in Entries
    PROVE  <<e>> \in Seq(Entries) /\ UniqueOps(<<e>>) /\ Len(<<e>>) = 1 /\ <<e>>[1] = e
BY DEF UniqueOps

\* An element put between those at the positions K and the others: where the others of t
\* come from.
Inserted(s, e, K) == At(s, K) \o <<e>> \o At(s, DOMAIN s \ K)

ComesFrom(q, t, s, K) ==
    LET c == Cardinality(K) IN
    /\ \A i \in 1..c : q[i] \in K /\ t[i] = s[q[i]]
    /\ \A i \in (c + 2)..Len(t) : q[i] \in DOMAIN s \ K /\ t[i] = s[q[i]]
    /\ \A i, j \in 1..c : i < j => q[i] < q[j]
    /\ \A i, j \in (c + 2)..Len(t) : i < j => q[i] < q[j]
    /\ \A k \in DOMAIN s : \E i \in DOMAIN t : i # c + 1 /\ q[i] = k /\ t[i] = s[k]

LEMMA InsertIs ==
    ASSUME NEW s \in Seq(Entries), NEW e \in Entries, NEW K \in SUBSET DOMAIN s
    PROVE  /\ Inserted(s, e, K) \in Seq(Entries) /\ Cardinality(K) \in Nat
           /\ Len(Inserted(s, e, K)) \in Nat /\ Cardinality(K) < Len(Inserted(s, e, K))
           /\ Inserted(s, e, K)[Cardinality(K) + 1] = e
           /\ \E q : ComesFrom(q, Inserted(s, e, K), s, K)
<1> DEFINE L == DOMAIN s \ K
           a == At(s, K)
           b == At(s, L)
           t == a \o <<e>> \o b
           c == Cardinality(K)
           d == Cardinality(L)
<1>1. /\ c \in Nat /\ a \in Seq(Entries) /\ Len(a) = c
      /\ \E p : Enumerates(p, K) /\ \A m \in 1..c : a[m] = s[p[m]]
  BY AtEnumerates
<1>2. /\ d \in Nat /\ b \in Seq(Entries) /\ Len(b) = d
      /\ \E p : Enumerates(p, L) /\ \A m \in 1..d : b[m] = s[p[m]]
  <2>1. L \in SUBSET DOMAIN s
    OBVIOUS
  <2> HIDE DEF L
  <2> QED BY <2>1, AtEnumerates
<1>3. PICK p : Enumerates(p, K) /\ \A m \in 1..c : a[m] = s[p[m]]
  BY <1>1
<1>4. PICK r : Enumerates(r, L) /\ \A m \in 1..d : b[m] = s[r[m]]
  BY <1>2
<1>5. /\ \A m \in 1..c : p[m] \in K /\ \A k \in 1..c : m < k => p[m] < p[k]
      /\ \A i \in K : \E m \in 1..c : p[m] = i
  BY <1>3 DEF Enumerates
<1>6. /\ \A m \in 1..d : r[m] \in L /\ \A k \in 1..d : m < k => r[m] < r[k]
      /\ \A i \in L : \E m \in 1..d : r[m] = i
  BY <1>4 DEF Enumerates
<1> HIDE DEF a, b, c, d
<1>7. /\ t \in Seq(Entries) /\ Len(t) = c + 1 + d
      /\ \A i \in 1..c : t[i] = a[i]
      /\ t[c + 1] = e
      /\ \A i \in (c + 2)..(c + 1 + d) : t[i] = b[i - (c + 1)]
  <2> DEFINE u == a \o <<e>>
  <2>1. /\ u \in Seq(Entries) /\ Len(u) = c + 1 /\ u[c + 1] = e
        /\ \A i \in 1..c : u[i] = a[i]
    BY <1>1
  <2> HIDE DEF u
  <2>2. /\ u \o b \in Seq(Entries) /\ Len(u \o b) = Len(u) + Len(b)
        /\ \A i \in 1..(Len(u) + Len(b)) :
              (u \o b)[i] = IF i <= Len(u) THEN u[i] ELSE b[i - Len(u)]
    BY <1>2, <2>1, ConcatProperties
  <2>3. t = u \o b
    BY DEF u
  <2> HIDE DEF t
  <2>4. t \in Seq(Entries) /\ Len(t) = c + 1 + d
    BY <1>2, <2>1, <2>2, <2>3
  <2>5. \A i \in 1..(c + 1) : t[i] = u[i]
    BY <1>1, <1>2, <2>1, <2>2, <2>3
  <2>6. \A i \in (c + 2)..(c + 1 + d) : t[i] = b[i - (c + 1)]
    BY <1>1, <1>2, <2>1, <2>2, <2>3
  <2>7. \A i \in 1..c : t[i] = a[i]
    BY <1>1, <2>1, <2>5
  <2>8. t[c + 1] = e
    BY <1>1, <2>1, <2>5
  <2> QED BY <2>4, <2>6, <2>7, <2>8
<1> HIDE DEF t
<1> DEFINE q == [i \in 1..(c + 1 + d) |-> IF i <= c THEN p[i] ELSE r[i - (c + 1)]]
<1>8. \A i \in 1..c : q[i] = p[i]
  BY <1>1, <1>2
<1>9. \A i \in (c + 2)..(c + 1 + d) : q[i] = r[i - (c + 1)] /\ i - (c + 1) \in 1..d
  BY <1>1, <1>2
<1>10. \A m \in 1..d : m + (c + 1) \in (c + 2)..(c + 1 + d) /\ q[m + (c + 1)] = r[m]
  BY <1>1, <1>2
<1> HIDE DEF q, L
<1>11. \A i \in 1..c : q[i] \in K /\ t[i] = s[q[i]]
  BY <1>3, <1>5, <1>7, <1>8
<1>12. \A i \in (c + 2)..(c + 1 + d) : q[i] \in L /\ t[i] = s[q[i]]
  BY <1>4, <1>6, <1>7, <1>9
<1>13. \A i, j \in 1..c : i < j => q[i] < q[j]
  BY <1>5, <1>8
<1>14. \A i, j \in (c + 2)..(c + 1 + d) : i < j => q[i] < q[j]
  <2> SUFFICES ASSUME NEW i \in (c + 2)..(c + 1 + d), NEW j \in (c + 2)..(c + 1 + d), i < j
               PROVE  q[i] < q[j]
    OBVIOUS
  <2>1. i - (c + 1) < j - (c + 1)
    BY <1>1, <1>2
  <2> QED BY <1>6, <1>9, <2>1
<1>15. DOMAIN t = 1..(c + 1 + d)
  BY <1>1, <1>2, <1>7
<1>16. \A k \in DOMAIN s : \E i \in DOMAIN t : i # c + 1 /\ q[i] = k /\ t[i] = s[k]
  <2> SUFFICES ASSUME NEW k \in DOMAIN s
               PROVE  \E i \in DOMAIN t : i # c + 1 /\ q[i] = k /\ t[i] = s[k]
    OBVIOUS
  <2>1. CASE k \in K
    <3>1. PICK m \in 1..c : p[m] = k
      BY <1>5, <2>1
    <3>2. m \in DOMAIN t /\ m # c + 1
      BY <1>1, <1>2, <1>15
    <3> QED BY <1>8, <1>11, <3>1, <3>2
  <2>2. CASE k \in L
    <3>1. PICK m \in 1..d : r[m] = k
      BY <1>6, <2>2
    <3>2. m + (c + 1) \in DOMAIN t /\ m + (c + 1) # c + 1
      BY <1>1, <1>2, <1>10, <1>15
    <3> QED BY <1>10, <1>12, <3>1, <3>2
  <2> QED BY <2>1, <2>2 DEF L
<1>17. /\ t \in Seq(Entries) /\ c \in Nat /\ Len(t) = c + 1 + d /\ Len(t) \in Nat /\ c < Len(t)
       /\ t[c + 1] = e
  BY <1>1, <1>2, <1>7
<1>18. ComesFrom(q, t, s, K)
  BY <1>11, <1>12, <1>13, <1>14, <1>16, <1>17 DEF ComesFrom, c, L
<1>19. t = Inserted(s, e, K)
  BY DEF t, a, b, L, Inserted
<1> QED BY <1>17, <1>18, <1>19 DEF c

LEMMA InsertDistinct ==
    ASSUME NEW s \in Seq(Entries), NEW e \in Entries, NEW K \in SUBSET DOMAIN s,
           Distinct(s), \A i \in DOMAIN s : s[i] # e
    PROVE  Distinct(Inserted(s, e, K))
<1> DEFINE t == Inserted(s, e, K)
           c == Cardinality(K)
<1>1. /\ t \in Seq(Entries) /\ c \in Nat /\ Len(t) \in Nat /\ c < Len(t) /\ t[c + 1] = e
      /\ \E q : ComesFrom(q, t, s, K)
  BY InsertIs
<1> HIDE DEF t
<1>2. PICK q : ComesFrom(q, t, s, K)
  BY <1>1
<1>a. /\ \A i \in 1..c : q[i] \in K /\ t[i] = s[q[i]]
      /\ \A i \in (c + 2)..Len(t) : q[i] \in DOMAIN s \ K /\ t[i] = s[q[i]]
      /\ \A i, j \in 1..c : i < j => q[i] < q[j]
      /\ \A i, j \in (c + 2)..Len(t) : i < j => q[i] < q[j]
  BY <1>2 DEF ComesFrom
<1> HIDE DEF c
<1>3. DOMAIN t = 1..Len(t) /\ DOMAIN s \subseteq Nat
  BY <1>1
<1> SUFFICES ASSUME NEW i \in DOMAIN t, NEW j \in DOMAIN t, t[i] = t[j]
             PROVE  i = j
  BY DEF Distinct, t
<1>4. i \in 1..Len(t) /\ j \in 1..Len(t)
  BY <1>3
<1>5. CASE i = c + 1 \/ j = c + 1
  <2>1. \A k \in 1..Len(t) : k # c + 1 => t[k] # e
    <3> SUFFICES ASSUME NEW k \in 1..Len(t), k # c + 1 PROVE t[k] # e
      OBVIOUS
    <3>1. k \in 1..c \/ k \in (c + 2)..Len(t)
      BY <1>1
    <3> QED BY <1>a, <3>1
  <2> QED BY <1>1, <1>4, <1>5, <2>1
<1>6. CASE i # c + 1 /\ j # c + 1
  <2>1. /\ i \in 1..c \/ i \in (c + 2)..Len(t)
        /\ j \in 1..c \/ j \in (c + 2)..Len(t)
    BY <1>1, <1>4, <1>6
  <2>2. q[i] = q[j]
    BY <1>a, <2>1 DEF Distinct
  <2>3. q[i] \in Nat
    BY <1>a, <1>3, <2>1
  <2>4. CASE i \in 1..c
    <3>1. j \in 1..c
      BY <1>a, <2>1, <2>2, <2>4
    <3>2. ~(i < j) /\ ~(j < i)
      BY <1>a, <2>2, <2>3, <2>4, <3>1
    <3> QED BY <1>1, <2>4, <3>1, <3>2
  <2>5. CASE i \in (c + 2)..Len(t)
    <3>1. j \in (c + 2)..Len(t)
      BY <1>a, <2>1, <2>2, <2>5
    <3>2. ~(i < j) /\ ~(j < i)
      BY <1>a, <2>2, <2>3, <2>5, <3>1
    <3> QED BY <1>1, <2>5, <3>1, <3>2
  <2> QED BY <2>1, <2>4, <2>5
<1> QED BY <1>5, <1>6

\* MergeRecords, as an insertion.
Earlier(e, s) == {i \in DOMAIN s : OccurredBefore(s[i], e)}

LEMMA MergeRecordsIs ==
    ASSUME NEW s, NEW e
    PROVE  MergeRecords(e, s) = IF e.op # watched \/ Has(e, s) THEN s
                                ELSE Inserted(s, e, Earlier(e, s))
<1>1. {i \in DOMAIN s : ~OccurredBefore(s[i], e)} = DOMAIN s \ Earlier(e, s)
  BY DEF Earlier
<1> QED BY <1>1 DEF MergeRecords, Kept, Inserted, Earlier

\* Inserted is what was there and the new entry.
LEMMA MergeRecordsHas ==
    ASSUME NEW s \in Seq(Entries), NEW e \in Entries, ~(e.op # watched \/ Has(e, s))
    PROVE  \A x : Has(x, MergeRecords(e, s)) <=> x = e \/ Has(x, s)
<1> DEFINE K == Earlier(e, s)
           t == Inserted(s, e, K)
           c == Cardinality(K)
<1>1. MergeRecords(e, s) = t /\ K \in SUBSET DOMAIN s
  BY MergeRecordsIs DEF Earlier
<1> HIDE DEF K
<1>2. /\ t \in Seq(Entries) /\ c \in Nat /\ Len(t) \in Nat /\ c < Len(t) /\ t[c + 1] = e
      /\ \E q : ComesFrom(q, t, s, K)
  BY <1>1, InsertIs
<1>3. PICK q : ComesFrom(q, t, s, K)
  BY <1>2
<1> HIDE DEF t
<1>4. /\ \A i \in 1..c : q[i] \in K /\ t[i] = s[q[i]]
      /\ \A i \in (c + 2)..Len(t) : q[i] \in DOMAIN s \ K /\ t[i] = s[q[i]]
      /\ \A m \in DOMAIN s : \E i \in DOMAIN t : i # c + 1 /\ q[i] = m /\ t[i] = s[m]
  BY <1>3 DEF ComesFrom
<1> HIDE DEF c
<1>5. /\ DOMAIN t = 1..Len(t) /\ c + 1 \in DOMAIN t
      /\ \A i \in DOMAIN t : i \in 1..c \/ i = c + 1 \/ i \in (c + 2)..Len(t)
  BY <1>2
<1>6. \A i \in DOMAIN t : i # c + 1 => q[i] \in DOMAIN s /\ t[i] = s[q[i]]
  BY <1>1, <1>4, <1>5
<1>7. ASSUME NEW x, Has(x, t) PROVE x = e \/ Has(x, s)
  <2>1. PICK i \in DOMAIN t : t[i] = x
    BY <1>7 DEF Has
  <2> QED BY <1>2, <1>6, <2>1 DEF Has
<1>8. ASSUME NEW x, Has(x, s) PROVE Has(x, t)
  <2>1. PICK m \in DOMAIN s : s[m] = x
    BY <1>8 DEF Has
  <2> QED BY <1>4, <2>1 DEF Has
<1>9. Has(e, t)
  BY <1>2, <1>5 DEF Has
<1> QED BY <1>1, <1>7, <1>8, <1>9

\* .. at the time it occurred.
LEMMA MergeRecordsInTime ==
    ASSUME Timed, NEW s \in Seq(Entries), NEW e \in Entries, InTime(s), Has(e, occurred)
    PROVE  InTime(MergeRecords(e, s))
<1> DEFINE K == Earlier(e, s)
           t == Inserted(s, e, K)
           c == Cardinality(K)
<1>0. /\ \A k \in DOMAIN s : Has(s[k], occurred)
      /\ \A j, k \in DOMAIN s : j < k => OccurredBefore(s[j], s[k])
  BY DEF InTime
<1>1. CASE e.op # watched \/ Has(e, s)
  BY <1>1, MergeRecordsIs
<1>2. CASE ~(e.op # watched \/ Has(e, s))
  <2>1. MergeRecords(e, s) = t /\ K \in SUBSET DOMAIN s
    BY <1>2, MergeRecordsIs DEF Earlier
  <2>2. /\ \A i \in K : OccurredBefore(s[i], e)
        /\ \A i \in DOMAIN s \ K : OccurredBefore(e, s[i])
    <3>1. \A i \in DOMAIN s : s[i] # e
      BY <1>2 DEF Has
    <3> QED BY <1>0, <3>1, TimesOrder DEF Earlier
  <2> HIDE DEF K
  <2>3. /\ t \in Seq(Entries) /\ c \in Nat /\ Len(t) \in Nat /\ c < Len(t) /\ t[c + 1] = e
        /\ \E q : ComesFrom(q, t, s, K)
    BY <2>1, InsertIs
  <2>4. PICK q : ComesFrom(q, t, s, K)
    BY <2>3
  <2> HIDE DEF t
  <2>5. /\ \A i \in 1..c : q[i] \in K /\ t[i] = s[q[i]]
        /\ \A i \in (c + 2)..Len(t) : q[i] \in DOMAIN s \ K /\ t[i] = s[q[i]]
        /\ \A i, j \in 1..c : i < j => q[i] < q[j]
        /\ \A i, j \in (c + 2)..Len(t) : i < j => q[i] < q[j]
    BY <2>4 DEF ComesFrom
  <2> HIDE DEF c
  <2>6. \A i \in DOMAIN t : i \in Nat /\ (i \in 1..c \/ i = c + 1 \/ i \in (c + 2)..Len(t))
    BY <2>3
  <2>7. /\ \A i \in 1..c : OccurredBefore(t[i], e)
        /\ \A i \in (c + 2)..Len(t) : OccurredBefore(e, t[i])
    BY <2>2, <2>5
  <2>8. \A m \in DOMAIN t : Has(t[m], occurred)
    <3>1. Has(t[c + 1], occurred)
      BY <2>3
    <3>2. \A m \in 1..c : Has(t[m], occurred)
      BY <1>0, <2>1, <2>5
    <3>3. \A m \in (c + 2)..Len(t) : Has(t[m], occurred)
      BY <1>0, <2>5
    <3> QED BY <2>6, <3>1, <3>2, <3>3
  <2>9. \A i, j \in DOMAIN t : i < j => OccurredBefore(t[i], t[j])
    <3> SUFFICES ASSUME NEW i \in DOMAIN t, NEW j \in DOMAIN t, i < j
                 PROVE  OccurredBefore(t[i], t[j])
      OBVIOUS
    <3>1. CASE i \in 1..c /\ j \in 1..c
      BY <1>0, <2>1, <2>5, <3>1
    <3>2. CASE i \in (c + 2)..Len(t) /\ j \in (c + 2)..Len(t)
      BY <1>0, <2>5, <3>2
    <3>3. CASE i \in 1..c /\ ~(j \in 1..c)
      <4>1. OccurredBefore(t[i], e)
        BY <2>7, <3>3
      <4>2. t[j] = e \/ OccurredBefore(e, t[j])
        BY <2>3, <2>6, <2>7, <3>3
      <4> QED BY <4>1, <4>2, TimesOrder
    <3>4. CASE i = c + 1
      <4>1. j \in (c + 2)..Len(t)
        BY <2>3, <2>6, <3>4
      <4> QED BY <2>3, <2>7, <3>4, <4>1
    <3>5. CASE i \in (c + 2)..Len(t) /\ ~(j \in (c + 2)..Len(t))
      BY <2>3, <2>6, <3>5
    <3> QED BY <2>6, <3>1, <3>2, <3>3, <3>4, <3>5
  <2> QED BY <2>1, <2>8, <2>9 DEF InTime, t
<1> QED BY <1>1, <1>2

\* Whatever is pushed, and however often, nothing is listed twice.
LEMMA MergedIs ==
    ASSUME panel \in Panels, data \in Answers, Neat(data.items), NEW e \in Entries
    PROVE  Merged(e) \in Answers /\ Neat(Merged(e).items) /\ Merged(e).failed = data.failed
<1>0. panel \in AllPanels /\ FeedLimit \in Nat
  BY ConsoleAssumption
<1> DEFINE s == data.items
<1>1. s \in Seq(Entries) /\ data.total \in Nat
  BY DEF Answers
<1>2. ASSUME NEW t \in Seq(Entries), Merged(e) = [data EXCEPT !.loaded = TRUE, !.items = t], Neat(t)
      PROVE  Merged(e) \in Answers /\ Neat(Merged(e).items) /\ Merged(e).failed = data.failed
  BY <1>2 DEF Answers
<1> HIDE DEF s
<1>3. CASE panel = "active"
  <2> DEFINE t == MergeActive(e, s)
  <2>1. Merged(e) = [data EXCEPT !.loaded = TRUE, !.items = t]
    BY <1>3 DEF Merged, s
  <2>2. UniqueOps(s)
    BY <1>3 DEF Neat, ByOperation, s
  <2>3. t \in Seq(Entries) /\ UniqueOps(t)
    <3>1. /\ Without(e.op, s) \in Seq(Entries) /\ UniqueOps(Without(e.op, s))
          /\ \A m \in DOMAIN Without(e.op, s) : Without(e.op, s)[m].op # e.op
      BY <1>1, <2>2, WithoutIs
    <3>2. /\ Append(Without(e.op, s), e) \in Seq(Entries)
          /\ UniqueOps(Append(Without(e.op, s), e))
      BY <3>1, AppendIs
    <3> QED BY <3>1, <3>2 DEF MergeActive
  <2> HIDE DEF t
  <2> QED BY <1>2, <1>3, <2>1, <2>3 DEF Neat, ByOperation
<1>4. CASE panel = "history"
  <2>0. UniqueOps(s) /\ Merged(e) = MergeHistory(e, data)
    BY <1>4 DEF Neat, ByOperation, s, Merged
  <2>1. CASE ~data.loaded
    BY <2>0, <2>1 DEF MergeHistory
  <2>2. CASE data.loaded /\ Lists(e.op, s)
    <3>1. Merged(e) = [data EXCEPT !.items = InPlace(e, s)]
      BY <2>0, <2>2 DEF MergeHistory, s
    <3>2. InPlace(e, s) \in Seq(Entries) /\ UniqueOps(InPlace(e, s))
      BY <1>1, <2>0, InPlaceIs
    <3> QED BY <1>4, <3>1, <3>2 DEF Neat, ByOperation, Answers
  <2>3. CASE data.loaded /\ ~Lists(e.op, s)
    <3>1. Merged(e) = [data EXCEPT !.items = <<e>> \o s, !.total = data.total + 1]
      BY <2>0, <2>3 DEF MergeHistory, s
    <3>2. \A i \in DOMAIN s : s[i].op # e.op
      BY <2>3 DEF Lists
    <3>3. <<e>> \o s \in Seq(Entries) /\ UniqueOps(<<e>> \o s)
      BY <1>1, <2>0, <3>2, OnTopIs
    <3>4. data.total + 1 \in Nat
      BY <1>1
    <3> QED BY <1>4, <3>1, <3>3, <3>4 DEF Neat, ByOperation, Answers
  <2> QED BY <2>1, <2>2, <2>3
<1>5. CASE panel = "queue"
  <2> DEFINE t == MergeQueue(e, s)
  <2>1. Merged(e) = [data EXCEPT !.loaded = TRUE, !.items = t]
    BY <1>5 DEF Merged, s
  <2>2. UniqueOps(s)
    BY <1>5 DEF Neat, ByOperation, s
  <2>3. CASE Lists(e.op, s)
    <3>1. t \in Seq(Entries) /\ UniqueOps(t)
      BY <1>1, <2>2, <2>3, InPlaceIs DEF MergeQueue
    <3> HIDE DEF t
    <3> QED BY <1>2, <1>5, <2>1, <3>1 DEF Neat, ByOperation
  <2>4. CASE ~Lists(e.op, s)
    <3>1. \A i \in DOMAIN s : s[i].op # e.op
      BY <2>4 DEF Lists
    <3>2. t \in Seq(Entries) /\ UniqueOps(t)
      BY <1>1, <2>2, <2>4, <3>1, AppendIs DEF MergeQueue
    <3> HIDE DEF t
    <3> QED BY <1>2, <1>5, <2>1, <3>2 DEF Neat, ByOperation
  <2> QED BY <2>3, <2>4
<1>6. CASE panel = "operation"
  <2> DEFINE t == MergeOperation(e, s)
  <2>1. Merged(e) = [data EXCEPT !.loaded = TRUE, !.items = t]
    BY <1>6 DEF Merged, s
  <2>2. UniqueOps(s)
    BY <1>6 DEF Neat, ByOperation, s
  <2>3. t \in Seq(Entries) /\ UniqueOps(t)
    BY <1>1, <2>2, SingleIs DEF MergeOperation
  <2> HIDE DEF t
  <2> QED BY <1>2, <1>6, <2>1, <2>3 DEF Neat, ByOperation
<1>7. CASE panel = "records"
  <2> DEFINE t == MergeRecords(e, s)
  <2>1. Merged(e) = [data EXCEPT !.loaded = TRUE, !.items = t]
    BY <1>7 DEF Merged, s
  <2>2. Distinct(s)
    BY <1>7 DEF Neat, ByOperation, s
  <2>3. CASE e.op # watched \/ Has(e, s)
    <3>1. t = s
      BY <2>3, MergeRecordsIs
    <3> HIDE DEF t
    <3> QED BY <1>1, <1>2, <1>7, <2>1, <2>2, <3>1 DEF Neat, ByOperation
  <2>4. CASE ~(e.op # watched \/ Has(e, s))
    <3>1. t = Inserted(s, e, Earlier(e, s))
      BY <2>4, MergeRecordsIs
    <3>2. Earlier(e, s) \in SUBSET DOMAIN s /\ \A i \in DOMAIN s : s[i] # e
      BY <2>4 DEF Earlier, Has
    <3>3. t \in Seq(Entries) /\ Distinct(t)
      BY <1>1, <2>2, <3>1, <3>2, InsertIs, InsertDistinct
    <3> HIDE DEF t
    <3> QED BY <1>2, <1>7, <2>1, <3>3 DEF Neat, ByOperation
  <2> QED BY <2>3, <2>4
<1>8. CASE panel = "feed"
  <2> DEFINE t == MergeFeed(e, s)
  <2>1. Merged(e) = [data EXCEPT !.loaded = TRUE, !.items = t]
    BY <1>8 DEF Merged, s
  <2>2. Distinct(s)
    BY <1>8 DEF Neat, ByOperation, s
  <2>3. CASE Has(e, s)
    <3>1. t = s
      BY <2>3 DEF MergeFeed
    <3> HIDE DEF t
    <3> QED BY <1>1, <1>2, <1>8, <2>1, <2>2, <3>1 DEF Neat, ByOperation
  <2>4. CASE ~Has(e, s)
    <3>1. t = FirstOf(FeedLimit, <<e>> \o s)
      BY <2>4 DEF MergeFeed
    <3>2. \A i \in DOMAIN s : s[i] # e
      BY <2>4 DEF Has
    <3>3. <<e>> \o s \in Seq(Entries) /\ Distinct(<<e>> \o s)
      BY <1>1, <2>2, <3>2, OnTopIs
    <3>4. t \in Seq(Entries) /\ Distinct(t)
      <4> HIDE DEF t
      <4> QED BY <1>0, <3>1, <3>3, FirstOfIs, PartsKeep
    <3> HIDE DEF t
    <3> QED BY <1>2, <1>8, <2>1, <3>4 DEF Neat, ByOperation
  <2> QED BY <2>3, <2>4
<1>9. CASE panel = "metrics"
  BY <1>9 DEF Merged
<1> QED BY <1>0, <1>3, <1>4, <1>5, <1>6, <1>7, <1>8, <1>9 DEF AllPanels

---------------------------------------------------------------------------
(* NoDecisionTwice *)

Fetches == [stage : {"none", "sent", "answered"}, answer : Answers, seen : Nat]

Typed ==
    /\ panel \in Panels /\ watched \in Ops /\ Numbered /\ Timed
    /\ unpublished \in SUBSET Entries /\ wire \in Seq(Entries) /\ connected \in BOOLEAN
    /\ fetch \in Fetches /\ command \in Entries \cup {NoEntry} /\ data \in Answers
    /\ due \in BOOLEAN /\ missed \in BOOLEAN /\ fetches \in Nat /\ drops \in Nat

Tidy == Typed /\ Neat(data.items) /\ Neat(fetch.answer.items)

LEMMA StartIs ==
    /\ Unloaded \in Answers /\ Unloaded.items = <<>> /\ ~Unloaded.loaded /\ ~Unloaded.failed
    /\ Unloaded.total = 0
    /\ Idle \in Fetches /\ Idle.stage = "none" /\ Idle.answer.items = <<>>
    /\ Sent \in Fetches /\ Sent.stage = "sent" /\ Sent.answer.items = <<>>
    /\ Idle = [stage |-> "none", answer |-> Unloaded, seen |-> 0]
    /\ Sent = [stage |-> "sent", answer |-> Unloaded, seen |-> 0]
<1>1. /\ Unloaded \in Answers /\ Unloaded.items = <<>> /\ ~Unloaded.loaded /\ ~Unloaded.failed
      /\ Unloaded.total = 0
  BY EmptyIsNeat DEF Unloaded, Answers
<1>2. Idle = [stage |-> "none", answer |-> Unloaded, seen |-> 0]
  BY DEF Idle
<1>3. Sent = [stage |-> "sent", answer |-> Unloaded, seen |-> 0]
  BY <1>2 DEF Sent
<1> HIDE DEF Unloaded
<1>4. Idle \in Fetches /\ Idle.stage = "none" /\ Idle.answer = Unloaded
  BY <1>1, <1>2 DEF Fetches
<1>5. Sent \in Fetches /\ Sent.stage = "sent" /\ Sent.answer = Unloaded
  BY <1>1, <1>3 DEF Fetches
<1>6. Idle.answer.items = <<>> /\ Sent.answer.items = <<>>
  BY <1>1, <1>4, <1>5
<1> QED BY <1>1, <1>2, <1>3, <1>4, <1>5, <1>6

LEMMA TidyInit == Init => Tidy
<1> SUFFICES ASSUME Init PROVE Tidy
  OBVIOUS
<1>1. Numbered
  BY DEF Init, Numbered
<1>2. Neat(data.items) /\ Neat(fetch.answer.items)
  BY StartIs, EmptyIsNeat DEF Init, Neat
<1>3. wire \in Seq(Entries) /\ unpublished \in SUBSET Entries
  BY DEF Init
<1>4. Timed
  <2>1. occurred = <<>> /\ log = <<>> /\ crossed = FALSE
    BY DEF Init
  <2>2. occurred \in Seq(Entries) /\ Distinct(occurred)
    BY <2>1 DEF Distinct
  <2> QED BY <2>1, <2>2 DEF Timed
<1> QED BY <1>1, <1>2, <1>3, <1>4, StartIs DEF Init, Tidy, Typed

LEMMA TidyStep == Tidy /\ [Next]_vars => Tidy'
<1> SUFFICES ASSUME Tidy, [Next]_vars PROVE Tidy'
  OBVIOUS
<1>0. Typed /\ Neat(data.items) /\ Neat(fetch.answer.items)
  BY DEF Tidy
<1>n. ASSUME UNCHANGED <<log, occurred>>, crossed' \in BOOLEAN, ~crossed' => ~crossed
      PROVE  Numbered' /\ Timed'
  <2>1. Numbered'
    BY <1>n, <1>0 DEF Typed, Numbered, Positions
  <2>2. Timed'
    BY <1>n, <1>0 DEF Typed, Timed, Has, Distinct
  <2> QED BY <2>1, <2>2
<1>c. crossed \in BOOLEAN
  BY <1>0 DEF Typed, Timed
<1>s. ASSUME UNCHANGED panel
      PROVE  \A s : Neat(s)' <=> Neat(s)
  BY <1>s DEF Neat
<1>r. ASSUME Refetched PROVE fetch' \in Fetches /\ fetches' \in Nat /\ missed' \in BOOLEAN
                             /\ fetch'.answer.items = <<>>
  <2>1. fetch' = Sent /\ missed' = FALSE /\ fetches' = fetches + 1 /\ fetches \in Nat
    BY <1>r, <1>0 DEF Refetched, Typed
  <2>2. Sent.answer.items = <<>>
    BY StartIs
  <2>3. fetches' \in Nat
    BY <2>1
  <2>4. missed' \in BOOLEAN
    BY <2>1
  <2>5. fetch' \in Fetches /\ fetch'.answer.items = <<>>
    BY <2>1, <2>2, StartIs
  <2> QED BY <2>3, <2>4, <2>5
<1>e. Neat(<<>>)
  BY EmptyIsNeat DEF Neat
<1>w. ASSUME NEW o \in Ops, Written(o)
      PROVE  /\ Numbered' /\ Timed'
             /\ unpublished' \in SUBSET Entries /\ Entry(o, VersionOf(o) + 1) \in Entries
  <2>1. Numbered' /\ VersionOf(o) \in Nat /\ VersionOf(o) + 1 <= Final
    BY <1>w, <1>0, WriteNumbers, VersionsCount DEF Typed, Numbered, Written, Entry
  <2>2. Entry(o, VersionOf(o) + 1) \in Entries
    BY <2>1, ConsoleAssumption DEF Entry, Entries
  <2>3. Timed'
    <3>1. Dated(Entry(o, VersionOf(o) + 1)) /\ log' = Append(log, Entry(o, VersionOf(o) + 1))
      BY <1>w DEF Written
    <3> QED BY <1>0, <2>2, <3>1, NewEntry, DatedIs DEF Typed
  <2> QED BY <1>w, <1>0, <2>1, <2>2, <2>3 DEF Written, Typed
<1>m. ASSUME NEW e \in Entries, UNCHANGED panel, data' = Merged(e)
      PROVE  data' \in Answers /\ Neat(data.items)'
  BY <1>m, <1>0, MergedIs DEF Typed, Neat
<1>1. ASSUME NEW o \in Ops, Write(o) PROVE Tidy'
  BY <1>1, <1>0, <1>w DEF Write, Typed, Tidy, Neat
<1>2. ASSUME NEW o \in Ops, Watch(o) PROVE Tidy'
  BY <1>2, <1>0, <1>n, <1>c, <1>r, <1>e DEF Watch, Typed, Tidy, Neat
<1>3. ASSUME NEW o \in Ops, Command(o) PROVE Tidy'
  BY <1>3, <1>0, <1>w DEF Command, Typed, Tidy, Neat
<1>4. ASSUME NEW e \in unpublished, Publish(e) PROVE Tidy'
  <2>1. wire' \in Seq(Entries) /\ e \in Entries
    BY <1>4, <1>0 DEF Publish, Typed
  <2>2. crossed' \in BOOLEAN /\ (~crossed' => ~crossed) /\ missed' \in BOOLEAN
    BY <1>4, <1>c DEF Publish
  <2>3. Numbered' /\ Timed'
    BY <1>4, <1>n, <2>2 DEF Publish
  <2> QED BY <1>4, <1>0, <2>1, <2>2, <2>3 DEF Publish, Typed, Tidy, Neat
<1>5. CASE Read
  <2>1. View \in Answers /\ Neat(View.items)
    BY <1>0, ViewIs DEF Typed
  <2>2. Len(log) \in Nat
    BY <1>0 DEF Typed, Numbered
  <2>3. fetch' \in Fetches /\ fetch'.answer = View
    BY <1>5, <2>1, <2>2 DEF Read, Fetches
  <2>4. UNCHANGED <<panel, data, log>>
    BY <1>5 DEF Read
  <2>5. Neat(data.items)' /\ Neat(fetch.answer.items)'
    BY <1>0, <2>1, <2>3, <2>4 DEF Neat
  <2>6. Typed'
    BY <1>5, <1>0, <1>n, <1>c, <2>3, <2>4 DEF Read, Typed
  <2> QED BY <2>5, <2>6 DEF Tidy
<1>6. CASE Answered
  <2>1. data' \in Answers /\ fetch' \in Fetches /\ fetch'.answer.items = <<>>
        /\ data'.items \in {data.items, fetch.answer.items}
    BY <1>6, <1>0, StartIs DEF Answered, Failed, Typed, Fetches, Answers
  <2> QED BY <1>6, <1>0, <1>n, <1>c, <1>e, <2>1 DEF Answered, Typed, Tidy, Neat
<1>7. CASE FetchFails
  <2>1. data' \in Answers /\ data'.items = data.items /\ fetch' \in Fetches
        /\ fetch'.answer.items = <<>>
    BY <1>7, <1>0, StartIs DEF FetchFails, Failed, Typed, Answers
  <2> QED BY <1>7, <1>0, <1>n, <1>c, <1>e, <2>1 DEF FetchFails, Typed, Tidy, Neat
<1>8. CASE Reload
  BY <1>8, <1>0, <1>n, <1>c, <1>r, <1>e DEF Reload, Typed, Tidy, Neat
<1>9. CASE Mount
  BY <1>9, <1>0, <1>n, <1>c, <1>r, <1>e, StartIs DEF Mount, Typed, Tidy, Neat
<1>10. CASE Receive
  <2>1. Head(wire) \in Entries /\ Tail(wire) \in Seq(Entries)
    BY <1>10, <1>0 DEF Receive, Typed
  <2>2. data' \in Answers /\ Neat(data.items)'
    BY <1>10, <1>m, <2>1 DEF Receive
  <2>3. due' \in BOOLEAN /\ missed' \in BOOLEAN
    BY <1>10 DEF Receive
  <2> QED BY <1>10, <1>0, <1>n, <1>c, <2>1, <2>2, <2>3 DEF Receive, Typed, Tidy, Neat
<1>11. CASE Refresh
  BY <1>11, <1>0, <1>n, <1>c, <1>r, <1>e DEF Refresh, Typed, Tidy, Neat
<1>12. CASE CommandAnswered
  <2>1. data' \in Answers /\ Neat(data.items)'
    BY <1>12, <1>0, <1>m DEF CommandAnswered, Typed
  <2>2. missed' \in BOOLEAN
    BY <1>12 DEF CommandAnswered
  <2> QED BY <1>12, <1>0, <1>n, <1>c, <2>1, <2>2 DEF CommandAnswered, Typed, Tidy, Neat
<1>13. CASE Disconnect
  <2>1. wire' \in Seq(Entries) /\ drops' \in Nat
    BY <1>13, <1>0 DEF Disconnect, Typed
  <2>2. missed' \in BOOLEAN /\ connected' \in BOOLEAN
    BY <1>13 DEF Disconnect
  <2> QED BY <1>13, <1>0, <1>n, <1>c, <2>1, <2>2 DEF Disconnect, Typed, Tidy, Neat
<1>14. CASE Reconnect
  BY <1>14, <1>0, <1>n, <1>c DEF Reconnect, Typed, Tidy, Neat
<1>15. CASE CommandLost
  BY <1>15, <1>0, <1>n, <1>c DEF CommandLost, Typed, Tidy, Neat
<1>16. CASE UNCHANGED vars
  BY <1>16, <1>0, <1>n, <1>c DEF vars, Typed, Tidy, Neat
<1> QED BY <1>1, <1>2, <1>3, <1>4, <1>5, <1>6, <1>7, <1>8, <1>9, <1>10, <1>11, <1>12, <1>13,
           <1>14, <1>15, <1>16 DEF Next

\* A decision that is fetched and pushed is listed once, whatever is lost, in whatever order
\* entries are written and pushed, and whether or not pushes overtake answers.
THEOREM ListedOnce == Spec => []NoDecisionTwice
<1>1. Tidy => NoDecisionTwice
  BY DEF Tidy, Neat, UniqueOps, Distinct, NoDecisionTwice
<1> QED BY <1>1, TidyInit, TidyStep, PTL DEF Spec

---------------------------------------------------------------------------
(* InStep: what a panel shows while pushes are still to come *)

\* The last entry of its operation.
Newest(l, i) == \A j \in DOMAIN l : l[j].op = l[i].op => j <= i

\* What a panel's list has to do with the log l, when the entries at the positions S have
\* not been pushed to it yet (or not since they were fetched).
ActiveShows(l, s, S) ==
    /\ \A k \in DOMAIN s : Has(s[k], l)
    /\ \A i \in DOMAIN l \ S :
           Newest(l, i) => IF InFlight(l[i]) THEN Has(l[i], s) ELSE ~Lists(l[i].op, s)

HistoryShows(l, s, total, S) ==
    /\ total = Len(s)
    /\ \A k \in DOMAIN s : s[k].op = (Len(s) - k) + 1 /\ Has(s[k], l)
    /\ \A i \in DOMAIN l \ S : l[i].op <= Len(s) /\ (Newest(l, i) => Has(l[i], s))

QueueShows(l, s, S) ==
    /\ DOMAIN s = Ops /\ \A o \in Ops : s[o].op = o /\ (~Lists(o, l) => s[o] = Entry(o, 0))
    /\ \A i \in DOMAIN l \ S : Newest(l, i) => Has(l[i], s)

OperationShows(w, l, s, S) ==
    /\ Len(s) = 1 /\ \A k \in DOMAIN s : s[k].op = w /\ Has(s[k], l)
    /\ \A i \in DOMAIN l \ S : l[i].op = w /\ Newest(l, i) => Has(l[i], s)

RecordsShow(w, l, s, S) ==
    /\ \A k \in DOMAIN s : s[k].op = w /\ Has(s[k], l)
    /\ \A i \in DOMAIN l \ S : l[i].op = w => Has(l[i], s)

\* The newest of the first m entries, and on top of them what was pushed after the first a.
\* With a < u the fetched part is so much longer than the list that those had fallen off.
Window(l, s, u, a, m) ==
    /\ a <= u
    /\ \/ a = u /\ u <= m
       \/ a + FeedLimit < m
    /\ Len(s) = IF (u - a) + m < FeedLimit THEN (u - a) + m ELSE FeedLimit
    /\ \A k \in 1..Len(s) :
           s[k] = IF k <= u - a THEN l[(u - k) + 1] ELSE l[((m + (u - a)) - k) + 1]

FeedShows(l, s, S) ==
    \E u, a, m \in 0..Len(l) : S = (u + 1)..Len(l) /\ Window(l, s, u, a, m)

Shows(p, w, l, d, S) ==
    /\ d.loaded /\ (p # "history" => d.total = 0)
    /\ p = "active"    => ActiveShows(l, d.items, S)
    /\ p = "history"   => HistoryShows(l, d.items, d.total, S)
    /\ p = "queue"     => QueueShows(l, d.items, S)
    /\ p = "operation" => OperationShows(w, l, d.items, S)
    /\ p = "records"   => RecordsShow(w, l, d.items, S)
    /\ p = "feed"      => FeedShows(l, d.items, S)

\* What can still be to come: anything, or what was written last.
Unordered == {"operation", "records"}
Proper(p, S, n) == p \in Unordered \/ \E u \in 0..n : S = (u + 1)..n

LEMMA AppendedIs ==
    ASSUME NEW l \in Seq(Entries), NEW e \in Entries
    PROVE  /\ Append(l, e) \in Seq(Entries) /\ Len(l) \in Nat /\ Len(Append(l, e)) = Len(l) + 1
           /\ DOMAIN Append(l, e) = 1..(Len(l) + 1) /\ DOMAIN l = 1..Len(l)
           /\ Append(l, e)[Len(l) + 1] = e
           /\ \A i \in DOMAIN l : i \in DOMAIN Append(l, e) /\ Append(l, e)[i] = l[i] /\ i # Len(l) + 1
           /\ \A i \in DOMAIN Append(l, e) : i \in DOMAIN l \/ i = Len(l) + 1
           /\ \A x : Has(x, l) => Has(x, Append(l, e))
           /\ \A o : Lists(o, l) => Lists(o, Append(l, e))
           /\ \A i \in DOMAIN l : Newest(Append(l, e), i) => Newest(l, i)
<1>1. /\ Append(l, e) \in Seq(Entries) /\ Len(l) \in Nat /\ Len(Append(l, e)) = Len(l) + 1
      /\ DOMAIN Append(l, e) = 1..(Len(l) + 1) /\ DOMAIN l = 1..Len(l)
      /\ Append(l, e)[Len(l) + 1] = e
  OBVIOUS
<1>2. /\ \A i \in DOMAIN l : i \in DOMAIN Append(l, e) /\ Append(l, e)[i] = l[i] /\ i # Len(l) + 1
      /\ \A i \in DOMAIN Append(l, e) : i \in DOMAIN l \/ i = Len(l) + 1
  BY <1>1
<1>3. \A x : Has(x, l) => Has(x, Append(l, e))
  BY <1>2 DEF Has
<1>4. \A o : Lists(o, l) => Lists(o, Append(l, e))
  BY <1>2 DEF Lists
<1>5. \A i \in DOMAIN l : Newest(Append(l, e), i) => Newest(l, i)
  BY <1>2 DEF Newest
<1> QED BY <1>1, <1>2, <1>3, <1>4, <1>5

\* What is written next is still to come.
LEMMA ShowsAppended ==
    ASSUME NEW l \in Seq(Entries), NEW e \in Entries, NEW p, NEW w, NEW d \in Answers,
           NEW S \in SUBSET DOMAIN l, Shows(p, w, l, d, S)
    PROVE  Shows(p, w, Append(l, e), d, S \cup {Len(l) + 1})
<1> DEFINE m == Append(l, e)
           T == S \cup {Len(l) + 1}
           s == d.items
<1>1. /\ \A i \in DOMAIN l : i \in DOMAIN m /\ m[i] = l[i]
      /\ \A i \in DOMAIN m \ T : i \in DOMAIN l \ S /\ m[i] = l[i]
      /\ \A x : Has(x, l) => Has(x, m)
      /\ \A o : Lists(o, l) => Lists(o, m)
      /\ \A i \in DOMAIN l : Newest(m, i) => Newest(l, i)
  BY AppendedIs
<1>2. Len(l) \in Nat /\ Len(m) = Len(l) + 1 /\ DOMAIN l = 1..Len(l)
  BY AppendedIs
<1> HIDE DEF m, T
<1>3. p = "active" => ActiveShows(m, s, T)
  BY <1>1 DEF Shows, ActiveShows
<1>4. p = "history" => HistoryShows(m, s, d.total, T)
  BY <1>1 DEF Shows, HistoryShows
<1>5. p = "queue" => QueueShows(m, s, T)
  BY <1>1 DEF Shows, QueueShows
<1>6. p = "operation" => OperationShows(w, m, s, T)
  BY <1>1 DEF Shows, OperationShows
<1>7. p = "records" => RecordsShow(w, m, s, T)
  BY <1>1 DEF Shows, RecordsShow
<1>8. p = "feed" => FeedShows(m, s, T)
  <2> SUFFICES ASSUME p = "feed" PROVE FeedShows(m, s, T)
    OBVIOUS
  <2>1. PICK u, a, b \in 0..Len(l) : S = (u + 1)..Len(l) /\ Window(l, s, u, a, b)
    BY DEF Shows, FeedShows
  <2>2. u \in 0..Len(m) /\ a \in 0..Len(m) /\ b \in 0..Len(m) /\ T = (u + 1)..Len(m)
    BY <1>2, <2>1 DEF T
  <2>3. s \in Seq(Entries) /\ Len(s) \in Nat /\ FeedLimit \in Nat
    BY ConsoleAssumption DEF Answers
  <2>4. ASSUME NEW k \in 1..Len(s)
        PROVE  s[k] = IF k <= u - a THEN m[(u - k) + 1] ELSE m[((b + (u - a)) - k) + 1]
    <3>0. k <= (u - a) + b /\ a <= u
      BY <2>1, <2>3 DEF Window
    <3>1. CASE k <= u - a
      <4>1. (u - k) + 1 \in DOMAIN l
        BY <1>2, <2>3, <3>1
      <4> QED BY <1>1, <2>1, <3>1, <4>1 DEF Window
    <3>2. CASE ~(k <= u - a)
      <4>1. ((b + (u - a)) - k) + 1 \in DOMAIN l
        BY <1>2, <2>3, <3>0, <3>2
      <4> QED BY <1>1, <2>1, <3>2, <4>1 DEF Window
    <3> QED BY <3>1, <3>2
  <2>5. Window(m, s, u, a, b)
    BY <2>1, <2>4 DEF Window
  <2> QED BY <2>2, <2>5 DEF FeedShows
<1> QED BY <1>3, <1>4, <1>5, <1>6, <1>7, <1>8 DEF Shows, m, T

---------------------------------------------------------------------------
(* What is still to come *)

Pending == {i \in DOMAIN log : log[i] \in unpublished \/ Has(log[i], wire)}

\* What was written is on the wire, is not published yet, or is past; and as long as nothing
\* crossed that is the order it was written in: the first u entries are past, those up to v
\* on the wire.
Queue(u, v) ==
    /\ u <= v /\ Len(wire) = v - u
    /\ \A k \in 1..(v - u) : wire[k] = log[u + k]
    /\ unpublished = {log[i] : i \in (v + 1)..Len(log)}

Channel ==
    /\ \A e \in unpublished : Has(e, log) /\ ~Has(e, wire)
    /\ \A k \in DOMAIN wire : Has(wire[k], log)
    /\ Distinct(wire)
    /\ ~connected => wire = <<>>
    /\ ~crossed => \E u, v \in 0..Len(log) : Queue(u, v)

\* The panel sorts what it is pushed, or it comes as it occurred.
InOrder == crossed => panel \in Unordered

Beyond(n) == (n + 1)..Len(log)

\* An answer under way is right about what was written until it was read, and everything
\* since then will be pushed after it.
AnswerHolds ==
    fetch.stage = "answered" =>
        /\ fetch.seen <= Len(log)
        /\ ~missed => Beyond(fetch.seen) \subseteq Pending
        /\ ~fetch.answer.failed =>
               \A T \in SUBSET DOMAIN log :
                  Proper(panel, T, Len(log)) /\ Beyond(fetch.seen) \subseteq T =>
                      Shows(panel, watched, log, fetch.answer, T)

\* Nothing was lost since the last fetch, and its answer is there.
Live   == ~missed /\ fetch.stage = "none" /\ ~data.failed
Coming == ~missed /\ fetch.stage = "answered"

CommandHolds == command # NoEntry => panel = "queue" /\ Has(command, log)

Following ==
    panel # "metrics" /\ InOrder =>
        /\ AnswerHolds /\ CommandHolds
        /\ Live => Shows(panel, watched, log, data, Pending)

\* The metrics are fetched again when something came in.
MetricsFollow ==
    panel = "metrics" =>
        /\ command = NoEntry
        /\ data.items = <<>> /\ fetch.answer.items = <<>>
        /\ Live => data.loaded /\ (data.total = Len(log) \/ due \/ Pending # {})
        /\ Coming => fetch.answer.loaded
                     /\ (fetch.answer.total = Len(log) \/ due \/ Pending # {})

LEMMA AtElements ==
    ASSUME NEW E, NEW s \in Seq(E), NEW K \in SUBSET DOMAIN s, NEW x
    PROVE  /\ Has(x, At(s, K)) <=> \E i \in K : x = s[i]
           /\ Has(x, Reverse(s)) <=> Has(x, s)
<1>1. Has(x, At(s, K)) <=> \E i \in K : x = s[i]
  <2>1. /\ Cardinality(K) \in Nat /\ At(s, K) \in Seq(E) /\ Len(At(s, K)) = Cardinality(K)
        /\ \E p : Enumerates(p, K) /\ \A m \in 1..Cardinality(K) : At(s, K)[m] = s[p[m]]
    BY AtEnumerates
  <2>2. PICK p : Enumerates(p, K) /\ \A m \in 1..Cardinality(K) : At(s, K)[m] = s[p[m]]
    BY <2>1
  <2>3. DOMAIN At(s, K) = 1..Cardinality(K) /\ DOMAIN p = 1..Cardinality(K)
    BY <2>1, <2>2 DEF Enumerates
  <2>4. /\ \A m \in 1..Cardinality(K) : p[m] \in K
        /\ \A i \in K : \E m \in 1..Cardinality(K) : p[m] = i
    BY <2>2, <2>3 DEF Enumerates
  <2> QED BY <2>2, <2>3, <2>4 DEF Has
<1>2. Has(x, Reverse(s)) <=> Has(x, s)
  <2>1. /\ Reverse(s) \in Seq(E) /\ Len(Reverse(s)) = Len(s) /\ Len(s) \in Nat
        /\ \A i \in 1..Len(s) : Reverse(s)[i] = s[(Len(s) - i) + 1]
    BY ReverseIs
  <2>2. DOMAIN Reverse(s) = 1..Len(s) /\ DOMAIN s = 1..Len(s)
    BY <2>1
  <2>3. ASSUME Has(x, Reverse(s)) PROVE Has(x, s)
    <3>1. PICK i \in 1..Len(s) : Reverse(s)[i] = x
      BY <2>2, <2>3 DEF Has
    <3>2. (Len(s) - i) + 1 \in 1..Len(s)
      BY <2>1
    <3> QED BY <2>1, <2>2, <3>1, <3>2 DEF Has
  <2>4. ASSUME Has(x, s) PROVE Has(x, Reverse(s))
    <3>1. PICK i \in 1..Len(s) : s[i] = x
      BY <2>2, <2>4 DEF Has
    <3>2. (Len(s) - i) + 1 \in 1..Len(s) /\ (Len(s) - ((Len(s) - i) + 1)) + 1 = i
      BY <2>1
    <3>3. Reverse(s)[(Len(s) - i) + 1] = x
      BY <2>1, <3>1, <3>2
    <3> QED BY <2>2, <3>2, <3>3 DEF Has
  <2> QED BY <2>3, <2>4
<1> QED BY <1>1, <1>2

\* The newest entry of an operation is the one at its version.
LEMMA NewestFacts ==
    ASSUME Numbered
    PROVE  /\ \A i \in DOMAIN log : Newest(log, i) <=> log[i].version = VersionOf(log[i].op)
           /\ \A i \in DOMAIN log :
                 /\ log[i] \in Entries /\ log[i].op \in Ops /\ VersionOf(log[i].op) > 0
                 /\ Newest(log, i) => log[i] = Entry(log[i].op, VersionOf(log[i].op))
           /\ \A o \in Ops : VersionOf(o) > 0 =>
                 \E i \in DOMAIN log : Newest(log, i) /\ log[i] = Entry(o, VersionOf(o))
           /\ \A o \in Ops : Lists(o, log) <=> VersionOf(o) > 0
<1>0. /\ log \in Seq(Entries) /\ Len(log) \in Nat /\ DOMAIN log = 1..Len(log)
      /\ \A i \in DOMAIN log : log[i] \in Entries
  BY DEF Numbered
<1>1. /\ \A i \in DOMAIN log : log[i].version \in 1..VersionOf(log[i].op)
      /\ \A i, j \in DOMAIN log :
            log[i].op = log[j].op => (i < j <=> log[i].version < log[j].version)
      /\ \A i, j \in DOMAIN log : log[i] = log[j] => i = j
      /\ \A o \in Ops : VersionOf(o) \in 0..Final
      /\ \A o \in Ops : \A v \in 1..VersionOf(o) :
            \E i \in DOMAIN log : log[i] = Entry(o, v)
  BY LogFacts
<1>2. ASSUME NEW i \in DOMAIN log
      PROVE  /\ log[i].op \in Ops /\ VersionOf(log[i].op) \in Nat /\ VersionOf(log[i].op) > 0
             /\ log[i].version \in Nat /\ log[i] = Entry(log[i].op, log[i].version)
  <2>1. log[i] \in Entries
    BY <1>0
  <2>2. log[i].op \in Ops /\ log[i].version \in Nat /\ log[i] = Entry(log[i].op, log[i].version)
    BY <2>1 DEF Entries, Entry
  <2> QED BY <1>1, <2>2
<1>3. ASSUME NEW i \in DOMAIN log, Newest(log, i) PROVE log[i].version = VersionOf(log[i].op)
  <2> DEFINE o == log[i].op
  <2>1. VersionOf(o) \in 1..VersionOf(o) /\ o \in Ops
    BY <1>2
  <2>2. PICK j \in DOMAIN log : log[j] = Entry(o, VersionOf(o))
    BY <1>1, <2>1
  <2>3. log[j].op = log[i].op /\ log[j].version = VersionOf(o)
    BY <2>2 DEF Entry
  <2>4. ~(i < j)
    BY <1>0, <1>3, <2>3 DEF Newest
  <2>5. ~(log[i].version < log[j].version)
    BY <1>1, <2>3, <2>4
  <2> QED BY <1>1, <1>2, <2>3, <2>5
<1>4. ASSUME NEW i \in DOMAIN log, log[i].version = VersionOf(log[i].op) PROVE Newest(log, i)
  <2> SUFFICES ASSUME NEW j \in DOMAIN log, log[j].op = log[i].op PROVE j <= i
    BY DEF Newest
  <2>1. log[j].version \in 1..VersionOf(log[i].op)
    BY <1>1
  <2>2. ~(log[i].version < log[j].version)
    BY <1>2, <1>4, <2>1
  <2>3. ~(i < j)
    BY <1>1, <2>2
  <2> QED BY <1>0, <2>3
<1>5. ASSUME NEW o \in Ops, VersionOf(o) > 0
      PROVE  \E i \in DOMAIN log : Newest(log, i) /\ log[i] = Entry(o, VersionOf(o))
  <2>1. VersionOf(o) \in 1..VersionOf(o)
    BY <1>1, <1>5
  <2>2. PICK j \in DOMAIN log : log[j] = Entry(o, VersionOf(o))
    BY <1>1, <2>1
  <2>3. log[j].op = o /\ log[j].version = VersionOf(o)
    BY <2>2 DEF Entry
  <2> QED BY <1>4, <2>2, <2>3
<1>6. \A o \in Ops : Lists(o, log) <=> VersionOf(o) > 0
  <2> SUFFICES ASSUME NEW o \in Ops PROVE Lists(o, log) <=> VersionOf(o) > 0
    OBVIOUS
  <2>1. Lists(o, log) => VersionOf(o) > 0
    BY <1>2 DEF Lists
  <2>2. ASSUME VersionOf(o) > 0 PROVE Lists(o, log)
    <3>1. PICK j \in DOMAIN log : log[j] = Entry(o, VersionOf(o))
      BY <1>5, <2>2
    <3> QED BY <3>1 DEF Entry, Lists
  <2> QED BY <2>1, <2>2
<1> QED BY <1>0, <1>2, <1>3, <1>4, <1>5, <1>6

\* Rows and the log name the same: every operation that has started, at its newest entry.
LEMMA RowsShow ==
    ASSUME Numbered
    PROVE  /\ Rows \in Seq(Entries) /\ Len(Rows) \in 0..Cardinality(Ops) /\ DOMAIN Rows = 1..Len(Rows)
           /\ \A i \in DOMAIN Rows : Rows[i].op = i /\ Has(Rows[i], log) /\ i \in Ops
                                     /\ Rows[i] = Entry(i, VersionOf(i)) /\ VersionOf(i) > 0
           /\ \A i \in DOMAIN log : log[i].op \in DOMAIN Rows
                                    /\ (Newest(log, i) => Rows[log[i].op] = log[i])
<1>1. /\ Rows \in Seq(Entries) /\ Len(Rows) \in 0..Cardinality(Ops)
      /\ \A i \in 1..Len(Rows) : Rows[i] = Entry(i, VersionOf(i))
      /\ \A o \in Ops : VersionOf(o) > 0 <=> o <= Len(Rows)
  BY RowsAre
<1>2. DOMAIN Rows = 1..Len(Rows)
  BY <1>1
<1>3. ASSUME NEW i \in DOMAIN Rows
      PROVE  Rows[i].op = i /\ Has(Rows[i], log) /\ i \in Ops /\ Rows[i] = Entry(i, VersionOf(i))
             /\ VersionOf(i) > 0
  <2>1. i \in Ops /\ VersionOf(i) > 0
    BY <1>1, <1>2, OpsAreNat
  <2>2. \E j \in DOMAIN log : log[j] = Entry(i, VersionOf(i))
    BY <2>1, NewestFacts
  <2> QED BY <1>1, <1>2, <2>1, <2>2 DEF Entry, Has
<1>4. ASSUME NEW i \in DOMAIN log
      PROVE  log[i].op \in DOMAIN Rows /\ (Newest(log, i) => Rows[log[i].op] = log[i])
  <2>1. log[i].op \in Ops /\ VersionOf(log[i].op) > 0
    BY NewestFacts
  <2>2. log[i].op \in 1..Len(Rows)
    BY <1>1, <2>1, OpsAreNat
  <2> QED BY <1>1, <1>2, <2>2, NewestFacts
<1> QED BY <1>1, <1>2, <1>3, <1>4

---------------------------------------------------------------------------
(* What the server answers shows the log, whatever part of it is pushed again *)

\* Where the history is looked at, every operation fits on its page.
OnOnePage == "history" \in Panels => Cardinality(Ops) <= PageSize

LEMMA ActiveView ==
    ASSUME Numbered, NEW T
    PROVE  ActiveShows(log, Reverse(Kept(Rows, InFlight)), T)
<1> DEFINE K == {i \in DOMAIN Rows : InFlight(Rows[i])}
           s == Reverse(At(Rows, K))
<1>1. /\ Rows \in Seq(Entries)
      /\ \A i \in DOMAIN Rows : Rows[i].op = i /\ Has(Rows[i], log)
      /\ \A i \in DOMAIN log : log[i].op \in DOMAIN Rows
                               /\ (Newest(log, i) => Rows[log[i].op] = log[i])
  BY RowsShow
<1>2. K \in SUBSET DOMAIN Rows /\ s = Reverse(Kept(Rows, InFlight))
  BY DEF Kept
<1>3. At(Rows, K) \in Seq(Entries)
  <2> HIDE DEF K
  <2> QED BY <1>1, <1>2, AtIsPart
<1>4. \A x : Has(x, s) <=> \E i \in K : x = Rows[i]
  <2> HIDE DEF K
  <2>1. \A x : Has(x, At(Rows, K)) <=> \E i \in K : x = Rows[i]
    BY <1>1, <1>2, AtElements
  <2>2. {} \in SUBSET DOMAIN At(Rows, K)
    OBVIOUS
  <2>3. \A x : Has(x, Reverse(At(Rows, K))) <=> Has(x, At(Rows, K))
    BY <1>3, <2>2, AtElements
  <2> QED BY <2>1, <2>3
<1> HIDE DEF s
<1>5. \A k \in DOMAIN s : Has(s[k], s)
  BY DEF Has
<1>6. \A k \in DOMAIN s : \E i \in K : s[k] = Rows[i]
  BY <1>4, <1>5
<1>7. \A k \in DOMAIN s : Has(s[k], log)
  BY <1>1, <1>6
<1>8. ASSUME NEW i \in DOMAIN log, Newest(log, i)
      PROVE  IF InFlight(log[i]) THEN Has(log[i], s) ELSE ~Lists(log[i].op, s)
  <2>1. log[i].op \in DOMAIN Rows /\ Rows[log[i].op] = log[i]
    BY <1>1, <1>8
  <2>2. InFlight(log[i]) => Has(log[i], s)
    BY <1>4, <2>1
  <2>3. ASSUME ~InFlight(log[i]), NEW k \in DOMAIN s, s[k].op = log[i].op PROVE FALSE
    <3>1. PICK j \in K : s[k] = Rows[j]
      BY <1>6
    <3>2. j = log[i].op
      BY <1>1, <2>3, <3>1
    <3> QED BY <2>1, <2>3, <3>1, <3>2
  <2> QED BY <2>2, <2>3 DEF Lists
<1> QED BY <1>2, <1>7, <1>8 DEF ActiveShows

LEMMA HistoryView ==
    ASSUME Numbered, OnOnePage, "history" \in Panels, NEW T
    PROVE  /\ HistoryShows(log, FirstOf(PageSize, Reverse(Rows)), Len(Rows), T)
           /\ FirstOf(PageSize, Reverse(Rows)) = Reverse(Rows)
<1> DEFINE r == Reverse(Rows)
           s == FirstOf(PageSize, r)
           n == Len(Rows)
<1>1. /\ Rows \in Seq(Entries) /\ n \in 0..Cardinality(Ops) /\ DOMAIN Rows = 1..n
      /\ \A i \in DOMAIN Rows : Rows[i].op = i /\ Has(Rows[i], log)
      /\ \A i \in DOMAIN log : log[i].op \in DOMAIN Rows
                               /\ (Newest(log, i) => Rows[log[i].op] = log[i])
  BY RowsShow
<1>2. n \in Nat /\ n <= PageSize /\ PageSize \in Nat
  BY <1>1, OpsAreNat, ConsoleAssumption DEF OnOnePage
<1>3. r \in Seq(Entries) /\ Len(r) = n /\ \A i \in 1..n : r[i] = Rows[(n - i) + 1]
  BY <1>1, ReverseIs
<1> HIDE DEF r, n
<1>4. s \in Seq(Entries) /\ Len(s) = n /\ \A i \in 1..n : s[i] = r[i]
  <2>1. /\ s \in Seq(Entries) /\ Len(s) = IF n < PageSize THEN n ELSE PageSize
        /\ \A i \in 1..Len(s) : s[i] = r[i]
    BY <1>2, <1>3, FirstOfIs
  <2> HIDE DEF s
  <2> QED BY <1>2, <2>1
<1> HIDE DEF s
<1>5. s = r
  BY <1>3, <1>4, SeqEqual
<1>6. DOMAIN s = 1..n
  BY <1>2, <1>4
<1>7. \A k \in 1..n : (n - k) + 1 \in DOMAIN Rows /\ s[k] = Rows[(n - k) + 1]
  BY <1>1, <1>2, <1>3, <1>4
<1>8. \A k \in DOMAIN s : s[k].op = (Len(s) - k) + 1 /\ Has(s[k], log)
  BY <1>1, <1>4, <1>6, <1>7
<1>9. ASSUME NEW i \in DOMAIN log
      PROVE  log[i].op <= Len(s) /\ (Newest(log, i) => Has(log[i], s))
  <2>1. log[i].op \in 1..n
    BY <1>1
  <2>2. (n - log[i].op) + 1 \in 1..n /\ (n - ((n - log[i].op) + 1)) + 1 = log[i].op
    BY <1>2, <2>1
  <2>3. s[(n - log[i].op) + 1] = Rows[log[i].op]
    BY <1>7, <2>2
  <2> QED BY <1>1, <1>2, <1>4, <1>6, <2>1, <2>2, <2>3 DEF Has
<1> QED BY <1>4, <1>5, <1>8, <1>9 DEF HistoryShows, s, r, n

LEMMA QueueView ==
    ASSUME Numbered, NEW T
    PROVE  QueueShows(log, [o \in Ops |-> Entry(o, VersionOf(o))], T)
<1> DEFINE s == [o \in Ops |-> Entry(o, VersionOf(o))]
<1>1. DOMAIN s = Ops /\ \A o \in Ops : s[o] = Entry(o, VersionOf(o)) /\ s[o].op = o
  BY DEF Entry
<1> HIDE DEF s
<1>2. \A o \in Ops : VersionOf(o) \in 0..Final
  BY LogFacts
<1>3. ASSUME NEW o \in Ops, ~Lists(o, log) PROVE s[o] = Entry(o, 0)
  <2>1. VersionOf(o) = 0
    BY <1>2, <1>3, NewestFacts
  <2> QED BY <1>1, <2>1
<1>4. ASSUME NEW i \in DOMAIN log, Newest(log, i) PROVE Has(log[i], s)
  BY <1>1, <1>4, NewestFacts DEF Has
<1> QED BY <1>1, <1>3, <1>4 DEF QueueShows, s

LEMMA OperationView ==
    ASSUME Numbered, watched \in Ops, VersionOf(watched) # 0, NEW T
    PROVE  OperationShows(watched, log, Kept(Rows, LAMBDA e : e.op = watched), T)
<1> DEFINE K == {i \in DOMAIN Rows : Rows[i].op = watched}
           s == At(Rows, K)
<1>1. /\ Rows \in Seq(Entries)
      /\ \A i \in DOMAIN Rows : Rows[i].op = i /\ Has(Rows[i], log)
      /\ \A i \in DOMAIN log : log[i].op \in DOMAIN Rows
                               /\ (Newest(log, i) => Rows[log[i].op] = log[i])
  BY RowsShow
<1>2. K \in SUBSET DOMAIN Rows /\ s = Kept(Rows, LAMBDA e : e.op = watched)
  BY DEF Kept
<1>3. s \in Seq(Entries) /\ UniqueOps(s) /\ \A x : Has(x, s) <=> \E i \in K : x = Rows[i]
  <2> HIDE DEF K
  <2>1. s \in Seq(Entries) /\ PartOf(s, Rows)
    BY <1>1, <1>2, AtIsPart
  <2>2. UniqueOps(s)
    BY <2>1, RowsUnique, PartsKeep
  <2>3. \A x : Has(x, s) <=> \E i \in K : x = Rows[i]
    BY <1>1, <1>2, AtElements
  <2> QED BY <2>1, <2>2, <2>3
<1> HIDE DEF s
<1>4. \A k \in DOMAIN s : Has(s[k], s)
  BY DEF Has
<1>5. \A k \in DOMAIN s : s[k].op = watched /\ Has(s[k], log)
  BY <1>1, <1>3, <1>4
<1>6. \A i \in DOMAIN log : log[i].op = watched /\ Newest(log, i) => Has(log[i], s)
  BY <1>1, <1>3
<1>7. Len(s) = 1
  <2>0. Len(s) \in Nat /\ DOMAIN s = 1..Len(s)
    BY <1>3
  <2>1. ASSUME Len(s) > 1 PROVE FALSE
    <3>1. 1 \in DOMAIN s /\ 2 \in DOMAIN s
      BY <2>0, <2>1
    <3> QED BY <1>3, <1>5, <3>1 DEF UniqueOps
  <2>2. PICK i \in DOMAIN log : Newest(log, i) /\ log[i] = Entry(watched, VersionOf(watched))
    <3>1. VersionOf(watched) > 0
      BY LogFacts, ConsoleAssumption
    <3> QED BY <3>1, NewestFacts
  <2>3. Has(log[i], s)
    BY <1>6, <2>2 DEF Entry
  <2>4. Len(s) # 0
    BY <2>0, <2>3 DEF Has
  <2> QED BY <2>0, <2>1, <2>4
<1> QED BY <1>2, <1>5, <1>6, <1>7 DEF OperationShows

LEMMA RecordsView ==
    ASSUME Numbered, Timed, NEW T
    PROVE  RecordsShow(watched, log, Of(watched, occurred), T) /\ InTime(Of(watched, occurred))
<1> DEFINE K == {i \in DOMAIN occurred : occurred[i].op = watched}
           s == At(occurred, K)
<1>1. occurred \in Seq(Entries) /\ K \in SUBSET DOMAIN occurred /\ s = Of(watched, occurred)
  BY DEF Timed, Of, Kept
<1>2. /\ Cardinality(K) \in Nat /\ s \in Seq(Entries) /\ Len(s) = Cardinality(K)
      /\ \E p : Enumerates(p, K) /\ \A m \in 1..Cardinality(K) : s[m] = occurred[p[m]]
      /\ \A x : Has(x, s) <=> \E i \in K : x = occurred[i]
  <2> HIDE DEF K
  <2> QED BY <1>1, AtEnumerates, AtElements
<1> HIDE DEF s
<1>3. PICK p : Enumerates(p, K) /\ \A m \in 1..Cardinality(K) : s[m] = occurred[p[m]]
  BY <1>2
<1>4. DOMAIN s = 1..Cardinality(K) /\ DOMAIN p = 1..Cardinality(K)
  BY <1>2, <1>3 DEF Enumerates
<1>5. /\ \A m \in DOMAIN s : p[m] \in K /\ s[m] = occurred[p[m]]
      /\ \A m, n \in DOMAIN s : m < n => p[m] < p[n]
  BY <1>3, <1>4 DEF Enumerates
<1>6. \A k \in DOMAIN s : s[k].op = watched /\ Has(s[k], occurred)
  BY <1>5 DEF Has
<1>7. \A j, k \in DOMAIN s : j < k => OccurredBefore(s[j], s[k])
  BY <1>5 DEF OccurredBefore
<1>8. \A i \in DOMAIN log : log[i].op = watched => Has(log[i], s)
  <2> SUFFICES ASSUME NEW i \in DOMAIN log, log[i].op = watched PROVE Has(log[i], s)
    OBVIOUS
  <2>1. Has(log[i], occurred)
    BY DEF Timed, Has
  <2>2. PICK j \in DOMAIN occurred : occurred[j] = log[i]
    BY <2>1 DEF Has
  <2> QED BY <1>2, <2>2
<1>9. \A k \in DOMAIN s : Has(s[k], log)
  BY <1>6 DEF Timed
<1> QED BY <1>1, <1>6, <1>7, <1>8, <1>9 DEF RecordsShow, InTime

LEMMA FeedView ==
    ASSUME Numbered, NEW u \in 0..Len(log)
    PROVE  FeedShows(log, FirstOf(FeedLimit, Reverse(log)), (u + 1)..Len(log))
<1> DEFINE r == Reverse(log)
           s == FirstOf(FeedLimit, r)
           n == Len(log)
<1>1. log \in Seq(Entries) /\ n \in Nat /\ FeedLimit \in Nat
  BY ConsoleAssumption DEF Numbered
<1>2. r \in Seq(Entries) /\ Len(r) = n /\ \A i \in 1..n : r[i] = log[(n - i) + 1]
  BY <1>1, ReverseIs
<1> HIDE DEF r
<1>3. /\ s \in Seq(Entries) /\ Len(s) = IF n < FeedLimit THEN n ELSE FeedLimit
      /\ \A i \in 1..Len(s) : s[i] = r[i]
  BY <1>1, <1>2, FirstOfIs
<1> HIDE DEF s, n
<1>4. \A k \in 1..Len(s) : s[k] = log[(n - k) + 1]
  BY <1>1, <1>2, <1>3
<1>5. u \in 0..n /\ n \in 0..n /\ u - u = 0 /\ u <= n
  BY <1>1 DEF n
<1>6. Window(log, s, u, u, n)
  <2>1. (u - u) + n = n /\ u \in Nat
    BY <1>1, <1>5
  <2>2. \A k \in 1..Len(s) : ~(k <= u - u) /\ (n + (u - u)) - k = n - k
    BY <1>1, <1>3, <1>5
  <2> QED BY <1>3, <1>4, <1>5, <2>1, <2>2 DEF Window
<1> QED BY <1>5, <1>6 DEF FeedShows, s, r, n

LEMMA ViewShows ==
    ASSUME Numbered, Timed, OnOnePage, panel \in Panels, panel # "metrics", watched \in Ops,
           panel = "feed" => ~crossed, ~View.failed,
           NEW T \in SUBSET DOMAIN log, Proper(panel, T, Len(log))
    PROVE  Shows(panel, watched, log, View, T)
<1>0. panel \in AllPanels
  BY ConsoleAssumption
<1>1. View.loaded
  BY ViewIs
<1>2. CASE panel = "active"
  <2>1. View.items = Reverse(Kept(Rows, InFlight)) /\ View.total = 0
    BY <1>2 DEF View, Loaded
  <2>2. ActiveShows(log, View.items, T)
    BY <2>1, ActiveView
  <2> QED BY <1>1, <1>2, <2>1, <2>2 DEF Shows
<1>3. CASE panel = "history"
  <2>1. View.items = FirstOf(PageSize, Reverse(Rows)) /\ View.total = Len(Rows)
    BY <1>3 DEF View, Loaded
  <2>2. HistoryShows(log, View.items, View.total, T)
    BY <1>3, <2>1, HistoryView
  <2> QED BY <1>1, <1>3, <2>1, <2>2 DEF Shows
<1>4. CASE panel = "queue"
  <2>1. View.items = [o \in Ops |-> Entry(o, VersionOf(o))] /\ View.total = 0
    BY <1>4 DEF View, Loaded
  <2>2. QueueShows(log, View.items, T)
    BY <2>1, QueueView
  <2> QED BY <1>1, <1>4, <2>1, <2>2 DEF Shows
<1>5. CASE panel = "operation"
  <2>1. VersionOf(watched) # 0 /\ View = Loaded(Kept(Rows, LAMBDA e : e.op = watched), 0)
    <3>1. View = IF VersionOf(watched) = 0 THEN Failed(Unloaded)
                 ELSE Loaded(Kept(Rows, LAMBDA e : e.op = watched), 0)
      BY <1>5 DEF View
    <3>2. Failed(Unloaded).failed
      BY DEF Failed, Unloaded
    <3> QED BY <3>1, <3>2
  <2>2. View.items = Kept(Rows, LAMBDA e : e.op = watched) /\ View.total = 0
    BY <2>1 DEF Loaded
  <2>3. OperationShows(watched, log, View.items, T)
    BY <2>1, <2>2, OperationView
  <2> QED BY <1>1, <1>5, <2>2, <2>3 DEF Shows
<1>6. CASE panel = "records"
  <2>1. View.items = Of(watched, occurred) /\ View.total = 0
    BY <1>6 DEF View, Loaded
  <2>2. RecordsShow(watched, log, View.items, T)
    BY <2>1, RecordsView
  <2> QED BY <1>1, <1>6, <2>1, <2>2 DEF Shows
<1>7. CASE panel = "feed"
  <2>1. View.items = FirstOf(FeedLimit, Reverse(log)) /\ View.total = 0
    BY <1>7 DEF View, Loaded, Timed
  <2>2. PICK u \in 0..Len(log) : T = (u + 1)..Len(log)
    BY <1>7 DEF Proper, Unordered
  <2>3. FeedShows(log, View.items, T)
    BY <2>1, <2>2, FeedView
  <2> QED BY <1>1, <1>7, <2>1, <2>3 DEF Shows
<1> QED BY <1>0, <1>2, <1>3, <1>4, <1>5, <1>6, <1>7 DEF AllPanels

---------------------------------------------------------------------------
(* A push that is merged is shown, and no longer to come *)

LEMMA ActiveMerge ==
    ASSUME Numbered, NEW s \in Seq(Entries), NEW k \in DOMAIN log,
           ActiveShows(log, s, k..Len(log))
    PROVE  ActiveShows(log, MergeActive(log[k], s), (k + 1)..Len(log))
<1> DEFINE e == log[k]
           b == Without(e.op, s)
           t == MergeActive(e, s)
<1>0. log \in Seq(Entries) /\ Len(log) \in Nat /\ DOMAIN log = 1..Len(log) /\ e \in Entries
  BY DEF Numbered
<1>1. b \in Seq(Entries)
  <2> HIDE DEF e
  <2> QED BY WithoutIs
<1>2. \A x : Has(x, b) <=> Has(x, s) /\ x.op # e.op
  <2> DEFINE K == {i \in DOMAIN s : s[i].op # e.op}
  <2>1. b = At(s, K) /\ K \in SUBSET DOMAIN s
    BY DEF Without, Kept
  <2>2. \A x : Has(x, At(s, K)) <=> \E i \in K : x = s[i]
    <3> HIDE DEF K
    <3> QED BY <2>1, AtElements
  <2> QED BY <2>1, <2>2 DEF Has
<1> HIDE DEF b
<1>3. \A x : Has(x, Append(b, e)) <=> Has(x, b) \/ x = e
  <2>1. /\ DOMAIN b = 1..Len(b) /\ Len(b) \in Nat
        /\ DOMAIN Append(b, e) = 1..(Len(b) + 1) /\ Append(b, e)[Len(b) + 1] = e
        /\ \A i \in 1..Len(b) : Append(b, e)[i] = b[i]
    BY <1>0, <1>1
  <2>2. \A i \in 1..(Len(b) + 1) : i \in 1..Len(b) \/ i = Len(b) + 1
    BY <2>1
  <2>3. Len(b) + 1 \in 1..(Len(b) + 1) /\ \A i \in 1..Len(b) : i \in 1..(Len(b) + 1)
    BY <2>1
  <2> QED BY <2>1, <2>2, <2>3 DEF Has
<1>4. \A x : Has(x, t) <=> (Has(x, s) /\ x.op # e.op) \/ (InFlight(e) /\ x = e)
  BY <1>2, <1>3 DEF MergeActive, b
<1> HIDE DEF t, e
<1>5. \A m \in DOMAIN t : Has(t[m], t)
  BY DEF Has
<1>6. \A m \in DOMAIN t : Has(t[m], log)
  <2>1. \A x : Has(x, s) => Has(x, log)
    BY DEF ActiveShows, Has
  <2>2. Has(e, log)
    BY DEF Has, e
  <2> QED BY <1>4, <1>5, <2>1, <2>2
<1>7. ASSUME NEW i \in DOMAIN log \ ((k + 1)..Len(log)), Newest(log, i)
      PROVE  IF InFlight(log[i]) THEN Has(log[i], t) ELSE ~Lists(log[i].op, t)
  <2>1. CASE i = k
    <3>1. log[i] = e
      BY <2>1 DEF e
    <3>2. InFlight(e) => Has(e, t)
      BY <1>4
    <3>3. ASSUME ~InFlight(e), NEW m \in DOMAIN t, t[m].op = e.op PROVE FALSE
      BY <1>4, <1>5, <3>3
    <3> QED BY <3>1, <3>2, <3>3 DEF Lists
  <2>2. CASE i # k
    <3>1. i \in DOMAIN log \ (k..Len(log)) /\ ~(k <= i)
      BY <1>0, <2>2
    <3>2. log[i].op # e.op
      BY <1>7, <3>1 DEF Newest, e
    <3>3. IF InFlight(log[i]) THEN Has(log[i], s) ELSE ~Lists(log[i].op, s)
      BY <1>7, <3>1 DEF ActiveShows
    <3>4. InFlight(log[i]) => Has(log[i], t)
      BY <1>4, <3>2, <3>3
    <3>5. ASSUME ~InFlight(log[i]), NEW m \in DOMAIN t, t[m].op = log[i].op PROVE FALSE
      <4>1. Has(t[m], s)
        BY <1>4, <1>5, <3>2, <3>5
      <4> QED BY <3>3, <3>5, <4>1 DEF Has, Lists
    <3> QED BY <3>4, <3>5 DEF Lists
  <2> QED BY <2>1, <2>2
<1> QED BY <1>6, <1>7 DEF ActiveShows, t, e

LEMMA HistoryMerge ==
    ASSUME Numbered, data \in Answers, data.loaded, NEW k \in DOMAIN log,
           HistoryShows(log, data.items, data.total, k..Len(log))
    PROVE  LET d == MergeHistory(log[k], data)
           IN  d.loaded /\ HistoryShows(log, d.items, d.total, (k + 1)..Len(log))
<1> DEFINE e == log[k]
           s == data.items
           n == Len(s)
           d == MergeHistory(e, data)
<1>0. /\ log \in Seq(Entries) /\ Len(log) \in Nat /\ DOMAIN log = 1..Len(log) /\ e \in Entries
      /\ Has(e, log) /\ e.op \in Ops /\ s \in Seq(Entries) /\ n \in Nat /\ DOMAIN s = 1..n
  <2>1. e \in Entries
    BY DEF Numbered
  <2>2. e.op \in Ops
    BY <2>1 DEF Entries
  <2> QED BY <2>1, <2>2 DEF Numbered, Has, Answers
<1>1. /\ data.total = n
      /\ \A m \in 1..n : s[m].op = (n - m) + 1 /\ Has(s[m], log)
      /\ \A i \in DOMAIN log \ (k..Len(log)) :
            log[i].op <= n /\ (Newest(log, i) => Has(log[i], s))
  BY <1>0 DEF HistoryShows
<1>2. \A i \in DOMAIN log \ ((k + 1)..Len(log)) :
         i # k => /\ i \in DOMAIN log \ (k..Len(log)) /\ i < k
                  /\ Newest(log, i) => log[i].op # e.op
  <2> SUFFICES ASSUME NEW i \in DOMAIN log \ ((k + 1)..Len(log)), i # k
               PROVE  /\ i \in DOMAIN log \ (k..Len(log)) /\ i < k
                      /\ Newest(log, i) => log[i].op # e.op
    OBVIOUS
  <2>1. i \in DOMAIN log \ (k..Len(log)) /\ i < k /\ ~(k <= i)
    BY <1>0
  <2> QED BY <2>1 DEF Newest
<1> HIDE DEF e, s, n
<1>3. CASE Lists(e.op, s)
  <2> DEFINE t == InPlace(e, s)
  <2>1. d = [data EXCEPT !.items = t]
    BY <1>3 DEF MergeHistory, s
  <2>2. d.loaded /\ d.items = t /\ d.total = n
    BY <1>1, <2>1 DEF Answers
  <2>3. /\ DOMAIN t = 1..n /\ Len(t) = n
        /\ \A i \in 1..n : t[i] = (IF s[i].op = e.op THEN e ELSE s[i]) /\ t[i].op = s[i].op
    <3>1. /\ DOMAIN t = DOMAIN s /\ Len(t) = Len(s)
          /\ \A i \in DOMAIN s : t[i] = IF s[i].op = e.op THEN e ELSE s[i]
          /\ \A i \in DOMAIN s : t[i].op = s[i].op
      BY <1>0, InPlaceIs
    <3> HIDE DEF t
    <3> QED BY <1>0, <3>1 DEF n
  <2> HIDE DEF t, d
  <2>4. \A m \in 1..n : t[m].op = (n - m) + 1 /\ Has(t[m], log)
    BY <1>0, <1>1, <2>3
  <2>5. PICK j \in 1..n : s[j].op = e.op
    BY <1>0, <1>3 DEF Lists
  <2>6. ASSUME NEW i \in DOMAIN log \ ((k + 1)..Len(log))
        PROVE  log[i].op <= n /\ (Newest(log, i) => Has(log[i], t))
    <3>1. CASE i = k
      <4>1. log[i] = e
        BY <3>1 DEF e
      <4>2. e.op <= n
        BY <1>0, <1>1, <2>5
      <4> QED BY <2>3, <2>5, <4>1, <4>2 DEF Has
    <3>2. CASE i # k
      <4>1. log[i].op <= n
        BY <1>1, <1>2, <3>2
      <4>2. ASSUME Newest(log, i) PROVE Has(log[i], t)
        <5>1. PICK m \in 1..n : s[m] = log[i]
          BY <1>0, <1>1, <1>2, <3>2, <4>2 DEF Has
        <5>2. s[m].op # e.op
          BY <1>2, <3>2, <4>2, <5>1
        <5> QED BY <2>3, <5>1, <5>2 DEF Has
      <4> QED BY <4>1, <4>2
    <3> QED BY <3>1, <3>2
  <2>7. HistoryShows(log, d.items, d.total, (k + 1)..Len(log))
    BY <2>2, <2>3, <2>4, <2>6 DEF HistoryShows
  <2> QED BY <2>2, <2>7 DEF d, e
<1>4. CASE ~Lists(e.op, s)
  <2> DEFINE t == <<e>> \o s
  <2>1. d = [data EXCEPT !.items = t, !.total = data.total + 1]
    BY <1>4 DEF MergeHistory, s
  <2>2. d.loaded /\ d.items = t /\ d.total = n + 1
    BY <1>1, <2>1 DEF Answers
  <2>3. /\ t \in Seq(Entries) /\ Len(t) = n + 1 /\ t[1] = e
        /\ \A i \in 1..n : t[i + 1] = s[i]
        /\ \A i \in 2..(n + 1) : t[i] = s[i - 1]
    BY <1>0, OnTopIs DEF n
  <2> HIDE DEF t, d
  <2>4. e.op = n + 1
    <3>1. e.op \in Nat /\ e.op > 0
      BY <1>0, OpsAreNat
    <3>2. ~(e.op <= n)
      <4> SUFFICES ASSUME e.op <= n PROVE FALSE
        OBVIOUS
      <4>1. (n - e.op) + 1 \in 1..n /\ (n - ((n - e.op) + 1)) + 1 = e.op
        BY <1>0, <3>1
      <4>2. s[(n - e.op) + 1].op = e.op
        BY <1>1, <4>1
      <4> QED BY <1>0, <1>4, <4>1, <4>2 DEF Lists
    <3>3. ~(n + 1 < e.op)
      <4> SUFFICES ASSUME n + 1 < e.op PROVE FALSE
        OBVIOUS
      <4>1. n + 1 \in Ops
        BY <1>0, <3>1, OpsAreNat
      <4>2. PICK j \in DOMAIN log : j < k /\ log[j].op = n + 1
        BY <1>0, <4>1 DEF Numbered, e
      <4>3. j \in DOMAIN log \ (k..Len(log))
        BY <1>0, <4>2
      <4> QED BY <1>0, <1>1, <4>2, <4>3
    <3> QED BY <1>0, <3>1, <3>2, <3>3
  <2>5. DOMAIN t = 1..(n + 1)
    BY <1>0, <2>3
  <2>6. \A m \in 1..(n + 1) : t[m].op = ((n + 1) - m) + 1 /\ Has(t[m], log)
    <3> SUFFICES ASSUME NEW m \in 1..(n + 1)
                 PROVE  t[m].op = ((n + 1) - m) + 1 /\ Has(t[m], log)
      OBVIOUS
    <3>1. CASE m = 1
      BY <1>0, <2>3, <2>4, <3>1
    <3>2. CASE m # 1
      <4>1. m - 1 \in 1..n /\ m \in 2..(n + 1) /\ (n - (m - 1)) + 1 = ((n + 1) - m) + 1
        BY <1>0, <3>2
      <4> QED BY <1>1, <2>3, <4>1
    <3> QED BY <3>1, <3>2
  <2>7. ASSUME NEW i \in DOMAIN log \ ((k + 1)..Len(log))
        PROVE  log[i].op <= n + 1 /\ (Newest(log, i) => Has(log[i], t))
    <3>1. CASE i = k
      <4>1. log[i] = e /\ 1 \in 1..(n + 1)
        BY <1>0, <3>1 DEF e
      <4>2. log[i].op <= n + 1
        BY <1>0, <2>4, <4>1
      <4>3. Has(log[i], t)
        BY <2>3, <2>5, <4>1 DEF Has
      <4> QED BY <4>2, <4>3
    <3>2. CASE i # k
      <4>0. log[i].op \in Nat
        <5>1. log[i] \in Entries
          BY <1>0
        <5> QED BY <5>1, OpsAreNat DEF Entries
      <4>1. log[i].op <= n + 1
        BY <1>0, <1>1, <1>2, <3>2, <4>0
      <4>2. ASSUME Newest(log, i) PROVE Has(log[i], t)
        <5>1. PICK m \in 1..n : s[m] = log[i]
          BY <1>0, <1>1, <1>2, <3>2, <4>2 DEF Has
        <5>2. m + 1 \in 1..(n + 1)
          BY <1>0
        <5> QED BY <2>3, <2>5, <5>1, <5>2 DEF Has
      <4> QED BY <4>1, <4>2
    <3> QED BY <3>1, <3>2
  <2>8. HistoryShows(log, d.items, d.total, (k + 1)..Len(log))
    BY <2>2, <2>3, <2>5, <2>6, <2>7 DEF HistoryShows
  <2> QED BY <2>2, <2>8 DEF d, e
<1> QED BY <1>3, <1>4

\* For the queue of jobs what counts is that no newer entry of the job was merged before.
LEMMA QueueMerge ==
    ASSUME Numbered, NEW s \in Seq(Entries), NEW k \in DOMAIN log, NEW S, NEW T,
           QueueShows(log, s, S), \A i \in DOMAIN log \ T : i = k \/ i \notin S,
           \A i \in DOMAIN log : log[i].op = log[k].op /\ k < i => i \in T
    PROVE  QueueShows(log, MergeQueue(log[k], s), T)
<1> DEFINE e == log[k]
           t == InPlace(e, s)
<1>0. Len(log) \in Nat /\ DOMAIN log = 1..Len(log) /\ e \in Entries /\ e.op \in Ops
  BY NewestFacts DEF Numbered
<1>1. /\ DOMAIN s = Ops /\ \A o \in Ops : s[o].op = o /\ (~Lists(o, log) => s[o] = Entry(o, 0))
      /\ \A i \in DOMAIN log \ S : Newest(log, i) => Has(log[i], s)
  BY DEF QueueShows
<1>2. DOMAIN t = Ops /\ \A o \in Ops : t[o] = (IF s[o].op = e.op THEN e ELSE s[o])
  BY <1>1 DEF InPlace
<1>3. \A i \in DOMAIN log \ T : i # k /\ Newest(log, i) => i \notin S /\ log[i].op # e.op
  <2> SUFFICES ASSUME NEW i \in DOMAIN log \ T, i # k, Newest(log, i)
               PROVE  i \notin S /\ log[i].op # e.op
    OBVIOUS
  <2>1. i \notin S
    OBVIOUS
  <2>2. ASSUME log[i].op = e.op PROVE FALSE
    <3>1. k <= i
      BY <2>2 DEF Newest
    <3>2. k < i
      BY <1>0, <3>1
    <3> QED BY <2>2, <3>2
  <2> QED BY <2>1, <2>2
<1>4. MergeQueue(e, s) = t
  BY <1>0, <1>1 DEF MergeQueue, Lists
<1>5. ~(~Lists(e.op, log))
  BY DEF Lists
<1> HIDE DEF t, e
<1>6. \A o \in Ops : t[o].op = o /\ (~Lists(o, log) => t[o] = Entry(o, 0))
  BY <1>0, <1>1, <1>2, <1>5
<1>7. ASSUME NEW i \in DOMAIN log \ T, Newest(log, i) PROVE Has(log[i], t)
  <2>1. CASE i = k
    BY <1>0, <1>1, <1>2, <2>1 DEF Has, e
  <2>2. CASE i # k
    <3>1. log[i].op # e.op /\ Has(log[i], s)
      BY <1>1, <1>3, <1>7, <2>2
    <3>2. PICK o \in Ops : s[o] = log[i]
      BY <1>1, <3>1 DEF Has
    <3> QED BY <1>2, <3>1, <3>2 DEF Has
  <2> QED BY <2>1, <2>2
<1> QED BY <1>2, <1>4, <1>6, <1>7 DEF QueueShows, e

LEMMA OperationMerge ==
    ASSUME Numbered, NEW s \in Seq(Entries), NEW k \in DOMAIN log, NEW S,
           OperationShows(watched, log, s, S)
    PROVE  OperationShows(watched, log, MergeOperation(log[k], s), S \ {k})
<1> DEFINE e == log[k]
           t == MergeOperation(e, s)
           Older == \E i \in DOMAIN s : s[i].op = e.op /\ s[i].version > e.version
<1>0. /\ e \in Entries /\ e.op \in Ops /\ e.version \in Nat /\ Has(e, log)
      /\ \A i \in DOMAIN s : s[i].version \in Nat
      /\ \A i \in DOMAIN log : log[i].version \in Nat
  <2>1. \A i \in DOMAIN log : log[i] \in Entries
    BY DEF Numbered
  <2>2. \A x \in Entries : x.op \in Ops /\ x.version \in Nat
    BY DEF Entries
  <2>3. \A i \in DOMAIN s : s[i] \in Entries
    OBVIOUS
  <2> QED BY <2>1, <2>2, <2>3 DEF Has
<1>1. /\ Len(s) = 1 /\ \A m \in DOMAIN s : s[m].op = watched /\ Has(s[m], log)
      /\ \A i \in DOMAIN log \ S : log[i].op = watched /\ Newest(log, i) => Has(log[i], s)
  BY DEF OperationShows
<1>2. \A i \in DOMAIN log : Newest(log, i) =>
          \A j \in DOMAIN log : log[j].op = log[i].op /\ j # i => log[j].version < log[i].version
  <2> SUFFICES ASSUME NEW i \in DOMAIN log, Newest(log, i), NEW j \in DOMAIN log,
                      log[j].op = log[i].op, j # i
               PROVE  log[j].version < log[i].version
    OBVIOUS
  <2>1. j <= i /\ i \in Nat /\ j \in Nat
    BY DEF Newest, Numbered
  <2> QED BY <2>1, LogFacts
<1> HIDE DEF e
<1>3. CASE e.op # watched \/ Older
  <2>1. t = s
    BY <1>3 DEF MergeOperation
  <2>2. ASSUME NEW i \in DOMAIN log \ (S \ {k}), log[i].op = watched, Newest(log, i)
        PROVE  Has(log[i], s)
    <3>1. CASE i = k
      <4>1. PICK m \in DOMAIN s : s[m].op = e.op /\ s[m].version > e.version
        BY <1>3, <2>2, <3>1 DEF e
      <4>2. PICK j \in DOMAIN log : log[j] = s[m]
        BY <1>1 DEF Has
      <4>3. j # i
        BY <1>0, <3>1, <4>1, <4>2 DEF e
      <4>4. log[j].version < e.version
        BY <1>2, <2>2, <3>1, <4>1, <4>2, <4>3 DEF e
      <4> QED BY <1>0, <4>1, <4>2, <4>4
    <3>2. CASE i # k
      BY <1>1, <2>2, <3>2
    <3> QED BY <3>1, <3>2
  <2> QED BY <1>1, <2>1, <2>2 DEF OperationShows, e
<1>4. CASE ~(e.op # watched \/ Older)
  <2>1. t = <<e>> /\ e.op = watched
    BY <1>4 DEF MergeOperation
  <2>2. Len(<<e>>) = 1 /\ DOMAIN <<e>> = {1} /\ <<e>>[1] = e
    OBVIOUS
  <2>3. ASSUME NEW i \in DOMAIN log \ (S \ {k}), log[i].op = watched, Newest(log, i)
        PROVE  Has(log[i], <<e>>)
    <3>1. CASE i = k
      BY <2>2, <3>1 DEF Has, e
    <3>2. CASE i # k
      <4>1. PICK m \in DOMAIN s : s[m] = log[i]
        BY <1>1, <2>3, <3>2 DEF Has
      <4>2. e.version < log[i].version
        BY <1>2, <2>1, <2>3, <3>2 DEF e
      <4> QED BY <1>0, <1>4, <2>1, <2>3, <4>1, <4>2
    <3> QED BY <3>1, <3>2
  <2>4. OperationShows(watched, log, <<e>>, S \ {k})
    BY <1>0, <2>1, <2>2, <2>3 DEF OperationShows
  <2> QED BY <2>1, <2>4 DEF e
<1> QED BY <1>3, <1>4

LEMMA RecordsMerge ==
    ASSUME Numbered, NEW s \in Seq(Entries), NEW k \in DOMAIN log, NEW S,
           RecordsShow(watched, log, s, S)
    PROVE  RecordsShow(watched, log, MergeRecords(log[k], s), S \ {k})
<1> DEFINE e == log[k]
           t == MergeRecords(e, s)
<1>0. e \in Entries /\ Has(e, log)
  BY DEF Numbered, Has
<1>1. /\ \A m \in DOMAIN s : s[m].op = watched /\ Has(s[m], log)
      /\ \A i \in DOMAIN log \ S : log[i].op = watched => Has(log[i], s)
  BY DEF RecordsShow
<1> HIDE DEF e
<1>2. CASE e.op # watched \/ Has(e, s)
  <2>1. t = s
    BY <1>2, MergeRecordsIs
  <2>2. \A i \in DOMAIN log \ (S \ {k}) : log[i].op = watched => Has(log[i], s)
    BY <1>1, <1>2 DEF e
  <2> QED BY <1>1, <2>1, <2>2 DEF RecordsShow, e
<1>3. CASE ~(e.op # watched \/ Has(e, s))
  <2>1. \A x : Has(x, t) <=> x = e \/ Has(x, s)
    BY <1>0, <1>3, MergeRecordsHas
  <2> HIDE DEF t
  <2>2. \A m \in DOMAIN t : Has(t[m], t)
    BY DEF Has
  <2>3. \A m \in DOMAIN t : t[m].op = watched /\ Has(t[m], log)
    <3> SUFFICES ASSUME NEW m \in DOMAIN t PROVE t[m].op = watched /\ Has(t[m], log)
      OBVIOUS
    <3>1. t[m] = e \/ Has(t[m], s)
      BY <2>1, <2>2
    <3>2. CASE t[m] = e
      BY <1>0, <1>3, <3>2
    <3>3. CASE Has(t[m], s)
      <4>1. PICK j \in DOMAIN s : s[j] = t[m]
        BY <3>3 DEF Has
      <4> QED BY <1>1, <4>1
    <3> QED BY <3>1, <3>2, <3>3
  <2>4. \A i \in DOMAIN log \ (S \ {k}) : log[i].op = watched => Has(log[i], t)
    BY <1>1, <2>1 DEF e
  <2> QED BY <2>3, <2>4 DEF RecordsShow, t, e
<1> QED BY <1>2, <1>3

\* The feed: listed already, on top of a list that was cut, or on top of all that was written.
LEMMA FeedMerge ==
    ASSUME Numbered, NEW s \in Seq(Entries), NEW k \in DOMAIN log,
           FeedShows(log, s, k..Len(log))
    PROVE  FeedShows(log, MergeFeed(log[k], s), (k + 1)..Len(log))
<1> DEFINE e == log[k]
           n == Len(log)
           L == FeedLimit
           t == FirstOf(L, <<e>> \o s)
<1>0. /\ n \in Nat /\ DOMAIN log = 1..n /\ e \in Entries /\ L \in Nat /\ Len(s) \in Nat
      /\ DOMAIN s = 1..Len(s) /\ \A i, j \in 1..n : log[i] = log[j] => i = j
  <2>1. e \in Entries /\ n \in Nat /\ DOMAIN log = 1..n
    BY DEF Numbered
  <2> QED BY <2>1, LogFacts, ConsoleAssumption
<1>1. PICK u, a, m \in 0..n : k..n = (u + 1)..n /\ Window(log, s, u, a, m)
  BY DEF FeedShows
<1>2. k = u + 1 /\ u + 1 \in 0..n
  <2>1. k \in 1..n /\ k \in k..n
    BY <1>0
  <2>2. k \in (u + 1)..n
    BY <1>1, <2>1
  <2>3. u + 1 \in (u + 1)..n
    BY <1>0, <2>1, <2>2
  <2>4. u + 1 \in k..n
    BY <1>1, <2>3
  <2> QED BY <1>0, <2>1, <2>2, <2>4
<1>3. /\ a <= u
      /\ \/ a = u /\ u <= m
         \/ a + L < m
      /\ Len(s) = IF (u - a) + m < L THEN (u - a) + m ELSE L
      /\ \A j \in 1..Len(s) :
             s[j] = IF j <= u - a THEN log[(u - j) + 1] ELSE log[((m + (u - a)) - j) + 1]
  BY <1>1 DEF Window
<1>4. /\ Len(t) = IF Len(s) + 1 < L THEN Len(s) + 1 ELSE L
      /\ \A j \in 1..Len(t) : t[j] = IF j = 1 THEN e ELSE s[j - 1]
  <2> DEFINE r == <<e>> \o s
  <2>1. /\ r \in Seq(Entries) /\ Len(r) = Len(s) + 1 /\ r[1] = e
        /\ \A i \in 2..(Len(s) + 1) : r[i] = s[i - 1]
    BY <1>0, OnTopIs
  <2> HIDE DEF r, e
  <2>2. /\ Len(FirstOf(L, r)) = IF Len(r) < L THEN Len(r) ELSE L
        /\ \A i \in 1..Len(FirstOf(L, r)) : FirstOf(L, r)[i] = r[i]
    BY <1>0, <2>1, FirstOfIs
  <2>3. t = FirstOf(L, r)
    BY DEF r
  <2> HIDE DEF t, L
  <2>4. Len(t) = IF Len(s) + 1 < L THEN Len(s) + 1 ELSE L
    BY <1>0, <2>1, <2>2, <2>3
  <2>5. \A j \in 1..Len(t) : j = 1 \/ j \in 2..(Len(s) + 1)
    BY <1>0, <2>4
  <2>6. \A j \in 1..Len(t) : t[j] = IF j = 1 THEN e ELSE s[j - 1]
    BY <2>1, <2>2, <2>3, <2>5
  <2> QED BY <2>4, <2>6
<1>5. MergeFeed(e, s) = IF Has(e, s) THEN s ELSE t
  BY DEF MergeFeed
<1> HIDE DEF n, L, t
<1>6. Has(e, s) <=> m - a \in 1..Len(s) /\ u < m
  <2>1. ASSUME Has(e, s) PROVE m - a \in 1..Len(s) /\ u < m
    <3>1. PICK j \in 1..Len(s) : s[j] = log[k]
      BY <1>0, <2>1 DEF Has
    <3>2. CASE j <= u - a
      <4>1. (u - j) + 1 \in 1..n /\ s[j] = log[(u - j) + 1]
        BY <1>0, <1>2, <1>3, <3>2
      <4>2. (u - j) + 1 = k
        BY <1>0, <3>1, <4>1
      <4> QED BY <1>2, <4>2
    <3>3. CASE ~(j <= u - a)
      <4>1. ((m + (u - a)) - j) + 1 \in 1..n /\ s[j] = log[((m + (u - a)) - j) + 1]
        BY <1>0, <1>2, <1>3, <3>3
      <4>2. ((m + (u - a)) - j) + 1 = k
        BY <1>0, <3>1, <4>1
      <4>3. j = m - a
        BY <1>0, <1>2, <4>2
      <4> QED BY <1>0, <1>2, <1>3, <3>3, <4>3
    <3> QED BY <3>2, <3>3
  <2>2. ASSUME m - a \in 1..Len(s), u < m PROVE Has(e, s)
    <3>1. ~(m - a <= u - a) /\ ((m + (u - a)) - (m - a)) + 1 = k
      BY <1>2, <2>2
    <3>2. s[m - a] = log[k]
      BY <1>3, <2>2, <3>1
    <3> QED BY <1>0, <2>2, <3>2 DEF Has
  <2> QED BY <2>1, <2>2
<1> HIDE DEF e
<1>7. CASE Has(e, s)
  <2>1. a = u /\ u + 1 <= m
    BY <1>0, <1>3, <1>6, <1>7
  <2>2. Window(log, s, u + 1, u + 1, m)
    <3>1. (u + 1) - (u + 1) = 0 /\ u - a = 0 /\ 0 + m = m /\ m + 0 = m
      BY <2>1
    <3>2. \A j \in 1..Len(s) : ~(j <= 0)
      BY <1>0
    <3>3. /\ Len(s) = IF 0 + m < L THEN 0 + m ELSE L
          /\ \A j \in 1..Len(s) : s[j] = IF j <= 0 THEN log[((u + 1) - j) + 1] ELSE log[((m + 0) - j) + 1]
      BY <1>3, <3>1, <3>2
    <3>4. u + 1 <= u + 1
      BY <1>2
    <3> QED BY <2>1, <3>1, <3>3, <3>4 DEF Window, L
  <2> QED BY <1>2, <1>5, <1>7, <2>2 DEF FeedShows, e, n
<1>8. CASE ~Has(e, s) /\ a + L < m
  <2>1. Window(log, t, u + 1, a, m)
    <3>1. a <= u + 1 /\ (u + 1) - a = (u - a) + 1
      BY <1>3
    <3>2. Len(t) = IF ((u + 1) - a) + m < L THEN ((u + 1) - a) + m ELSE L
      BY <1>0, <1>3, <1>4
    <3>3. ASSUME NEW j \in 1..Len(t)
          PROVE  t[j] = IF j <= (u + 1) - a THEN log[((u + 1) - j) + 1]
                        ELSE log[((m + ((u + 1) - a)) - j) + 1]
      <4>1. CASE j = 1
        <5>1. j <= (u + 1) - a /\ ((u + 1) - j) + 1 = k
          BY <1>2, <1>3, <4>1
        <5> QED BY <1>4, <4>1, <5>1 DEF e
      <4>2. CASE j # 1
        <5>1. j - 1 \in 1..Len(s) /\ t[j] = s[j - 1]
          BY <1>0, <1>4, <4>2
        <5>2. /\ j - 1 <= u - a <=> j <= (u + 1) - a
              /\ (u - (j - 1)) + 1 = ((u + 1) - j) + 1
              /\ ((m + (u - a)) - (j - 1)) + 1 = ((m + ((u + 1) - a)) - j) + 1
          BY <1>0
        <5> QED BY <1>3, <5>1, <5>2
      <4> QED BY <4>1, <4>2
    <3> QED BY <1>8, <3>1, <3>2, <3>3 DEF Window, L
  <2> QED BY <1>2, <1>5, <1>8, <2>1 DEF FeedShows, e, n
<1>9. CASE ~Has(e, s) /\ ~(a + L < m)
  <2>1. a = u /\ m = u
    <3>1. a = u /\ u <= m
      BY <1>3, <1>9
    <3>2. ~(u < m)
      BY <1>0, <1>3, <1>6, <1>9, <3>1
    <3> QED BY <3>1, <3>2
  <2>2. Window(log, t, u + 1, u + 1, u + 1)
    <3>1. (u + 1) - (u + 1) = 0 /\ u - a = 0 /\ 0 + (u + 1) = u + 1 /\ (u + 1) + 0 = u + 1
          /\ 0 + m = m /\ m + 0 = m
      BY <2>1
    <3>2. Len(t) = IF 0 + (u + 1) < L THEN 0 + (u + 1) ELSE L
      <4>1. Len(s) = IF u < L THEN u ELSE L
        BY <1>3, <2>1, <3>1
      <4>2. u \in Nat
        BY <1>0
      <4> QED BY <1>0, <1>4, <4>1, <4>2
    <3>3. ASSUME NEW j \in 1..Len(t)
          PROVE  t[j] = IF j <= 0 THEN log[((u + 1) - j) + 1]
                        ELSE log[(((u + 1) + 0) - j) + 1]
      <4>1. CASE j = 1
        <5>1. ~(j <= 0) /\ (((u + 1) + 0) - j) + 1 = k
          BY <1>2, <4>1
        <5> QED BY <1>4, <4>1, <5>1 DEF e
      <4>2. CASE j # 1
        <5>1. j - 1 \in 1..Len(s) /\ t[j] = s[j - 1] /\ ~(j <= 0) /\ ~(j - 1 <= u - a)
          BY <1>0, <1>4, <2>1, <4>2
        <5>2. ((m + (u - a)) - (j - 1)) + 1 = (((u + 1) + 0) - j) + 1
          BY <1>0, <2>1
        <5> QED BY <1>3, <5>1, <5>2
      <4> QED BY <4>1, <4>2
    <3>4. u + 1 <= u + 1
      BY <1>2
    <3> QED BY <3>1, <3>2, <3>3, <3>4 DEF Window, L
  <2> QED BY <1>2, <1>5, <1>9, <2>2 DEF FeedShows, e, n
<1> QED BY <1>7, <1>8, <1>9

LEMMA MergeShows ==
    ASSUME Numbered, panel \in Panels, panel # "metrics", data \in Answers,
           NEW S \in SUBSET DOMAIN log, NEW k \in S, panel \in Unordered \/ S = k..Len(log),
           Shows(panel, watched, log, data, S)
    PROVE  Shows(panel, watched, log, Merged(log[k]), S \ {k})
<1> DEFINE e == log[k]
           s == data.items
           T == S \ {k}
<1>0. /\ panel \in AllPanels /\ k \in DOMAIN log /\ s \in Seq(Entries)
      /\ Len(log) \in Nat /\ DOMAIN log = 1..Len(log)
  BY ConsoleAssumption DEF Answers, Numbered
<1>1. ASSUME NEW t, Merged(e) = [data EXCEPT !.loaded = TRUE, !.items = t]
      PROVE  Merged(e).loaded /\ Merged(e).items = t /\ Merged(e).total = data.total
  BY <1>1 DEF Answers
<1>2. data.loaded /\ (panel # "history" => data.total = 0)
  BY DEF Shows
<1>3. panel \in Unordered \/ (S = k..Len(log) /\ T = (k + 1)..Len(log))
  <2>1. ASSUME S = k..Len(log) PROVE S \ {k} = (k + 1)..Len(log)
    BY <1>0, <2>1
  <2> QED BY <2>1
<1> HIDE DEF e, s, T
<1>4. CASE panel = "active"
  <2>1. /\ Merged(e).loaded /\ Merged(e).items = MergeActive(e, s)
        /\ Merged(e).total = data.total
    BY <1>1, <1>4 DEF Merged, s
  <2>2. ActiveShows(log, MergeActive(e, s), T)
    BY <1>0, <1>3, <1>4, ActiveMerge DEF Shows, Unordered, e, s
  <2> QED BY <1>2, <1>4, <2>1, <2>2 DEF Shows, e, T
<1>5. CASE panel = "history"
  <2>1. Merged(e) = MergeHistory(e, data)
    BY <1>5 DEF Merged
  <2>2. MergeHistory(e, data).loaded
        /\ HistoryShows(log, MergeHistory(e, data).items, MergeHistory(e, data).total, T)
    BY <1>0, <1>2, <1>3, <1>5, HistoryMerge DEF Shows, Unordered, e
  <2> QED BY <1>5, <2>1, <2>2 DEF Shows, e, T
<1>6. CASE panel = "queue"
  <2>1. /\ Merged(e).loaded /\ Merged(e).items = MergeQueue(e, s)
        /\ Merged(e).total = data.total
    BY <1>1, <1>6 DEF Merged, s
  <2>2. /\ \A i \in DOMAIN log \ T : i = k \/ i \notin S
        /\ \A i \in DOMAIN log : log[i].op = log[k].op /\ k < i => i \in T
    BY <1>0, <1>3, <1>6 DEF Unordered, T
  <2>3. QueueShows(log, s, S)
    BY <1>6 DEF Shows, s
  <2>4. QueueShows(log, MergeQueue(e, s), T)
    BY <1>0, <2>2, <2>3, QueueMerge DEF e
  <2> QED BY <1>2, <1>6, <2>1, <2>4 DEF Shows, e, T
<1>7. CASE panel = "operation"
  <2>1. /\ Merged(e).loaded /\ Merged(e).items = MergeOperation(e, s)
        /\ Merged(e).total = data.total
    BY <1>1, <1>7 DEF Merged, s
  <2>2. OperationShows(watched, log, MergeOperation(e, s), T)
    BY <1>0, <1>7, OperationMerge DEF Shows, e, s, T
  <2> QED BY <1>2, <1>7, <2>1, <2>2 DEF Shows, e, T
<1>8. CASE panel = "records"
  <2>1. /\ Merged(e).loaded /\ Merged(e).items = MergeRecords(e, s)
        /\ Merged(e).total = data.total
    BY <1>1, <1>8 DEF Merged, s
  <2>2. RecordsShow(watched, log, MergeRecords(e, s), T)
    BY <1>0, <1>8, RecordsMerge DEF Shows, e, s, T
  <2> QED BY <1>2, <1>8, <2>1, <2>2 DEF Shows, e, T
<1>9. CASE panel = "feed"
  <2>1. /\ Merged(e).loaded /\ Merged(e).items = MergeFeed(e, s)
        /\ Merged(e).total = data.total
    BY <1>1, <1>9 DEF Merged, s
  <2>2. FeedShows(log, MergeFeed(e, s), T)
    BY <1>0, <1>3, <1>9, FeedMerge DEF Shows, Unordered, e, s
  <2> QED BY <1>2, <1>9, <2>1, <2>2 DEF Shows, e, T
<1> QED BY <1>0, <1>4, <1>5, <1>6, <1>7, <1>8, <1>9 DEF AllPanels

\* The job a command returned, when the panel shows nothing newer of it.
LEMMA CommandShows ==
    ASSUME Numbered, panel = "queue", data \in Answers,
           NEW S \in SUBSET DOMAIN log, Has(command, log),
           \A i \in DOMAIN data.items :
              data.items[i].op = command.op => ~(data.items[i].version > command.version),
           Shows(panel, watched, log, data, S)
    PROVE  Shows(panel, watched, log, Merged(command), S)
<1> DEFINE s == data.items
           t == MergeQueue(command, s)
<1>1. PICK k \in DOMAIN log : log[k] = command
  BY DEF Has
<1>2. data.items \in Seq(Entries) /\ data.loaded /\ data.total = 0 /\ QueueShows(log, data.items, S)
  BY DEF Answers, Shows
<1>3. /\ DOMAIN s = Ops /\ \A o \in Ops : s[o].op = o /\ (~Lists(o, log) => s[o] = Entry(o, 0))
      /\ \A i \in DOMAIN log \ S : Newest(log, i) => Has(log[i], s)
  BY <1>2 DEF QueueShows
<1>4. /\ \A i \in DOMAIN log : log[i] \in Entries /\ log[i].op \in Ops /\ log[i].version \in Nat
      /\ \A i \in DOMAIN s : s[i].version \in Nat
  <2>1. \A x \in Entries : x.op \in Ops /\ x.version \in Nat
    BY DEF Entries
  <2>2. \A i \in DOMAIN s : s[i] \in Entries
    BY <1>2
  <2>3. \A i \in DOMAIN log : log[i] \in Entries
    BY DEF Numbered
  <2> QED BY <2>1, <2>2, <2>3
<1> HIDE DEF s
<1>5. t = InPlace(command, s)
  BY <1>1, <1>3, <1>4 DEF MergeQueue, Lists
<1>6. DOMAIN t = Ops /\ \A o \in Ops : t[o] = IF o = command.op THEN command ELSE s[o]
  BY <1>3, <1>5 DEF InPlace
<1> HIDE DEF t
<1>7. \A o \in Ops : t[o].op = o /\ (~Lists(o, log) => t[o] = Entry(o, 0))
  <2>1. Lists(command.op, log)
    BY <1>1 DEF Lists
  <2> QED BY <1>3, <1>6, <2>1
<1>8. ASSUME NEW i \in DOMAIN log \ S, Newest(log, i) PROVE Has(log[i], t)
  <2>1. PICK o \in Ops : s[o] = log[i]
    BY <1>3, <1>8 DEF Has
  <2>2. o = log[i].op
    BY <1>3, <2>1
  <2>3. CASE o # command.op
    BY <1>6, <2>1, <2>3 DEF Has
  <2>4. CASE o = command.op
    <3>1. ~(log[i].version > log[k].version)
      BY <1>1, <1>3, <2>1, <2>2, <2>4 DEF s
    <3>2. log[k].op = log[i].op /\ k <= i
      BY <1>1, <1>8, <2>2, <2>4 DEF Newest
    <3>3. ~(k < i)
      BY <1>4, <3>1, <3>2, LogFacts
    <3>4. k = i
      BY <3>2, <3>3 DEF Numbered
    <3>5. t[o] = log[i]
      BY <1>1, <1>6, <2>4, <3>4
    <3> QED BY <1>6, <3>5 DEF Has
  <2> QED BY <2>3, <2>4
<1>9. QueueShows(log, t, S)
  BY <1>6, <1>7, <1>8 DEF QueueShows
<1>10. Merged(command) = [data EXCEPT !.loaded = TRUE, !.items = t]
  BY DEF Merged, s, t
<1>11. Merged(command).loaded /\ Merged(command).items = t /\ Merged(command).total = data.total
  BY <1>10 DEF Answers
<1> QED BY <1>2, <1>9, <1>11 DEF Shows

---------------------------------------------------------------------------
(* With nothing still to come, the log says what a panel shows *)

LEMMA ElementsCount ==
    ASSUME NEW s \in Seq(Entries), Distinct(s)
    PROVE  Cardinality(ToSet(s)) = Len(s)
<1>1. Len(s) \in Nat /\ DOMAIN s = 1..Len(s)
  OBVIOUS
<1>2. IsFiniteSet(1..Len(s)) /\ Cardinality(1..Len(s)) = Len(s)
  BY <1>1, FS_Interval
<1> DEFINE f == [i \in 1..Len(s) |-> s[i]]
<1>3. f \in [1..Len(s) -> ToSet(s)]
  BY <1>1 DEF ToSet
<1>4. \A i, j \in 1..Len(s) : f[i] = f[j] => i = j
  BY <1>1 DEF Distinct
<1>5. \A x \in ToSet(s) : \E i \in 1..Len(s) : f[i] = x
  BY <1>1 DEF ToSet
<1>6. f \in Bijection(1..Len(s), ToSet(s))
  <2> HIDE DEF f
  <2> QED BY <1>3, <1>4, <1>5 DEF Bijection, Injection, Surjection, IsInjective
<1> QED BY <1>2, <1>6, FS_Bijection DEF ExistsBijection

LEMMA ActiveSettled ==
    ASSUME Numbered, NEW s \in Seq(Entries), UniqueOps(s), ActiveShows(log, s, {}), NEW x
    PROVE  Has(x, s) <=> \E i \in DOMAIN log : x = log[i] /\ Newest(log, i) /\ InFlight(x)
<1>1. ASSUME NEW i \in DOMAIN log, x = log[i], Newest(log, i), InFlight(x) PROVE Has(x, s)
  BY <1>1 DEF ActiveShows
<1>2. ASSUME Has(x, s)
      PROVE  \E i \in DOMAIN log : x = log[i] /\ Newest(log, i) /\ InFlight(x)
  <2>1. PICK j \in DOMAIN s : s[j] = x
    BY <1>2 DEF Has
  <2>2. PICK h \in DOMAIN log : log[h] = x
    BY <2>1 DEF ActiveShows, Has
  <2>3. x.op \in Ops /\ VersionOf(x.op) > 0
    BY <2>2, NewestFacts
  <2>4. PICK i \in DOMAIN log : Newest(log, i) /\ log[i] = Entry(x.op, VersionOf(x.op))
    BY <2>3, NewestFacts
  <2>5. log[i].op = x.op
    BY <2>4 DEF Entry
  <2>6. Lists(log[i].op, s)
    BY <2>1, <2>5 DEF Lists
  <2>7. InFlight(log[i]) /\ Has(log[i], s)
    BY <2>4, <2>6 DEF ActiveShows
  <2>8. PICK m \in DOMAIN s : s[m] = log[i]
    BY <2>7 DEF Has
  <2>9. m = j
    BY <2>1, <2>5, <2>8 DEF UniqueOps
  <2> QED BY <2>1, <2>4, <2>7, <2>8, <2>9
<1> QED BY <1>1, <1>2

LEMMA HistorySettled ==
    ASSUME Numbered, NEW s \in Seq(Entries), NEW n, HistoryShows(log, s, n, {})
    PROVE  /\ n = Len(s)
           /\ \A o \in Ops : VersionOf(o) > 0 <=> o <= Len(s)
           /\ Len(s) \in 0..Cardinality(Ops)
           /\ \A k \in 1..Len(s) :
                 s[k] = Entry((Len(s) - k) + 1, VersionOf((Len(s) - k) + 1))
<1>0. Len(s) \in Nat /\ DOMAIN s = 1..Len(s) /\ Ops \subseteq Nat \ {0}
  BY OpsAreNat
<1>1. /\ n = Len(s)
      /\ \A k \in DOMAIN s : s[k].op = (Len(s) - k) + 1 /\ Has(s[k], log)
      /\ \A i \in DOMAIN log : log[i].op <= Len(s) /\ (Newest(log, i) => Has(log[i], s))
  BY DEF HistoryShows
<1>2. \A k \in DOMAIN s : s[k].op \in Ops /\ VersionOf(s[k].op) > 0
  BY <1>1, NewestFacts DEF Has
<1>3. \A o \in Ops : VersionOf(o) > 0 => o <= Len(s)
  <2> SUFFICES ASSUME NEW o \in Ops, VersionOf(o) > 0 PROVE o <= Len(s)
    OBVIOUS
  <2>1. PICK i \in DOMAIN log : log[i] = Entry(o, VersionOf(o))
    BY NewestFacts
  <2>2. log[i].op = o
    BY <2>1 DEF Entry
  <2> QED BY <1>1, <2>2
<1>4. \A o \in Ops : o <= Len(s) => VersionOf(o) > 0
  <2> SUFFICES ASSUME NEW o \in Ops, o <= Len(s) PROVE VersionOf(o) > 0
    OBVIOUS
  <2>1. (Len(s) - o) + 1 \in DOMAIN s /\ (Len(s) - ((Len(s) - o) + 1)) + 1 = o
    BY <1>0
  <2>2. s[(Len(s) - o) + 1].op = o
    BY <1>1, <2>1
  <2> QED BY <1>2, <2>1, <2>2
<1>5. Len(s) \in 0..Cardinality(Ops)
  <2>1. CASE Len(s) = 0
    BY <2>1, OpsAreNat
  <2>2. CASE Len(s) # 0
    <3>1. 1 \in DOMAIN s /\ (Len(s) - 1) + 1 = Len(s)
      BY <1>0, <2>2
    <3>2. Len(s) \in Ops
      BY <1>1, <1>2, <3>1
    <3> QED BY <3>2, OpsAreNat
  <2> QED BY <2>1, <2>2
<1>6. ASSUME NEW k \in 1..Len(s)
      PROVE  s[k] = Entry((Len(s) - k) + 1, VersionOf((Len(s) - k) + 1))
  <2> DEFINE o == (Len(s) - k) + 1
  <2>1. s[k].op = o /\ o \in Ops /\ VersionOf(o) > 0
    BY <1>0, <1>1, <1>2
  <2> HIDE DEF o
  <2>2. PICK i \in DOMAIN log : Newest(log, i) /\ log[i] = Entry(o, VersionOf(o))
    BY <2>1, NewestFacts
  <2>3. log[i].op = o
    BY <2>2 DEF Entry
  <2>4. PICK m \in 1..Len(s) : s[m] = log[i]
    BY <1>0, <1>1, <2>2 DEF Has
  <2>5. (Len(s) - m) + 1 = (Len(s) - k) + 1
    BY <1>0, <1>1, <2>1, <2>3, <2>4
  <2>6. m = k
    BY <1>0, <2>5
  <2> QED BY <2>2, <2>4, <2>6 DEF o
<1> QED BY <1>1, <1>3, <1>4, <1>5, <1>6

LEMMA QueueSettled ==
    ASSUME Numbered, NEW s \in Seq(Entries), QueueShows(log, s, {})
    PROVE  DOMAIN s = Ops /\ \A o \in Ops : s[o] = Entry(o, VersionOf(o))
<1>1. /\ DOMAIN s = Ops /\ \A o \in Ops : s[o].op = o /\ (~Lists(o, log) => s[o] = Entry(o, 0))
      /\ \A i \in DOMAIN log : Newest(log, i) => Has(log[i], s)
  BY DEF QueueShows
<1>2. ASSUME NEW o \in Ops PROVE s[o] = Entry(o, VersionOf(o))
  <2>1. CASE VersionOf(o) > 0
    <3>1. PICK i \in DOMAIN log : Newest(log, i) /\ log[i] = Entry(o, VersionOf(o))
      BY <2>1, NewestFacts
    <3>2. log[i].op = o
      BY <3>1 DEF Entry
    <3> QED BY <1>1, <3>1, <3>2 DEF Has
  <2>2. CASE ~(VersionOf(o) > 0)
    <3>1. VersionOf(o) \in Nat
      BY LogFacts, ConsoleAssumption
    <3>2. VersionOf(o) = 0 /\ ~Lists(o, log)
      BY <2>2, <3>1, NewestFacts
    <3> QED BY <1>1, <3>2
  <2> QED BY <2>1, <2>2
<1> QED BY <1>1, <1>2

LEMMA OperationSettled ==
    ASSUME Numbered, watched \in Ops, NEW s \in Seq(Entries), OperationShows(watched, log, s, {})
    PROVE  Len(s) = 1 /\ VersionOf(watched) # 0 /\ s[1] = Entry(watched, VersionOf(watched))
<1>0. Len(s) \in Nat /\ DOMAIN s = 1..Len(s)
  OBVIOUS
<1>1. /\ Len(s) = 1 /\ \A k \in DOMAIN s : s[k].op = watched /\ Has(s[k], log)
      /\ \A i \in DOMAIN log : log[i].op = watched /\ Newest(log, i) => Has(log[i], s)
  BY DEF OperationShows
<1>2. s[1].op = watched /\ Has(s[1], log)
  BY <1>0, <1>1
<1>3. VersionOf(watched) > 0
  <2>1. Lists(watched, log)
    BY <1>2 DEF Lists, Has
  <2> QED BY <2>1, NewestFacts
<1>4. PICK i \in DOMAIN log : Newest(log, i) /\ log[i] = Entry(watched, VersionOf(watched))
  BY <1>3, NewestFacts
<1>5. Has(log[i], s)
  BY <1>1, <1>4 DEF Entry
<1>6. s[1] = log[i]
  BY <1>0, <1>1, <1>5 DEF Has
<1> QED BY <1>1, <1>3, <1>4, <1>6

LEMMA RecordsSettled ==
    ASSUME Numbered, NEW s \in Seq(Entries), RecordsShow(watched, log, s, {})
    PROVE  \A x : Has(x, s) <=> Has(x, log) /\ x.op = watched
BY DEF RecordsShow, Has

LEMMA FeedSettled ==
    ASSUME Numbered, NEW s \in Seq(Entries), FeedShows(log, s, {})
    PROVE  /\ Len(s) = IF Len(log) < FeedLimit THEN Len(log) ELSE FeedLimit
           /\ \A k \in 1..Len(s) : s[k] = log[(Len(log) - k) + 1]
<1> DEFINE n == Len(log)
<1>0. n \in Nat /\ FeedLimit \in Nat /\ Len(s) \in Nat
  BY ConsoleAssumption DEF Numbered
<1>1. PICK u, a, m \in 0..n : {} = (u + 1)..n /\ Window(log, s, u, a, m)
  BY DEF FeedShows
<1> HIDE DEF n
<1>2. u = n
  <2>1. u \in Nat /\ u <= n
    BY <1>0
  <2>2. ~(u + 1 <= n)
    <3> SUFFICES ASSUME u + 1 <= n PROVE FALSE
      OBVIOUS
    <3>1. u + 1 \in (u + 1)..n
      BY <1>0, <2>1
    <3> QED BY <1>1, <3>1
  <2> QED BY <1>0, <2>1, <2>2
<1>3. /\ a <= u
      /\ \/ a = u /\ u <= m
         \/ a + FeedLimit < m
      /\ Len(s) = IF (u - a) + m < FeedLimit THEN (u - a) + m ELSE FeedLimit
      /\ \A k \in 1..Len(s) :
             s[k] = IF k <= u - a THEN log[(u - k) + 1] ELSE log[((m + (u - a)) - k) + 1]
  BY <1>1 DEF Window
<1>4. CASE a = u /\ u <= m
  <2>1. u - a = 0 /\ m = n /\ 0 + m = m /\ m + 0 = m
    BY <1>0, <1>2, <1>4
  <2>2. Len(s) = IF n < FeedLimit THEN n ELSE FeedLimit
    BY <1>3, <2>1
  <2>3. \A k \in 1..Len(s) : ~(k <= 0)
    BY <1>0
  <2> QED BY <1>3, <2>1, <2>2, <2>3 DEF n
<1>5. CASE a + FeedLimit < m
  <2>1. FeedLimit < u - a /\ FeedLimit < n /\ Len(s) = FeedLimit
    BY <1>0, <1>2, <1>3, <1>5
  <2>2. \A k \in 1..Len(s) : k <= u - a
    BY <1>0, <2>1
  <2>3. ~(n < FeedLimit)
    BY <1>0, <2>1
  <2> QED BY <1>2, <1>3, <2>1, <2>2, <2>3 DEF n
<1> QED BY <1>3, <1>4, <1>5

\* So it shows what a fresh load would show.
LEMMA SettledSame ==
    ASSUME Numbered, Timed, OnOnePage, panel \in Panels, panel # "metrics", watched \in Ops,
           data \in Answers, Neat(data.items), ~data.failed, InOrder,
           Shows(panel, watched, log, data, {}), panel = "records" => InTime(data.items)
    PROVE  Same(data, View)
<1> DEFINE s == data.items
           t == View.items
<1>a. ~View.failed
  <2>1. panel = "operation" => VersionOf(watched) # 0
    BY OperationSettled DEF Shows, Answers
  <2> QED BY <2>1, ViewIs
<1>b. panel = "feed" => ~crossed
  BY DEF InOrder, Unordered
<1>0. /\ panel \in AllPanels /\ View \in Answers /\ Neat(t) /\ View.loaded /\ ~View.failed
      /\ s \in Seq(Entries) /\ t \in Seq(Entries) /\ data.loaded
  BY <1>a, ViewIs, ConsoleAssumption DEF Answers, Shows
<1>1. Shows(panel, watched, log, View, {})
  <2>1. Len(log) \in Nat
    BY DEF Numbered
  <2>2. (Len(log) + 1)..Len(log) = {} /\ Len(log) \in 0..Len(log)
    BY <2>1
  <2>3. Proper(panel, {}, Len(log))
    BY <2>2 DEF Proper
  <2> QED BY <1>a, <1>b, <2>3, ViewShows
<1>2. ASSUME s = t, data.total = View.total PROVE data = View
  BY <1>0, <1>2 DEF Answers
<1>3. ASSUME Len(s) = Len(t), \A i \in 1..Len(s) : s[i] = t[i] PROVE s = t
  BY <1>0, <1>3, SeqEqual
<1>4. panel # "history" => data.total = View.total
  BY <1>1 DEF Shows
<1>5. Len(s) \in Nat /\ Len(t) \in Nat /\ DOMAIN s = 1..Len(s) /\ DOMAIN t = 1..Len(t)
  BY <1>0
<1> HIDE DEF s, t
<1>6. CASE panel = "active"
  <2>1. UniqueOps(s) /\ UniqueOps(t)
    BY <1>0, <1>6 DEF Neat, ByOperation, s
  <2>2. ActiveShows(log, s, {}) /\ ActiveShows(log, t, {})
    BY <1>1, <1>6 DEF Shows, s, t
  <2>3. \A x : Has(x, s) <=> \E i \in DOMAIN log : x = log[i] /\ Newest(log, i) /\ InFlight(x)
    BY <1>0, <2>1, <2>2, ActiveSettled
  <2>4. \A x : Has(x, t) <=> \E i \in DOMAIN log : x = log[i] /\ Newest(log, i) /\ InFlight(x)
    BY <1>0, <2>1, <2>2, ActiveSettled
  <2>5. \A x : Has(x, s) <=> Has(x, t)
    BY <2>3, <2>4
  <2>6. \A x : (x \in ToSet(s) <=> Has(x, s)) /\ (x \in ToSet(t) <=> Has(x, t))
    BY DEF ToSet, Has
  <2>7. ToSet(s) = ToSet(t)
    BY <2>5, <2>6
  <2>8. Distinct(s) /\ Distinct(t)
    BY <2>1 DEF UniqueOps, Distinct
  <2>9. Cardinality(ToSet(s)) = Len(s) /\ Cardinality(ToSet(t)) = Len(t)
    BY <1>0, <2>8, ElementsCount
  <2> QED BY <1>6, <2>7, <2>9 DEF Same, s, t
<1>7. CASE panel = "history"
  <2>1. HistoryShows(log, s, data.total, {}) /\ HistoryShows(log, t, View.total, {})
    BY <1>1, <1>7 DEF Shows, s, t
  <2>2. /\ data.total = Len(s)
        /\ \A o \in Ops : VersionOf(o) > 0 <=> o <= Len(s)
        /\ Len(s) \in 0..Cardinality(Ops)
        /\ \A k \in 1..Len(s) :
              s[k] = Entry((Len(s) - k) + 1, VersionOf((Len(s) - k) + 1))
    BY <1>0, <2>1, HistorySettled
  <2>3. /\ View.total = Len(t)
        /\ \A o \in Ops : VersionOf(o) > 0 <=> o <= Len(t)
        /\ Len(t) \in 0..Cardinality(Ops)
        /\ \A k \in 1..Len(t) :
              t[k] = Entry((Len(t) - k) + 1, VersionOf((Len(t) - k) + 1))
    BY <1>0, <2>1, HistorySettled
  <2>4. Len(s) = Len(t)
    <3>1. Len(s) = 0 \/ Len(s) \in Ops
      BY <2>2, OpsAreNat
    <3>2. Len(t) = 0 \/ Len(t) \in Ops
      BY <2>3, OpsAreNat
    <3>3. ~(Len(s) < Len(t))
      BY <1>5, <2>2, <2>3, <3>2
    <3>4. ~(Len(t) < Len(s))
      BY <1>5, <2>2, <2>3, <3>1
    <3>5. Len(s) \in Nat /\ Len(t) \in Nat
      BY <1>5
    <3>6. \A i, j \in Nat : ~(i < j) /\ ~(j < i) => i = j
      OBVIOUS
    <3> QED BY <3>3, <3>4, <3>5, <3>6
  <2>5. s = t /\ data.total = View.total
    BY <1>3, <2>2, <2>3, <2>4
  <2> QED BY <1>2, <1>7, <2>5 DEF Same
<1>8. CASE panel = "queue"
  <2>1. QueueShows(log, s, {}) /\ QueueShows(log, t, {})
    BY <1>1, <1>8 DEF Shows, s, t
  <2>2. DOMAIN s = Ops /\ \A o \in Ops : s[o] = Entry(o, VersionOf(o))
    BY <1>0, <2>1, QueueSettled
  <2>3. DOMAIN t = Ops /\ \A o \in Ops : t[o] = Entry(o, VersionOf(o))
    BY <1>0, <2>1, QueueSettled
  <2>4. Len(s) = Len(t)
    BY <1>0, <2>2, <2>3
  <2>5. s = t
    BY <1>3, <1>5, <2>2, <2>3, <2>4
  <2> QED BY <1>2, <1>4, <1>8, <2>5 DEF Same
<1>9. CASE panel = "operation"
  <2>1. OperationShows(watched, log, s, {}) /\ OperationShows(watched, log, t, {})
    BY <1>1, <1>9 DEF Shows, s, t
  <2>2. Len(s) = 1 /\ s[1] = Entry(watched, VersionOf(watched))
    BY <1>0, <2>1, OperationSettled
  <2>3. Len(t) = 1 /\ t[1] = Entry(watched, VersionOf(watched))
    BY <1>0, <2>1, OperationSettled
  <2>4. s = t
    BY <1>3, <2>2, <2>3
  <2> QED BY <1>2, <1>4, <1>9, <2>4 DEF Same
<1>10. CASE panel = "records"
  <2>1. RecordsShow(watched, log, s, {}) /\ RecordsShow(watched, log, t, {})
    BY <1>1, <1>10 DEF Shows, s, t
  <2>2. \A x : Has(x, s) <=> Has(x, t)
    BY <1>0, <2>1, RecordsSettled
  <2>3. InTime(s) /\ InTime(t)
    <3>1. t = Of(watched, occurred)
      BY <1>10 DEF t, View, Loaded
    <3> QED BY <1>10, <3>1, RecordsView DEF s
  <2>4. s = t
    BY <1>0, <2>2, <2>3, SameInTime
  <2> QED BY <1>2, <1>4, <1>10, <2>4 DEF Same
<1>11. CASE panel = "feed"
  <2>1. FeedShows(log, s, {}) /\ FeedShows(log, t, {})
    BY <1>1, <1>11 DEF Shows, s, t
  <2>2. /\ Len(s) = IF Len(log) < FeedLimit THEN Len(log) ELSE FeedLimit
        /\ \A k \in 1..Len(s) : s[k] = log[(Len(log) - k) + 1]
    BY <1>0, <2>1, FeedSettled
  <2>3. /\ Len(t) = IF Len(log) < FeedLimit THEN Len(log) ELSE FeedLimit
        /\ \A k \in 1..Len(t) : t[k] = log[(Len(log) - k) + 1]
    BY <1>0, <2>1, FeedSettled
  <2>4. s = t
    BY <1>3, <2>2, <2>3
  <2> QED BY <1>2, <1>4, <1>11, <2>4 DEF Same
<1> QED BY <1>0, <1>6, <1>7, <1>8, <1>9, <1>10, <1>11 DEF AllPanels

---------------------------------------------------------------------------
(* How what is still to come changes *)

LEMMA PendingOrder ==
    ASSUME Typed, Channel
    PROVE  /\ Pending \in SUBSET DOMAIN log /\ (InOrder => Proper(panel, Pending, Len(log)))
           /\ \A u, v \in 0..Len(log) : Queue(u, v) => Pending = (u + 1)..Len(log)
<1>0. /\ Len(log) \in Nat /\ DOMAIN log = 1..Len(log) /\ wire \in Seq(Entries)
      /\ \A i, j \in DOMAIN log : log[i] = log[j] => i = j
  BY LogFacts DEF Typed, Numbered
<1>1. ASSUME NEW u \in 0..Len(log), NEW v \in 0..Len(log), Queue(u, v)
      PROVE  Pending = (u + 1)..Len(log)
  <2>1. /\ u <= v /\ Len(wire) = v - u /\ DOMAIN wire = 1..(v - u)
        /\ \A k \in 1..(v - u) : wire[k] = log[u + k]
        /\ unpublished = {log[i] : i \in (v + 1)..Len(log)}
    BY <1>0, <1>1 DEF Queue
  <2>2. ASSUME NEW i \in Pending PROVE i \in (u + 1)..Len(log)
    <3>1. i \in DOMAIN log /\ (log[i] \in unpublished \/ Has(log[i], wire))
      BY DEF Pending
    <3>2. CASE log[i] \in unpublished
      <4>1. PICK j \in (v + 1)..Len(log) : log[i] = log[j]
        BY <2>1, <3>2
      <4>2. j \in DOMAIN log
        BY <1>0
      <4>3. i = j
        BY <1>0, <3>1, <4>1, <4>2
      <4> QED BY <1>0, <2>1, <4>3
    <3>3. CASE Has(log[i], wire)
      <4>1. PICK k \in 1..(v - u) : wire[k] = log[i]
        BY <2>1, <3>3 DEF Has
      <4>2. u + k \in DOMAIN log /\ log[i] = log[u + k]
        BY <1>0, <2>1, <4>1
      <4>3. i = u + k
        BY <1>0, <3>1, <4>2
      <4> QED BY <1>0, <2>1, <3>1, <4>3
    <3> QED BY <3>1, <3>2, <3>3
  <2>3. ASSUME NEW i \in (u + 1)..Len(log) PROVE i \in Pending
    <3>1. i \in DOMAIN log
      BY <1>0
    <3>2. CASE i \in (v + 1)..Len(log)
      BY <2>1, <3>1, <3>2 DEF Pending
    <3>3. CASE ~(i \in (v + 1)..Len(log))
      <4>1. i - u \in 1..(v - u) /\ u + (i - u) = i
        BY <1>0, <3>3
      <4>2. wire[i - u] = log[i]
        BY <2>1, <4>1
      <4> QED BY <2>1, <3>1, <4>1, <4>2 DEF Pending, Has
    <3> QED BY <3>2, <3>3
  <2> QED BY <2>2, <2>3
<1>2. Pending \in SUBSET DOMAIN log
  BY DEF Pending
<1>3. InOrder => Proper(panel, Pending, Len(log))
  BY <1>1 DEF Channel, Proper, InOrder
<1> QED BY <1>1, <1>2, <1>3

\* The next push is of an entry that was still to come; where pushes come in order it is
\* the first of those.
LEMMA NextPush ==
    ASSUME Typed, Channel, wire # <<>>
    PROVE  \E k \in Pending :
              /\ log[k] = Head(wire) /\ (InOrder => panel \in Unordered \/ Pending = k..Len(log))
              /\ {i \in DOMAIN log : log[i] \in unpublished \/ Has(log[i], Tail(wire))}
                     = Pending \ {k}
<1>0. /\ Len(log) \in Nat /\ DOMAIN log = 1..Len(log) /\ wire \in Seq(Entries)
      /\ \A i, j \in DOMAIN log : log[i] = log[j] => i = j
  BY LogFacts DEF Typed, Numbered
<1>1. /\ Len(wire) \in Nat \ {0} /\ DOMAIN wire = 1..Len(wire) /\ Head(wire) = wire[1]
      /\ Len(Tail(wire)) = Len(wire) - 1 /\ DOMAIN Tail(wire) = 1..(Len(wire) - 1)
      /\ \A i \in 1..(Len(wire) - 1) : Tail(wire)[i] = wire[i + 1]
  BY <1>0
<1>2. 1 \in DOMAIN wire
  BY <1>1
<1>3. Has(wire[1], log) /\ Distinct(wire) /\ \A e \in unpublished : ~Has(e, wire)
  BY <1>2 DEF Channel
<1>4. PICK k \in DOMAIN log : log[k] = wire[1]
  BY <1>3 DEF Has
<1>5. k \in Pending
  BY <1>2, <1>4 DEF Pending, Has
<1>6. \A x : Has(x, Tail(wire)) <=> Has(x, wire) /\ x # wire[1]
  <2>1. ASSUME NEW x, Has(x, Tail(wire)) PROVE Has(x, wire) /\ x # wire[1]
    <3>1. PICK i \in 1..(Len(wire) - 1) : Tail(wire)[i] = x
      BY <1>1, <2>1 DEF Has
    <3>2. i + 1 \in DOMAIN wire /\ i + 1 # 1 /\ wire[i + 1] = x
      BY <1>1, <3>1
    <3> QED BY <1>2, <1>3, <3>2 DEF Has, Distinct
  <2>2. ASSUME NEW x, Has(x, wire), x # wire[1] PROVE Has(x, Tail(wire))
    <3>1. PICK i \in DOMAIN wire : wire[i] = x
      BY <2>2 DEF Has
    <3>2. i - 1 \in 1..(Len(wire) - 1) /\ (i - 1) + 1 = i
      BY <1>1, <2>2, <3>1
    <3>3. Tail(wire)[i - 1] = x
      BY <1>1, <3>1, <3>2
    <3> QED BY <1>1, <3>2, <3>3 DEF Has
  <2> QED BY <2>1, <2>2
<1>7. {i \in DOMAIN log : log[i] \in unpublished \/ Has(log[i], Tail(wire))} = Pending \ {k}
  <2>1. \A i \in DOMAIN log : i = k <=> log[i] = wire[1]
    BY <1>0, <1>4
  <2>2. Has(log[k], wire)
    BY <1>2, <1>4 DEF Has
  <2>3. log[k] \notin unpublished
    BY <1>3, <2>2
  <2> QED BY <1>6, <2>1, <2>3 DEF Pending
<1>8. InOrder => panel \in Unordered \/ Pending = k..Len(log)
  <2> SUFFICES ASSUME ~crossed PROVE Pending = k..Len(log)
    BY DEF InOrder
  <2>1. PICK u, v \in 0..Len(log) : Queue(u, v)
    BY DEF Channel
  <2>2. u <= v /\ Len(wire) = v - u /\ \A j \in 1..(v - u) : wire[j] = log[u + j]
    BY <2>1 DEF Queue
  <2>3. wire[1] = log[u + 1] /\ u + 1 \in DOMAIN log
    BY <1>0, <1>1, <2>2
  <2>4. k = u + 1
    BY <1>0, <1>4, <2>3
  <2> QED BY <2>1, <2>4, PendingOrder
<1> QED BY <1>1, <1>4, <1>5, <1>7, <1>8

LEMMA WriteComes ==
    ASSUME Typed, Channel, NEW o \in Ops, Written(o), UNCHANGED <<panel, wire, connected>>
    PROVE  /\ Channel' /\ Pending' = Pending \cup {Len(log) + 1} /\ (~crossed' => ~crossed)
           /\ log' = Append(log, Entry(o, VersionOf(o) + 1)) /\ log \in Seq(Entries)
           /\ Entry(o, VersionOf(o) + 1) \in Entries
<1> DEFINE e == Entry(o, VersionOf(o) + 1)
           n == Len(log)
<1>0. /\ n \in Nat /\ DOMAIN log = 1..n /\ log \in Seq(Entries) /\ wire \in Seq(Entries)
      /\ log' = Append(log, e) /\ e \in Entries /\ unpublished' = unpublished \cup {e}
  <2>1. VersionOf(o) \in Nat /\ log \in Seq(Entries) /\ n \in Nat /\ DOMAIN log = 1..n
    BY VersionsCount DEF Typed, Numbered
  <2>2. log' = Append(log, e) /\ unpublished' = unpublished \cup {e} /\ VersionOf(o) + 1 <= Final
    BY DEF Written, Entry
  <2>3. e \in Entries
    BY <2>1, <2>2, ConsoleAssumption DEF Entry, Entries
  <2> QED BY <2>1, <2>2, <2>3 DEF Typed
<1>1. ~Has(e, log)
  BY NewEntry DEF Typed
<1>c. ~crossed' => ~crossed
  <2>1. Dated(e)
    BY DEF Written
  <2> HIDE DEF e
  <2> QED BY <1>0, <1>1, <2>1, DatedIs DEF Typed
<1> HIDE DEF e
<1>2. /\ log'[n + 1] = e /\ DOMAIN log' = 1..(n + 1) /\ Len(log') = n + 1
      /\ \A i \in 1..n : log'[i] = log[i]
      /\ \A x : Has(x, log) => Has(x, log')
  <2>1. \A x : Has(x, log) => Has(x, Append(log, e))
    BY <1>0, AppendedIs
  <2> QED BY <1>0, <2>1
<1>3. /\ \A x \in unpublished : Has(x, log) /\ ~Has(x, wire)
      /\ \A k \in DOMAIN wire : Has(wire[k], log)
      /\ Distinct(wire) /\ (~connected => wire = <<>>)
      /\ ~crossed => \E u, v \in 0..n : Queue(u, v)
  BY DEF Channel
<1>4. ~Has(e, wire) /\ Has(e, log')
  <2>1. n + 1 \in DOMAIN log'
    BY <1>0, <1>2
  <2> QED BY <1>1, <1>2, <1>3, <2>1 DEF Has
<1>5. /\ \A x \in unpublished' : Has(x, log') /\ ~Has(x, wire')
      /\ \A k \in DOMAIN wire' : Has(wire'[k], log')
      /\ Distinct(wire') /\ (~connected' => wire' = <<>>)
  BY <1>0, <1>2, <1>3, <1>4
<1>6. ASSUME NEW u \in 0..n, NEW v \in 0..n, Queue(u, v)
      PROVE  Queue(u, v)'
  <2>1. /\ u <= v /\ Len(wire) = v - u
        /\ \A k \in 1..(v - u) : wire[k] = log[u + k]
        /\ unpublished = {log[i] : i \in (v + 1)..n}
    BY <1>6 DEF Queue
  <2>2. \A k \in 1..(v - u) : wire'[k] = log'[u + k]
    BY <1>0, <1>2, <2>1
  <2>3. unpublished' = {log'[i] : i \in (v + 1)..(n + 1)}
    <3>1. \A i \in (v + 1)..n : log'[i] = log[i] /\ i \in (v + 1)..(n + 1)
      BY <1>0, <1>2
    <3>2. \A i \in (v + 1)..(n + 1) : i = n + 1 \/ i \in (v + 1)..n
      BY <1>0
    <3>3. n + 1 \in (v + 1)..(n + 1)
      BY <1>0
    <3>4. \A x : x \in unpublished' <=> x = e \/ \E i \in (v + 1)..n : x = log[i]
      BY <1>0, <2>1
    <3>5. \A x : (x = e \/ \E i \in (v + 1)..n : x = log[i])
                     <=> \E i \in (v + 1)..(n + 1) : x = log'[i]
      BY <1>2, <3>1, <3>2, <3>3
    <3> QED BY <3>4, <3>5
  <2> QED BY <1>2, <2>1, <2>2, <2>3 DEF Queue
<1>7. Channel'
  <2>1. ~crossed' => \E u, v \in 0..Len(log') : Queue(u, v)'
    <3> SUFFICES ASSUME ~crossed'
                 PROVE  \E u, v \in 0..Len(log') : Queue(u, v)'
      OBVIOUS
    <3>1. PICK u, v \in 0..n : Queue(u, v)
      BY <1>3, <1>c
    <3>2. u \in 0..Len(log') /\ v \in 0..Len(log')
      BY <1>0, <1>2
    <3> QED BY <1>6, <3>1, <3>2
  <2> QED BY <1>5, <2>1 DEF Channel
<1>8. Pending' = Pending \cup {n + 1}
  <2>1. \A i \in 1..n : log[i] # e
    BY <1>0, <1>1 DEF Has
  <2>2. \A i : i \in 1..(n + 1) <=> i \in 1..n \/ i = n + 1
    BY <1>0
  <2>3. Pending' = {i \in 1..(n + 1) : log'[i] \in unpublished' \/ Has(log'[i], wire)}
    BY <1>2 DEF Pending
  <2>4. Pending = {i \in 1..n : log[i] \in unpublished \/ Has(log[i], wire)}
    BY <1>0 DEF Pending
  <2> QED BY <1>0, <1>2, <2>1, <2>2, <2>3, <2>4
<1> QED BY <1>0, <1>7, <1>8, <1>c DEF e

LEMMA PublishComes ==
    ASSUME Typed, Channel, NEW e \in unpublished, Publish(e)
    PROVE  Channel' /\ (connected => Pending' = Pending)
<1> DEFINE n == Len(log)
<1>0. /\ n \in Nat /\ DOMAIN log = 1..n /\ log \in Seq(Entries) /\ wire \in Seq(Entries)
      /\ \A i, j \in DOMAIN log : log[i] = log[j] => i = j
      /\ e \in Entries /\ Len(wire) \in Nat /\ DOMAIN wire = 1..Len(wire)
  BY LogFacts DEF Typed, Numbered
<1>1. /\ unpublished' = unpublished \ {e}
      /\ wire' = IF connected THEN Append(wire, e) ELSE wire
      /\ UNCHANGED <<panel, log, connected>>
      /\ ~crossed' => ~crossed /\ \A d \in unpublished : ~WrittenBefore(d, e)
  BY DEF Publish
<1>2. /\ \A x \in unpublished : Has(x, log) /\ ~Has(x, wire)
      /\ \A k \in DOMAIN wire : Has(wire[k], log)
      /\ Distinct(wire) /\ (~connected => wire = <<>>)
      /\ ~crossed => \E u, v \in 0..n : Queue(u, v)
  BY DEF Channel
<1>3. PICK j \in DOMAIN log : log[j] = e
  BY <1>2 DEF Has
<1>4. ASSUME NEW u \in 0..n, NEW v \in 0..n, Queue(u, v), ~crossed'
      PROVE  /\ v + 1 \in 0..n /\ log[v + 1] = e
             /\ unpublished' = {log[i] : i \in ((v + 1) + 1)..n}
  <2>1. unpublished = {log[i] : i \in (v + 1)..n}
    BY <1>4 DEF Queue
  <2>2. PICK h \in (v + 1)..n : e = log[h]
    BY <2>1
  <2>3. h \in DOMAIN log /\ v + 1 \in DOMAIN log /\ v + 1 \in (v + 1)..n
    BY <1>0
  <2>4. ~WrittenBefore(log[v + 1], e)
    BY <1>1, <1>4, <2>1, <2>3
  <2>5. ~(v + 1 < h)
    BY <2>2, <2>3, <2>4 DEF WrittenBefore
  <2>6. h = v + 1
    BY <1>0, <2>5
  <2>7. ASSUME NEW x PROVE x \in unpublished' <=> \E i \in ((v + 1) + 1)..n : x = log[i]
    <3>1. \A i \in (v + 1)..n : i = v + 1 \/ i \in ((v + 1) + 1)..n
      BY <1>0
    <3>2. \A i \in ((v + 1) + 1)..n : i \in (v + 1)..n /\ i # v + 1 /\ i \in DOMAIN log
      BY <1>0
    <3>3. \A i \in ((v + 1) + 1)..n : log[i] # e
      BY <1>0, <2>2, <2>3, <2>6, <3>2
    <3> QED BY <1>1, <2>1, <2>2, <2>6, <3>1, <3>2, <3>3
  <2> QED BY <1>0, <2>2, <2>3, <2>6, <2>7
<1>5. CASE connected
  <2>1. wire' = Append(wire, e) /\ ~Has(e, wire)
    BY <1>1, <1>2, <1>5
  <2>2. /\ Len(wire') = Len(wire) + 1 /\ DOMAIN wire' = 1..(Len(wire) + 1)
        /\ wire'[Len(wire) + 1] = e /\ \A i \in DOMAIN wire : wire'[i] = wire[i]
        /\ \A i \in DOMAIN wire' : i \in DOMAIN wire \/ i = Len(wire) + 1
        /\ \A i \in DOMAIN wire : i \in DOMAIN wire'
        /\ Len(wire) + 1 \in DOMAIN wire'
    BY <1>0, <2>1
  <2>3. \A x : Has(x, wire') <=> Has(x, wire) \/ x = e
    BY <2>2 DEF Has
  <2>4. Pending' = Pending
    BY <1>1, <2>3 DEF Pending
  <2>5. \A x \in unpublished' : Has(x, log') /\ ~Has(x, wire')
    BY <1>1, <1>2, <2>3
  <2>6. \A k \in DOMAIN wire' : Has(wire'[k], log')
    BY <1>1, <1>2, <2>2
  <2>7. Distinct(wire')
    BY <1>2, <2>1, <2>2 DEF Distinct, Has
  <2>8. ~connected' => wire' = <<>>
    BY <1>1, <1>5
  <2>9. ~crossed' => \E u, v \in 0..Len(log') : Queue(u, v)'
    <3> SUFFICES ASSUME ~crossed'
                 PROVE  \E u, v \in 0..n : Queue(u, v)'
      BY <1>1
    <3>1. PICK u, v \in 0..n : Queue(u, v)
      BY <1>1, <1>2
    <3>2. /\ v + 1 \in 0..n /\ log[v + 1] = e
          /\ unpublished' = {log[i] : i \in ((v + 1) + 1)..n}
      BY <1>4, <3>1
    <3>3. u <= v /\ Len(wire) = v - u /\ \A k \in 1..(v - u) : wire[k] = log[u + k]
      BY <3>1 DEF Queue
    <3>4. \A k \in 1..((v + 1) - u) : wire'[k] = log[u + k]
      <4> SUFFICES ASSUME NEW k \in 1..((v + 1) - u) PROVE wire'[k] = log[u + k]
        OBVIOUS
      <4>1. CASE k \in 1..(v - u)
        BY <1>0, <2>2, <3>3, <4>1
      <4>2. CASE k \notin 1..(v - u)
        <5>1. k = Len(wire) + 1 /\ u + k = v + 1
          BY <1>0, <3>3, <4>2
        <5> QED BY <2>2, <3>2, <5>1
      <4> QED BY <4>1, <4>2
    <3>5. Queue(u, v + 1)'
      <4>1. u <= v + 1 /\ Len(wire') = (v + 1) - u
        BY <1>0, <2>2, <3>3
      <4> QED BY <1>1, <3>2, <3>4, <4>1 DEF Queue
    <3> QED BY <3>2, <3>5
  <2> QED BY <2>4, <2>5, <2>6, <2>7, <2>8, <2>9 DEF Channel
<1>6. CASE ~connected
  <2>1. wire' = wire /\ wire = <<>> /\ Len(wire) = 0
    BY <1>1, <1>2, <1>6
  <2>2. ~crossed' => \E u, v \in 0..Len(log') : Queue(u, v)'
    <3> SUFFICES ASSUME ~crossed'
                 PROVE  \E u, v \in 0..n : Queue(u, v)'
      BY <1>1
    <3>1. PICK u, v \in 0..n : Queue(u, v)
      BY <1>1, <1>2
    <3>2. /\ v + 1 \in 0..n /\ log[v + 1] = e
          /\ unpublished' = {log[i] : i \in ((v + 1) + 1)..n}
      BY <1>4, <3>1
    <3>3. /\ v + 1 <= v + 1 /\ Len(wire') = (v + 1) - (v + 1)
          /\ \A k \in 1..((v + 1) - (v + 1)) : wire'[k] = log[(v + 1) + k]
      BY <1>0, <2>1
    <3>4. Queue(v + 1, v + 1)'
      BY <1>1, <3>2, <3>3 DEF Queue
    <3> QED BY <3>2, <3>4
  <2>3. /\ \A x \in unpublished' : Has(x, log') /\ ~Has(x, wire')
        /\ \A k \in DOMAIN wire' : Has(wire'[k], log')
        /\ Distinct(wire') /\ (~connected' => wire' = <<>>)
    BY <1>1, <1>2, <2>1
  <2> QED BY <1>6, <2>2, <2>3 DEF Channel
<1> QED BY <1>5, <1>6

LEMMA ReceiveComes ==
    ASSUME Typed, Channel, Receive
    PROVE  Channel' /\ Pending' = {i \in DOMAIN log : log[i] \in unpublished \/ Has(log[i], Tail(wire))}
<1> DEFINE n == Len(log)
<1>0. /\ n \in Nat /\ DOMAIN log = 1..n /\ log \in Seq(Entries) /\ wire \in Seq(Entries)
      /\ wire # <<>> /\ wire' = Tail(wire) /\ UNCHANGED <<panel, log, unpublished, connected, crossed>>
  BY DEF Typed, Numbered, Receive
<1>1. /\ Len(wire) \in Nat \ {0} /\ DOMAIN wire = 1..Len(wire)
      /\ Len(wire') = Len(wire) - 1 /\ DOMAIN wire' = 1..(Len(wire) - 1)
      /\ \A i \in 1..(Len(wire) - 1) : wire'[i] = wire[i + 1]
  BY <1>0
<1>2. /\ \A x \in unpublished : Has(x, log) /\ ~Has(x, wire)
      /\ \A k \in DOMAIN wire : Has(wire[k], log)
      /\ Distinct(wire) /\ (~connected => wire = <<>>)
      /\ ~crossed => \E u, v \in 0..n : Queue(u, v)
  BY DEF Channel
<1>3. \A i \in DOMAIN wire' : i \in Nat /\ i + 1 \in DOMAIN wire /\ wire'[i] = wire[i + 1]
  BY <1>1
<1>4. /\ \A x \in unpublished' : Has(x, log') /\ ~Has(x, wire')
      /\ \A k \in DOMAIN wire' : Has(wire'[k], log')
  BY <1>0, <1>2, <1>3 DEF Has
<1>5. Distinct(wire')
  <2> SUFFICES ASSUME NEW i \in DOMAIN wire', NEW j \in DOMAIN wire', wire'[i] = wire'[j]
               PROVE  i = j
    BY DEF Distinct
  <2>1. i + 1 = j + 1
    BY <1>2, <1>3 DEF Distinct
  <2> QED BY <1>3, <2>1
<1>6. ~crossed' => \E u, v \in 0..Len(log') : Queue(u, v)'
  <2> SUFFICES ASSUME ~crossed
               PROVE  \E u, v \in 0..n : Queue(u, v)'
    BY <1>0
  <2>1. PICK u, v \in 0..n : Queue(u, v)
    BY <1>2
  <2>2. /\ u <= v /\ Len(wire) = v - u /\ \A k \in 1..(v - u) : wire[k] = log[u + k]
        /\ unpublished = {log[i] : i \in (v + 1)..n}
    BY <2>1 DEF Queue
  <2>3. u + 1 \in 0..n /\ u + 1 <= v /\ Len(wire') = v - (u + 1)
    BY <1>0, <1>1, <2>2
  <2>4. \A k \in 1..(v - (u + 1)) : wire'[k] = log[(u + 1) + k]
    <3> SUFFICES ASSUME NEW k \in 1..(v - (u + 1)) PROVE wire'[k] = log[(u + 1) + k]
      OBVIOUS
    <3>0. k \in Nat /\ k + 1 \in 1..(v - u) /\ k \in 1..(Len(wire) - 1)
      BY <1>0, <2>2
    <3>1. k \in DOMAIN wire' /\ k + 1 \in 1..(v - u) /\ u + (k + 1) = (u + 1) + k
      BY <1>0, <1>1, <3>0
    <3> QED BY <1>3, <2>2, <3>1
  <2>5. Queue(u + 1, v)'
    BY <1>0, <2>2, <2>3, <2>4 DEF Queue
  <2> QED BY <2>3, <2>5
<1>7. ~connected' => wire' = <<>>
  BY <1>0, <1>2
<1>8. Channel'
  BY <1>4, <1>5, <1>6, <1>7 DEF Channel
<1>9. Pending' = {i \in DOMAIN log : log[i] \in unpublished \/ Has(log[i], Tail(wire))}
  BY <1>0 DEF Pending
<1> QED BY <1>8, <1>9

LEMMA DisconnectComes ==
    ASSUME Typed, Channel, Disconnect
    PROVE  Channel' /\ (wire = <<>> => Pending' = Pending)
<1>0. /\ Len(log) \in Nat /\ wire' = <<>> /\ UNCHANGED <<panel, log, unpublished, crossed>>
  BY DEF Typed, Numbered, Disconnect
<1>1. DOMAIN wire' = {} /\ Len(wire') = 0
  BY <1>0
<1>2. \A x : ~Has(x, wire')
  BY <1>1 DEF Has
<1>3. Distinct(wire')
  BY <1>1 DEF Distinct
<1>4. ~crossed' => \E u, v \in 0..Len(log') : Queue(u, v)'
  <2> SUFFICES ASSUME ~crossed
               PROVE  \E u, v \in 0..Len(log) : Queue(u, v)'
    BY <1>0
  <2>1. PICK u, v \in 0..Len(log) : Queue(u, v)
    BY DEF Channel
  <2>2. unpublished = {log[i] : i \in (v + 1)..Len(log)}
    BY <2>1 DEF Queue
  <2>3. v <= v /\ Len(wire') = v - v /\ \A k \in 1..(v - v) : wire'[k] = log[v + k]
    BY <1>0, <1>1
  <2>4. Queue(v, v)'
    BY <1>0, <2>2, <2>3 DEF Queue
  <2> QED BY <2>4
<1>5. Channel'
  BY <1>0, <1>1, <1>2, <1>3, <1>4 DEF Channel
<1>6. ASSUME wire = <<>> PROVE Pending' = Pending
  BY <1>0, <1>6 DEF Pending
<1> QED BY <1>5, <1>6

LEMMA NothingComes ==
    ASSUME Channel, UNCHANGED <<log, unpublished, wire, crossed>>, (connected' = connected) \/ connected'
    PROVE  Channel' /\ Pending' = Pending
<1>1. Pending' = Pending
  BY DEF Pending
<1>2. \A u, v : Queue(u, v)' <=> Queue(u, v)
  BY DEF Queue
<1>3. Channel'
  BY <1>2 DEF Channel
<1> QED BY <1>1, <1>3

LEMMA ChannelInit == Init => Channel
<1> SUFFICES ASSUME Init PROVE Channel
  OBVIOUS
<1>1. log = <<>> /\ unpublished = {} /\ wire = <<>>
  BY DEF Init
<1>2. Len(log) = 0 /\ Len(wire) = 0 /\ DOMAIN wire = {}
  BY <1>1
<1>3. Queue(0, 0) /\ 0 \in 0..Len(log)
  BY <1>1, <1>2 DEF Queue
<1> QED BY <1>1, <1>2, <1>3 DEF Channel, Distinct

---------------------------------------------------------------------------
(* InStep, but for the metrics *)

LEMMA FollowingInit == Init => Following
<1> SUFFICES ASSUME Init PROVE Following
  OBVIOUS
<1>1. fetch.stage = "sent" /\ command = NoEntry
  BY StartIs DEF Init
<1> QED BY <1>1 DEF Following, AnswerHolds, CommandHolds, Live

\* A change is written, by the server itself or for a command of the operator.
LEMMA FollowingWrite ==
    ASSUME Typed, Channel, Following, panel # "metrics", InOrder, NEW o \in Ops, Write(o) \/ Command(o)
    PROVE  Following'
<1> DEFINE e == Entry(o, VersionOf(o) + 1)
           n == Len(log)
<1>0. /\ Written(o) /\ UNCHANGED <<panel, watched, wire, connected, fetch, data, missed>>
      /\ \/ UNCHANGED command
         \/ panel = "queue" /\ command = NoEntry /\ command' = e
  BY DEF Write, Command
<1>1. /\ Pending' = Pending \cup {n + 1} /\ log' = Append(log, e) /\ log \in Seq(Entries) /\ e \in Entries
      /\ Numbered /\ n \in Nat /\ DOMAIN log = 1..n
      /\ Pending \in SUBSET DOMAIN log /\ Proper(panel, Pending, n)
      /\ fetch \in Fetches /\ data \in Answers
  BY <1>0, WriteComes, PendingOrder DEF Typed, Numbered
<1> HIDE DEF e
<1>2. /\ DOMAIN log' = 1..(n + 1) /\ Len(log') = n + 1 /\ log'[n + 1] = e
      /\ \A i \in 1..n : log'[i] = log[i]
      /\ \A x : Has(x, log) => Has(x, log')
  BY <1>1, AppendedIs
<1>3. AnswerHolds /\ CommandHolds /\ (Live => Shows(panel, watched, log, data, Pending))
  BY DEF Following
<1>4. AnswerHolds'
  <2> SUFFICES ASSUME fetch.stage = "answered"
               PROVE  /\ fetch.seen <= n + 1
                      /\ ~missed => (fetch.seen + 1)..(n + 1) \subseteq Pending'
                      /\ ~fetch.answer.failed =>
                            \A T \in SUBSET DOMAIN log' :
                               Proper(panel, T, n + 1) /\ (fetch.seen + 1)..(n + 1) \subseteq T =>
                                   Shows(panel, watched, log', fetch.answer, T)
    BY <1>0, <1>2 DEF AnswerHolds, Beyond
  <2>1. /\ fetch.seen \in Nat /\ fetch.seen <= n /\ fetch.answer \in Answers
        /\ ~missed => (fetch.seen + 1)..n \subseteq Pending
        /\ ~fetch.answer.failed =>
              \A T \in SUBSET DOMAIN log :
                 Proper(panel, T, n) /\ (fetch.seen + 1)..n \subseteq T =>
                     Shows(panel, watched, log, fetch.answer, T)
    BY <1>1, <1>3 DEF AnswerHolds, Beyond, Fetches
  <2>2. (fetch.seen + 1)..(n + 1) = ((fetch.seen + 1)..n) \cup {n + 1}
    BY <1>1, <2>1
  <2>3. ASSUME ~fetch.answer.failed, NEW T \in SUBSET DOMAIN log', Proper(panel, T, n + 1),
               (fetch.seen + 1)..(n + 1) \subseteq T
        PROVE  Shows(panel, watched, log', fetch.answer, T)
    <3> DEFINE S == T \ {n + 1}
    <3>1. S \in SUBSET DOMAIN log /\ (fetch.seen + 1)..n \subseteq S /\ T = S \cup {n + 1}
      <4>1. n + 1 \in T /\ n + 1 \notin (fetch.seen + 1)..n
        BY <1>1, <2>2, <2>3
      <4>2. \A i \in 1..(n + 1) : i # n + 1 => i \in 1..n
        BY <1>1
      <4> QED BY <1>1, <1>2, <2>2, <2>3, <4>1, <4>2
    <3>2. Proper(panel, S, n)
      <4> SUFFICES ASSUME panel \notin Unordered
                   PROVE  \E u \in 0..n : S = (u + 1)..n
        BY DEF Proper
      <4>1. PICK u \in 0..(n + 1) : T = (u + 1)..(n + 1)
        BY <2>3 DEF Proper
      <4>2. n + 1 \in T
        BY <2>2, <2>3
      <4>3. u \in 0..n /\ S = (u + 1)..n
        BY <1>1, <4>1, <4>2
      <4> QED BY <4>3
    <3>3. Shows(panel, watched, log, fetch.answer, S)
      BY <2>1, <2>3, <3>1, <3>2
    <3> HIDE DEF S
    <3> QED BY <1>1, <2>1, <3>1, <3>3, ShowsAppended
  <2> QED BY <1>1, <2>1, <2>2, <2>3
<1>5. CommandHolds'
  <2>1. CASE UNCHANGED command
    BY <1>0, <1>2, <1>3, <2>1 DEF CommandHolds
  <2>2. CASE panel = "queue" /\ command' = e
    <3>1. n + 1 \in DOMAIN log'
      BY <1>1, <1>2
    <3>2. Has(e, log')
      BY <1>2, <3>1 DEF Has
    <3> QED BY <1>0, <2>2, <3>2 DEF CommandHolds
  <2> QED BY <1>0, <2>1, <2>2
<1>6. Live' => Shows(panel, watched, log, data, Pending)'
  <2> SUFFICES ASSUME Live PROVE Shows(panel, watched, log', data, Pending')
    BY <1>0 DEF Live
  <2> QED BY <1>1, <1>3, ShowsAppended
<1> QED BY <1>4, <1>5, <1>6 DEF Following

\* A push is merged; it was to come, and is no longer.
LEMMA FollowingReceive ==
    ASSUME Tidy, Channel, Following, panel # "metrics", InOrder, Receive
    PROVE  Following'
<1>0. /\ Typed /\ Neat(data.items) /\ wire # <<>> /\ wire \in Seq(Entries)
      /\ panel \in Panels /\ data \in Answers /\ fetch \in Fetches /\ Numbered
      /\ log \in Seq(Entries)
  BY DEF Tidy, Typed, Receive, Numbered
<1>1. /\ UNCHANGED <<panel, watched, log, fetch, command>> /\ data' = Merged(Head(wire))
      /\ ~missed' => ~missed /\ ~Overtakes(Head(wire))
  BY DEF Receive
<1>2. PICK k \in Pending :
         /\ log[k] = Head(wire) /\ (panel \in Unordered \/ Pending = k..Len(log))
         /\ {i \in DOMAIN log : log[i] \in unpublished \/ Has(log[i], Tail(wire))} = Pending \ {k}
  BY <1>0, NextPush
<1>3. Pending' = Pending \ {k} /\ Pending \in SUBSET DOMAIN log /\ k \in DOMAIN log
  BY <1>0, <1>2, ReceiveComes, PendingOrder
<1>4. AnswerHolds /\ CommandHolds /\ (Live => Shows(panel, watched, log, data, Pending))
  BY DEF Following
<1>5. ASSUME ~missed', fetch.stage = "answered" PROVE k <= fetch.seen
  <2>1. \A i, j \in DOMAIN log : log[i] = log[j] => i = j
    BY <1>0, LogFacts
  <2>2. \E i \in DOMAIN log : log[i] = log[k] /\ i <= fetch.seen
    BY <1>1, <1>2, <1>5 DEF Overtakes
  <2> QED BY <1>3, <2>1, <2>2
<1>6. AnswerHolds'
  <2> SUFFICES ASSUME fetch.stage = "answered", ~missed'
               PROVE  Beyond(fetch.seen) \subseteq Pending'
    BY <1>1, <1>4 DEF AnswerHolds, Beyond
  <2>1. Beyond(fetch.seen) \subseteq Pending /\ fetch.seen \in Nat
    BY <1>0, <1>1, <1>4 DEF AnswerHolds, Fetches
  <2>2. k \in Nat /\ Len(log) \in Nat
    BY <1>0, <1>3
  <2>3. k \notin Beyond(fetch.seen)
    BY <1>5, <2>1, <2>2 DEF Beyond
  <2> QED BY <1>3, <2>1, <2>3
<1>7. data' \in Answers /\ data'.failed = data.failed
  <2>1. Head(wire) \in Entries
    BY <1>0
  <2> QED BY <1>0, <1>1, <2>1, MergedIs
<1>8. Live' => Live
  BY <1>1, <1>7 DEF Live
<1>9. CommandHolds'
  BY <1>1, <1>4 DEF CommandHolds
<1>10. Live' => Shows(panel, watched, log, data, Pending)'
  <2> SUFFICES ASSUME Live PROVE Shows(panel, watched, log, Merged(log[k]), Pending \ {k})
    BY <1>1, <1>2, <1>3, <1>8
  <2> HIDE DEF Pending
  <2> QED BY <1>0, <1>2, <1>3, <1>4, MergeShows
<1> QED BY <1>6, <1>9, <1>10 DEF Following

\* What has crossed stays so.
LEMMA CrossedStays ==
    ASSUME Typed, Channel, [Next]_vars
    PROVE  UNCHANGED panel /\ (~crossed' => ~crossed)
<1>1. ASSUME NEW o \in Ops, Write(o) PROVE UNCHANGED panel /\ (~crossed' => ~crossed)
  BY <1>1, WriteComes DEF Write
<1>2. ASSUME NEW o \in Ops, Command(o) PROVE UNCHANGED panel /\ (~crossed' => ~crossed)
  BY <1>2, WriteComes DEF Command
<1>3. ASSUME NEW e \in unpublished, Publish(e) PROVE UNCHANGED panel /\ (~crossed' => ~crossed)
  BY <1>3 DEF Publish
<1> QED BY <1>1, <1>2, <1>3 DEF Next, vars, Watch, Read, Answered, FetchFails, Reload, Mount, Receive, Refresh,
           CommandAnswered, CommandLost, Disconnect, Reconnect

LEMMA FailedIs ==
    ASSUME NEW d \in Answers
    PROVE  Failed(d) \in Answers /\ Failed(d).failed /\ Failed(d).items = d.items
BY DEF Failed, Answers

LEMMA FollowingStep == OnOnePage /\ Tidy /\ Channel /\ Following /\ [Next]_vars => Following'
<1> SUFFICES ASSUME OnOnePage, Tidy, Channel, Following, [Next]_vars PROVE Following'
  OBVIOUS
<1>a. Typed
  BY DEF Tidy
<1>p. UNCHANGED panel
  BY <1>a, CrossedStays
<1> SUFFICES ASSUME panel # "metrics", InOrder PROVE Following'
  BY <1>a, <1>p, CrossedStays DEF Following, InOrder
<1>0. Typed /\ AnswerHolds /\ CommandHolds /\ (Live => Shows(panel, watched, log, data, Pending))
  BY <1>a DEF Following
\* While a fetch is on its way to the server nothing is asked of the panel.
<1>s. ASSUME fetch'.stage = "sent", UNCHANGED log, command' \in {command, NoEntry} PROVE Following'
  <2>1. ~Live' /\ AnswerHolds' /\ CommandHolds'
    BY <1>p, <1>s, <1>0 DEF Live, AnswerHolds, CommandHolds
  <2> QED BY <2>1 DEF Following
<1>r. ASSUME Refetched PROVE fetch'.stage = "sent"
  BY <1>r, StartIs DEF Refetched
\* Nothing changed, or the connection was lost with something on it.
<1>k. ASSUME UNCHANGED <<watched, log, fetch, data>>, command' \in {command, NoEntry}, missed' \in BOOLEAN,
             ~missed' => ~missed /\ Pending' = Pending
      PROVE  Following'
  <2>1. AnswerHolds'
    BY <1>p, <1>k, <1>0 DEF AnswerHolds, Beyond
  <2>2. Live' => Live /\ Pending' = Pending
    BY <1>k DEF Live
  <2>3. CommandHolds'
    BY <1>p, <1>k, <1>0 DEF CommandHolds
  <2>4. Live' => Shows(panel, watched, log, data, Pending)'
    BY <1>p, <1>k, <1>0, <2>2
  <2> QED BY <2>1, <2>3, <2>4 DEF Following
<1>1. ASSUME NEW o \in Ops, Write(o) \/ Command(o) PROVE Following'
  BY <1>1, <1>0, FollowingWrite
<1>2. ASSUME NEW o \in Ops, Watch(o) PROVE Following'
  BY <1>2, <1>r, <1>s DEF Watch
<1>3. ASSUME NEW e \in unpublished, Publish(e) PROVE Following'
  <2>1. connected => Pending' = Pending
    BY <1>3, <1>0, PublishComes
  <2>2. missed' \in BOOLEAN /\ (~missed' => ~missed /\ connected)
    BY <1>3 DEF Publish
  <2> QED BY <1>3, <1>k, <2>1, <2>2 DEF Publish
<1>4. CASE Read
  <2>0. /\ UNCHANGED <<watched, log, unpublished, wire, connected, command, data, missed>>
        /\ fetch' = [stage |-> "answered", answer |-> View, seen |-> Len(log)]
    BY <1>4 DEF Read
  <2>1. fetch'.stage = "answered" /\ fetch'.answer = View /\ fetch'.seen = Len(log)
    BY <2>0
  <2>2. Numbered /\ Timed /\ panel \in Panels /\ watched \in Ops /\ Len(log) \in Nat
    BY <1>0 DEF Typed, Numbered
  <2>3. Pending' = Pending
    BY <2>0 DEF Pending
  <2>4. AnswerHolds'
    <3>1. Beyond(Len(log)) = {}
      BY <2>2 DEF Beyond
    <3>2. ~View.failed => \A T \in SUBSET DOMAIN log :
             Proper(panel, T, Len(log)) => Shows(panel, watched, log, View, T)
      BY <2>2, ViewShows DEF InOrder, Unordered
    <3>3. fetch'.seen <= Len(log') /\ Beyond(fetch.seen)' = {}
      BY <2>0, <2>1, <2>2, <3>1 DEF Beyond
    <3> QED BY <1>p, <2>0, <2>1, <3>2, <3>3 DEF AnswerHolds
  <2>5. ~Live'
    BY <2>1 DEF Live
  <2>6. CommandHolds'
    BY <1>p, <1>0, <2>0 DEF CommandHolds
  <2> QED BY <2>4, <2>5, <2>6 DEF Following
<1>5. CASE Answered
  <2>0. /\ UNCHANGED <<watched, log, unpublished, wire, connected, command, missed>>
        /\ fetch.stage = "answered" /\ fetch'.stage = "none"
        /\ data' = (IF fetch.answer.failed THEN Failed(data) ELSE fetch.answer)
    BY <1>5, StartIs DEF Answered
  <2>1. Pending' = Pending
    BY <2>0 DEF Pending
  <2>2. Live' => ~missed /\ ~fetch.answer.failed /\ data' = fetch.answer
    <3>1. Failed(data).failed
      BY <1>0, FailedIs DEF Typed
    <3>2. CASE fetch.answer.failed
      BY <2>0, <3>1, <3>2 DEF Live
    <3>3. CASE ~fetch.answer.failed
      BY <2>0, <3>3 DEF Live
    <3> QED BY <3>2, <3>3
  <2>3. AnswerHolds' /\ CommandHolds'
    BY <1>p, <1>0, <2>0 DEF AnswerHolds, CommandHolds
  <2>4. Live' => Shows(panel, watched, log, data, Pending)'
    <3> SUFFICES ASSUME ~missed, ~fetch.answer.failed PROVE Shows(panel, watched, log, fetch.answer, Pending)
      BY <1>p, <2>0, <2>1, <2>2
    <3>1. Pending \in SUBSET DOMAIN log /\ Proper(panel, Pending, Len(log))
      BY <1>0, PendingOrder
    <3> QED BY <1>0, <2>0, <3>1 DEF AnswerHolds
  <2> QED BY <2>3, <2>4 DEF Following
<1>6. CASE FetchFails
  <2>0. UNCHANGED <<log, command>> /\ fetch'.stage = "none" /\ data' = Failed(data)
    BY <1>6, StartIs DEF FetchFails
  <2>1. data'.failed
    BY <1>0, <2>0, FailedIs DEF Typed
  <2>2. ~Live' /\ AnswerHolds' /\ CommandHolds'
    BY <1>p, <1>0, <2>0, <2>1 DEF Live, AnswerHolds, CommandHolds
  <2> QED BY <2>2 DEF Following
<1>7. CASE Reload
  BY <1>7, <1>r, <1>s DEF Reload
<1>8. CASE Mount
  BY <1>8, <1>r, <1>s DEF Mount
<1>9. CASE Receive
  BY <1>9, FollowingReceive
<1>10. CASE Refresh
  BY <1>10, <1>r, <1>s DEF Refresh
<1>11. CASE CommandAnswered
  <2>0. /\ UNCHANGED <<watched, log, unpublished, wire, connected, fetch>>
        /\ command # NoEntry /\ command' = NoEntry /\ data' = Merged(command)
    BY <1>11 DEF CommandAnswered
  <2>1. Pending' = Pending
    BY <2>0 DEF Pending
  <2>2. panel = "queue" /\ Has(command, log)
    BY <1>0, <2>0 DEF CommandHolds
  <2>3. data'.failed = data.failed
    <3>1. command \in Entries
      BY <1>0, <2>0 DEF Typed
    <3> QED BY <1>0, <2>0, <3>1, MergedIs DEF Typed, Tidy
  <2>4. ~missed' => /\ ~missed
                    /\ \A i \in DOMAIN data.items :
                          data.items[i].op = command.op => ~(data.items[i].version > command.version)
    BY <1>11 DEF CommandAnswered
  <2>5. AnswerHolds'
    BY <1>p, <1>0, <2>0, <2>1, <2>4 DEF AnswerHolds, Beyond
  <2>6. CommandHolds'
    BY <2>0 DEF CommandHolds
  <2>7. Live' => Shows(panel, watched, log, data, Pending)'
    <3> SUFFICES ASSUME Live, ~missed' PROVE Shows(panel, watched, log, Merged(command), Pending)
      BY <1>p, <2>0, <2>1, <2>3, <2>4 DEF Live
    <3>1. Pending \in SUBSET DOMAIN log
      BY <1>0, PendingOrder
    <3> HIDE DEF Pending
    <3> QED BY <1>0, <2>2, <2>4, <3>1, CommandShows DEF Typed
  <2> QED BY <2>5, <2>6, <2>7 DEF Following
<1>12. CASE Disconnect
  <2>1. wire = <<>> => Pending' = Pending
    BY <1>12, <1>0, DisconnectComes
  <2>2. missed' \in BOOLEAN /\ (~missed' => ~missed /\ wire = <<>>)
    BY <1>12 DEF Disconnect
  <2> QED BY <1>12, <1>k, <2>1, <2>2 DEF Disconnect
<1>13. CASE Reconnect
  <2>1. Pending' = Pending /\ missed' \in BOOLEAN
    BY <1>13, <1>0 DEF Reconnect, Pending, Typed
  <2> QED BY <1>13, <1>k, <2>1 DEF Reconnect
<1>14. CASE CommandLost
  <2>1. Pending' = Pending /\ missed' \in BOOLEAN
    BY <1>14, <1>0 DEF CommandLost, Pending, Typed
  <2> QED BY <1>14, <1>k, <2>1 DEF CommandLost
<1>15. CASE UNCHANGED vars
  <2>1. Pending' = Pending /\ missed' \in BOOLEAN
    BY <1>15, <1>0 DEF vars, Pending, Typed
  <2> QED BY <1>15, <1>k, <2>1 DEF vars
<1> QED BY <1>1, <1>2, <1>3, <1>4, <1>5, <1>6, <1>7, <1>8, <1>9, <1>10, <1>11, <1>12, <1>13,
           <1>14, <1>15 DEF Next

LEMMA ChannelStep == Typed /\ Channel /\ [Next]_vars => Channel'
<1> SUFFICES ASSUME Typed, Channel, [Next]_vars PROVE Channel'
  OBVIOUS
<1>k. ASSUME UNCHANGED <<log, unpublished, wire, connected, crossed>> PROVE Channel'
  BY <1>k, NothingComes
<1>1. ASSUME NEW o \in Ops, Write(o) PROVE Channel'
  BY <1>1, WriteComes DEF Write
<1>2. ASSUME NEW o \in Ops, Watch(o) PROVE Channel'
  BY <1>2, <1>k DEF Watch
<1>3. ASSUME NEW o \in Ops, Command(o) PROVE Channel'
  BY <1>3, WriteComes DEF Command
<1>4. ASSUME NEW e \in unpublished, Publish(e) PROVE Channel'
  BY <1>4, PublishComes
<1>5. CASE Read
  BY <1>5, <1>k DEF Read
<1>6. CASE Answered
  BY <1>6, <1>k DEF Answered
<1>7. CASE FetchFails
  BY <1>7, <1>k DEF FetchFails
<1>8. CASE Reload
  BY <1>8, <1>k DEF Reload
<1>9. CASE Mount
  BY <1>9, <1>k DEF Mount
<1>10. CASE Receive
  BY <1>10, ReceiveComes
<1>11. CASE Refresh
  BY <1>11, <1>k DEF Refresh
<1>12. CASE CommandAnswered
  BY <1>12, <1>k DEF CommandAnswered
<1>13. CASE Disconnect
  BY <1>13, DisconnectComes
<1>14. CASE Reconnect
  BY <1>14, NothingComes DEF Reconnect
<1>15. CASE CommandLost
  BY <1>15, <1>k DEF CommandLost
<1>16. CASE UNCHANGED vars
  BY <1>16, <1>k DEF vars
<1> QED BY <1>1, <1>2, <1>3, <1>4, <1>5, <1>6, <1>7, <1>8, <1>9, <1>10, <1>11, <1>12, <1>13,
           <1>14, <1>15, <1>16 DEF Next

---------------------------------------------------------------------------
(* InStep, of the metrics *)

LEMMA MetricsInit == Init => MetricsFollow
<1> SUFFICES ASSUME Init PROVE MetricsFollow
  OBVIOUS
<1>1. fetch.stage = "sent" /\ command = NoEntry /\ data.items = <<>> /\ fetch.answer.items = <<>>
  BY StartIs DEF Init
<1> QED BY <1>1 DEF MetricsFollow, Live, Coming

LEMMA MetricsStep == Tidy /\ Channel /\ MetricsFollow /\ [Next]_vars => MetricsFollow'
<1> SUFFICES ASSUME Tidy, Channel, MetricsFollow, [Next]_vars PROVE MetricsFollow'
  OBVIOUS
<1>p. UNCHANGED panel
  BY DEF Next, vars, Write, Watch, Command, Publish, Read, Answered, FetchFails, Reload, Mount,
         Receive, Refresh, CommandAnswered, CommandLost, Disconnect, Reconnect
<1> SUFFICES ASSUME panel = "metrics" PROVE MetricsFollow'
  BY <1>p DEF MetricsFollow
<1>0. /\ Typed /\ command = NoEntry /\ data.items = <<>> /\ fetch.answer.items = <<>>
      /\ Live => data.loaded /\ (data.total = Len(log) \/ due \/ Pending # {})
      /\ Coming => fetch.answer.loaded
                   /\ (fetch.answer.total = Len(log) \/ due \/ Pending # {})
  BY DEF MetricsFollow, Tidy
<1>s. ASSUME fetch' = Sent, command' = NoEntry, data'.items = <<>> PROVE MetricsFollow'
  BY <1>s, StartIs DEF MetricsFollow, Live, Coming
<1>k. ASSUME UNCHANGED <<fetch, command, data>>, due => due',
             ~missed' => ~missed, due' \/ Pending' # {} \/ (UNCHANGED log /\ (~missed' => Pending' = Pending))
      PROVE  MetricsFollow'
  <2>1. (Live' => Live) /\ (Coming' => Coming)
    BY <1>k DEF Live, Coming
  <2>2. CASE due' \/ Pending' # {}
    BY <1>0, <1>k, <2>1, <2>2 DEF MetricsFollow
  <2>3. CASE UNCHANGED log /\ (~missed' => Pending' = Pending)
    <3>1. (Live' => Pending' = Pending) /\ (Coming' => Pending' = Pending)
      BY <2>3 DEF Live, Coming
    <3> QED BY <1>0, <1>k, <2>1, <2>3, <3>1 DEF MetricsFollow
  <2> QED BY <1>k, <2>2, <2>3
<1>1. ASSUME NEW o \in Ops, Write(o) PROVE MetricsFollow'
  <2>1. Pending' = Pending \cup {Len(log) + 1}
    BY <1>1, <1>0, WriteComes DEF Write
  <2>2. Pending' # {}
    BY <2>1
  <2> HIDE DEF Pending
  <2> QED BY <1>1, <1>k, <2>2 DEF Write
<1>2. ASSUME NEW o \in Ops, Watch(o) \/ Command(o) PROVE MetricsFollow'
  BY <1>2 DEF Watch, Command
<1>3. ASSUME NEW e \in unpublished, Publish(e) PROVE MetricsFollow'
  <2>1. connected => Pending' = Pending
    BY <1>3, <1>0, PublishComes
  <2>2. ~missed' => ~missed /\ connected
    BY <1>3 DEF Publish
  <2>3. UNCHANGED <<fetch, command, data, due, log>>
    BY <1>3 DEF Publish
  <2> HIDE DEF Pending
  <2> QED BY <1>k, <2>1, <2>2, <2>3
<1>4. CASE Read
  <2>1. /\ UNCHANGED <<command, data, log>>
        /\ fetch'.stage = "answered" /\ fetch'.answer = Loaded(<<>>, Len(log))
    BY <1>4 DEF Read, View
  <2>2. Loaded(<<>>, Len(log)).items = <<>> /\ Loaded(<<>>, Len(log)).total = Len(log)
        /\ Loaded(<<>>, Len(log)).loaded
    BY DEF Loaded
  <2>3. ~Live'
    BY <2>1 DEF Live
  <2> QED BY <1>0, <2>1, <2>2, <2>3 DEF MetricsFollow
<1>5. CASE Answered
  <2>0. /\ UNCHANGED <<log, unpublished, wire, command, due, missed>>
        /\ data' = (IF fetch.answer.failed THEN Failed(data) ELSE fetch.answer)
        /\ fetch.stage = "answered" /\ fetch'.stage = "none" /\ fetch'.answer.items = <<>>
    BY <1>5, StartIs DEF Answered
  <2>a. Failed(data).failed /\ Failed(data).items = <<>>
    BY <1>0, FailedIs DEF Typed
  <2>1. /\ UNCHANGED <<log, unpublished, wire, command, due, missed>>
        /\ data'.items = <<>> /\ (~data'.failed => data' = fetch.answer)
        /\ fetch.stage = "answered" /\ fetch'.stage = "none" /\ fetch'.answer.items = <<>>
    <3>1. CASE fetch.answer.failed
      BY <2>0, <2>a, <3>1
    <3>2. CASE ~fetch.answer.failed
      BY <1>0, <2>0, <3>2
    <3> QED BY <3>1, <3>2
  <2>2. Pending' = Pending
    BY <2>1 DEF Pending
  <2>3. (Live' => Coming) /\ ~Coming'
    BY <2>1 DEF Live, Coming
  <2>4. Live' => data' = fetch.answer
    BY <2>1 DEF Live
  <2> HIDE DEF Pending
  <2>5. Live' => data'.loaded /\ (data'.total = Len(log') \/ due' \/ Pending' # {})
    BY <1>0, <2>1, <2>2, <2>3, <2>4
  <2> QED BY <1>0, <2>1, <2>3, <2>5 DEF MetricsFollow
<1>6. CASE FetchFails
  <2>1. /\ UNCHANGED command /\ fetch'.stage = "none" /\ fetch'.answer.items = <<>>
        /\ data' = Failed(data)
    BY <1>6, StartIs DEF FetchFails
  <2>2. data'.failed /\ data'.items = <<>>
    BY <1>0, <2>1, FailedIs DEF Typed
  <2>3. ~Live' /\ ~Coming'
    BY <2>1, <2>2 DEF Live, Coming
  <2> QED BY <1>0, <2>1, <2>2, <2>3 DEF MetricsFollow
<1>7. CASE Reload
  BY <1>7, <1>0, <1>s DEF Reload, Refetched
<1>8. CASE Mount
  BY <1>8, <1>0, <1>s, StartIs DEF Mount, Refetched
<1>9. CASE Receive
  <2>1. UNCHANGED <<fetch, command, data>> /\ due' /\ (~missed' => ~missed)
    BY <1>9 DEF Receive, Merged
  <2> QED BY <1>k, <2>1
<1>10. CASE Refresh
  BY <1>10, <1>0, <1>s DEF Refresh, Refetched
<1>11. CASE CommandAnswered
  BY <1>11, <1>0 DEF CommandAnswered
<1>12. CASE Disconnect
  <2>1. wire = <<>> => Pending' = Pending
    BY <1>12, <1>0, DisconnectComes
  <2>2. ~missed' => ~missed /\ wire = <<>>
    BY <1>12 DEF Disconnect
  <2>3. UNCHANGED <<fetch, command, data, due, log>>
    BY <1>12 DEF Disconnect
  <2> HIDE DEF Pending
  <2> QED BY <1>k, <2>1, <2>2, <2>3
<1>13. CASE Reconnect
  <2>1. Pending' = Pending /\ UNCHANGED <<fetch, command, data, due, log, missed>>
    BY <1>13 DEF Reconnect, Pending
  <2> HIDE DEF Pending
  <2> QED BY <1>k, <2>1
<1>14. CASE UNCHANGED vars
  <2>1. Pending' = Pending /\ UNCHANGED <<fetch, command, data, due, log, missed>>
    BY <1>14 DEF vars, Pending
  <2> HIDE DEF Pending
  <2> QED BY <1>k, <2>1
<1>15. CASE CommandLost
  BY <1>15, <1>0 DEF CommandLost
<1> QED BY <1>1, <1>2, <1>3, <1>4, <1>5, <1>6, <1>7, <1>8, <1>9, <1>10, <1>11, <1>12, <1>13,
           <1>14, <1>15 DEF Next

---------------------------------------------------------------------------
(* The records are listed by the time they occurred at, whatever crosses *)

InTheirTime ==
    panel = "records" => command = NoEntry /\ InTime(data.items) /\ InTime(fetch.answer.items)

LEMMA NothingInTime == InTime(<<>>)
BY DEF InTime

LEMMA InTheirTimeInit == Init => InTheirTime
BY StartIs, NothingInTime DEF Init, InTheirTime

LEMMA InTheirTimeStep == Tidy /\ Channel /\ InTheirTime /\ [Next]_vars => InTheirTime'
<1> SUFFICES ASSUME Tidy, Channel, InTheirTime, [Next]_vars PROVE InTheirTime'
  OBVIOUS
<1>0. Typed
  BY DEF Tidy
<1>p. UNCHANGED panel
  BY <1>0, CrossedStays
<1> SUFFICES ASSUME panel = "records" PROVE InTheirTime'
  BY <1>p DEF InTheirTime
<1>1. /\ command = NoEntry /\ InTime(data.items) /\ InTime(fetch.answer.items) /\ Numbered /\ Timed
      /\ data \in Answers /\ fetch \in Fetches
  BY <1>0 DEF InTheirTime, Typed
\* What is in time stays so when nothing is written.
<1>k. ASSUME UNCHANGED occurred, command' = NoEntry, InTime(data'.items), InTime(fetch'.answer.items)
      PROVE  InTheirTime'
  <2>1. InTime(data.items)' /\ InTime(fetch.answer.items)'
    BY <1>k DEF InTime, Has, OccurredBefore
  <2> QED BY <1>k, <2>1 DEF InTheirTime
<1>r. ASSUME Refetched PROVE InTime(fetch'.answer.items)
  <2>1. fetch'.answer.items = <<>>
    BY <1>r, StartIs DEF Refetched
  <2> QED BY <2>1, NothingInTime
<1>2. ASSUME NEW o \in Ops, Write(o) PROVE InTheirTime'
  <2> DEFINE e == Entry(o, VersionOf(o) + 1)
  <2>1. Written(o) /\ UNCHANGED <<data, fetch, command, panel, wire, connected>>
    BY <1>2 DEF Write
  <2>2. Dated(e) /\ log' = Append(log, e) /\ e \in Entries /\ ~Has(e, log)
    BY <1>0, <1>1, <2>1, WriteComes, NewEntry DEF Written
  <2> HIDE DEF e
  <2>3. Timed' /\ \A c, d : OccurredBefore(c, d) => OccurredBefore(c, d)'
    BY <1>1, <2>2, DatedIs
  <2>4. \A x : Has(x, log) => Has(x, log')
    <3>1. log \in Seq(Entries)
      BY <1>1 DEF Numbered
    <3>2. \A x : Has(x, log) => Has(x, Append(log, e))
      BY <2>2, <3>1, AppendedIs
    <3> QED BY <2>2, <3>2
  <2>5. \A x : Has(x, occurred) => Has(x, occurred')
    <3>1. \A x : Has(x, occurred') <=> Has(x, log')
      BY <2>3 DEF Timed, Has
    <3>2. \A x : Has(x, occurred) <=> Has(x, log)
      BY <1>1 DEF Timed
    <3> QED BY <2>4, <3>1, <3>2
  <2>6. InTime(data.items)' /\ InTime(fetch.answer.items)'
    <3>1. InTime(data'.items)
      BY <1>1, <2>1
    <3>2. InTime(fetch'.answer.items)
      BY <1>1, <2>1
    <3> QED BY <2>3, <2>5, <3>1, <3>2 DEF InTime, Has
  <2> QED BY <1>1, <2>1, <2>6 DEF InTheirTime
<1>3. ASSUME NEW o \in Ops, Watch(o) PROVE InTheirTime'
  BY <1>1, <1>3, <1>k, <1>r DEF Watch
<1>4. ASSUME NEW o \in Ops, Command(o) PROVE InTheirTime'
  BY <1>4 DEF Command
<1>5. ASSUME NEW e \in unpublished, Publish(e) PROVE InTheirTime'
  BY <1>1, <1>5, <1>k DEF Publish
<1>6. CASE Read
  <2>1. View.items = Of(watched, occurred)
    BY DEF View, Loaded
  <2>2. fetch'.answer = View /\ UNCHANGED <<data, command, occurred>>
    BY <1>6 DEF Read
  <2>3. InTime(View.items)
    BY <1>1, <2>1, RecordsView
  <2> QED BY <1>1, <1>k, <2>2, <2>3
<1>7. CASE Answered
  <2>1. data'.items \in {data.items, fetch.answer.items} /\ fetch'.answer.items = <<>> /\ UNCHANGED <<command, occurred>>
    BY <1>1, <1>7, StartIs, FailedIs DEF Answered
  <2> QED BY <1>1, <1>k, <2>1, NothingInTime
<1>8. CASE FetchFails
  <2>1. data'.items = data.items /\ fetch'.answer.items = <<>> /\ UNCHANGED <<command, occurred>>
    BY <1>1, <1>8, StartIs, FailedIs DEF FetchFails
  <2> QED BY <1>1, <1>k, <2>1, NothingInTime
<1>9. CASE Reload
  BY <1>1, <1>9, <1>k, <1>r DEF Reload
<1>10. CASE Mount
  BY <1>10, <1>k, <1>r, StartIs, NothingInTime DEF Mount
<1>11. CASE Receive
  <2>1. wire # <<>> /\ wire \in Seq(Entries) /\ data' = Merged(Head(wire)) /\ UNCHANGED <<fetch, command, occurred>>
    BY <1>0, <1>11 DEF Typed, Receive
  <2>2. 1 \in DOMAIN wire /\ Head(wire) = wire[1] /\ Head(wire) \in Entries
    BY <2>1
  <2>3. Has(Head(wire), occurred)
    BY <1>1, <2>2 DEF Channel, Timed
  <2>4. data'.items = MergeRecords(Head(wire), data.items)
    BY <1>1, <2>1 DEF Merged, Answers
  <2>5. InTime(MergeRecords(Head(wire), data.items))
    <3>1. data.items \in Seq(Entries)
      BY <1>1 DEF Answers
    <3> QED BY <1>1, <2>2, <2>3, <3>1, MergeRecordsInTime
  <2> QED BY <1>1, <1>k, <2>1, <2>4, <2>5
<1>12. CASE Refresh
  BY <1>1, <1>12, <1>k, <1>r DEF Refresh
<1>13. CASE CommandAnswered
  BY <1>1, <1>13 DEF CommandAnswered
<1>14. CASE CommandLost
  BY <1>1, <1>14, <1>k DEF CommandLost
<1>15. CASE Disconnect
  BY <1>1, <1>15, <1>k DEF Disconnect
<1>16. CASE Reconnect
  BY <1>1, <1>16, <1>k DEF Reconnect
<1>17. CASE UNCHANGED vars
  BY <1>1, <1>17, <1>k DEF vars
<1> QED BY <1>2, <1>3, <1>4, <1>5, <1>6, <1>7, <1>8, <1>9, <1>10, <1>11, <1>12, <1>13, <1>14, <1>15,
           <1>16, <1>17 DEF Next

---------------------------------------------------------------------------
(* InStep *)

KeepsPace == Tidy /\ Channel /\ Following /\ MetricsFollow /\ InTheirTime

LEMMA SettledInStep == KeepsPace /\ OnOnePage => InStep
<1> SUFFICES ASSUME KeepsPace, OnOnePage, Settled, ~missed, crossed => InAnyOrder PROVE Same(data, View)
  BY DEF InStep
<1>0. /\ Typed /\ Neat(data.items) /\ Following /\ MetricsFollow /\ InTheirTime
      /\ unpublished = {} /\ wire = <<>> /\ ~due /\ ~data.failed /\ fetch.stage = "none"
  BY StartIs DEF KeepsPace, Tidy, Settled
<1>1. Live
  BY <1>0 DEF Live
<1>2. Pending = {}
  BY <1>0 DEF Pending, Has
<1>3. CASE panel # "metrics"
  <2>1. InOrder
    BY <1>3 DEF InOrder, InAnyOrder, Unordered
  <2>2. Shows(panel, watched, log, data, {})
    BY <1>0, <1>1, <1>2, <1>3, <2>1 DEF Following
  <2>3. panel = "records" => InTime(data.items)
    BY <1>0 DEF InTheirTime
  <2> QED BY <1>0, <1>3, <2>1, <2>2, <2>3, SettledSame DEF Typed
<1>4. CASE panel = "metrics"
  <2>1. data.items = <<>> /\ data.loaded /\ data.total = Len(log)
    BY <1>0, <1>1, <1>2, <1>4 DEF MetricsFollow
  <2>2. data \in Answers /\ View = [loaded |-> TRUE, failed |-> FALSE, items |-> <<>>, total |-> Len(log)]
    BY <1>0, <1>4 DEF Typed, View, Loaded
  <2>3. data = View
    BY <1>0, <2>1, <2>2 DEF Answers
  <2> QED BY <1>4, <2>3 DEF Same
<1> QED BY <1>3, <1>4

\* When every operation fits on the page of the history, each panel, once all is delivered,
\* shows what a fresh load would show: unless since its last fetch something was lost, with
\* the connection or to an older answer that came after it, or something was written in
\* another order than it occurred in, or pushed in another order than it was written in;
\* and those orders do not matter to the operation, its records and the metrics.  It holds
\* however many changes there were, however they, the fetches and the commands interleaved,
\* and whatever answers failed or were lost.  Console.cfg checks it for two operations; ConsoleDropped.cfg,
\* ConsoleLingers.cfg and ConsoleCrossed.cfg show that it is not so without those
\* exceptions, ConsolePage.cfg that it is not so when the page is too short.
THEOREM PanelsStayInStep == OnOnePage => (Spec => []InStep)
<1> SUFFICES ASSUME OnOnePage PROVE Spec => []InStep
  OBVIOUS
<1>1. Init => KeepsPace
  BY TidyInit, ChannelInit, FollowingInit, MetricsInit, InTheirTimeInit DEF KeepsPace
<1>2. KeepsPace /\ [Next]_vars => KeepsPace'
  BY TidyStep, ChannelStep, FollowingStep, MetricsStep, InTheirTimeStep DEF KeepsPace, Tidy
<1>3. KeepsPace => InStep
  BY SettledInStep
<1> QED BY <1>1, <1>2, <1>3, PTL DEF Spec
=============================================================================
