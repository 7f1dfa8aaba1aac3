--------------------------- MODULE AccountsProofs ---------------------------
(***************************************************************************)
(* What holds of sessions and tabs for any accounts, tabs, organizations and *)
(* failures: with calls that overlap as they like, that an assignment takes *)
(* effect on the next load; with calls that are awaited in one tab, that    *)
(* the page, its socket and the session agree, but for a switch whose       *)
(* answer was lost.                                                         *)
(***************************************************************************)
EXTENDS Accounts, WellFoundedInduction, TLAPS

Anywhere == Orgs \cup {None}
Sessions == {Nobody} \cup [user : Users, org : Anywhere]
Kinds    == {"me", "login", "data", "list"} \cup Changes
Stages   == {"sent", "read", "ok", "refused"}
Tables   == [Users -> [copies : Nat, org : Anywhere]]
Sockets  == [is : {"closed", "shaking", "refused", "open"}, room : Anywhere]
Pages    == {"dashboard", "users"}
Panels   == [loading : BOOLEAN, identity : Sessions, socket : Sockets, listening : BOOLEAN, data : Anywhere,
             page : Pages, listed : BOOLEAN, rows : Tables, astray : BOOLEAN, unheard : SUBSET Users]
Requests == [from : Tabs \cup {"gone"}, kind : Kinds, about : Users \cup {"nobody"}, org : Anywhere,
             stage : Stages, who : Sessions, rows : Tables]

TypeOK ==
    /\ organizations \subseteq Orgs /\ accounts \subseteq Users /\ home \in [Users -> Anywhere]
    /\ session \in Sessions /\ tab \in [Tabs -> Panels] /\ calls \subseteq Requests
    /\ moved \in [Tabs -> BOOLEAN] /\ elsewhere \in BOOLEAN /\ lost \in Nat /\ moves \in Nat

-----------------------------------------------------------------------------
(***************************************************************************)
(* The operators                                                           *)
(***************************************************************************)

LEMMA FirstOrganization ==
    ASSUME NEW S \in SUBSET Nat, S # {}
    PROVE  \E o \in S : \A p \in S : o <= p
<1> DEFINE Less == {ss \in Nat \X Nat : ss[1] < ss[2]}
<1>1. IsWellFoundedOn(Less, Nat)
  BY NatLessThanWellFounded DEF OpToRel
<1> HIDE DEF Less
<1>2. PICK x \in S : \A y \in S : ~ (<<y, x>> \in Less)
  BY <1>1, WFMin
<1>3. \A y \in S : ~(y < x)
  BY <1>2 DEF Less
<1> QED BY <1>3
\* Where an account that belongs to an organization is, a session for it is too.
LEMMA Opens ==
    ASSUME TypeOK, NEW u \in Users, NEW o \in Anywhere
    PROVE  /\ SessionFor(u, o) \in Sessions /\ SessionFor(u, o) # Nobody /\ SessionFor(u, o).user = u
           /\ Belongs(u) => SessionFor(u, o).org = home[u]
<1>1. OrganizationToOpen(u, o) \in Anywhere
  <2>1. CASE organizations = {} \/ Belongs(u) \/ o \in organizations \/ home[u] \in organizations
    BY <2>1 DEF OrganizationToOpen, TypeOK, Anywhere
  <2>2. CASE ~(organizations = {} \/ Belongs(u) \/ o \in organizations \/ home[u] \in organizations)
    <3>1. organizations \in SUBSET Nat
      BY AccountsAssumption DEF TypeOK, Orgs
    <3>2. \E p \in organizations : \A q \in organizations : p <= q
      BY <3>1, <2>2, FirstOrganization
    <3>3. (CHOOSE p \in organizations : \A q \in organizations : p <= q) \in organizations
      BY <3>2
    <3> QED BY <2>2, <3>3 DEF OrganizationToOpen, TypeOK, Anywhere
  <2> QED BY <2>1, <2>2
<1> QED BY <1>1, AccountsAssumption DEF SessionFor, Sessions, Nobody, OrganizationToOpen

LEMMA NothingListed == NoRows \in Tables /\ Nobody \in Sessions
BY DEF NoRows, Row, Tables, Anywhere, Sessions

LEMMA RequestIs ==
    ASSUME NEW t \in Tabs, NEW k \in Kinds, NEW a \in Users \cup {"nobody"}, NEW o \in Anywhere
    PROVE  /\ Request(t, k, a, o) \in Requests
           /\ Request(t, k, a, o).from = t /\ Request(t, k, a, o).kind = k
           /\ Request(t, k, a, o).about = a /\ Request(t, k, a, o).org = o
           /\ Request(t, k, a, o).stage = "sent" /\ Request(t, k, a, o).who = Nobody
BY NothingListed DEF Request, Requests, Stages

LEMMA BecomesIs ==
    ASSUME calls \subseteq Requests, NEW c \in calls, NEW d \in Requests, Becomes(c, d)
    PROVE  /\ calls' \subseteq Requests
           /\ \A e \in calls' : (e \in calls /\ e # c) \/ (e = d /\ (d.from \in Tabs \/ d.stage = "read"))
           /\ \A e \in calls : e # c => e \in calls'
BY DEF Becomes

\* What a tab leaves behind when its panels are unmounted: its calls for data are dropped,
\* its changes of accounts go on.
LEMMA UnmountedIs ==
    ASSUME NEW t \in Tabs, NEW rest \in SUBSET Requests
    PROVE  /\ Unmounted(t, rest) \subseteq Requests
           /\ \A e \in Unmounted(t, rest) :
                \/ e \in rest /\ (e.from = t => e.kind \in {"me", "login", "open", "logout"})
                \/ /\ e.from = "gone" /\ e.kind \in {"create", "assign"} /\ e.stage \in {"sent", "read"}
                   /\ \E c \in rest : /\ c.from = t /\ e.kind = c.kind /\ e.stage = c.stage /\ e.who = c.who
                                      /\ e.about = c.about /\ e.org = c.org
           /\ \A e \in rest : e.kind \in {"me", "login", "open", "logout"} => e \in Unmounted(t, rest)
<1> DEFINE left == {c \in rest : c.from = t /\ c.kind \in {"data", "list", "create", "assign"}}
           on   == {[c EXCEPT !.from = "gone"] :
                       c \in {c \in left : c.kind \notin {"data", "list"} /\ c.stage \in {"sent", "read"}}}
<1>1. Unmounted(t, rest) = (rest \ left) \cup on
  BY DEF Unmounted, Abandoned
<1>2. ASSUME NEW e \in on
      PROVE  /\ e \in Requests /\ e.from = "gone" /\ e.kind \in {"create", "assign"} /\ e.stage \in {"sent", "read"}
             /\ \E c \in rest : /\ c.from = t /\ e.kind = c.kind /\ e.stage = c.stage /\ e.who = c.who
                                /\ e.about = c.about /\ e.org = c.org
  <2>1. PICK c \in left : e = [c EXCEPT !.from = "gone"] /\ c.kind \notin {"data", "list"} /\ c.stage \in {"sent", "read"}
    BY <1>2
  <2>2. c \in Requests
    OBVIOUS
  <2>3. /\ e \in Requests /\ e.from = "gone" /\ e.kind = c.kind /\ e.stage = c.stage /\ e.who = c.who
        /\ e.about = c.about /\ e.org = c.org
    BY <2>1, <2>2 DEF Requests
  <2> QED BY <2>1, <2>3
<1>3. ASSUME NEW e \in rest \ left, e.from = t
      PROVE  e.kind \in {"me", "login", "open", "logout"}
  BY <1>3 DEF Requests, Kinds, Changes
<1> QED BY <1>1, <1>2, <1>3
LEMMA SubscribedIs ==
    ASSUME NEW p \in Panels
    PROVE  LET q == Subscribed(p) IN
           /\ q \in Panels /\ q.identity = p.identity /\ q.loading = p.loading /\ q.page = p.page
           /\ q.socket = (IF p.socket = Closed THEN Shaking ELSE p.socket)
           /\ q.listening = TRUE /\ q.data = None /\ q.listed = FALSE /\ q.unheard = {}
           /\ q.astray = p.astray
<1>1. Shaking \in Sockets /\ None \in Anywhere
  BY DEF Shaking, Sockets, Anywhere
<1> QED BY <1>1, NothingListed DEF Subscribed, Panels

LEMMA FetchesIs ==
    ASSUME NEW t \in Tabs, NEW p, NEW e \in Fetches(t, p)
    PROVE  /\ e \in Requests /\ e.from = t /\ e.kind \in {"data", "list"} /\ e.stage = "sent" /\ e.who = Nobody
           /\ e.kind = "list" => p.page # "dashboard" /\ e = Request(t, "list", "nobody", None)
<1>1. "data" \in Kinds /\ "list" \in Kinds /\ None \in Anywhere /\ "nobody" \in Users \cup {"nobody"}
  BY DEF Kinds, Anywhere
<1>2. CASE e = Request(t, "data", "nobody", None)
  BY <1>1, <1>2, RequestIs
<1>3. CASE e = Request(t, "list", "nobody", None) /\ p.page # "dashboard"
  <2>1. /\ e \in Requests /\ e.from = t /\ e.kind = "list" /\ e.stage = "sent" /\ e.who = Nobody
    BY <1>1, <1>3, RequestIs
  <2> QED BY <1>3, <2>1
<1> QED BY <1>2, <1>3 DEF Fetches

LEMMA BlankIs ==
    /\ Blank \in Panels /\ Blank.loading = TRUE /\ Blank.identity = Nobody /\ Blank.socket = Closed
    /\ \A p \in Panels :
         LET q == [Blank EXCEPT !.loading = p.loading, !.identity = p.identity, !.socket = p.socket] IN
         /\ q \in Panels /\ q.loading = p.loading /\ q.identity = p.identity /\ q.socket = p.socket
<1>1. Closed \in Sockets /\ None \in Anywhere
  BY DEF Closed, Sockets, Anywhere
<1>2. Blank \in Panels
  BY <1>1, NothingListed DEF Blank, Panels, Pages
<1>3. ASSUME NEW p \in Panels
      PROVE  LET q == [Blank EXCEPT !.loading = p.loading, !.identity = p.identity, !.socket = p.socket] IN
             /\ q \in Panels /\ q.loading = p.loading /\ q.identity = p.identity /\ q.socket = p.socket
  BY <1>2 DEF Panels
<1> QED BY <1>2, <1>3 DEF Blank

\* What a tab shows after a step, and which calls there are.
Fetching(e, t)  == e.from = t /\ e.kind \in {"data", "list"} /\ e.stage = "sent" /\ e.who = Nobody
LeftBehind(e, c) ==
    /\ e.from = "gone" /\ e.kind \in {"create", "assign"} /\ e.stage \in {"sent", "read"}
    /\ e.kind = c.kind /\ e.stage = c.stage /\ e.who = c.who /\ e.about = c.about /\ e.org = c.org

LEMMA Rendered ==
    ASSUME TypeOK, NEW t \in Tabs, NEW p \in Panels, NEW rest \in SUBSET Requests, Render(t, p, rest)
    PROVE  /\ tab' \in [Tabs -> Panels]
           /\ tab'[t].identity = p.identity /\ tab'[t].loading = p.loading
           /\ \A s \in Tabs : s # t => tab'[s] = tab[s]
           /\ calls' \subseteq Requests
           /\ \A e \in calls' : e \in rest \/ Fetching(e, t) \/ \E c \in rest : c.from = t /\ LeftBehind(e, c)
<1>1. tab \in [Tabs -> Panels]
  BY DEF TypeOK
<1>2. PICK q \in Panels : tab' = [tab EXCEPT ![t] = q] /\ q.identity = p.identity /\ q.loading = p.loading
  BY SubscribedIs, BlankIs DEF Render
<1>3. calls' \subseteq Unmounted(t, rest) \cup Fetches(t, p) \cup rest
  BY DEF Render
<1>4. /\ Unmounted(t, rest) \subseteq Requests
      /\ \A e \in Unmounted(t, rest) : e \in rest \/ \E c \in rest : c.from = t /\ LeftBehind(e, c)
  <2> HIDE DEF Requests
  <2> QED BY UnmountedIs DEF LeftBehind
<1>5. \A e \in Fetches(t, p) : e \in Requests /\ Fetching(e, t)
  BY FetchesIs DEF Fetching
<1> HIDE DEF Panels, Requests
<1>6. tab' \in [Tabs -> Panels] /\ tab'[t] = q /\ \A s \in Tabs : s # t => tab'[s] = tab[s]
  BY <1>1, <1>2
<1> QED BY <1>2, <1>3, <1>4, <1>5, <1>6

\* A tab after an answer, or after it learnt that there will be none.
LEMMA IdentifiedIs ==
    ASSUME NEW p \in Panels, NEW who \in Sessions
    PROVE  LET q == Identified(p, who) IN
           /\ q \in Panels /\ q.identity = who /\ q.loading = p.loading /\ q.socket = Closed /\ q.page = p.page
           /\ q.listed = p.listed /\ q.rows = p.rows /\ q.unheard = p.unheard
BY BlankIs DEF Identified, Panels, Closed, Sockets, Anywhere, None

LEMMA UnansweredIs ==
    ASSUME NEW p \in Panels, NEW c \in Requests,
           c.kind \in {"create", "assign"} => c.about \in Users
    PROVE  LET q == Unanswered(p, c) IN
           /\ q \in Panels /\ q.listed = p.listed /\ q.rows = p.rows
           /\ q.loading = IF c.kind = "me" THEN FALSE ELSE p.loading
           /\ q.identity = IF c.kind = "logout" THEN Nobody ELSE p.identity
           /\ q.socket = IF c.kind = "logout" THEN Closed ELSE p.socket
           /\ c.kind # "logout" => q.listening = p.listening /\ q.data = p.data
           /\ c.kind # "logout" /\ ~(c.kind = "open" /\ c.stage = "ok") => q.astray = p.astray
           /\ c.kind = "open" /\ c.stage = "ok" => q.astray = TRUE
           /\ q.unheard = IF c.kind \in {"create", "assign"} /\ c.stage = "ok" THEN p.unheard \cup {c.about}
                          ELSE p.unheard
<1>1. CASE c.kind = "me"
  BY <1>1 DEF Unanswered, Panels
<1>2. CASE c.kind = "logout"
  BY <1>2, IdentifiedIs, NothingListed DEF Unanswered
<1>3. CASE c.kind = "open" /\ c.stage = "ok"
  BY <1>3 DEF Unanswered, Panels
<1>4. CASE c.kind \in {"create", "assign"} /\ c.stage = "ok"
  BY <1>4 DEF Unanswered, Panels
<1>5. CASE c.kind \notin {"me", "logout"} /\ ~(c.kind \in {"open", "create", "assign"} /\ c.stage = "ok")
  BY <1>5 DEF Unanswered
<1> QED BY <1>1, <1>2, <1>3, <1>4, <1>5

LEMMA AcceptedIs ==
    ASSUME TypeOK, NEW p \in Panels, NEW c \in Requests,
           c.kind \in {"create", "assign"} => c.about \in Users,
           c.kind = "data" => c.who # Nobody
    PROVE  /\ Accepted(p, c) \in Panels /\ Accepted(p, c).loading = p.loading
           /\ Accepted(p, c).identity = IF c.kind \in {"me", "login", "open", "logout"} THEN c.who ELSE p.identity
<1>1. p.rows \in Tables /\ c.org \in Anywhere /\ c.who \in Sessions /\ c.rows \in Tables /\ c.kind \in Kinds
  BY DEF Panels, Requests
<1>2. CASE c.kind = "me"
  BY <1>1, <1>2 DEF Accepted, Panels
<1>3. CASE c.kind = "data"
  <2>1. c.who.org \in Anywhere
    BY <1>1, <1>3, NothingListed DEF Sessions, Nobody
  <2> QED BY <1>3, <2>1 DEF Accepted, Panels
<1>4. CASE c.kind = "list"
  BY <1>1, <1>4 DEF Accepted, Panels
<1>5. CASE c.kind = "create"
  <2>1. p.rows[c.about].copies + 1 \in Nat
    BY <1>1, <1>5 DEF Tables
  <2>2. [p.rows EXCEPT ![c.about] = Row(p.rows[c.about].copies + 1, c.org)] \in Tables
    BY <1>1, <1>5, <2>1 DEF Tables, Row
  <2>3. Accepted(p, c) = [p EXCEPT !.rows = [p.rows EXCEPT ![c.about] = Row(p.rows[c.about].copies + 1, c.org)]]
    BY <1>5 DEF Accepted, Added, Panels
  <2> QED BY <1>5, <2>2, <2>3 DEF Panels
<1>6. CASE c.kind = "assign"
  <2>2. [p.rows EXCEPT ![c.about] = Row(1, c.org)] \in Tables
    BY <1>1, <1>6 DEF Tables, Row
  <2>3. Accepted(p, c) = [p EXCEPT !.rows = [p.rows EXCEPT ![c.about] = Row(1, c.org)],
                                   !.unheard = p.unheard \ {c.about}]
    BY <1>6 DEF Accepted, Replaced, Panels
  <2> QED BY <1>6, <2>2, <2>3 DEF Panels
<1>7. CASE c.kind \in {"login", "open", "logout"}
  <2>1. Accepted(p, c) = Identified(p, c.who)
    BY <1>7 DEF Accepted
  <2> QED BY <1>1, <1>7, <2>1, IdentifiedIs
<1> QED BY <1>1, <1>2, <1>3, <1>4, <1>5, <1>6, <1>7 DEF Kinds, Changes
-----------------------------------------------------------------------------
(***************************************************************************)
(* Types, and where sessions come from: every tab and every call has the    *)
(* session of an account that exists, and, unless someone was moved since   *)
(* the tab was loaded, of one that is where the account is now.             *)
(***************************************************************************)

Known(s)  == s.user \in accounts \cup {"nobody"}
AtHome(s) == s # Nobody /\ Belongs(s.user) => s.org = home[s.user]

\* The calls whose answer makes a member's identity.
Carries(c) == \/ c.kind = "me" /\ c.stage = "ok"
              \/ c.kind = "login" /\ c.stage \in {"read", "ok"}

Sound(c) ==
    /\ Known(c.who)
    /\ c.from = "gone" => c.stage \in {"sent", "read"}
    /\ c.stage = "read" => c.kind \in {"me", "open", "login"}
    /\ c.kind \in {"login", "create", "assign"} => c.about \in Users
    /\ c.kind = "login" /\ c.stage = "read" => c.who # Nobody
    /\ c.kind = "me" /\ c.stage = "read" => c.who # Nobody
    /\ c.kind = "data" /\ c.stage = "ok" => c.who # Nobody
    /\ c.kind = "open" => c.org \in Orgs
    /\ c.kind = "open" /\ c.stage \in {"read", "ok"} => c.who.user \in Admins
    /\ c.kind = "logout" => c.who = Nobody
    /\ c.kind = "me" /\ c.from \in Tabs => tab[c.from].loading
    /\ Carries(c) /\ c.from \in Tabs => (moved[c.from] \/ AtHome(c.who))

Assigned ==
    /\ Known(session)
    /\ \A t \in Tabs : Known(tab[t].identity) /\ (moved[t] \/ AtHome(tab[t].identity))
    /\ \A c \in calls : Sound(c)
    /\ \A c, d \in calls : c.kind = "me" /\ d.kind = "me" /\ c.from = d.from /\ c.from \in Tabs => c = d

\* What every change of accounts and organizations keeps.
Grows ==
    /\ organizations' \subseteq Orgs /\ accounts \subseteq accounts' /\ accounts' \subseteq Users
    /\ home' \in [Users -> Anywhere] /\ moved' \in [Tabs -> BOOLEAN] /\ elsewhere' \in BOOLEAN
    /\ moves' \in Nat
    /\ \A t \in Tabs : /\ moved[t] => moved'[t]
                       /\ moved'[t] \/ \A u \in accounts : home'[u] = home[u]

LEMMA StaysHome ==
    ASSUME TypeOK, Grows, NEW t \in Tabs, NEW s \in Sessions, Known(s), moved[t] \/ AtHome(s)
    PROVE  Known(s)' /\ (moved'[t] \/ AtHome(s)')
<1>1. Known(s)'
  BY DEF Known, Grows
<1>2. moved'[t] \/ AtHome(s)'
  <2> SUFFICES ASSUME ~moved'[t], s # Nobody, Belongs(s.user) PROVE s.org = home'[s.user]
    BY DEF AtHome
  <2>1. s.user \in accounts
    BY AccountsAssumption DEF Known, Sessions, TypeOK
  <2>2. AtHome(s)
    BY DEF Grows
  <2> QED BY <2>1, <2>2 DEF Grows, AtHome
<1> QED BY <1>1, <1>2

LEMMA StaysSound ==
    ASSUME TypeOK, Grows, NEW c \in Requests, Sound(c),
           c.kind = "me" /\ c.from \in Tabs => tab'[c.from].loading = tab[c.from].loading
    PROVE  Sound(c)'
<1>1. c.who \in Sessions
  BY DEF Requests
<1>2. Known(c.who)'
  BY DEF Sound, Known, Grows
<1>3. Carries(c) /\ c.from \in Tabs => (moved'[c.from] \/ AtHome(c.who)')
  BY <1>1, StaysHome DEF Sound
<1> QED BY <1>2, <1>3 DEF Sound, Carries

LEMMA StillGrows ==
    ASSUME TypeOK, UNCHANGED server PROVE Grows
BY DEF TypeOK, Grows, server

LEMMA Changed ==
    ASSUME TypeOK, moves' \in Nat, elsewhere' \in BOOLEAN,
           NEW o, CreateOrganization(o) \/ \E u \in Users : CreateUser(u, o) \/ AssignOrganization(u, o)
    PROVE  Grows
<1>1. ASSUME CreateOrganization(o) PROVE Grows
  BY <1>1 DEF TypeOK, Grows, CreateOrganization
<1>2. ASSUME NEW u \in Users, CreateUser(u, o) PROVE Grows
  BY <1>2 DEF TypeOK, Grows, CreateUser, MayCreate, Anywhere
<1>3. ASSUME NEW u \in Users, AssignOrganization(u, o) PROVE Grows
  BY <1>3 DEF TypeOK, Grows, AssignOrganization, MayAssign, Anywhere
<1> QED BY <1>1, <1>2, <1>3

\* One call moves on; the tabs have not heard of it.
LEMMA CallStep ==
    ASSUME TypeOK, Assigned, Grows, NEW c \in calls, NEW d \in Requests, Becomes(c, d),
           d.from = c.from, d.kind = c.kind, d.from \in Tabs \/ d.stage = "read" => Sound(d),
           session' \in Sessions, session'.user \in accounts \cup {"nobody"},
           UNCHANGED <<tab, lost>>
    PROVE  TypeOK' /\ Assigned'
<1>1. calls \subseteq Requests /\ tab \in [Tabs -> Panels]
  BY DEF TypeOK
<1>2. /\ calls' \subseteq Requests
      /\ \A e \in calls' : (e \in calls /\ e # c) \/ (e = d /\ (d.from \in Tabs \/ d.stage = "read"))
  <2> HIDE DEF Requests
  <2> QED BY <1>1, BecomesIs
<1>3. TypeOK'
  BY <1>2 DEF TypeOK, Grows
<1>4. \A e \in calls' : Sound(e)'
  <2> SUFFICES ASSUME NEW e \in calls' PROVE Sound(e)'
    OBVIOUS
  <2>1. e \in Requests /\ Sound(e)
    BY <1>2 DEF Assigned
  <2> QED BY <2>1, StaysSound
<1>5. Known(session)'
  BY DEF Known, Grows
<1>6. \A t \in Tabs : Known(tab[t].identity)' /\ (moved[t] \/ AtHome(tab[t].identity))'
  <2> TAKE t \in Tabs
  <2>1. tab[t].identity \in Sessions
    BY <1>1 DEF Panels
  <2> QED BY <2>1, StaysHome DEF Assigned, Known, AtHome
<1>7. \A e, f \in calls' : e.kind = "me" /\ f.kind = "me" /\ e.from = f.from /\ e.from \in Tabs => e = f
  BY <1>2 DEF Assigned
<1> QED BY <1>3, <1>4, <1>5, <1>6, <1>7 DEF Assigned
LEMMA RefusesStep ==
    ASSUME TypeOK, Assigned, Grows, NEW c \in calls, Refuses(c), UNCHANGED <<session, tab, lost>>
    PROVE  TypeOK' /\ Assigned'
<1> DEFINE d == [c EXCEPT !.stage = "refused", !.who = Nobody]
<1>1. c \in Requests /\ Sound(c) /\ session \in Sessions /\ Known(session)
  BY DEF TypeOK, Assigned
<1>2. /\ d \in Requests /\ d.stage = "refused" /\ d.who = Nobody
      /\ d.from = c.from /\ d.kind = c.kind /\ d.about = c.about /\ d.org = c.org
  BY <1>1, NothingListed DEF Requests, Stages
<1>3. Becomes(c, d)
  BY DEF Refuses
<1> HIDE DEF d
<1>4. d.from \in Tabs \/ d.stage = "read" => Sound(d)
  BY <1>1, <1>2, AccountsAssumption DEF Sound, Carries, Known, Nobody
<1> QED BY <1>1, <1>2, <1>3, <1>4, CallStep DEF Known

LEMMA ArriveStep ==
    ASSUME TypeOK, Assigned, NEW c \in calls, Arrive(c) PROVE TypeOK' /\ Assigned'
<1>1. c \in Requests /\ Sound(c) /\ session \in Sessions /\ Known(session)
  BY DEF TypeOK, Assigned
<1>2. Grows /\ UNCHANGED <<session, tab, lost>>
  BY StillGrows DEF Arrive
<1>3. CASE Refuses(c)
  BY <1>2, <1>3, RefusesStep
<1>4. CASE ~Refuses(c)
  <2> DEFINE read == IF c.kind = "login" THEN SessionFor(c.about, None) ELSE session
             d    == [c EXCEPT !.stage = "read", !.who = read]
  <2>1. /\ c.stage = "sent" /\ c.kind \in {"me", "open", "login"} /\ Becomes(c, d)
        /\ c.kind = "me" => session # Nobody
        /\ c.kind = "open" => session.user \in Admins
        /\ c.kind = "login" => c.about \in accounts
    BY <1>4 DEF Arrive
  <2>2. c.kind = "login" => /\ read \in Sessions /\ read # Nobody /\ read.user = c.about
                            /\ Belongs(c.about) => read.org = home[c.about]
    <3>1. c.kind = "login" => c.about \in Users /\ None \in Anywhere
      BY <1>1 DEF Sound, Anywhere
    <3> QED BY <3>1, Opens
  <2>3. c.kind # "login" => read = session
    OBVIOUS
  <2>4. read \in Sessions /\ Known(read)
    BY <1>1, <2>1, <2>2, <2>3 DEF Known
  <2> HIDE DEF read
  <2>5. /\ d \in Requests /\ d.stage = "read" /\ d.who = read
        /\ d.from = c.from /\ d.kind = c.kind /\ d.about = c.about /\ d.org = c.org
    BY <1>1, <2>4 DEF Requests, Stages
  <2> HIDE DEF d
  <2>6. d.kind = "login" => AtHome(d.who)
    BY <2>2, <2>5 DEF AtHome
  <2>7. Sound(d)
    BY <1>1, <2>1, <2>2, <2>3, <2>4, <2>5, <2>6 DEF Sound, Carries
  <2> QED BY <1>1, <1>2, <2>1, <2>5, <2>7, CallStep DEF Known
<1> QED BY <1>3, <1>4

\* me, open and login are answered with the session they leave behind.
LEMMA HandleIs ==
    ASSUME TypeOK, NEW c \in calls, Sound(c), Handle(c)
    PROVE  /\ c.stage = "read" /\ c.kind \in {"me", "open", "login"} /\ UNCHANGED <<server, tab, lost>>
           /\ \E who \in Sessions :
                /\ Answers(c, who) /\ who # Nobody /\ who.user = c.who.user /\ session' \in {session, who}
                /\ c.kind # "me" \/ session = c.who => session' = who
                /\ c.kind = "me" => AtHome(who)
                /\ c.kind = "open" => who = [c.who EXCEPT !.org = c.org]
                /\ c.kind = "login" => who = c.who
<1>1. c \in Requests /\ c.who \in Sessions /\ c.org \in Anywhere
  BY DEF TypeOK, Requests
<1>2. c.stage = "read" /\ c.kind \in {"me", "open", "login"} /\ UNCHANGED <<server, tab, lost>>
  BY DEF Handle, Sound
<1>3. c.who # Nobody /\ c.who.user \in Users /\ c.who.org \in Anywhere
  <2>1. c.kind = "open" => c.who.user # "nobody"
    BY <1>2, AccountsAssumption DEF Sound
  <2> QED BY <1>1, <1>2, <2>1 DEF Sound, Sessions, Nobody
<1>4. CASE c.kind = "me"
  <2> DEFINE who == SessionFor(c.who.user, c.who.org)
  <2>1. /\ who \in Sessions /\ who # Nobody /\ who.user = c.who.user
        /\ Belongs(c.who.user) => who.org = home[c.who.user]
    BY <1>3, Opens
  <2>2. AtHome(who)
    BY <2>1 DEF AtHome
  <2>3. Answers(c, who) /\ session' = (IF who = c.who THEN session ELSE who)
    BY <1>4 DEF Handle, Me
  <2> HIDE DEF who
  <2> QED BY <1>2, <1>4, <2>1, <2>2, <2>3
<1>5. CASE c.kind = "open"
  <2> DEFINE who == [c.who EXCEPT !.org = c.org]
  <2>1. who \in Sessions /\ who # Nobody /\ who.user = c.who.user
    BY <1>1, <1>3, AccountsAssumption DEF Sessions, Nobody
  <2>2. Answers(c, who) /\ session' = who
    BY <1>5 DEF Handle, Open
  <2> HIDE DEF who
  <2>3. who = [c.who EXCEPT !.org = c.org]
    BY DEF who
  <2> QED BY <1>2, <1>5, <2>1, <2>2, <2>3
<1>6. CASE c.kind = "login"
  <2>1. Answers(c, c.who) /\ session' = c.who
    BY <1>6 DEF Handle, Login
  <2> QED BY <1>1, <1>2, <1>3, <1>6, <2>1
<1> QED BY <1>2, <1>4, <1>5, <1>6

LEMMA HandleStep ==
    ASSUME TypeOK, Assigned, NEW c \in calls, Handle(c) PROVE TypeOK' /\ Assigned'
<1>1. c \in Requests /\ Sound(c) /\ session \in Sessions /\ Known(session)
  BY DEF TypeOK, Assigned
<1>2. /\ c.stage = "read" /\ c.kind \in {"me", "open", "login"} /\ UNCHANGED <<server, tab, lost>>
  BY <1>1, HandleIs
<1>3. PICK who \in Sessions :
                /\ Answers(c, who) /\ who # Nobody /\ who.user = c.who.user /\ session' \in {session, who}
                /\ c.kind = "me" => AtHome(who)
                /\ c.kind = "login" => who = c.who
  BY <1>1, HandleIs
<1>4. Grows
  BY <1>2, StillGrows
<1> DEFINE d == [c EXCEPT !.stage = "ok", !.who = who]
<1>5. /\ d \in Requests /\ d.stage = "ok" /\ d.who = who
      /\ d.from = c.from /\ d.kind = c.kind /\ d.about = c.about /\ d.org = c.org
  BY <1>1 DEF Requests, Stages
<1>6. Becomes(c, d)
  BY <1>3 DEF Answers
<1> HIDE DEF d
<1>7. session' \in Sessions /\ session'.user \in accounts \cup {"nobody"}
  BY <1>1, <1>3 DEF Sound, Known
<1>8. d.from \in Tabs \/ d.stage = "read" => Sound(d)
  BY <1>1, <1>2, <1>3, <1>5, AccountsAssumption DEF Sound, Carries, Known
<1> QED BY <1>2, <1>4, <1>5, <1>6, <1>7, <1>8, CallStep

\* The other routes answer at once.
LEMMA AnswersStep ==
    ASSUME TypeOK, Assigned, Grows, NEW c \in calls, c.kind \notin {"me", "login", "open"},
           NEW who \in Sessions, Answers(c, who), Known(who),
           c.kind = "logout" => who = Nobody, c.kind = "data" => who # Nobody,
           session' \in {session, Nobody}, UNCHANGED <<tab, lost>>
    PROVE  TypeOK' /\ Assigned'
<1> DEFINE d == [c EXCEPT !.stage = "ok", !.who = who]
<1>1. c \in Requests /\ Sound(c) /\ session \in Sessions /\ Known(session)
  BY DEF TypeOK, Assigned
<1>2. /\ d \in Requests /\ d.stage = "ok" /\ d.who = who
      /\ d.from = c.from /\ d.kind = c.kind /\ d.about = c.about /\ d.org = c.org
  BY <1>1 DEF Requests, Stages
<1>3. Becomes(c, d)
  BY DEF Answers
<1> HIDE DEF d
<1>4. session' \in Sessions /\ session'.user \in accounts \cup {"nobody"}
  BY <1>1, NothingListed DEF Known, Nobody
<1>5. d.from \in Tabs \/ d.stage = "read" => Sound(d)
  BY <1>1, <1>2, AccountsAssumption DEF Sound, Carries
<1> QED BY <1>2, <1>3, <1>4, <1>5, CallStep

LEMMA LogoutStep ==
    ASSUME TypeOK, Assigned, NEW c \in calls, Logout(c) PROVE TypeOK' /\ Assigned'
<1>1. /\ Grows /\ c.kind = "logout" /\ Answers(c, Nobody) /\ Known(Nobody)
      /\ session' = Nobody /\ UNCHANGED <<tab, lost>>
  BY StillGrows DEF Logout, Known, Nobody
<1> QED BY <1>1, NothingListed, AnswersStep

LEMMA FetchedStep ==
    ASSUME TypeOK, Assigned, NEW c \in calls, Fetched(c) PROVE TypeOK' /\ Assigned'
<1>1. Grows /\ c.kind = "data" /\ UNCHANGED <<session, tab, lost>>
  BY StillGrows DEF Fetched
<1>2. session \in Sessions /\ Known(session)
  BY DEF TypeOK, Assigned
<1>3. CASE session = Nobody
  BY <1>1, <1>3, RefusesStep DEF Fetched
<1>4. CASE session # Nobody
  BY <1>1, <1>2, <1>4, AnswersStep DEF Fetched
<1> QED BY <1>3, <1>4

LEMMA ManagedStep ==
    ASSUME TypeOK, Assigned, NEW c \in calls, Managed(c) PROVE TypeOK' /\ Assigned'
<1>1. c.kind \in {"create", "assign"} /\ UNCHANGED <<session, tab, lost>>
  BY DEF Managed
<1>2. CASE Refuses(c) /\ UNCHANGED server
  BY <1>1, <1>2, StillGrows, RefusesStep
<1>3. CASE ~(Refuses(c) /\ UNCHANGED server)
  <2>1. /\ Answers(c, Nobody) /\ UNCHANGED <<elsewhere, moves>>
        /\ CreateUser(c.about, c.org) \/ AssignOrganization(c.about, c.org)
    BY <1>3 DEF Managed
  <2>2. c.about \in Users
    BY <1>1 DEF Assigned, Sound
  <2>3. moves' \in Nat /\ elsewhere' \in BOOLEAN
    BY <2>1 DEF TypeOK
  <2>4. Grows
    BY <2>1, <2>2, <2>3, Changed
  <2>5. Known(Nobody)
    BY DEF Known, Nobody
  <2> QED BY <1>1, <2>1, <2>4, <2>5, NothingListed, AnswersStep
<1> QED BY <1>2, <1>3

\* The list of the users page carries no session.
LEMMA ListedStep ==
    ASSUME TypeOK, Assigned, NEW c \in calls, Listed(c) PROVE TypeOK' /\ Assigned'
<1>1. Grows /\ c.kind = "list" /\ UNCHANGED <<session, tab, lost>>
  BY StillGrows DEF Listed
<1>2. c \in Requests /\ Sound(c) /\ session \in Sessions /\ Known(session) /\ c.stage = "sent"
  BY DEF TypeOK, Assigned, Listed
<1>3. CASE ~IsAdmin
  BY <1>1, <1>3, RefusesStep DEF Listed
<1>4. CASE IsAdmin
  <2> DEFINE T == [u \in Users |-> IF u \in accounts THEN Row(1, home[u]) ELSE Row(0, None)]
             d == [c EXCEPT !.stage = "ok", !.rows = T]
  <2>1. T \in Tables
    BY DEF Tables, Row, TypeOK, Anywhere
  <2> HIDE DEF T
  <2>2. /\ d \in Requests /\ d.stage = "ok" /\ d.who = c.who
        /\ d.from = c.from /\ d.kind = c.kind /\ d.about = c.about /\ d.org = c.org
    BY <1>2, <2>1 DEF Requests, Stages
  <2>3. Becomes(c, d)
    BY <1>4 DEF Listed, T
  <2> HIDE DEF d
  <2>4. Sound(d) \/ ~(d.from \in Tabs \/ d.stage = "read")
    BY <1>1, <1>2, <2>2, AccountsAssumption DEF Sound, Carries
  <2> QED BY <1>1, <1>2, <2>2, <2>3, <2>4, CallStep DEF Known
<1> QED BY <1>3, <1>4
\* A call that was only sent is sound wherever it comes from.
LEMMA FreshIsSound ==
    ASSUME NEW e \in Requests, e.who = Nobody, e.stage = "sent", e.kind # "me",
           e.kind \in {"login", "create", "assign"} => e.about \in Users,
           e.kind = "open" => e.org \in Orgs
    PROVE  Sound(e)
BY DEF Sound, Carries, Known, Nobody

\* A tab shows something else, and fetches it.
LEMMA TabStep ==
    ASSUME TypeOK, Assigned, NEW t \in Tabs, NEW rest \in SUBSET calls,
           tab' \in [Tabs -> Panels], \A s \in Tabs : s # t => tab'[s] = tab[s],
           tab'[t].loading = tab[t].loading \/ \A e \in rest : ~(e.kind = "me" /\ e.from = t),
           Known(tab'[t].identity), moved[t] \/ AtHome(tab'[t].identity),
           calls' \subseteq Requests,
           \A e \in calls' : e \in rest \/ Fetching(e, t) \/ \E c \in rest : c.from = t /\ LeftBehind(e, c),
           lost' \in Nat, UNCHANGED server, session' \in {session, Nobody}
    PROVE  TypeOK' /\ Assigned'
<1>4. TypeOK'
  BY NothingListed DEF TypeOK, server
<1>5. Grows
  BY StillGrows
<1>6. \A e \in calls' : Sound(e)'
  <2> SUFFICES ASSUME NEW e \in calls' PROVE Sound(e)'
    OBVIOUS
  <2>0. e \in Requests
    OBVIOUS
  <2>1. CASE e \in rest
    <3>1. Sound(e)
      BY <2>1 DEF Assigned
    <3>2. e.kind = "me" /\ e.from \in Tabs => tab'[e.from].loading = tab[e.from].loading
      BY <2>1
    <3> QED BY <2>0, <3>1, <3>2, <1>5, StaysSound
  <2>2. CASE Fetching(e, t)
    <3>1. Sound(e)
      BY <2>2, AccountsAssumption DEF Fetching, Sound, Carries, Known, Nobody
    <3>2. e.kind # "me"
      BY <2>2 DEF Fetching
    <3> QED BY <2>0, <3>1, <3>2, <1>5, StaysSound
  <2>3. CASE \E c \in rest : c.from = t /\ LeftBehind(e, c)
    <3>1. PICK f \in calls : LeftBehind(e, f)
      BY <2>3
    <3>2. Sound(f)
      BY DEF Assigned
    <3>3. e.from = "gone" /\ e.kind \in {"create", "assign"} /\ e.kind # "me"
      BY <3>1 DEF LeftBehind
    <3>4. Sound(e)
      BY <3>1, <3>2, AccountsAssumption DEF LeftBehind, Sound, Carries
    <3> QED BY <2>0, <3>3, <3>4, <1>5, StaysSound
  <2> QED BY <2>1, <2>2, <2>3
<1>7. Known(session)'
  BY DEF Known, server, Assigned, Nobody
<1>8. \A s \in Tabs : Known(tab[s].identity)' /\ (moved[s] \/ AtHome(tab[s].identity))'
  BY DEF Assigned, Known, AtHome, server
<1>9. \A e, f \in calls' : e.kind = "me" /\ f.kind = "me" /\ e.from = f.from /\ e.from \in Tabs => e = f
  BY DEF Assigned, Fetching, LeftBehind
<1> QED BY <1>4, <1>6, <1>7, <1>8, <1>9 DEF Assigned

LEMMA RenderStep ==
    ASSUME TypeOK, Assigned, NEW c \in calls, c.from \in Tabs, NEW p \in Panels,
           Render(c.from, p, calls \ {c}),
           p.loading = tab[c.from].loading \/ c.kind = "me",
           Known(p.identity), moved[c.from] \/ AtHome(p.identity),
           lost' \in Nat, UNCHANGED server, session' \in {session, Nobody}
    PROVE  TypeOK' /\ Assigned'
<1>1. calls \ {c} \in SUBSET Requests /\ calls \ {c} \in SUBSET calls
  BY DEF TypeOK
<1> HIDE DEF Requests, Panels
<1>2. /\ tab' \in [Tabs -> Panels]
      /\ tab'[c.from].identity = p.identity /\ tab'[c.from].loading = p.loading
      /\ \A s \in Tabs : s # c.from => tab'[s] = tab[s]
      /\ calls' \subseteq Requests
      /\ \A e \in calls' : \/ e \in calls \ {c} \/ Fetching(e, c.from)
                           \/ \E f \in calls \ {c} : f.from = c.from /\ LeftBehind(e, f)
  BY <1>1, Rendered
<1>3. tab'[c.from].loading = tab[c.from].loading \/ \A e \in calls \ {c} : ~(e.kind = "me" /\ e.from = c.from)
  BY <1>2 DEF Assigned
<1> QED BY <1>1, <1>2, <1>3, TabStep

LEMMA AnswerStep ==
    ASSUME TypeOK, Assigned, NEW c \in calls, Answer(c) PROVE TypeOK' /\ Assigned'
<1> DEFINE p    == IF c.kind = "me" THEN [tab[c.from] EXCEPT !.loading = FALSE] ELSE tab[c.from]
           next == IF c.stage = "ok" THEN Accepted(p, c)
                   ELSE IF c.kind = "data" THEN Identified(p, Nobody) ELSE p
<1>1. c \in Requests /\ Sound(c) /\ c.who \in Sessions
  BY DEF TypeOK, Assigned, Requests
<1>2. c.from \in Tabs /\ c.stage \in {"ok", "refused"}
  BY <1>1 DEF Answer, Requests, Sound
<1>3. tab[c.from] \in Panels /\ Known(tab[c.from].identity) /\ (moved[c.from] \/ AtHome(tab[c.from].identity))
  BY <1>2 DEF TypeOK, Assigned
<1>4. /\ p \in Panels /\ p.identity = tab[c.from].identity
      /\ p.loading = tab[c.from].loading \/ c.kind = "me"
  BY <1>3 DEF Panels
<1>5. Render(c.from, next, calls \ {c}) /\ lost' \in Nat /\ UNCHANGED <<server, session>>
  BY DEF Answer, TypeOK
<1> HIDE DEF p
<1>6. CASE c.stage = "ok"
  <2>1. /\ c.kind \in {"create", "assign"} => c.about \in Users
        /\ c.kind = "data" => c.who # Nobody
    BY <1>1, <1>6 DEF Sound
  <2>2. /\ next \in Panels /\ next.loading = p.loading
        /\ next.identity = IF c.kind \in {"me", "login", "open", "logout"} THEN c.who ELSE p.identity
    BY <1>1, <1>4, <1>6, <2>1, AcceptedIs
  <2>3. Known(c.who) /\ (c.kind \in {"me", "login", "open", "logout"} => moved[c.from] \/ AtHome(c.who))
    BY <1>1, <1>2, <1>6 DEF Sound, Carries, AtHome, Belongs
  <2> HIDE DEF next
  <2>4. Known(next.identity) /\ (moved[c.from] \/ AtHome(next.identity))
    BY <1>3, <1>4, <2>2, <2>3
  <2> QED BY <1>2, <1>4, <1>5, <2>2, <2>4, RenderStep
<1>7. CASE c.stage # "ok"
  <2>1. /\ next \in Panels /\ next.loading = p.loading /\ next.identity \in {p.identity, Nobody}
    BY <1>4, <1>7, IdentifiedIs, NothingListed
  <2> HIDE DEF next
  <2>2. Known(next.identity) /\ (moved[c.from] \/ AtHome(next.identity))
    BY <1>3, <1>4, <2>1 DEF Known, AtHome, Nobody
  <2> QED BY <1>2, <1>4, <1>5, <2>1, <2>2, RenderStep
<1> QED BY <1>6, <1>7

LEMMA LostStep ==
    ASSUME TypeOK, Assigned, NEW c \in calls, Lost(c) PROVE TypeOK' /\ Assigned'
<1> DEFINE next == Unanswered(tab[c.from], c)
<1>1. c.from \in Tabs /\ c \in Requests /\ Sound(c)
  BY DEF Lost, TypeOK, Assigned
<1>2. /\ tab[c.from] \in Panels /\ Known(tab[c.from].identity)
      /\ moved[c.from] \/ AtHome(tab[c.from].identity)
  BY <1>1 DEF TypeOK, Assigned
<1>3. /\ Render(c.from, next, calls \ {c}) /\ lost' \in Nat /\ UNCHANGED server
      /\ session' \in {session, Nobody}
  BY DEF Lost, TypeOK
<1>4. c.kind \in {"create", "assign"} => c.about \in Users
  BY <1>1 DEF Sound
<1>5. /\ next \in Panels /\ next.identity \in {tab[c.from].identity, Nobody}
      /\ next.loading = tab[c.from].loading \/ c.kind = "me"
  BY <1>1, <1>2, <1>4, UnansweredIs
<1> HIDE DEF next
<1>6. Known(next.identity) /\ (moved[c.from] \/ AtHome(next.identity))
  BY <1>2, <1>5 DEF Known, AtHome, Nobody
<1> QED BY <1>1, <1>3, <1>5, <1>6, RenderStep
\* A tab sends a call; before a sign-in it has none whose answer is an identity.
LEMMA SendStep ==
    ASSUME TypeOK, Assigned, NEW t \in Tabs, NEW k \in {"login"} \cup Changes, NEW a \in Users \cup {"nobody"},
           NEW o \in Anywhere, Send(t, k, a, o),
           k \in {"login", "create", "assign"} => a \in Users, k = "open" => o \in Orgs,
           moves' \in Nat, moved' \in [Tabs -> BOOLEAN],
           \A s \in Tabs : \/ moved'[s] = moved[s]
                           \/ /\ tab[s].identity = Nobody
                              /\ \A c \in calls : c.from = s => ~Carries(c)
    PROVE  TypeOK' /\ Assigned'
<1> DEFINE d == Request(t, k, a, o)
<1>1. /\ d \in Requests /\ d.from = t /\ d.kind = k /\ d.about = a /\ d.org = o
      /\ d.stage = "sent" /\ d.who = Nobody
  BY RequestIs DEF Kinds
<1>2. calls' = calls \cup {d} /\ UNCHANGED <<organizations, home, accounts, elsewhere, session, tab, lost>>
  BY DEF Send
<1> HIDE DEF d
<1>3. TypeOK'
  BY <1>1, <1>2 DEF TypeOK
<1>4. k # "me"
  BY DEF Changes
<1>5. Sound(d)
  BY <1>1, <1>4, FreshIsSound
<1>6. \A e \in calls' : Sound(e)'
  <2> SUFFICES ASSUME NEW e \in calls' PROVE Sound(e)'
    OBVIOUS
  <2>1. CASE e = d
    BY <1>1, <1>2, <1>4, <1>5, <2>1 DEF Sound, Carries, Known
  <2>2. CASE e \in calls
    <3>1. Sound(e)
      BY <2>2 DEF Assigned
    <3>2. Carries(e) /\ e.from \in Tabs => moved'[e.from] = moved[e.from]
      BY <2>2
    <3> QED BY <1>2, <3>1, <3>2 DEF Sound, Carries, Known, AtHome
  <2> QED BY <1>2, <2>1, <2>2
<1>7. Known(session)'
  BY <1>2 DEF Known, Assigned
<1>8. \A s \in Tabs : Known(tab[s].identity)' /\ (moved[s] \/ AtHome(tab[s].identity))'
  BY <1>2 DEF Assigned, Known, AtHome, Nobody
<1>9. \A e, f \in calls' : e.kind = "me" /\ f.kind = "me" /\ e.from = f.from /\ e.from \in Tabs => e = f
  BY <1>1, <1>2, <1>4 DEF Assigned
<1> QED BY <1>3, <1>6, <1>7, <1>8, <1>9 DEF Assigned

LEMMA SignInStep ==
    ASSUME TypeOK, Assigned, NEW t \in Tabs, SignIn(t) PROVE TypeOK' /\ Assigned'
<1>1. PICK u \in Users : Send(t, "login", u, None)
  BY DEF SignIn
<1>2. /\ moved' = [moved EXCEPT ![t] = FALSE] /\ moves' = moves
      /\ ~tab[t].loading /\ tab[t].identity = Nobody /\ ~Waiting(t, {"login"})
  BY DEF SignIn
<1>3. moves' \in Nat /\ moved' \in [Tabs -> BOOLEAN]
  BY <1>2 DEF TypeOK
<1>4. ASSUME NEW c \in calls, c.from = t PROVE ~Carries(c)
  BY <1>2, <1>4 DEF Carries, Assigned, Sound, Waiting
<1>5. \A s \in Tabs : s # t => moved'[s] = moved[s]
  BY <1>2 DEF TypeOK
<1>6. None \in Anywhere
  BY DEF Anywhere
<1> QED BY <1>1, <1>2, <1>3, <1>4, <1>5, <1>6, SendStep

\* The other calls leave what is remembered of assignments alone.
LEMMA SendsStep ==
    ASSUME TypeOK, Assigned, NEW t \in Tabs,
           SignOut(t) \/ OpenOrganization(t) \/ NewAccount(t) \/ Assign(t)
    PROVE  TypeOK' /\ Assigned'
<1>1. moves' \in Nat /\ moved' = moved /\ moved' \in [Tabs -> BOOLEAN]
  BY DEF SignOut, OpenOrganization, NewAccount, Assign, Managing, TypeOK
<1>2. None \in Anywhere /\ organizations \subseteq Anywhere /\ organizations \subseteq Orgs
  BY DEF Anywhere, TypeOK
<1>3. CASE SignOut(t)
  <2>1. Send(t, "logout", "nobody", None)
    BY <1>3 DEF SignOut
  <2> QED BY <1>1, <1>2, <2>1, SendStep DEF Changes
<1>4. CASE OpenOrganization(t)
  <2>1. PICK o \in organizations : Send(t, "open", "nobody", o)
    BY <1>4 DEF OpenOrganization
  <2> QED BY <1>1, <1>2, <2>1, SendStep DEF Changes
<1>5. CASE NewAccount(t)
  <2>1. PICK u \in Users, o \in organizations \cup {None} : Send(t, "create", u, o)
    BY <1>5 DEF NewAccount
  <2> QED BY <1>1, <1>2, <2>1, SendStep DEF Changes
<1>6. CASE Assign(t)
  <2>1. PICK u \in Users, o \in organizations : Send(t, "assign", u, o)
    BY <1>6 DEF Assign
  <2> QED BY <1>1, <1>2, <2>1, SendStep DEF Changes
<1> QED BY <1>3, <1>4, <1>5, <1>6

\* The socket, and the page, of a tab are no session.
LEMMA SocketStep ==
    ASSUME TypeOK, Assigned, NEW t \in Tabs, Handshake(t) \/ Drop(t) PROVE TypeOK' /\ Assigned'
<1>1. session \in Sessions /\ tab \in [Tabs -> Panels]
  BY DEF TypeOK
<1>2. PICK s \in Sockets : tab' = [tab EXCEPT ![t].socket = s]
  <2>1. Shaking \in Sockets /\ [Closed EXCEPT !.is = "refused"] \in Sockets
    BY DEF Shaking, Closed, Sockets, Anywhere
  <2>2. session # Nobody => In(session.org) \in Sockets
    BY <1>1 DEF Sessions, In, Sockets
  <2> QED BY <2>1, <2>2 DEF Handshake, Drop
<1>3. /\ tab' \in [Tabs -> Panels]
      /\ \A r \in Tabs : tab'[r].identity = tab[r].identity /\ tab'[r].loading = tab[r].loading
  BY <1>1, <1>2 DEF Panels
<1>4. UNCHANGED <<server, session, calls>> /\ lost' \in Nat
  BY DEF Handshake, Drop, TypeOK
<1>5. TypeOK'
  BY <1>3, <1>4 DEF TypeOK, server
<1>6. \A e \in calls' : Sound(e)'
  <2> SUFFICES ASSUME NEW e \in calls PROVE Sound(e)'
    BY <1>4
  <2>1. e \in Requests /\ Sound(e) /\ Grows
    BY <1>4, StillGrows DEF TypeOK, Assigned
  <2> QED BY <1>3, <2>1, StaysSound
<1> QED BY <1>3, <1>4, <1>5, <1>6 DEF Assigned, Known, AtHome, server

LEMMA ElsewhereStep ==
    ASSUME TypeOK, Assigned, Elsewhere PROVE TypeOK' /\ Assigned'
<1>1. PICK o \in Orgs \cup {None} :
         CreateOrganization(o) \/ \E u \in Users : CreateUser(u, o) \/ AssignOrganization(u, o)
  BY DEF Elsewhere
<1>2. moves' \in Nat /\ elsewhere' \in BOOLEAN /\ UNCHANGED <<session, tab, calls, lost>>
  BY DEF Elsewhere, TypeOK
<1>3. Grows
  BY <1>1, <1>2, Changed
<1>4. TypeOK'
  BY <1>2, <1>3 DEF TypeOK, Grows
<1>5. \A e \in calls' : Sound(e)'
  <2> SUFFICES ASSUME NEW e \in calls PROVE Sound(e)'
    BY <1>2
  <2>1. e \in Requests /\ Sound(e)
    BY DEF TypeOK, Assigned
  <2> QED BY <1>2, <1>3, <2>1, StaysSound
<1>6. \A t \in Tabs : Known(tab[t].identity)' /\ (moved[t] \/ AtHome(tab[t].identity))'
  <2> TAKE t \in Tabs
  <2>1. tab[t].identity \in Sessions
    BY DEF TypeOK, Panels
  <2> QED BY <1>2, <1>3, <2>1, StaysHome DEF Assigned, Known, AtHome
<1>7. Known(session)'
  BY <1>2, <1>3 DEF Known, Grows, Assigned
<1> QED BY <1>2, <1>4, <1>5, <1>6, <1>7 DEF Assigned
LEMMA NavigateStep ==
    ASSUME TypeOK, Assigned, NEW t \in Tabs, NEW page \in Pages, Navigate(t, page) PROVE TypeOK' /\ Assigned'
<1> DEFINE p == [tab[t] EXCEPT !.page = page]
<1>1. calls \in SUBSET Requests /\ tab \in [Tabs -> Panels] /\ tab[t] \in Panels
  BY DEF TypeOK
<1>2. p \in Panels /\ p.identity = tab[t].identity /\ p.loading = tab[t].loading
  BY <1>1 DEF Panels
<1>3. /\ tab' = [tab EXCEPT ![t] = Subscribed(p)] /\ calls' = Unmounted(t, calls) \cup Fetches(t, p)
      /\ UNCHANGED <<server, session>> /\ lost' \in Nat
  BY DEF Navigate, TypeOK
<1> HIDE DEF p, Panels, Requests
<1>4. Subscribed(p) \in Panels /\ Subscribed(p).identity = p.identity /\ Subscribed(p).loading = p.loading
  BY <1>2, SubscribedIs
<1>5. /\ tab' \in [Tabs -> Panels] /\ \A s \in Tabs : s # t => tab'[s] = tab[s]
      /\ tab'[t].identity = tab[t].identity /\ tab'[t].loading = tab[t].loading
  BY <1>1, <1>2, <1>3, <1>4
<1>6. /\ Unmounted(t, calls) \subseteq Requests
      /\ \A e \in Unmounted(t, calls) : e \in calls \/ \E c \in calls : c.from = t /\ LeftBehind(e, c)
  BY <1>1, UnmountedIs DEF LeftBehind
<1>7. \A e \in Fetches(t, p) : e \in Requests /\ Fetching(e, t)
  BY FetchesIs DEF Fetching
<1>8. Known(tab'[t].identity) /\ (moved[t] \/ AtHome(tab'[t].identity))
  BY <1>5 DEF Assigned
<1> QED BY <1>3, <1>5, <1>6, <1>7, <1>8, TabStep

\* What a tab leaves behind when it is reloaded.
LEMMA AbandonedIs ==
    ASSUME calls \subseteq Requests, NEW t \in Tabs, NEW e \in Abandoned(t, {c.kind : c \in calls}, calls)
    PROVE  \/ e \in calls /\ e.from # t
           \/ /\ e \in Requests /\ e.from = "gone" /\ e.kind \notin {"data", "list"} /\ e.stage \in {"sent", "read"}
              /\ \E c \in calls : /\ c.from = t /\ e.kind = c.kind /\ e.stage = c.stage /\ e.who = c.who
                                  /\ e.about = c.about /\ e.org = c.org
<1> DEFINE left == {c \in calls : c.from = t /\ c.kind \in {d.kind : d \in calls}}
           on   == {[c EXCEPT !.from = "gone"] :
                       c \in {c \in left : c.kind \notin {"data", "list"} /\ c.stage \in {"sent", "read"}}}
<1>1. e \in (calls \ left) \cup on
  BY DEF Abandoned
<1>2. CASE e \in calls \ left
  BY <1>2
<1>3. CASE e \in on
  <2>1. PICK c \in left : e = [c EXCEPT !.from = "gone"] /\ c.kind \notin {"data", "list"} /\ c.stage \in {"sent", "read"}
    BY <1>3
  <2>2. c \in Requests
    OBVIOUS
  <2>3. /\ e \in Requests /\ e.from = "gone" /\ e.kind = c.kind /\ e.stage = c.stage /\ e.who = c.who
        /\ e.about = c.about /\ e.org = c.org
    BY <2>1, <2>2 DEF Requests
  <2> QED BY <2>1, <2>3
<1> QED BY <1>1, <1>2, <1>3

\* A tab that is loaded again has nothing but its question who is signed in.
LEMMA ReloadStep ==
    ASSUME TypeOK, Assigned, NEW t \in Tabs, Reload(t) PROVE TypeOK' /\ Assigned'
<1> DEFINE m == Request(t, "me", "nobody", None)
<1>1. /\ m \in Requests /\ m.from = t /\ m.kind = "me" /\ m.stage = "sent" /\ m.who = Nobody
  BY RequestIs DEF Kinds, Anywhere
<1>2. /\ tab' = [tab EXCEPT ![t] = Blank] /\ moved' = [moved EXCEPT ![t] = FALSE]
      /\ calls' = Abandoned(t, {c.kind : c \in calls}, calls) \cup {m}
      /\ UNCHANGED <<organizations, home, accounts, elsewhere, moves, session, lost>>
  BY DEF Reload
<1> HIDE DEF m
<1>3. calls \subseteq Requests /\ tab \in [Tabs -> Panels]
  BY DEF TypeOK
<1>4. \A e \in calls' : e \in Requests /\
         \/ e = m
         \/ e \in calls /\ e.from # t
         \/ /\ e.from = "gone" /\ e.stage \in {"sent", "read"}
            /\ \E c \in calls : /\ c.from = t /\ e.kind = c.kind /\ e.stage = c.stage /\ e.who = c.who
                                /\ e.about = c.about /\ e.org = c.org
  <2> HIDE DEF Requests
  <2> QED BY <1>1, <1>2, <1>3, AbandonedIs
<1>5. /\ tab' \in [Tabs -> Panels] /\ tab'[t].identity = Nobody /\ tab'[t].loading = TRUE
      /\ \A s \in Tabs : s # t => tab'[s] = tab[s]
  BY <1>2, <1>3, BlankIs
<1>6. TypeOK'
  BY <1>2, <1>4, <1>5 DEF TypeOK
<1>7. \A e \in calls' : Sound(e)'
  <2> SUFFICES ASSUME NEW e \in calls' PROVE Sound(e)'
    OBVIOUS
  <2>1. CASE e = m
    BY <1>1, <1>5, <2>1, AccountsAssumption DEF Sound, Carries, Known, Nobody
  <2>2. CASE e \in calls /\ e.from # t
    <3>1. Sound(e)
      BY <2>2 DEF Assigned
    <3>2. e.from \in Tabs => moved'[e.from] = moved[e.from] /\ tab'[e.from] = tab[e.from]
      BY <1>2, <1>5, <2>2 DEF TypeOK
    <3> QED BY <1>2, <3>1, <3>2 DEF Sound, Carries, Known, AtHome
  <2>3. CASE /\ e.from = "gone" /\ e.stage \in {"sent", "read"}
             /\ \E c \in calls : /\ c.from = t /\ e.kind = c.kind /\ e.stage = c.stage /\ e.who = c.who
                                 /\ e.about = c.about /\ e.org = c.org
    <3>1. PICK c \in calls : /\ e.kind = c.kind /\ e.stage = c.stage /\ e.who = c.who
                             /\ e.about = c.about /\ e.org = c.org
      BY <2>3
    <3>2. Sound(c)
      BY DEF Assigned
    <3> QED BY <1>2, <2>3, <3>1, <3>2, AccountsAssumption DEF Sound, Carries, Known
  <2> QED BY <1>4, <2>1, <2>2, <2>3
<1>8. Known(session)'
  BY <1>2 DEF Known, Assigned
<1>9. \A s \in Tabs : Known(tab[s].identity)' /\ (moved[s] \/ AtHome(tab[s].identity))'
  BY <1>2, <1>5 DEF Assigned, Known, AtHome, Nobody, TypeOK
<1>10. \A e, f \in calls' : e.kind = "me" /\ f.kind = "me" /\ e.from = f.from /\ e.from \in Tabs => e = f
  BY <1>1, <1>4, AccountsAssumption DEF Assigned
<1> QED BY <1>6, <1>7, <1>8, <1>9, <1>10 DEF Assigned

LEMMA AssignedInit == Init => TypeOK /\ Assigned
<1> SUFFICES ASSUME Init PROVE TypeOK /\ Assigned
  OBVIOUS
<1>1. \A t \in Tabs : LET m == Request(t, "me", "nobody", None) IN
         m \in Requests /\ m.from = t /\ m.kind = "me" /\ m.stage = "sent" /\ m.who = Nobody
  BY RequestIs DEF Kinds, Anywhere
<1>2. \A c \in calls : \E t \in Tabs : c = Request(t, "me", "nobody", None)
  BY DEF Init
<1>3. \A t \in Tabs : tab[t].loading = TRUE /\ tab[t].identity = Nobody /\ moved[t] = FALSE
  BY BlankIs DEF Init
<1>4. TypeOK
  <2>1. calls \subseteq Requests
    BY <1>1, <1>2
  <2>2. tab \in [Tabs -> Panels] /\ moved \in [Tabs -> BOOLEAN]
    BY BlankIs DEF Init
  <2>3. organizations \subseteq Orgs /\ accounts \subseteq Users /\ home \in [Users -> Anywhere]
    BY DEF Init, Anywhere
  <2> QED BY <2>1, <2>2, <2>3, NothingListed DEF Init, TypeOK
<1>5. \A c \in calls : Sound(c)
  <2> SUFFICES ASSUME NEW c \in calls PROVE Sound(c)
    OBVIOUS
  <2>1. c.from \in Tabs /\ c.kind = "me" /\ c.stage = "sent" /\ c.who = Nobody
    BY <1>1, <1>2
  <2> QED BY <1>3, <2>1, AccountsAssumption DEF Sound, Carries, Known, Nobody
<1>6. \A c, d \in calls : c.from = d.from => c = d
  BY <1>1, <1>2
<1> QED BY <1>2, <1>3, <1>4, <1>5, <1>6, <1>1 DEF Assigned, Known, AtHome, Nobody, Init

LEMMA AssignedStep == TypeOK /\ Assigned /\ [Next]_vars => TypeOK' /\ Assigned'
<1> SUFFICES ASSUME TypeOK, Assigned, [Next]_vars PROVE TypeOK' /\ Assigned'
  OBVIOUS
<1>1. ASSUME NEW c \in calls,
             \/ Arrive(c) \/ Handle(c) \/ Logout(c) \/ Fetched(c) \/ Listed(c) \/ Managed(c)
             \/ Answer(c) \/ Lost(c)
      PROVE  TypeOK' /\ Assigned'
  BY <1>1, ArriveStep, HandleStep, LogoutStep, FetchedStep, ListedStep, ManagedStep, AnswerStep, LostStep
<1>2. ASSUME NEW t \in Tabs, Handshake(t) \/ Drop(t) \/ Page(t)
      PROVE  TypeOK' /\ Assigned'
  <2>1. CASE Handshake(t) \/ Drop(t)
    BY <2>1, SocketStep
  <2>2. CASE Page(t)
    BY <2>2, SignInStep, SendsStep, NavigateStep, ReloadStep DEF Page, Pages
  <2> QED BY <1>2, <2>1, <2>2
<1>3. CASE Elsewhere
  BY <1>3, ElsewhereStep
<1>4. CASE UNCHANGED vars
  BY <1>4 DEF vars, server, TypeOK, Assigned, Sound, Known, AtHome, Carries
<1> QED BY <1>1, <1>2, <1>3, <1>4 DEF Next

\* Every variable has its type, for any accounts, tabs, overlapping calls and failures.
THEOREM TypeCorrect == Spec => []TypeOK
BY AssignedInit, AssignedStep, PTL DEF Spec

\* An assignment takes effect on the next load or sign-in, for any number of tabs and
\* accounts, whichever calls overlap and whenever it comes between the steps of the load:
\* me() reads the account again (auth.controller.ts, auth.service.ts resolve).
THEOREM AssignmentTakesEffect == Spec => []AssignedOnNextLoad
<1>1. Assigned => AssignedOnNextLoad
  BY DEF Assigned, AtHome, AssignedOnNextLoad, Shown
<1> QED BY <1>1, AssignedInit, AssignedStep, PTL DEF Spec
-----------------------------------------------------------------------------
(***************************************************************************)
(* One tab whose switches and sign-outs are awaited: the page, its socket   *)
(* and the session agree.  A tab is in one of three situations; each says   *)
(* which calls there can be, and what their answers carry.                  *)
(***************************************************************************)

Asks   == {"me", "login", "open", "logout"}
Reads  == {"data", "list"}
Awaited == (\E t \in Tabs : Tabs = {t}) /\ "open" \notin Overlap /\ "logout" \notin Overlap

Leaving == \E c \in calls : c.kind = "logout" /\ c.stage = "ok"
Opened  == \E c \in calls : c.kind = "open" /\ c.stage = "ok"

\* Loading: nothing but the question who is signed in.
Loading(t) ==
    /\ tab[t] = Blank
    /\ \A c \in calls : c.kind \in Asks \cup Reads =>
         c.from = t /\ c.kind = "me" /\ (c.stage \in {"read", "ok"} => c.who = session)

\* Signed out: a sign-in, and perhaps the answer of a sign-out that a refused fetch overtook.
Outside(t) ==
    /\ tab[t] = [Blank EXCEPT !.loading = FALSE]
    /\ \A c \in calls : c.kind \in Asks \cup Reads =>
         /\ c.from = t /\ c.kind \in {"login", "logout"}
         /\ c.kind = "logout" => c.stage = "ok"
         /\ c.kind = "login" /\ c.stage = "ok" => c.who = session
    /\ \A c, d \in calls : c.kind = d.kind /\ c.kind \in {"login", "logout"} => c = d

\* After a switch whose answer was lost the session is in another organization, for the
\* same person.
Strays(p) == p.astray /\ \E o \in Anywhere : session = [p.identity EXCEPT !.org = o]

\* Signed in: at most one switch or sign-out; until it is handled the session is the
\* identity, and what was read, shown and joined is of its organization, unless the answer
\* of an earlier switch was lost.
Fits(c, t) ==
    /\ c.from = t /\ c.kind \in {"open", "logout"} \cup Reads
    /\ c.kind = "open" =>
         /\ c.org # tab[t].identity.org
         /\ c.stage = "read" => c.who = session
         /\ c.stage = "ok" => c.who = session /\ session = [tab[t].identity EXCEPT !.org = c.org]
    /\ c.kind = "data" /\ c.stage = "ok" => c.who.org = tab[t].identity.org \/ Leaving \/ Opened \/ Strays(tab[t])
    /\ c.kind = "data" /\ c.stage = "refused" => Leaving

Agrees(p) ==
    /\ session = p.identity /\ p.data \in {None, p.identity.org}
    /\ p.socket.is = "open" => p.socket.room = p.identity.org

Inside(t) ==
    /\ Shown(tab[t]) /\ tab[t].listening
    /\ \A c \in calls : c.kind \in Asks \cup Reads => Fits(c, t)
    /\ \A c, d \in calls : c.kind \in {"open", "logout"} /\ d.kind \in {"open", "logout"} => c = d
    /\ Leaving => session \in {Nobody, tab[t].identity}
    /\ Leaving \/ Opened \/ Agrees(tab[t]) \/ Strays(tab[t])
    /\ tab[t].socket.is \in {"shaking", "open"} \/ (tab[t].socket.is = "refused" /\ Leaving)
    /\ tab[t].socket.is = "shaking" => tab[t].socket = Shaking

Placed(t) == Loading(t) \/ Outside(t) \/ Inside(t)

LEMMA BlankFields ==
    /\ ~Shown(Blank) /\ ~Shown([Blank EXCEPT !.loading = FALSE])
    /\ Blank.loading = TRUE /\ Blank.identity = Nobody /\ Blank.socket = Closed
    /\ [Blank EXCEPT !.loading = FALSE].loading = FALSE
    /\ [Blank EXCEPT !.loading = FALSE].identity = Nobody
    /\ [Blank EXCEPT !.loading = FALSE].socket = Closed
    /\ [Blank EXCEPT !.loading = FALSE] \in Panels
    /\ \A p \in Panels : p.identity = Nobody /\ p.socket = Closed =>
         [Blank EXCEPT !.loading = p.loading, !.identity = p.identity, !.socket = p.socket]
         = IF p.loading THEN Blank ELSE [Blank EXCEPT !.loading = FALSE]
<1>1. Blank \in Panels
  BY BlankIs
<1>2. Blank.loading = TRUE /\ Blank.identity = Nobody /\ Blank.socket = Closed
  BY DEF Blank
<1>3. /\ [Blank EXCEPT !.loading = FALSE].loading = FALSE
      /\ [Blank EXCEPT !.loading = FALSE].identity = Nobody
      /\ [Blank EXCEPT !.loading = FALSE].socket = Closed
      /\ [Blank EXCEPT !.loading = FALSE] \in Panels
  BY <1>1, <1>2 DEF Panels
<1>4. ~Shown(Blank) /\ ~Shown([Blank EXCEPT !.loading = FALSE])
  BY <1>2, <1>3 DEF Shown
<1>5. ASSUME NEW p \in Panels, p.identity = Nobody, p.socket = Closed
      PROVE  [Blank EXCEPT !.loading = p.loading, !.identity = p.identity, !.socket = p.socket]
             = IF p.loading THEN Blank ELSE [Blank EXCEPT !.loading = FALSE]
  <2> DEFINE q == [Blank EXCEPT !.loading = p.loading, !.identity = p.identity, !.socket = p.socket]
             r == IF p.loading THEN Blank ELSE [Blank EXCEPT !.loading = FALSE]
  <2>1. q \in Panels /\ r \in Panels
    BY <1>1, <1>3, BlankIs
  <2>2. /\ q.loading = p.loading /\ q.identity = Nobody /\ q.socket = Closed /\ q.listening = Blank.listening
        /\ q.data = Blank.data /\ q.page = Blank.page /\ q.listed = Blank.listed /\ q.rows = Blank.rows
        /\ q.astray = Blank.astray /\ q.unheard = Blank.unheard
    BY <1>1, <1>5 DEF Panels
  <2>3. /\ r.loading = p.loading /\ r.identity = Nobody /\ r.socket = Closed /\ r.listening = Blank.listening
        /\ r.data = Blank.data /\ r.page = Blank.page /\ r.listed = Blank.listed /\ r.rows = Blank.rows
        /\ r.astray = Blank.astray /\ r.unheard = Blank.unheard
    BY <1>1, <1>2, <1>3 DEF Panels
  <2> HIDE DEF q, r
  <2>4. q = r
    BY <2>1, <2>2, <2>3 DEF Panels
  <2> QED BY <2>4 DEF q, r
<1> QED BY <1>2, <1>3, <1>4, <1>5

\* The three outcomes of a render.
LEMMA RendersOut ==
    ASSUME TypeOK, NEW t \in Tabs, NEW p \in Panels, NEW rest \in SUBSET Requests, Render(t, p, rest), ~Shown(p),
           \A e \in rest : e.kind \in Asks \cup Reads => e.from = t
    PROVE  /\ tab'[t] = [Blank EXCEPT !.loading = p.loading, !.identity = p.identity, !.socket = p.socket]
           /\ \A e \in calls' : e.kind \in Asks \cup Reads => e \in rest /\ e.kind \in Asks
<1> HIDE DEF Requests, Panels
<1>1. /\ tab' = [tab EXCEPT ![t] = [Blank EXCEPT !.loading = p.loading, !.identity = p.identity, !.socket = p.socket]]
      /\ calls' = Unmounted(t, rest)
  BY DEF Render, Remounts
<1>2. \A e \in Unmounted(t, rest) :
                \/ e \in rest /\ (e.from = t => e.kind \in {"me", "login", "open", "logout"})
                \/ e.from = "gone" /\ e.kind \in {"create", "assign"}
  BY UnmountedIs
<1>3. tab \in [Tabs -> Panels]
  BY DEF TypeOK
<1> QED BY <1>1, <1>2, <1>3 DEF Asks, Reads

LEMMA RendersMounted ==
    ASSUME TypeOK, NEW t \in Tabs, NEW p \in Panels, NEW rest \in SUBSET Requests, Render(t, p, rest), Remounts(t, p),
           \A e \in rest : e.kind \in Asks \cup Reads => e.from = t
    PROVE  /\ tab'[t] = Subscribed(p)
           /\ \A e \in calls' : e.kind \in Asks \cup Reads =>
                \/ e \in rest /\ e.kind \in Asks
                \/ e.from = t /\ e.kind \in Reads /\ e.stage = "sent"
<1> HIDE DEF Requests, Panels
<1>1. tab' = [tab EXCEPT ![t] = Subscribed(p)] /\ calls' = Unmounted(t, rest) \cup Fetches(t, p)
  BY DEF Render
<1>2. \A e \in Unmounted(t, rest) :
                \/ e \in rest /\ (e.from = t => e.kind \in {"me", "login", "open", "logout"})
                \/ e.from = "gone" /\ e.kind \in {"create", "assign"}
  BY UnmountedIs
<1>3. tab \in [Tabs -> Panels]
  BY DEF TypeOK
<1>4. \A e \in Fetches(t, p) : e.from = t /\ e.kind \in Reads /\ e.stage = "sent"
  BY FetchesIs DEF Reads
<1> QED BY <1>1, <1>2, <1>3, <1>4 DEF Asks, Reads

LEMMA RendersKept ==
    ASSUME TypeOK, NEW t \in Tabs, NEW p, NEW rest, Render(t, p, rest), Shown(p), ~Remounts(t, p)
    PROVE  tab'[t] = p /\ calls' = rest
BY DEF Render, TypeOK

\* A tab that learns that nobody is signed in.
LEMMA GoesOut ==
    ASSUME TypeOK, NEW t \in Tabs, NEW p \in Panels, NEW rest \in SUBSET Requests, Render(t, p, rest),
           p.loading = FALSE, p.identity = Nobody, p.socket = Closed, session' = session,
           \A e \in rest : e.kind \in Asks \cup Reads => e.from = t,
           \A e \in rest : e.kind \in Asks =>
             /\ e.kind \in {"login", "logout"}
             /\ e.kind = "logout" => e.stage = "ok"
             /\ e.kind = "login" /\ e.stage = "ok" => e.who = session,
           \A e, f \in rest : e.kind = f.kind /\ e.kind \in {"login", "logout"} => e = f
    PROVE  Outside(t)'
<1> HIDE DEF Requests, Panels
<1>1. ~Shown(p)
  BY DEF Shown
<1>2. /\ tab'[t] = [Blank EXCEPT !.loading = p.loading, !.identity = p.identity, !.socket = p.socket]
      /\ \A e \in calls' : e.kind \in Asks \cup Reads => e \in rest /\ e.kind \in Asks
  BY <1>1, RendersOut
<1>3. tab'[t] = [Blank EXCEPT !.loading = FALSE]
  BY <1>2, BlankFields
<1>4. \A e, f \in calls' : e.kind = f.kind /\ e.kind \in {"login", "logout"} => e = f
  BY <1>2 DEF Asks
<1> QED BY <1>2, <1>3, <1>4 DEF Outside

\* A tab that learns who is signed in, or in which organization, mounts its panels.
LEMMA GoesIn ==
    ASSUME TypeOK, NEW t \in Tabs, NEW p \in Panels, NEW rest \in SUBSET Requests, Render(t, p, rest),
           Remounts(t, p), p.identity = session, p.socket = Closed, session' = session,
           \A e \in rest : e.kind \in Asks \cup Reads => e.from = t,
           \A e \in rest : e.kind \in Asks => e.kind = "logout",
           \A e, f \in rest : e.kind = "logout" /\ f.kind = "logout" => e = f
    PROVE  Inside(t)'
<1> HIDE DEF Requests, Panels
<1>1. /\ tab'[t] = Subscribed(p)
      /\ \A e \in calls' : e.kind \in Asks \cup Reads =>
                \/ e \in rest /\ e.kind \in Asks
                \/ e.from = t /\ e.kind \in Reads /\ e.stage = "sent"
  BY RendersMounted
<1>2. /\ Subscribed(p).identity = p.identity /\ Subscribed(p).loading = p.loading
      /\ Subscribed(p).socket = Shaking /\ Subscribed(p).listening = TRUE /\ Subscribed(p).data = None
  BY SubscribedIs
<1>3. Shown(p)
  BY DEF Remounts
<1>4. Shown(tab[t])' /\ tab'[t].listening
  BY <1>1, <1>2, <1>3 DEF Shown
<1>5. \A c \in calls' : c.kind \in Asks \cup Reads => Fits(c, t)'
  BY <1>1 DEF Fits, Asks, Reads
<1>6. \A c, d \in calls' : c.kind \in {"open", "logout"} /\ d.kind \in {"open", "logout"} => c = d
  BY <1>1 DEF Asks, Reads
<1>7. session' = tab'[t].identity /\ Agrees(tab[t])'
  BY <1>1, <1>2 DEF Agrees, Shaking
<1>8. tab'[t].socket.is = "shaking" /\ tab'[t].socket = Shaking
  BY <1>1, <1>2 DEF Shaking
<1> QED BY <1>4, <1>5, <1>6, <1>7, <1>8 DEF Inside
LEMMA SomebodyIsIn ==
    ASSUME TypeOK, Assigned, NEW t \in Tabs, Inside(t), ~Leaving PROVE session # Nobody
<1>1. tab[t].identity \in Sessions /\ tab[t].identity # Nobody
  BY DEF TypeOK, Panels, Inside, Shown
<1>2. CASE Opened
  <2>1. PICK o \in calls : o.kind = "open" /\ o.stage = "ok"
    BY <1>2 DEF Opened
  <2>2. o.who = session /\ o.who.user \in Admins
    BY <2>1 DEF Inside, Fits, Asks, Assigned, Sound
  <2> QED BY <2>2, AccountsAssumption DEF Nobody
<1>3. CASE Agrees(tab[t])
  BY <1>1, <1>3 DEF Agrees
<1>4. CASE Strays(tab[t])
  <2>1. PICK o \in Anywhere : session = [tab[t].identity EXCEPT !.org = o]
    BY <1>4 DEF Strays
  <2>2. tab[t].identity.user \in Users /\ session.user = tab[t].identity.user
    BY <1>1, <2>1 DEF Sessions
  <2> QED BY <2>2, AccountsAssumption DEF Nobody
<1> QED BY <1>2, <1>3, <1>4 DEF Inside

\* A request arrives, or is answered, and leaves the session as it is.
LEMMA CallPlaced ==
    ASSUME TypeOK, Assigned, NEW t \in Tabs, Placed(t), NEW c \in calls, c.stage = "sent", NEW d \in Requests,
           Becomes(c, d), d.from = c.from, d.kind = c.kind, d.org = c.org, UNCHANGED <<session, tab>>,
           c.kind \in Asks => d.stage \in {"read", "refused"},
           c.kind \in {"me", "open"} /\ d.stage = "read" => d.who = session,
           c.kind = "data" /\ d.stage = "ok" => d.who = session,
           c.kind = "data" /\ d.stage = "refused" => session = Nobody
    PROVE  Placed(t)'
<1>1. /\ \A e \in calls' : (e \in calls /\ e # c) \/ e = d
      /\ \A e \in calls : e # c => e \in calls'
  <2> HIDE DEF Requests
  <2> QED BY BecomesIs DEF TypeOK
<1>2. (Leaving => Leaving') /\ (Opened => Opened')
  BY <1>1 DEF Leaving, Opened
<1>3. Leaving' => Leaving
  BY <1>1 DEF Leaving, Asks
<1>4. CASE Loading(t)
  <2>1. \A e \in calls' : e.kind \in Asks \cup Reads =>
          e.from = t /\ e.kind = "me" /\ (e.stage \in {"read", "ok"} => e.who = session)
    BY <1>1, <1>4 DEF Loading, Asks
  <2> QED BY <1>4, <2>1 DEF Loading, Placed
<1>5. CASE Outside(t)
  <2>1. \A e \in calls' : e.kind \in Asks \cup Reads =>
         /\ e.from = t /\ e.kind \in {"login", "logout"}
         /\ e.kind = "logout" => e.stage = "ok"
         /\ e.kind = "login" /\ e.stage = "ok" => e.who = session
    BY <1>1, <1>5 DEF Outside, Asks
  <2>2. \A e, f \in calls' : e.kind = f.kind /\ e.kind \in {"login", "logout"} => e = f
    BY <1>1, <1>5 DEF Outside
  <2> QED BY <1>5, <2>1, <2>2 DEF Outside, Placed
<1>6. CASE Inside(t)
  <2>1. session = Nobody => Leaving
    BY <1>6, SomebodyIsIn
  <2>0. Strays(tab[t])' <=> Strays(tab[t])
    BY DEF Strays
  <2>2. d.kind = "data" /\ d.stage = "ok" =>
          d.who.org = tab[t].identity.org \/ Leaving \/ Opened \/ Strays(tab[t])
    BY <1>6 DEF Inside, Agrees
  <2>3. \A e \in calls' : e.kind \in Asks \cup Reads => Fits(e, t)'
    <3> SUFFICES ASSUME NEW e \in calls', e.kind \in Asks \cup Reads PROVE Fits(e, t)'
      OBVIOUS
    <3>1. CASE e \in calls /\ e # c
      BY <1>2, <1>6, <2>0, <3>1 DEF Inside, Fits
    <3>2. CASE e = d
      <4>1. Fits(c, t)
        BY <1>6, <3>2 DEF Inside
      <4> QED BY <1>2, <2>0, <2>1, <2>2, <3>2, <4>1 DEF Fits, Asks
    <3> QED BY <1>1, <3>1, <3>2
  <2>4. \A e, f \in calls' : e.kind \in {"open", "logout"} /\ f.kind \in {"open", "logout"} => e = f
    BY <1>1, <1>6 DEF Inside
  <2>5. Leaving' => session \in {Nobody, tab[t].identity}
    BY <1>3, <1>6 DEF Inside
  <2>6. Leaving' \/ Opened' \/ Agrees(tab[t])' \/ Strays(tab[t])'
    BY <1>2, <1>6, <2>0 DEF Inside, Agrees
  <2> QED BY <1>2, <1>6, <2>3, <2>4, <2>5, <2>6 DEF Inside, Shown, Placed
<1> QED BY <1>4, <1>5, <1>6 DEF Placed

LEMMA ArrivePlaced ==
    ASSUME TypeOK, Assigned, NEW t \in Tabs, Placed(t), NEW c \in calls, Arrive(c) PROVE Placed(t)'
<1>1. c \in Requests /\ Sound(c) /\ session \in Sessions
  BY DEF TypeOK, Assigned
<1>2. UNCHANGED <<session, tab>> /\ c.stage = "sent" /\ c.kind \in {"me", "open", "login"}
  BY DEF Arrive
<1>3. CASE Refuses(c)
  <2> DEFINE d == [c EXCEPT !.stage = "refused", !.who = Nobody]
  <2>1. d \in Requests /\ d.stage = "refused" /\ d.from = c.from /\ d.kind = c.kind /\ d.org = c.org
    BY <1>1, NothingListed DEF Requests, Stages
  <2>2. Becomes(c, d)
    BY <1>3 DEF Refuses
  <2> HIDE DEF d
  <2> QED BY <1>2, <2>1, <2>2, CallPlaced
<1>4. CASE ~Refuses(c)
  <2> DEFINE read == IF c.kind = "login" THEN SessionFor(c.about, None) ELSE session
             d    == [c EXCEPT !.stage = "read", !.who = read]
  <2>1. Becomes(c, d)
    BY <1>4 DEF Arrive
  <2>2. read \in Sessions
    BY <1>1, Opens DEF Sound, Anywhere
  <2>3. c.kind # "login" => read = session
    OBVIOUS
  <2> HIDE DEF read
  <2>4. /\ d \in Requests /\ d.stage = "read" /\ d.who = read
        /\ d.from = c.from /\ d.kind = c.kind /\ d.org = c.org
    BY <1>1, <2>2 DEF Requests, Stages
  <2> HIDE DEF d
  <2> QED BY <1>2, <2>1, <2>3, <2>4, CallPlaced
<1> QED BY <1>3, <1>4

LEMMA FetchedPlaced ==
    ASSUME TypeOK, Assigned, NEW t \in Tabs, Placed(t), NEW c \in calls, Fetched(c) PROVE Placed(t)'
<1>1. c \in Requests /\ session \in Sessions
  BY DEF TypeOK
<1>2. UNCHANGED <<session, tab>> /\ c.stage = "sent" /\ c.kind = "data"
  BY DEF Fetched
<1> DEFINE s == IF session = Nobody THEN "refused" ELSE "ok"
           d == [c EXCEPT !.stage = s, !.who = session]
<1>3. Becomes(c, d)
  BY DEF Fetched, Refuses, Answers
<1>4. s \in Stages /\ (s = "ok" \/ (s = "refused" /\ session = Nobody))
  BY DEF Stages
<1> HIDE DEF s
<1>5. d \in Requests /\ d.stage = s /\ d.who = session /\ d.from = c.from /\ d.kind = c.kind /\ d.org = c.org
  BY <1>1, <1>4 DEF Requests
<1> HIDE DEF d
<1>6. c.kind \notin Asks
  BY <1>2 DEF Asks
<1> QED BY <1>2, <1>3, <1>4, <1>5, <1>6, CallPlaced

\* The users page asks for nothing that the situation of a tab depends on.
LEMMA ListedPlaced ==
    ASSUME TypeOK, Assigned, NEW t \in Tabs, Placed(t), NEW c \in calls, Listed(c) \/ Managed(c) PROVE Placed(t)'
<1>1. c \in Requests
  BY DEF TypeOK
<1>2. UNCHANGED <<session, tab>> /\ c.stage = "sent" /\ c.kind \in {"list", "create", "assign"}
  BY DEF Listed, Managed
<1> DEFINE T == [u \in Users |-> IF u \in accounts THEN Row(1, home[u]) ELSE Row(0, None)]
<1>3. T \in Tables
  BY DEF Tables, Row, TypeOK, Anywhere
<1>4. c.kind \notin Asks /\ c.kind \notin {"data", "me", "open"}
  BY <1>2 DEF Asks
<1>5. CASE Refuses(c) \/ Answers(c, Nobody)
  <2>1. PICK s \in {"refused", "ok"} : Becomes(c, [c EXCEPT !.stage = s, !.who = Nobody])
    BY <1>5 DEF Refuses, Answers
  <2> DEFINE d == [c EXCEPT !.stage = s, !.who = Nobody]
  <2>2. d \in Requests /\ d.from = c.from /\ d.kind = c.kind /\ d.org = c.org
    BY <1>1, NothingListed DEF Requests, Stages
  <2>3. Becomes(c, d)
    BY <2>1
  <2> HIDE DEF d
  <2> QED BY <1>2, <1>4, <2>2, <2>3, CallPlaced
<1>6. CASE ~(Refuses(c) \/ Answers(c, Nobody))
  <2> DEFINE d == [c EXCEPT !.stage = "ok", !.rows = T]
  <2>1. Becomes(c, d)
    BY <1>6 DEF Listed, Managed
  <2> HIDE DEF T
  <2>2. d \in Requests /\ d.from = c.from /\ d.kind = c.kind /\ d.org = c.org
    BY <1>1, <1>3 DEF Requests, Stages
  <2> HIDE DEF d
  <2> QED BY <1>2, <1>4, <2>1, <2>2, CallPlaced
<1> QED BY <1>5, <1>6
\* What is handled is what the tab waits for, and it leaves the session it is answered with.
LEMMA HandlePlaced ==
    ASSUME TypeOK, Assigned, NEW t \in Tabs, Placed(t), NEW c \in calls, Handle(c) PROVE Placed(t)'
<1>1. c \in Requests /\ Sound(c) /\ session \in Sessions
  BY DEF TypeOK, Assigned
<1>2. c.stage = "read" /\ c.kind \in {"me", "open", "login"} /\ UNCHANGED <<server, tab, lost>>
  BY <1>1, HandleIs
<1>3. PICK who \in Sessions :
                /\ Answers(c, who) /\ who # Nobody /\ who.user = c.who.user
                /\ c.kind # "me" \/ session = c.who => session' = who
                /\ c.kind = "open" => who = [c.who EXCEPT !.org = c.org]
  BY <1>1, HandleIs
<1> DEFINE d == [c EXCEPT !.stage = "ok", !.who = who]
<1>4. d \in Requests /\ d.stage = "ok" /\ d.who = who /\ d.from = c.from /\ d.kind = c.kind /\ d.org = c.org
  BY <1>1 DEF Requests, Stages
<1>5. Becomes(c, d)
  BY <1>3 DEF Answers
<1> HIDE DEF d
<1>6. \A e \in calls' : (e \in calls /\ e # c) \/ e = d
  <2> HIDE DEF Requests
  <2> QED BY <1>4, <1>5, BecomesIs DEF TypeOK
<1>7. CASE Loading(t)
  <2>1. c.from = t /\ c.kind = "me" /\ c.who = session
    BY <1>2, <1>7 DEF Loading, Asks
  <2>2. session' = who
    BY <1>3, <2>1
  <2>3. ASSUME NEW e \in calls', e.kind \in Asks \cup Reads PROVE e = d
    BY <1>6, <1>7, <2>1, <2>3 DEF Loading, Assigned
  <2>4. \A e \in calls' : e.kind \in Asks \cup Reads =>
          e.from = t /\ e.kind = "me" /\ (e.stage \in {"read", "ok"} => e.who = session')
    BY <1>4, <2>1, <2>2, <2>3
  <2> QED BY <1>2, <1>7, <2>4 DEF Loading, Placed
<1>8. CASE Outside(t)
  <2>1. c.from = t /\ c.kind = "login"
    BY <1>2, <1>8 DEF Outside, Asks
  <2>2. session' = who
    BY <1>3, <2>1
  <2>3. \A e \in calls' : e.kind \in Asks \cup Reads =>
         /\ e.from = t /\ e.kind \in {"login", "logout"}
         /\ e.kind = "logout" => e.stage = "ok"
         /\ e.kind = "login" /\ e.stage = "ok" => e.who = session'
    BY <1>4, <1>6, <1>8, <2>1, <2>2 DEF Outside
  <2>4. \A e, f \in calls' : e.kind = f.kind /\ e.kind \in {"login", "logout"} => e = f
    BY <1>4, <1>6, <1>8 DEF Outside
  <2> QED BY <1>2, <1>8, <2>3, <2>4 DEF Outside, Placed
<1>9. CASE Inside(t)
  <2> DEFINE p == tab[t]
  <2>1. Fits(c, t) /\ c.from = t /\ c.kind = "open" /\ c.who = session
    BY <1>2, <1>9 DEF Inside, Fits, Asks, Reads
  <2>2. ~Leaving /\ ~Opened
    BY <1>2, <1>9, <2>1 DEF Inside, Leaving, Opened
  <2>3. session = p.identity \/ \E o \in Anywhere : session = [p.identity EXCEPT !.org = o]
    BY <1>9, <2>2 DEF Inside, Agrees, Strays
  <2>4. session' = who /\ who = [p.identity EXCEPT !.org = c.org]
    <3>1. p.identity \in Sessions
      BY DEF TypeOK, Panels
    <3>2. [session EXCEPT !.org = c.org] = [p.identity EXCEPT !.org = c.org]
      BY <2>3, <3>1 DEF Sessions, Nobody
    <3> QED BY <1>3, <2>1, <3>2
  <2>5. d \in calls'
    BY <1>4, <1>5, <2>1 DEF Becomes
  <2>6. Opened'
    BY <1>4, <2>1, <2>5 DEF Opened
  <2>7. ~Leaving'
    BY <1>4, <1>6, <2>1, <2>2 DEF Leaving
  <2>8. \A e \in calls' : e.kind \in Asks \cup Reads => Fits(e, t)'
    <3> SUFFICES ASSUME NEW e \in calls', e.kind \in Asks \cup Reads PROVE Fits(e, t)'
      OBVIOUS
    <3>1. CASE e \in calls /\ e # c
      <4>1. Fits(e, t)
        BY <1>9, <3>1 DEF Inside
      <4>2. e.kind # "open"
        BY <1>9, <2>1, <3>1 DEF Inside
      <4> QED BY <1>2, <2>2, <2>6, <4>1, <4>2 DEF Fits
    <3>2. CASE e = d
      BY <1>2, <1>4, <2>1, <2>4, <3>2 DEF Fits
    <3> QED BY <1>6, <3>1, <3>2
  <2>9. \A e, f \in calls' : e.kind \in {"open", "logout"} /\ f.kind \in {"open", "logout"} => e = f
    BY <1>4, <1>6, <1>9, <2>1 DEF Inside
  <2> QED BY <1>2, <1>9, <2>2, <2>6, <2>7, <2>8, <2>9 DEF Inside, Placed, Shown
<1> QED BY <1>7, <1>8, <1>9 DEF Placed

LEMMA LogoutPlaced ==
    ASSUME TypeOK, Assigned, NEW t \in Tabs, Placed(t), NEW c \in calls, Logout(c) PROVE Placed(t)'
<1>1. c \in Requests
  BY DEF TypeOK
<1>2. c.stage = "sent" /\ c.kind = "logout" /\ session' = Nobody /\ tab' = tab
  BY DEF Logout
<1> DEFINE d == [c EXCEPT !.stage = "ok", !.who = Nobody]
<1>3. d \in Requests /\ d.stage = "ok" /\ d.from = c.from /\ d.kind = c.kind /\ d.org = c.org
  BY <1>1, NothingListed DEF Requests, Stages
<1>4. Becomes(c, d)
  BY DEF Logout, Answers
<1> HIDE DEF d
<1>5. \A e \in calls' : (e \in calls /\ e # c) \/ e = d
  <2> HIDE DEF Requests
  <2> QED BY <1>3, <1>4, BecomesIs DEF TypeOK
<1>6. CASE Inside(t)
  <2>1. Fits(c, t) /\ c.from = t
    BY <1>2, <1>6 DEF Inside, Fits, Asks
  <2>2. Leaving'
    BY <1>2, <1>3, <1>4, <2>1 DEF Leaving, Becomes
  <2>3. \A e \in calls' : e.kind \in Asks \cup Reads => Fits(e, t)'
    <3> SUFFICES ASSUME NEW e \in calls', e.kind \in Asks \cup Reads PROVE Fits(e, t)'
      OBVIOUS
    <3>1. CASE e \in calls /\ e # c
      <4>1. Fits(e, t)
        BY <1>6, <3>1 DEF Inside
      <4>2. e.kind # "open"
        BY <1>2, <1>6, <3>1 DEF Inside
      <4> QED BY <1>2, <2>2, <4>1, <4>2 DEF Fits
    <3>2. CASE e = d
      BY <1>2, <1>3, <2>1, <3>2 DEF Fits
    <3> QED BY <1>5, <3>1, <3>2
  <2>4. \A e, f \in calls' : e.kind \in {"open", "logout"} /\ f.kind \in {"open", "logout"} => e = f
    BY <1>2, <1>3, <1>5, <1>6 DEF Inside
  <2> QED BY <1>2, <1>6, <2>2, <2>3, <2>4 DEF Inside, Placed, Shown
<1>7. CASE Loading(t) \/ Outside(t)
  BY <1>2, <1>7 DEF Loading, Outside, Asks
<1> QED BY <1>6, <1>7 DEF Placed

LEMMA SocketPlaced ==
    ASSUME TypeOK, Assigned, NEW t \in Tabs, Tabs = {t}, Placed(t), Handshake(t) \/ Drop(t) PROVE Placed(t)'
<1>1. tab \in [Tabs -> Panels] /\ tab[t] \in Panels /\ session \in Sessions
  BY DEF TypeOK
<1>2. UNCHANGED <<session, calls>> /\ tab[t].socket # Closed
  BY DEF Handshake, Drop, Shaking, Closed
<1>3. Inside(t)
  BY <1>2, BlankFields DEF Placed, Loading, Outside
<1>4. session = Nobody => Leaving
  BY <1>3, SomebodyIsIn
<1>5. PICK s : /\ tab' = [tab EXCEPT ![t].socket = s]
               /\ \/ s = [Closed EXCEPT !.is = "refused"] /\ session = Nobody
                  \/ s = In(session.org) \/ s = Shaking
  BY DEF Handshake, Drop
<1>6. /\ s.is = "open" => s.room = session.org
      /\ s.is \in {"shaking", "open"} \/ (s.is = "refused" /\ Leaving)
      /\ s.is = "shaking" => s = Shaking
  BY <1>4, <1>5 DEF Closed, Shaking, In
<1>7. /\ tab'[t].socket = s /\ tab'[t].identity = tab[t].identity /\ tab'[t].loading = tab[t].loading
      /\ tab'[t].listening = tab[t].listening /\ tab'[t].data = tab[t].data /\ tab'[t].astray = tab[t].astray
  BY <1>1, <1>5 DEF Panels
<1>8. \A e \in calls : e.kind \in Asks \cup Reads => Fits(e, t)'
  <2>1. Strays(tab[t])' <=> Strays(tab[t])
    BY <1>2, <1>7 DEF Strays
  <2> QED BY <1>2, <1>3, <1>7, <2>1 DEF Inside, Fits, Leaving, Opened
<1>9. /\ Shown(tab[t])' /\ tab'[t].listening
      /\ Leaving' <=> Leaving
      /\ Opened' <=> Opened
  BY <1>2, <1>3, <1>7 DEF Inside, Shown, Leaving, Opened
<1>10. Leaving \/ Opened \/ Agrees(tab[t])' \/ Strays(tab[t])'
  BY <1>2, <1>3, <1>6, <1>7 DEF Inside, Agrees, Strays
<1>11. Inside(t)'
  BY <1>2, <1>3, <1>6, <1>7, <1>8, <1>9, <1>10 DEF Inside
<1> QED BY <1>11 DEF Placed
\* A tab that goes on as it is, with one call less, or another list.
LEMMA StaysInside ==
    ASSUME TypeOK, NEW t \in Tabs, Inside(t), NEW c \in calls, NEW p \in Panels,
           Render(t, p, calls \ {c}), p.loading = tab[t].loading, p.identity = tab[t].identity,
           p.socket = tab[t].socket, p.listening = tab[t].listening, p.astray = tab[t].astray, session' = session,
           Leaving \/ Opened \/ Strays(tab[t]) \/ p.data \in {None, p.identity.org},
           c.stage = "ok" => c.kind \notin {"open", "logout"}
    PROVE  Inside(t)'
<1>1. Shown(p) /\ ~Remounts(t, p)
  BY DEF Inside, Shown, Remounts
<1>2. tab'[t] = p /\ calls' = calls \ {c}
  BY <1>1, RendersKept
<1>3. (Leaving' <=> Leaving) /\ (Opened' <=> Opened) /\ (Strays(tab[t])' <=> Strays(tab[t]))
  BY <1>2 DEF Leaving, Opened, Strays
<1>4. \A e \in calls' : e.kind \in Asks \cup Reads => Fits(e, t)'
  BY <1>2, <1>3 DEF Inside, Fits
<1>5. Leaving \/ Opened \/ Agrees(tab[t])' \/ Strays(tab[t])'
  BY <1>2, <1>3 DEF Inside, Agrees
<1>6. Shown(tab[t])' /\ tab'[t].listening
  BY <1>2 DEF Inside, Shown
<1> QED BY <1>2, <1>3, <1>4, <1>5, <1>6 DEF Inside

\* A tab that shows nothing goes on showing nothing.
LEMMA StaysOut ==
    ASSUME TypeOK, NEW t \in Tabs, Loading(t) \/ Outside(t), NEW c \in calls, NEW p \in Panels,
           Render(t, p, calls \ {c}), p.loading = tab[t].loading, p.identity = tab[t].identity,
           p.socket = tab[t].socket, session' = session \/ c.kind = "login"
    PROVE  Loading(t)' \/ Outside(t)'
<1>1. calls \ {c} \in SUBSET Requests
  BY DEF TypeOK
<1>2. \A e \in calls \ {c} : e.kind \in Asks \cup Reads => e.from = t
  BY DEF Loading, Outside
<1>3. p.identity = Nobody /\ p.socket = Closed /\ ~Shown(p)
  BY BlankFields DEF Loading, Outside, Shown
<1> HIDE DEF Requests, Panels
<1>4. /\ tab'[t] = [Blank EXCEPT !.loading = p.loading, !.identity = p.identity, !.socket = p.socket]
      /\ \A e \in calls' : e.kind \in Asks \cup Reads => e \in calls \ {c} /\ e.kind \in Asks
  BY <1>1, <1>2, <1>3, RendersOut
<1>5. tab'[t] = IF p.loading THEN Blank ELSE [Blank EXCEPT !.loading = FALSE]
  BY <1>3, <1>4, BlankFields
<1>6. CASE Loading(t)
  <2>1. p.loading = TRUE
    BY <1>6, BlankFields DEF Loading
  <2>2. session' = session
    BY <1>6 DEF Loading, Asks
  <2> QED BY <1>4, <1>5, <1>6, <2>1, <2>2 DEF Loading
<1>7. CASE Outside(t)
  <2>1. p.loading = FALSE
    BY <1>7, BlankFields DEF Outside
  <2>2. \A e, f \in calls' : e.kind = f.kind /\ e.kind \in {"login", "logout"} => e = f
    BY <1>4, <1>7 DEF Outside, Asks
  <2>3. \A e \in calls' : e.kind = "login" => session' = session
    BY <1>4, <1>7 DEF Outside, Asks
  <2>4. \A e \in calls' : e.kind \in Asks \cup Reads =>
         /\ e.from = t /\ e.kind \in {"login", "logout"}
         /\ e.kind = "logout" => e.stage = "ok"
         /\ e.kind = "login" /\ e.stage = "ok" => e.who = session'
    BY <1>4, <1>7, <2>3 DEF Outside
  <2> QED BY <1>5, <2>1, <2>2, <2>4 DEF Outside
<1> QED BY <1>6, <1>7

LEMMA AnswerPlaced ==
    ASSUME TypeOK, Assigned, NEW t \in Tabs, Tabs = {t}, Placed(t), NEW c \in calls, Answer(c) PROVE Placed(t)'
<1> DEFINE p    == IF c.kind = "me" THEN [tab[c.from] EXCEPT !.loading = FALSE] ELSE tab[c.from]
           next == IF c.stage = "ok" THEN Accepted(p, c)
                   ELSE IF c.kind = "data" THEN Identified(p, Nobody) ELSE p
           rest == calls \ {c}
<1>1. c \in Requests /\ Sound(c) /\ c.who \in Sessions /\ c.kind \in Kinds
  BY DEF TypeOK, Assigned, Requests
<1>2. c.from = t /\ c.stage \in {"ok", "refused"}
  BY <1>1 DEF Answer, Requests, Sound
<1>3. tab[t] \in Panels /\ rest \in SUBSET Requests
  BY DEF TypeOK
<1>4. Render(t, next, rest) /\ session' = session
  BY <1>2 DEF Answer
<1>5. \A e \in rest : e.kind \in Asks \cup Reads => e.from = t
  BY DEF Placed, Loading, Outside, Inside, Fits
<1>6. p \in Panels /\ p.identity = tab[t].identity /\ p.socket = tab[t].socket /\ p.listening = tab[t].listening
      /\ p.data = tab[t].data
  BY <1>2, <1>3 DEF Panels
<1>7. CASE c.kind = "me"
  <2>1. Loading(t)
    BY <1>2, <1>7 DEF Placed, Outside, Inside, Fits, Asks, Reads
  <2>2. \A e \in rest : e.kind \notin Asks \cup Reads
    BY <1>2, <1>7, <2>1 DEF Loading, Assigned
  <2>3. p.loading = FALSE
    BY <1>2, <1>3, <1>7 DEF Panels
  <2>4. /\ next \in Panels /\ next.loading = FALSE /\ next.identity \in {session, Nobody}
        /\ next.socket = Closed
    <3>1. p.identity = Nobody /\ p.socket = Closed
      BY <1>6, <2>1, BlankFields DEF Loading
    <3> HIDE DEF p
    <3>2. CASE c.stage = "ok"
      <4>1. c.who = session
        BY <1>7, <2>1, <3>2 DEF Loading, Asks
      <4>2. next = [p EXCEPT !.identity = c.who]
        BY <1>7, <3>2 DEF Accepted
      <4> QED BY <1>1, <1>6, <2>3, <3>1, <4>1, <4>2 DEF Panels
    <3>3. CASE c.stage # "ok"
      BY <1>6, <1>7, <2>3, <3>1, <3>3
    <3> QED BY <3>2, <3>3
  <2> HIDE DEF next, rest, Panels, Requests
  <2>5. CASE next.identity = Nobody
    <3>1. \A e \in rest : e.kind \in Asks =>
             /\ e.kind \in {"login", "logout"}
             /\ e.kind = "logout" => e.stage = "ok"
             /\ e.kind = "login" /\ e.stage = "ok" => e.who = session
      BY <2>2
    <3>2. \A e, f \in rest : e.kind = f.kind /\ e.kind \in {"login", "logout"} => e = f
      BY <2>2 DEF Asks
    <3> QED BY <1>3, <1>4, <1>5, <2>4, <2>5, <3>1, <3>2, GoesOut DEF Placed
  <2>6. CASE next.identity # Nobody
    <3>1. Remounts(t, next)
      BY <2>1, <2>4, <2>6, BlankFields DEF Loading, Remounts, Shown
    <3>2. \A e \in rest : e.kind \in Asks => e.kind = "logout"
      BY <2>2
    <3>3. \A e, f \in rest : e.kind = "logout" /\ f.kind = "logout" => e = f
      BY <2>2 DEF Asks
    <3> QED BY <1>3, <1>4, <1>5, <2>4, <2>6, <3>1, <3>2, <3>3, GoesIn DEF Placed
  <2> QED BY <2>5, <2>6
<1>8. CASE c.kind \in {"login", "open", "logout"} /\ c.stage = "ok"
  <2>1. p.loading = FALSE /\ ~Loading(t)
    <3>1. ~Loading(t)
      BY <1>8 DEF Loading, Asks
    <3>2. tab[t].loading = FALSE
      BY <1>3, <3>1, BlankFields DEF Placed, Outside, Inside, Shown, Panels
    <3> QED BY <1>2, <1>8, <3>1, <3>2
  <2> HIDE DEF p
  <2>2. next = Identified(p, c.who)
    BY <1>8 DEF Accepted
  <2>3. next \in Panels /\ next.loading = FALSE /\ next.identity = c.who /\ next.socket = Closed
    BY <1>1, <1>6, <2>1, <2>2, IdentifiedIs
  <2> HIDE DEF next, Panels, Requests
  <2>4. CASE Outside(t)
    <3>1. \A e \in rest : e.kind \in Asks =>
             /\ e.kind \in {"login", "logout"}
             /\ e.kind = "logout" => e.stage = "ok"
             /\ e.kind = "login" /\ e.stage = "ok" => e.who = session
      BY <2>4 DEF Outside
    <3>2. \A e, f \in rest : e.kind = f.kind /\ e.kind \in {"login", "logout"} => e = f
      BY <2>4 DEF Outside
    <3>3. CASE c.who = Nobody
      <4> HIDE DEF rest
      <4> QED BY <1>3, <1>4, <1>5, <2>3, <3>1, <3>2, <3>3, GoesOut DEF Placed
    <3>4. CASE c.who # Nobody
      <4>1. c.kind = "login" /\ c.who = session
        BY <1>1, <1>8, <2>4, <3>4 DEF Outside, Asks, Sound
      <4>2. Remounts(t, next)
        BY <2>3, <2>4, <3>4, BlankFields DEF Outside, Remounts, Shown
      <4>3. \A e \in rest : e.kind \in Asks => e.kind = "logout"
        BY <3>1, <4>1, <2>4 DEF Outside
      <4>4. \A e, f \in rest : e.kind = "logout" /\ f.kind = "logout" => e = f
        BY <3>2
      <4> HIDE DEF rest
      <4> QED BY <1>3, <1>4, <1>5, <2>3, <4>1, <4>2, <4>3, <4>4, GoesIn DEF Placed
    <3> QED BY <3>3, <3>4
  <2>5. CASE Inside(t)
    <3>1. c.kind # "login"
      BY <2>5 DEF Inside, Fits, Asks, Reads
    <3>2. \A e \in rest : e.kind \notin Asks
      BY <1>8, <2>5, <3>1 DEF Inside, Fits, Asks, Reads
    <3>3. CASE c.kind = "logout"
      <4>1. c.who = Nobody
        BY <1>1, <3>3 DEF Sound
      <4>2. \A e, f \in rest : e.kind = f.kind /\ e.kind \in {"login", "logout"} => e = f
        BY <3>2 DEF Asks
      <4> HIDE DEF rest
      <4> QED BY <1>3, <1>4, <1>5, <2>3, <3>2, <4>1, <4>2, GoesOut DEF Placed
    <3>4. CASE c.kind = "open"
      <4>1. c.who = session /\ session = [tab[t].identity EXCEPT !.org = c.org] /\ c.org # tab[t].identity.org
        BY <1>8, <2>5, <3>4 DEF Inside, Fits, Asks
      <4>2. c.who # Nobody
        BY <1>1, <1>8, <3>4, AccountsAssumption DEF Sound, Nobody
      <4>3. tab[t].identity \in Sessions /\ tab[t].identity # Nobody
        BY <1>3, <2>5 DEF Panels, Inside, Shown
      <4>4. session.org = c.org
        BY <4>1, <4>3 DEF Sessions
      <4>5. Remounts(t, next)
        BY <2>3, <4>1, <4>2, <4>4 DEF Remounts, Shown
      <4>6. \A e, f \in rest : e.kind = "logout" /\ f.kind = "logout" => e = f
        BY <3>2 DEF Asks
      <4> HIDE DEF rest
      <4> QED BY <1>3, <1>4, <1>5, <2>3, <3>2, <4>1, <4>5, <4>6, GoesIn DEF Placed
    <3> QED BY <1>8, <3>1, <3>3, <3>4
  <2> QED BY <2>1, <2>4, <2>5 DEF Placed
<1>9. CASE c.kind = "data" /\ c.stage = "refused"
  <2>1. Inside(t) /\ Leaving
    BY <1>9 DEF Placed, Loading, Outside, Inside, Fits, Asks, Reads
  <2>2. PICK l \in calls : l.kind = "logout" /\ l.stage = "ok"
    BY <2>1 DEF Leaving
  <2>3. \A e \in rest : e.kind \in Asks => e = l
    BY <2>1, <2>2 DEF Inside, Fits, Asks, Reads
  <2>4. p.loading = FALSE
    BY <1>2, <1>3, <1>9, <2>1 DEF Inside, Shown, Panels
  <2> HIDE DEF p
  <2>5. next \in Panels /\ next.loading = FALSE /\ next.identity = Nobody /\ next.socket = Closed
    BY <1>6, <1>9, <2>4, IdentifiedIs, NothingListed
  <2>6. \A e \in rest : e.kind \in Asks =>
             /\ e.kind \in {"login", "logout"}
             /\ e.kind = "logout" => e.stage = "ok"
             /\ e.kind = "login" /\ e.stage = "ok" => e.who = session
    BY <2>2, <2>3
  <2>7. \A e, f \in rest : e.kind = f.kind /\ e.kind \in {"login", "logout"} => e = f
    BY <2>3 DEF Asks
  <2> HIDE DEF next, rest, Panels, Requests
  <2> QED BY <1>3, <1>4, <1>5, <2>5, <2>6, <2>7, GoesOut DEF Placed
<1>10. CASE ~(c.kind = "me") /\ ~(c.kind \in {"login", "open", "logout"} /\ c.stage = "ok")
            /\ ~(c.kind = "data" /\ c.stage = "refused")
  <2>1. p = tab[t]
    BY <1>2, <1>10
  <2> HIDE DEF p
  <2>2. next \in Panels /\ next.loading = p.loading /\ next.identity = p.identity
    <3>1. CASE c.stage = "ok"
      <4>1. /\ c.kind \in {"create", "assign"} => c.about \in Users
            /\ c.kind = "data" => c.who # Nobody
        BY <1>1, <3>1 DEF Sound
      <4> QED BY <1>1, <1>6, <1>10, <3>1, <4>1, AcceptedIs
    <3>2. CASE c.stage # "ok"
      BY <1>2, <1>6, <1>10, <3>2
    <3> QED BY <3>1, <3>2
  <2>3. next.socket = p.socket /\ next.listening = p.listening /\ next.astray = p.astray
    <3>1. CASE c.stage = "ok"
      BY <1>1, <1>6, <1>10, <3>1 DEF Accepted, Added, Replaced, Panels, Kinds, Changes
    <3>2. CASE c.stage # "ok"
      BY <1>2, <1>10, <3>2
    <3> QED BY <3>1, <3>2
  <2>4. Inside(t) => Leaving \/ Opened \/ Strays(tab[t]) \/ next.data \in {None, next.identity.org}
    <3> SUFFICES ASSUME Inside(t), ~Leaving, ~Opened, ~Strays(tab[t]) PROVE next.data \in {None, next.identity.org}
      OBVIOUS
    <3>1. p.data \in {None, p.identity.org}
      BY <2>1 DEF Inside, Agrees
    <3>2. CASE c.kind = "data" /\ c.stage = "ok"
      <4>1. c.who.org = tab[t].identity.org
        BY <3>2 DEF Inside, Fits, Asks, Reads
      <4>2. next = [p EXCEPT !.data = c.who.org]
        BY <3>2 DEF Accepted
      <4>3. next.data = c.who.org
        BY <1>6, <4>2 DEF Panels
      <4> QED BY <2>1, <2>2, <4>1, <4>3
    <3>3. CASE ~(c.kind = "data" /\ c.stage = "ok")
      <4>1. next.data = p.data
        <5>1. CASE c.stage = "ok"
          BY <1>1, <1>6, <1>10, <3>3, <5>1 DEF Accepted, Added, Replaced, Panels, Kinds, Changes
        <5>2. CASE c.stage # "ok"
          BY <1>2, <1>10, <5>2
        <5> QED BY <5>1, <5>2
      <4> QED BY <2>2, <3>1, <4>1
    <3> QED BY <3>2, <3>3
  <2>5. c.stage = "ok" => c.kind \notin {"open", "logout"}
    BY <1>10
  <2> HIDE DEF next, Panels
  <2>6. CASE Inside(t)
    BY <1>4, <2>1, <2>2, <2>3, <2>4, <2>5, <2>6, StaysInside DEF Placed
  <2>7. CASE Loading(t) \/ Outside(t)
    BY <1>4, <2>1, <2>2, <2>3, <2>7, StaysOut DEF Placed
  <2> QED BY <2>6, <2>7 DEF Placed
<1> QED BY <1>2, <1>7, <1>8, <1>9, <1>10
\* A switch whose answer is lost: the tab goes on under the old name.
LEMMA Misses ==
    ASSUME TypeOK, NEW t \in Tabs, Inside(t), NEW c \in calls, c.kind = "open", c.stage = "ok", NEW p \in Panels,
           Render(t, p, calls \ {c}), p.loading = tab[t].loading, p.identity = tab[t].identity,
           p.socket = tab[t].socket, p.listening = tab[t].listening, p.astray = TRUE, session' = session
    PROVE  Inside(t)'
<1>1. Shown(p) /\ ~Remounts(t, p)
  BY DEF Inside, Shown, Remounts
<1>2. tab'[t] = p /\ calls' = calls \ {c}
  BY <1>1, RendersKept
<1>3. c \in Requests /\ c.org \in Anywhere /\ session = [tab[t].identity EXCEPT !.org = c.org]
  BY DEF TypeOK, Requests, Inside, Fits, Asks
<1>4. Strays(tab[t])'
  BY <1>2, <1>3 DEF Strays
<1>5. /\ \A e \in calls : e.kind \in {"open", "logout"} => e = c
      /\ ~Leaving
  BY DEF Inside, Leaving
<1>6. \A e \in calls' : e.kind \in Asks \cup Reads => Fits(e, t)'
  BY <1>2, <1>4, <1>5 DEF Inside, Fits
<1>7. ~Leaving'
  BY <1>2, <1>5 DEF Leaving
<1>8. Shown(tab[t])' /\ tab'[t].listening
  BY <1>2 DEF Inside, Shown
<1>9. /\ tab'[t].socket.is \in {"shaking", "open"}
      /\ tab'[t].socket.is = "shaking" => tab'[t].socket = Shaking
  BY <1>2, <1>5 DEF Inside
<1> QED BY <1>2, <1>4, <1>5, <1>6, <1>7, <1>8, <1>9 DEF Inside

LEMMA LostPlaced ==
    ASSUME TypeOK, Assigned, NEW t \in Tabs, Tabs = {t}, Placed(t), NEW c \in calls, Lost(c) PROVE Placed(t)'
<1> DEFINE next == Unanswered(tab[t], c)
           rest == calls \ {c}
<1>1. /\ c.from = t /\ c.stage # "read" /\ Render(t, next, rest)
      /\ session' = session \/ (c.kind = "login" /\ c.stage = "ok")
  BY DEF Lost
<1>2. tab[t] \in Panels /\ rest \in SUBSET Requests /\ c \in Requests /\ Sound(c)
  BY DEF TypeOK, Assigned
<1>3. \A e \in rest : e.kind \in Asks \cup Reads => e.from = t
  BY DEF Placed, Loading, Outside, Inside, Fits
<1>4. /\ next \in Panels
      /\ next.loading = IF c.kind = "me" THEN FALSE ELSE tab[t].loading
      /\ next.identity = IF c.kind = "logout" THEN Nobody ELSE tab[t].identity
      /\ next.socket = IF c.kind = "logout" THEN Closed ELSE tab[t].socket
      /\ c.kind # "logout" => next.listening = tab[t].listening /\ next.data = tab[t].data
      /\ c.kind # "logout" /\ ~(c.kind = "open" /\ c.stage = "ok") => next.astray = tab[t].astray
      /\ c.kind = "open" /\ c.stage = "ok" => next.astray = TRUE
  <2>1. c.kind \in {"create", "assign"} => c.about \in Users
    BY <1>2 DEF Sound
  <2> QED BY <1>2, <2>1, UnansweredIs
<1> HIDE DEF next
<1>5. CASE c.kind = "me"
  <2>1. Loading(t)
    BY <1>1, <1>5 DEF Placed, Outside, Inside, Fits, Asks, Reads
  <2>2. \A e \in rest : e.kind \notin Asks
    BY <1>1, <1>5, <2>1 DEF Loading, Assigned, Asks
  <2>3. next.loading = FALSE /\ next.identity = Nobody /\ next.socket = Closed /\ session' = session
    BY <1>1, <1>4, <1>5, <2>1, BlankFields DEF Loading
  <2>4. \A e, f \in rest : e.kind = f.kind /\ e.kind \in {"login", "logout"} => e = f
    BY <2>2 DEF Asks
  <2> HIDE DEF rest, Panels, Requests
  <2> QED BY <1>1, <1>2, <1>3, <1>4, <2>2, <2>3, <2>4, GoesOut DEF Placed
<1>6. CASE c.kind = "logout"
  <2>1. ~Loading(t)
    BY <1>6 DEF Loading, Asks
  <2>2. /\ \A e \in rest : e.kind \in Asks =>
             /\ e.kind \in {"login", "logout"}
             /\ e.kind = "logout" => e.stage = "ok"
             /\ e.kind = "login" /\ e.stage = "ok" => e.who = session
        /\ \A e, f \in rest : e.kind = f.kind /\ e.kind \in {"login", "logout"} => e = f
        /\ tab[t].loading = FALSE
    <3>1. CASE Outside(t)
      BY <3>1, BlankFields DEF Outside
    <3>2. CASE Inside(t)
      <4>1. \A e \in rest : e.kind \notin Asks
        BY <1>6, <3>2 DEF Inside, Fits, Asks, Reads
      <4>2. tab[t].loading = FALSE
        BY <1>2, <3>2 DEF Inside, Shown, Panels
      <4> QED BY <4>1, <4>2 DEF Asks
    <3> QED BY <2>1, <3>1, <3>2 DEF Placed
  <2>3. next.loading = FALSE /\ next.identity = Nobody /\ next.socket = Closed /\ session' = session
    BY <1>1, <1>4, <1>6, <2>2
  <2> HIDE DEF rest, Panels, Requests
  <2> QED BY <1>1, <1>2, <1>3, <1>4, <2>2, <2>3, GoesOut DEF Placed
<1>7. CASE c.kind \notin {"me", "logout"}
  <2>1. /\ next.loading = tab[t].loading /\ next.identity = tab[t].identity /\ next.socket = tab[t].socket
        /\ next.listening = tab[t].listening /\ next.data = tab[t].data
    BY <1>4, <1>7
  <2> HIDE DEF Panels
  <2>2. CASE Inside(t)
    <3>1. session' = session
      BY <1>1, <2>2 DEF Inside, Fits, Asks, Reads
    <3>2. CASE c.kind = "open" /\ c.stage = "ok"
      BY <1>1, <1>4, <2>1, <2>2, <3>1, <3>2, Misses DEF Placed
    <3>3. CASE ~(c.kind = "open" /\ c.stage = "ok")
      <4>1. Leaving \/ Opened \/ Strays(tab[t]) \/ next.data \in {None, next.identity.org}
        BY <2>1, <2>2 DEF Inside, Agrees
      <4>2. next.astray = tab[t].astray /\ (c.stage = "ok" => c.kind \notin {"open", "logout"})
        BY <1>4, <1>7, <3>3
      <4> QED BY <1>1, <1>4, <2>1, <2>2, <3>1, <4>1, <4>2, StaysInside DEF Placed
    <3> QED BY <3>2, <3>3
  <2>3. CASE Loading(t) \/ Outside(t)
    BY <1>1, <1>4, <2>1, <2>3, StaysOut DEF Placed
  <2> QED BY <2>2, <2>3 DEF Placed
<1> QED BY <1>5, <1>6, <1>7

\* What a user does, in each situation.
LEMMA SignInPlaced ==
    ASSUME TypeOK, NEW t \in Tabs, Tabs = {t}, Placed(t), SignIn(t) PROVE Placed(t)'
<1>1. PICK u \in Users : Send(t, "login", u, None)
  BY DEF SignIn
<1> DEFINE d == Request(t, "login", u, None)
<1>2. d.from = t /\ d.kind = "login" /\ d.stage = "sent"
  BY DEF Request
<1>3. calls' = calls \cup {d} /\ UNCHANGED <<session, tab>>
  BY <1>1 DEF Send
<1> HIDE DEF d
<1>4. Outside(t)
  BY BlankFields DEF SignIn, Placed, Loading, Inside, Shown
<1>5. \A e \in calls : e.kind # "login"
  BY <1>4 DEF Outside, SignIn, Waiting, Asks
<1>6. \A e \in calls' : e.kind \in Asks \cup Reads =>
         /\ e.from = t /\ e.kind \in {"login", "logout"}
         /\ e.kind = "logout" => e.stage = "ok"
         /\ e.kind = "login" /\ e.stage = "ok" => e.who = session
  BY <1>2, <1>3, <1>4 DEF Outside
<1>7. \A e, f \in calls' : e.kind = f.kind /\ e.kind \in {"login", "logout"} => e = f
  BY <1>2, <1>3, <1>4, <1>5 DEF Outside
<1> QED BY <1>3, <1>4, <1>6, <1>7 DEF Outside, Placed

LEMMA LeavePlaced ==
    ASSUME TypeOK, Awaited, NEW t \in Tabs, Tabs = {t}, Placed(t), SignOut(t) \/ OpenOrganization(t) PROVE Placed(t)'
<1>1. PICK k \in {"open", "logout"}, o \in Anywhere :
         Send(t, k, "nobody", o) /\ (k = "open" => o # tab[t].identity.org)
  BY DEF SignOut, OpenOrganization, TypeOK, Anywhere
<1> DEFINE d == Request(t, k, "nobody", o)
<1>2. d.from = t /\ d.kind = k /\ d.stage = "sent" /\ d.org = o
  BY DEF Request
<1>3. calls' = calls \cup {d} /\ UNCHANGED <<session, tab>>
  BY <1>1 DEF Send
<1> HIDE DEF d
<1>4. Free(t, Changes)
  BY DEF SignOut, OpenOrganization
<1>5. Inside(t)
  BY <1>4, BlankFields DEF Free, Placed, Loading, Outside
<1>6. \A e \in calls : e.kind \notin {"open", "logout"}
  BY <1>4, <1>5 DEF Free, Waiting, Changes, Awaited, Inside, Fits, Asks
<1>7. ~Leaving /\ ~Opened /\ ~Leaving' /\ ~Opened'
  BY <1>2, <1>3, <1>6 DEF Leaving, Opened
<1>8. Strays(tab[t])' <=> Strays(tab[t])
  BY <1>3 DEF Strays
<1>9. \A e \in calls' : e.kind \in Asks \cup Reads => Fits(e, t)'
  <2> SUFFICES ASSUME NEW e \in calls', e.kind \in Asks \cup Reads PROVE Fits(e, t)'
    OBVIOUS
  <2>1. CASE e \in calls
    BY <1>3, <1>5, <1>7, <1>8, <2>1 DEF Inside, Fits
  <2>2. CASE e = d
    BY <1>1, <1>2, <1>3, <2>2 DEF Fits
  <2> QED BY <1>3, <2>1, <2>2
<1>10. \A e, f \in calls' : e.kind \in {"open", "logout"} /\ f.kind \in {"open", "logout"} => e = f
  BY <1>3, <1>6
<1> QED BY <1>3, <1>5, <1>7, <1>8, <1>9, <1>10 DEF Inside, Agrees, Shown, Placed

LEMMA ManagePlaced ==
    ASSUME TypeOK, NEW t \in Tabs, Placed(t), NewAccount(t) \/ Assign(t) PROVE Placed(t)'
<1>1. PICK k \in {"create", "assign"}, u \in Users, o \in Anywhere : Send(t, k, u, o)
  BY DEF NewAccount, Assign, TypeOK, Anywhere
<1> DEFINE d == Request(t, k, u, o)
<1>2. d.kind \in {"create", "assign"}
  BY DEF Request
<1>3. calls' = calls \cup {d} /\ UNCHANGED <<session, tab>>
  BY <1>1 DEF Send
<1> HIDE DEF d
<1>4. d.kind \notin Asks \cup Reads
  BY <1>2 DEF Asks, Reads
<1>5. (Leaving' <=> Leaving) /\ (Opened' <=> Opened) /\ (Strays(tab[t])' <=> Strays(tab[t]))
  BY <1>2, <1>3 DEF Leaving, Opened, Strays
<1>6. CASE Loading(t)
  BY <1>3, <1>4, <1>6 DEF Loading, Placed
<1>7. CASE Outside(t)
  BY <1>2, <1>3, <1>4, <1>7 DEF Outside, Placed
<1>8. CASE Inside(t)
  <2>1. \A e \in calls' : e.kind \in Asks \cup Reads => Fits(e, t)'
    BY <1>3, <1>4, <1>5, <1>8 DEF Inside, Fits
  <2>2. \A e, f \in calls' : e.kind \in {"open", "logout"} /\ f.kind \in {"open", "logout"} => e = f
    BY <1>2, <1>3, <1>8 DEF Inside
  <2> QED BY <1>3, <1>5, <1>8, <2>1, <2>2 DEF Inside, Agrees, Shown, Placed
<1> QED BY <1>6, <1>7, <1>8 DEF Placed

LEMMA NavigatePlaced ==
    ASSUME TypeOK, Awaited, NEW t \in Tabs, Tabs = {t}, Placed(t), NEW page \in Pages, Navigate(t, page)
    PROVE  Placed(t)'
<1> DEFINE p == [tab[t] EXCEPT !.page = page]
<1>1. calls \in SUBSET Requests /\ tab \in [Tabs -> Panels] /\ tab[t] \in Panels
  BY DEF TypeOK
<1>2. /\ p \in Panels /\ p.identity = tab[t].identity /\ p.loading = tab[t].loading
      /\ p.socket = tab[t].socket /\ p.astray = tab[t].astray
  BY <1>1 DEF Panels
<1>3. /\ tab' = [tab EXCEPT ![t] = Subscribed(p)] /\ calls' = Unmounted(t, calls) \cup Fetches(t, p)
      /\ session' = session /\ Free(t, Changes)
  BY DEF Navigate
<1> HIDE DEF p
<1>4. Inside(t)
  BY <1>3, BlankFields DEF Free, Placed, Loading, Outside
<1>5. \A e \in calls : e.kind \notin Asks
  <2>1. \A e \in calls : e.kind \notin {"open", "logout"}
    BY <1>3, <1>4 DEF Free, Waiting, Changes, Awaited, Inside, Fits, Asks
  <2> QED BY <1>4, <2>1 DEF Inside, Fits, Asks, Reads
<1> HIDE DEF Panels, Requests
<1>6. \A e \in Unmounted(t, calls) :
                \/ e \in calls /\ (e.from = t => e.kind \in {"me", "login", "open", "logout"})
                \/ e.from = "gone" /\ e.kind \in {"create", "assign"}
  BY <1>1, UnmountedIs
<1>7. \A e \in Fetches(t, p) : e.from = t /\ e.kind \in Reads /\ e.stage = "sent"
  BY FetchesIs DEF Reads
<1>8. \A e \in calls' : e.kind \in Asks \cup Reads => e.from = t /\ e.kind \in Reads /\ e.stage = "sent"
  BY <1>3, <1>4, <1>5, <1>6, <1>7 DEF Inside, Fits, Asks, Reads
<1>9. ~Leaving /\ ~Opened
  BY <1>5 DEF Leaving, Opened, Asks
<1>10. /\ tab'[t].identity = tab[t].identity /\ tab'[t].loading = tab[t].loading
       /\ tab'[t].socket = (IF tab[t].socket = Closed THEN Shaking ELSE tab[t].socket)
       /\ tab'[t].listening = TRUE /\ tab'[t].data = None /\ tab'[t].astray = tab[t].astray
  BY <1>1, <1>2, <1>3, SubscribedIs
<1>11. Agrees(tab[t]) \/ Strays(tab[t])
  BY <1>4, <1>9 DEF Inside
<1>12. tab'[t].socket = tab[t].socket /\ tab[t].socket.is \in {"shaking", "open"}
  BY <1>4, <1>9, <1>10 DEF Closed, Inside
<1>13. \A e \in calls' : e.kind \in Asks \cup Reads => Fits(e, t)'
  BY <1>8 DEF Fits, Reads
<1>14. \A e, f \in calls' : e.kind \in {"open", "logout"} /\ f.kind \in {"open", "logout"} => e = f
  BY <1>8 DEF Asks, Reads
<1>15. ~Leaving'
  BY <1>8 DEF Leaving, Asks, Reads
<1>16. Agrees(tab[t])' \/ Strays(tab[t])'
  BY <1>3, <1>10, <1>11, <1>12 DEF Agrees, Strays
<1>17. Shown(tab[t])' /\ tab'[t].listening
  BY <1>4, <1>10 DEF Inside, Shown
<1>18. Inside(t)'
  BY <1>4, <1>12, <1>13, <1>14, <1>15, <1>16, <1>17 DEF Inside
<1> QED BY <1>18 DEF Placed

LEMMA ReloadPlaced ==
    ASSUME TypeOK, Awaited, NEW t \in Tabs, Tabs = {t}, Placed(t), Reload(t) PROVE Placed(t)'
<1> DEFINE m == Request(t, "me", "nobody", None)
<1>1. m.from = t /\ m.kind = "me" /\ m.stage = "sent"
  BY DEF Request
<1>2. /\ tab' = [tab EXCEPT ![t] = Blank] /\ session' = session
      /\ calls' = Abandoned(t, {c.kind : c \in calls}, calls) \cup {m}
      /\ ~Waiting(t, ({"me", "login"} \cup Changes) \ Overlap)
  BY DEF Reload
<1> HIDE DEF m
<1>3. \A e \in calls : e.kind \in Asks \cup Reads => e.from = t
  BY DEF Placed, Loading, Outside, Inside, Fits
<1>4. \A e \in calls : e.kind \notin Asks
  <2>1. "me" \notin Overlap /\ "login" \notin Overlap
    BY AccountsAssumption DEF Changes
  <2> QED BY <1>2, <1>3, <2>1 DEF Waiting, Awaited, Changes, Asks
<1> HIDE DEF Requests
<1>5. \A e \in Abandoned(t, {c.kind : c \in calls}, calls) :
           \/ e \in calls /\ e.from # t
           \/ e.kind \notin {"data", "list"} /\ \E c \in calls : e.kind = c.kind
  BY AbandonedIs DEF TypeOK
<1>6. \A e \in Abandoned(t, {c.kind : c \in calls}, calls) : e.kind \notin Asks \cup Reads
  BY <1>3, <1>4, <1>5 DEF Reads
<1>7. tab'[t] = Blank
  BY <1>2 DEF TypeOK
<1> QED BY <1>1, <1>2, <1>6, <1>7 DEF Loading, Placed

-----------------------------------------------------------------------------

LEMMA PlacedInit ==
    ASSUME NEW t \in Tabs, Tabs = {t}, Init PROVE Placed(t)
<1>1. calls = {Request(t, "me", "nobody", None)}
  BY DEF Init
<1>2. \A e \in calls : e.from = t /\ e.kind = "me" /\ e.stage = "sent"
  BY <1>1 DEF Request
<1> QED BY <1>2 DEF Init, Placed, Loading

LEMMA PlacedStep ==
    ASSUME TypeOK, Assigned, Awaited, NEW t \in Tabs, Tabs = {t}, Placed(t), [Next]_vars PROVE Placed(t)'
<1>1. ASSUME NEW c \in calls,
             \/ Arrive(c) \/ Handle(c) \/ Logout(c) \/ Fetched(c) \/ Listed(c) \/ Managed(c)
             \/ Answer(c) \/ Lost(c)
      PROVE  Placed(t)'
  BY <1>1, ArrivePlaced, HandlePlaced, LogoutPlaced, FetchedPlaced, ListedPlaced, AnswerPlaced, LostPlaced
<1>2. CASE Handshake(t) \/ Drop(t)
  BY <1>2, SocketPlaced
<1>3. CASE Page(t)
  <2>1. "dashboard" \in Pages /\ "users" \in Pages
    BY DEF Pages
  <2> QED BY <1>3, <2>1, SignInPlaced, LeavePlaced, ManagePlaced, NavigatePlaced, ReloadPlaced DEF Page
<1>4. CASE Elsewhere \/ UNCHANGED vars
  <2>1. UNCHANGED <<session, tab, calls>>
    BY <1>4 DEF Elsewhere, vars
  <2>2. (Leaving' <=> Leaving) /\ (Opened' <=> Opened) /\ (Strays(tab[t])' <=> Strays(tab[t]))
    BY <2>1 DEF Leaving, Opened, Strays
  <2>3. \A c \in calls : Fits(c, t)' <=> Fits(c, t)
    BY <2>1, <2>2 DEF Fits
  <2> QED BY <2>1, <2>2, <2>3 DEF Placed, Loading, Outside, Inside, Agrees, Shown
<1> QED BY <1>1, <1>2, <1>3, <1>4 DEF Next

AllPlaced == \A t \in Tabs : Placed(t)

LEMMA Situations == Awaited => (Spec => []AllPlaced)
<1> SUFFICES ASSUME Awaited PROVE Spec => []AllPlaced
  OBVIOUS
<1>1. Init => AllPlaced
  BY PlacedInit DEF Awaited, AllPlaced
<1>2. TypeOK /\ Assigned /\ AllPlaced /\ [Next]_vars => AllPlaced'
  BY PlacedStep DEF Awaited, AllPlaced
<1> QED BY <1>1, <1>2, AssignedInit, AssignedStep, PTL DEF Spec

LEMMA Resting ==
    ASSUME TypeOK, NEW t \in Tabs, Placed(t), Quiet(t), Shown(tab[t])
    PROVE  Inside(t) /\ ~Leaving /\ ~Opened
<1>1. Inside(t)
  BY BlankFields DEF Placed, Loading, Outside
<1> QED BY <1>1 DEF Inside, Fits, Quiet, Leaving, Opened, Asks

\* In one tab, when a switch of organization and a sign-out are waited for, what the page
\* names, shows and listens to is of one organization, whichever calls are refused, do not
\* reach the server or lose their answer, and however often the tab is loaded, unless a switch
\* it made lost its answer and nothing has told it since who is signed in where: app-shell.tsx
\* remounts the content, auth-context.tsx closes the socket.
THEOREM PageIsOfOneOrganization == Awaited => (Spec => []OneOrganizationOnThePage)
<1> SUFFICES ASSUME Awaited PROVE Spec => []OneOrganizationOnThePage
  OBVIOUS
<1>1. TypeOK /\ AllPlaced => OneOrganizationOnThePage
  <2> SUFFICES ASSUME TypeOK, AllPlaced, NEW t \in Tabs, Quiet(t), Shown(tab[t]), ~tab[t].astray
               PROVE  OfOneOrganization(t)
    BY DEF OneOrganizationOnThePage
  <2>1. Inside(t) /\ ~Leaving /\ ~Opened
    BY Resting DEF AllPlaced
  <2>2. Agrees(tab[t])
    BY <2>1 DEF Inside, Strays
  <2> QED BY <2>2 DEF Agrees, OfOneOrganization
<1> QED BY <1>1, Situations, TypeCorrect, PTL

\* And its panels listen on the socket that is open.
THEOREM PanelsStayLive == Awaited => (Spec => []PanelsAreLive)
<1> SUFFICES ASSUME Awaited PROVE Spec => []PanelsAreLive
  OBVIOUS
<1>1. TypeOK /\ AllPlaced => PanelsAreLive
  <2> SUFFICES ASSUME TypeOK, AllPlaced, NEW t \in Tabs, Quiet(t), Shown(tab[t])
               PROVE  tab[t].listening /\ tab[t].socket.is = "open"
    BY DEF PanelsAreLive
  <2>1. Inside(t) /\ ~Leaving /\ ~Opened
    BY Resting DEF AllPlaced
  <2>2. tab[t].socket.is # "shaking"
    BY <2>1 DEF Inside, Quiet
  <2> QED BY <2>1, <2>2 DEF Inside
<1> QED BY <1>1, Situations, TypeCorrect, PTL
-----------------------------------------------------------------------------
(***************************************************************************)
(* The users page, in one tab where every call that changes something is    *)
(* waited for: what it lists and what the server has differ by what the     *)
(* server has answered and the tab has not seen yet.                        *)
(***************************************************************************)

Alone == (\E t \in Tabs : Tabs = {t}) /\ Overlap = {}

Manages == {"create", "assign"}

\* What the page lists of an account when it is loaded now.
Listing(u) == IF u \in accounts THEN Row(1, home[u]) ELSE Row(0, None)

\* While accounts are being managed the page stays: nothing is asked that could unmount it.
Staying(t) ==
    /\ \A c \in calls : c.from = t
    /\ tab[t].listed => Shown(tab[t])
    /\ \A c \in calls : c.kind \in Manages => tab[t].listed /\ \A d \in calls : d.kind \notin Asks

\* The page is listed once, and no list is older than what the page shows.
ListedOnce(t) ==
    /\ \A c \in calls : c.kind = "list" =>
         ~tab[t].listed /\ (c.stage = "ok" /\ ~elsewhere => c.rows = [u \in Users |-> Listing(u)])
    /\ \A c, d \in calls : c.kind = "list" /\ d.kind = "list" => c = d

\* One call about an account at a time: only what is listed is moved.
OneByOne(t) ==
    /\ \A c, d \in calls : c.kind = "create" /\ d.kind = "create" => c = d
    /\ \A c, d \in calls : c.kind = "assign" /\ d.kind = "assign" /\ c.about = d.about => c = d
    /\ \A c \in calls : c.kind = "assign" => tab[t].rows[c.about].copies > 0

\* What the page made and has not heard of exists, and so does what it is told of.
CarriedOut(t) ==
    /\ tab[t].unheard \subseteq accounts
    /\ \A c \in calls : c.kind \in Manages /\ c.stage = "ok" => c.about \in accounts

\* An account the page has heard of is as it is listed, or as the answer under way says.
Told(c, u) == c.kind \in Manages /\ c.stage = "ok" /\ c.about = u

UpToDate(t) ==
    tab[t].listed /\ ~elsewhere => \A u \in Users :
        /\ u \in tab[t].unheard \/ (\E c \in calls : Told(c, u)) \/ tab[t].rows[u] = Listing(u)
        /\ \A c \in calls : Told(c, u) =>
             /\ u \in accounts /\ home[u] = c.org
             /\ c.kind = "create" => tab[t].rows[u].copies = 0

Roster(t) == Staying(t) /\ ListedOnce(t) /\ OneByOne(t) /\ CarriedOut(t) /\ UpToDate(t)

\* What the page shows stays, and so do the calls it is about.
LEMMA RosterSame ==
    ASSUME NEW t \in Tabs, Roster(t), UNCHANGED <<accounts, home, elsewhere>>,
           tab'[t].listed = tab[t].listed, tab'[t].rows = tab[t].rows, tab'[t].unheard = tab[t].unheard,
           Shown(tab[t]) => Shown(tab'[t]),
           \A e \in calls' : e.from = t /\ (e.kind \in Manages \cup {"list"} => e \in calls),
           \A e \in calls' : e.kind \in Asks => \E c \in calls : c.kind \in Asks,
           \A e \in calls : e.kind \in Manages /\ e.stage = "ok" => e \in calls'
    PROVE  Roster(t)'
<1>1. Staying(t)'
  BY DEF Roster, Staying, Manages, Asks
<1>2. ListedOnce(t)'
  BY DEF Roster, ListedOnce, Listing
<1>3. OneByOne(t)'
  BY DEF Roster, OneByOne, Manages
<1>4. UpToDate(t)'
  <2>1. \A u \in Users : Listing(u)' = Listing(u)
    BY DEF Listing
  <2> QED BY <2>1 DEF Roster, UpToDate, Told, Manages
<1>5. CarriedOut(t)'
  BY DEF Roster, CarriedOut
<1> QED BY <1>1, <1>2, <1>3, <1>4, <1>5 DEF Roster

\* A page that has not been listed.
LEMMA RosterUnlisted ==
    ASSUME NEW t \in Tabs, tab'[t].listed = FALSE, tab'[t].unheard = {},
           \A e \in calls' : e.from = t /\ e.kind \notin Manages,
           \A e \in calls' : e.kind = "list" => e.stage = "sent",
           \A e, f \in calls' : e.kind = "list" /\ f.kind = "list" => e = f
    PROVE  Roster(t)'
<1>1. Staying(t)'
  BY DEF Staying
<1>2. ListedOnce(t)'
  BY DEF ListedOnce
<1>3. OneByOne(t)'
  BY DEF OneByOne, Manages
<1>4. UpToDate(t)'
  BY DEF UpToDate
<1>5. CarriedOut(t)'
  BY DEF CarriedOut
<1> QED BY <1>1, <1>2, <1>3, <1>4, <1>5 DEF Roster

\* What is unmounted and mounted leaves a page that has not been listed.
LEMMA Remounted ==
    ASSUME TypeOK, NEW t \in Tabs, NEW p \in Panels, NEW rest \in SUBSET Requests,
           \A e \in rest : e.from = t /\ e.kind \notin Manages,
           NEW e \in Unmounted(t, rest) \cup Fetches(t, p)
    PROVE  /\ e.from = t /\ e.kind \notin Manages
           /\ e.kind = "list" => e = Request(t, "list", "nobody", None) /\ e.stage = "sent"
<1>1. CASE e \in Unmounted(t, rest)
  <2> HIDE DEF Requests
  <2>1. e \in rest /\ e.kind \in {"me", "login", "open", "logout"}
    BY <1>1, UnmountedIs DEF Manages
  <2> QED BY <2>1
<1>2. CASE e \in Fetches(t, p)
  BY <1>2, FetchesIs DEF Manages
<1> QED BY <1>1, <1>2

LEMMA RosterRender ==
    ASSUME TypeOK, NEW t \in Tabs, Roster(t), NEW p \in Panels, NEW rest \in SUBSET calls, Render(t, p, rest),
           p.listed = tab[t].listed, p.rows = tab[t].rows, p.unheard = tab[t].unheard,
           UNCHANGED <<accounts, home, elsewhere>>,
           \A e \in calls : e.kind \notin Manages
    PROVE  Roster(t)'
<1>1. rest \in SUBSET Requests /\ tab \in [Tabs -> Panels]
  BY DEF TypeOK
<1>2. \A e \in rest : e.from = t /\ e.kind \notin Manages
  BY DEF Roster, Staying
<1> HIDE DEF Panels, Requests
<1>3. CASE Remounts(t, p)
  <2>1. tab'[t] = Subscribed(p) /\ calls' = Unmounted(t, rest) \cup Fetches(t, p)
    BY <1>1, <1>3 DEF Render
  <2>2. tab'[t].listed = FALSE /\ tab'[t].unheard = {}
    BY <1>1, <2>1, SubscribedIs
  <2>3. \A e \in calls' : /\ e.from = t /\ e.kind \notin Manages
                          /\ e.kind = "list" => e = Request(t, "list", "nobody", None) /\ e.stage = "sent"
    BY <1>1, <1>2, <2>1, Remounted
  <2> QED BY <2>2, <2>3, RosterUnlisted
<1>4. CASE ~Remounts(t, p) /\ Shown(p)
  <2>1. tab'[t] = p /\ calls' = rest
    BY <1>1, <1>4 DEF Render
  <2>2. \A e \in calls : e.kind \in Manages /\ e.stage = "ok" => e \in calls'
    OBVIOUS
  <2> QED BY <1>2, <1>4, <2>1, <2>2, RosterSame
<1>5. CASE ~Shown(p)
  <2>1. /\ tab' = [tab EXCEPT ![t] = [Blank EXCEPT !.loading = p.loading, !.identity = p.identity, !.socket = p.socket]]
        /\ calls' = Unmounted(t, rest)
    BY <1>5 DEF Render, Remounts
  <2>2. LET q == [Blank EXCEPT !.loading = p.loading, !.identity = p.identity, !.socket = p.socket] IN
        q.listed = FALSE /\ q.unheard = {}
    BY DEF Blank
  <2>3. tab'[t].listed = FALSE /\ tab'[t].unheard = {}
    BY <1>1, <2>1, <2>2
  <2>4. \A e \in calls' : /\ e.from = t /\ e.kind \notin Manages
                          /\ e.kind = "list" => e = Request(t, "list", "nobody", None) /\ e.stage = "sent"
    BY <1>1, <1>2, <2>1, Remounted
  <2> QED BY <2>3, <2>4, RosterUnlisted
<1> QED BY <1>3, <1>4, <1>5

\* A call that neither lists nor manages goes on.
LEMMA RosterBecomes ==
    ASSUME TypeOK, NEW t \in Tabs, Roster(t), NEW c \in calls, NEW d \in Requests, Becomes(c, d),
           d.from = c.from, d.kind = c.kind, c.kind \notin Manages \cup {"list"},
           UNCHANGED <<accounts, home, elsewhere, tab>>
    PROVE  Roster(t)'
<1> HIDE DEF Requests
<1>1. /\ \A e \in calls' : (e \in calls /\ e # c) \/ e = d
      /\ \A e \in calls : e # c => e \in calls'
  BY BecomesIs DEF TypeOK
<1>2. \A e \in calls : e.from = t
  BY DEF Roster, Staying
<1>3. \A e \in calls' : e.kind \in Asks => \E f \in calls : f.kind \in Asks
  BY <1>1
<1> QED BY <1>1, <1>2, <1>3, RosterSame

LEMMA ArriveRoster ==
    ASSUME TypeOK, Assigned, NEW t \in Tabs, Roster(t), NEW c \in calls,
           Arrive(c) \/ Handle(c) \/ Logout(c) \/ Fetched(c)
    PROVE  Roster(t)'
<1>1. c \in Requests /\ session \in Sessions /\ c.from = t /\ Sound(c)
  BY DEF TypeOK, Roster, Staying, Assigned
<1>2. c.kind \notin Manages \cup {"list"} /\ UNCHANGED <<accounts, home, elsewhere, tab>>
  BY <1>1, HandleIs DEF Arrive, Logout, Fetched, Manages, server
<1>3. PICK s \in Stages, who \in Sessions : Becomes(c, [c EXCEPT !.stage = s, !.who = who])
  <2>1. CASE Arrive(c)
    <3> DEFINE read == IF c.kind = "login" THEN SessionFor(c.about, None) ELSE session
    <3>1. \/ Becomes(c, [c EXCEPT !.stage = "read", !.who = read]) /\ (c.kind = "login" => c.about \in accounts)
          \/ Becomes(c, [c EXCEPT !.stage = "refused", !.who = Nobody])
      BY <2>1 DEF Arrive, Refuses
    <3>2. c.kind = "login" /\ c.about \in accounts => SessionFor(c.about, None) \in Sessions
      BY Opens DEF TypeOK, Anywhere
    <3>3. (c.kind = "login" => c.about \in accounts) => read \in Sessions
      BY <1>1, <3>2
    <3> HIDE DEF read
    <3> QED BY <3>1, <3>3, NothingListed DEF Stages
  <2>2. CASE Handle(c)
    <3>1. PICK who \in Sessions : Answers(c, who)
      BY <1>1, <2>2, HandleIs
    <3> QED BY <3>1 DEF Answers, Stages
  <2>3. CASE Logout(c)
    BY <2>3, NothingListed DEF Logout, Answers, Stages
  <2>4. CASE Fetched(c)
    BY <1>1, <2>4, NothingListed DEF Fetched, Answers, Refuses, Stages
  <2> QED BY <2>1, <2>2, <2>3, <2>4
<1> DEFINE d == [c EXCEPT !.stage = s, !.who = who]
<1>4. d \in Requests /\ d.from = c.from /\ d.kind = c.kind
  BY <1>1 DEF Requests
<1>5. Becomes(c, d)
  BY <1>3
<1> HIDE DEF d
<1> QED BY <1>2, <1>4, <1>5, RosterBecomes

LEMMA ListedRoster ==
    ASSUME TypeOK, NEW t \in Tabs, Roster(t), NEW c \in calls, Listed(c) PROVE Roster(t)'
<1> DEFINE T == [u \in Users |-> Listing(u)]
<1>1. c \in Requests /\ c.kind = "list" /\ c.from = t
  BY DEF TypeOK, Listed, Roster, Staying
<1>2. T \in Tables /\ UNCHANGED <<accounts, home, elsewhere, tab>>
  BY DEF Tables, Row, TypeOK, Anywhere, Listing, Listed, server
<1>3. PICK d \in Requests : /\ Becomes(c, d) /\ d.from = t /\ d.kind = "list"
                            /\ d.stage = "refused" \/ d.rows = T
  <2>1. CASE IsAdmin
    <3> DEFINE d == [c EXCEPT !.stage = "ok", !.rows = T]
    <3>1. Becomes(c, d)
      BY <2>1 DEF Listed, Listing
    <3> HIDE DEF T
    <3>2. d \in Requests /\ d.from = t /\ d.kind = "list" /\ d.rows = T
      BY <1>1, <1>2 DEF Requests, Stages
    <3> HIDE DEF d
    <3> QED BY <3>1, <3>2
  <2>2. CASE ~IsAdmin
    <3> DEFINE d == [c EXCEPT !.stage = "refused", !.who = Nobody]
    <3>1. Becomes(c, d)
      BY <2>2 DEF Listed, Refuses
    <3>2. d \in Requests /\ d.from = t /\ d.kind = "list" /\ d.stage = "refused"
      BY <1>1, NothingListed DEF Requests, Stages
    <3> HIDE DEF d
    <3> QED BY <3>1, <3>2
  <2> QED BY <2>1, <2>2
<1> HIDE DEF T
<1>4. /\ \A e \in calls' : (e \in calls /\ e # c) \/ e = d
      /\ \A e \in calls : e # c => e \in calls'
  <2> HIDE DEF Requests
  <2> QED BY <1>3, BecomesIs DEF TypeOK
<1>5. \A e \in calls : e.kind = "list" => e = c
  BY <1>1 DEF Roster, ListedOnce
<1>6. ~tab[t].listed
  BY <1>1 DEF Roster, ListedOnce
<1>7. \A e \in calls : e.from = t /\ e.kind \notin Manages
  BY <1>6 DEF Roster, Staying
<1>8. \A e \in calls' : e.from = t /\ e.kind \notin Manages
  BY <1>3, <1>4, <1>7 DEF Manages
<1>9. \A e \in calls' : e.kind = "list" => e = d
  BY <1>3, <1>4, <1>5
<1>10. T = [u \in Users |-> Listing(u)']
  BY <1>2 DEF T, Listing
<1>11. Staying(t)' /\ ListedOnce(t)'
  BY <1>2, <1>3, <1>6, <1>8, <1>9, <1>10 DEF Staying, ListedOnce
<1>12. OneByOne(t)' /\ CarriedOut(t)' /\ UpToDate(t)'
  BY <1>2, <1>6, <1>8 DEF OneByOne, CarriedOut, UpToDate, Manages, Roster
<1> QED BY <1>11, <1>12 DEF Roster

\* The server does what the users page asked for, or refuses.
LEMMA ManagedRoster ==
    ASSUME TypeOK, Assigned, NEW t \in Tabs, Roster(t), NEW c \in calls, Managed(c) PROVE Roster(t)'
<1>1. c \in Requests /\ c.kind \in Manages /\ c.stage = "sent" /\ c.from = t /\ c.about \in Users /\ tab' = tab
  BY DEF TypeOK, Managed, Manages, Roster, Staying, Assigned, Sound
<1>2. /\ tab[t].listed /\ Shown(tab[t])
      /\ \A e \in calls : e.from = t /\ e.kind \notin Asks \cup {"list"}
  BY <1>1 DEF Roster, Staying, ListedOnce
<1>3. PICK s \in {"ok", "refused"} :
         /\ Becomes(c, [c EXCEPT !.stage = s, !.who = Nobody])
         /\ s = "refused" => UNCHANGED server
         /\ s = "ok" => /\ elsewhere' = elsewhere
                        /\ \/ c.kind = "create" /\ CreateUser(c.about, c.org)
                           \/ c.kind = "assign" /\ AssignOrganization(c.about, c.org)
  BY <1>1 DEF Managed, Refuses, Answers, Manages
<1> DEFINE d == [c EXCEPT !.stage = s, !.who = Nobody]
<1>4. d \in Requests /\ d.from = t /\ d.kind = c.kind /\ d.about = c.about /\ d.org = c.org /\ d.stage = s
  BY <1>1, NothingListed DEF Requests, Stages
<1>5. Becomes(c, d)
  BY <1>3
<1> HIDE DEF d
<1>6. calls' = (calls \ {c}) \cup {d}
  BY <1>4, <1>5 DEF Becomes
<1>7. Staying(t)'
  BY <1>1, <1>2, <1>4, <1>6 DEF Staying, Manages, Asks
<1>8. ListedOnce(t)'
  BY <1>1, <1>2, <1>4, <1>6 DEF ListedOnce, Manages
<1>9. OneByOne(t)'
  BY <1>1, <1>4, <1>6 DEF Roster, OneByOne
<1>10. CarriedOut(t)'
  <2>1. accounts \subseteq accounts' /\ (s = "ok" => c.about \in accounts')
    BY <1>1, <1>3 DEF server, CreateUser, AssignOrganization, MayAssign
  <2> QED BY <1>1, <1>4, <1>6, <2>1 DEF Roster, CarriedOut
<1>11. CASE s = "refused"
  <2>1. UNCHANGED <<accounts, home, elsewhere>>
    BY <1>3, <1>11 DEF server
  <2>2. \A u \in Users : Listing(u)' = Listing(u)
    BY <2>1 DEF Listing
  <2>3. \A e, u : e \in calls' /\ Told(e, u) <=> e \in calls /\ Told(e, u)
    BY <1>1, <1>4, <1>6, <1>11 DEF Told
  <2>4. UpToDate(t)'
    BY <1>1, <2>1, <2>2, <2>3 DEF Roster, UpToDate, Told
  <2> QED BY <1>7, <1>8, <1>9, <1>10, <2>4 DEF Roster
<1>12. CASE s = "ok" /\ ~elsewhere
  <2>1. /\ c.about \in accounts' /\ home'[c.about] = c.org
        /\ \A u \in Users : u # c.about => home'[u] = home[u] /\ (u \in accounts' <=> u \in accounts)
        /\ c.kind = "create" => c.about \notin accounts
    BY <1>1, <1>3, <1>12 DEF TypeOK, CreateUser, AssignOrganization, MayCreate, MayAssign
  <2>2. \A u \in Users : u # c.about => Listing(u)' = Listing(u)
    BY <2>1 DEF Listing
  <2>3. Told(d, c.about)
    BY <1>1, <1>4, <1>12 DEF Told
  <2>4. \A e \in calls : ~Told(e, c.about)
    <3> SUFFICES ASSUME NEW e \in calls, Told(e, c.about) PROVE FALSE
      OBVIOUS
    <3>1. c.about \in accounts /\ (e.kind = "create" => tab[t].rows[c.about].copies = 0)
      BY <1>1, <1>2, <1>12 DEF Roster, UpToDate
    <3>2. c.kind = "assign" /\ tab[t].rows[c.about].copies > 0
      BY <1>1, <2>1, <3>1 DEF Roster, OneByOne, Manages
    <3>3. e.kind = "assign"
      BY <3>1, <3>2 DEF Told, Manages
    <3>4. e = c
      BY <3>2, <3>3 DEF Roster, OneByOne, Told
    <3> QED BY <1>1, <3>4 DEF Told
  <2>5. c.kind = "create" => tab[t].rows[c.about].copies = 0
    <3>1. c.kind = "create" => tab[t].rows[c.about] = Listing(c.about)
      BY <1>1, <1>2, <1>12, <2>1, <2>4 DEF Roster, UpToDate, CarriedOut
    <3> QED BY <2>1, <3>1 DEF Listing, Row
  <2>6. ASSUME NEW u \in Users
        PROVE  /\ u \in tab'[t].unheard \/ (\E e \in calls' : Told(e, u)') \/ tab'[t].rows[u] = Listing(u)'
               /\ \A e \in calls' : Told(e, u)' =>
                    /\ u \in accounts' /\ home'[u] = e.org
                    /\ e.kind = "create" => tab'[t].rows[u].copies = 0
    <3>1. CASE u = c.about
      BY <1>1, <1>4, <1>6, <2>1, <2>3, <2>4, <2>5, <3>1 DEF Told
    <3>2. CASE u # c.about
      <4>1. \A e : e \in calls' /\ Told(e, u) <=> e \in calls /\ Told(e, u)
        BY <1>4, <1>6, <3>2 DEF Told
      <4>2. /\ u \in tab[t].unheard \/ (\E e \in calls : Told(e, u)) \/ tab[t].rows[u] = Listing(u)
            /\ \A e \in calls : Told(e, u) =>
                 /\ u \in accounts /\ home[u] = e.org
                 /\ e.kind = "create" => tab[t].rows[u].copies = 0
        BY <1>2, <1>12 DEF Roster, UpToDate
      <4> QED BY <1>1, <2>1, <2>2, <3>2, <4>1, <4>2 DEF Told
    <3> QED BY <3>1, <3>2
  <2>7. UpToDate(t)'
    BY <2>6 DEF UpToDate
  <2> QED BY <1>7, <1>8, <1>9, <1>10, <2>7 DEF Roster
<1>13. CASE s = "ok" /\ elsewhere
  <2>1. UpToDate(t)'
    BY <1>3, <1>13 DEF UpToDate
  <2> QED BY <1>7, <1>8, <1>9, <1>10, <2>1 DEF Roster
<1> QED BY <1>3, <1>11, <1>12, <1>13

\* Where there are panels, the tab shows them, and a refused fetch means that it signs out.
LEMMA Panelled ==
    ASSUME TypeOK, NEW t \in Tabs, Placed(t), Roster(t), NEW c \in calls
    PROVE  /\ c.kind \in Reads \cup Manages => Shown(tab[t])
           /\ c.kind = "data" /\ c.stage = "refused" => \A e \in calls : e.kind \notin Manages
           /\ c.kind \in Asks => \A e \in calls : e.kind \notin Manages
<1>1. c.kind \in Reads => Inside(t)
  BY DEF Placed, Loading, Outside, Asks, Reads
<1>2. c.kind \in Manages => Shown(tab[t])
  BY DEF Roster, Staying
<1>3. c.kind \in Asks => \A e \in calls : e.kind \notin Manages
  BY DEF Roster, Staying
<1>4. c.kind = "data" /\ c.stage = "refused" => \A e \in calls : e.kind \notin Manages
  <2> SUFFICES ASSUME c.kind = "data", c.stage = "refused" PROVE \A e \in calls : e.kind \notin Manages
    OBVIOUS
  <2>1. Leaving
    BY <1>1 DEF Inside, Fits, Reads, Asks
  <2> QED BY <2>1 DEF Leaving, Roster, Staying, Asks
<1> QED BY <1>1, <1>2, <1>3, <1>4 DEF Inside

\* A tab that shows its panels, with one call less.
LEMMA RosterKept ==
    ASSUME TypeOK, NEW t \in Tabs, Roster(t), Shown(tab[t]), NEW c \in calls, NEW p \in Panels,
           Render(t, p, calls \ {c}), p.loading = tab[t].loading, p.identity = tab[t].identity,
           p.listed = tab[t].listed, p.rows = tab[t].rows, p.unheard = tab[t].unheard,
           UNCHANGED <<accounts, home, elsewhere>>,
           c.kind \in Manages => c.stage # "ok"
    PROVE  Roster(t)'
<1>1. Shown(p) /\ ~Remounts(t, p)
  BY DEF Shown, Remounts
<1>2. tab'[t] = p /\ calls' = calls \ {c}
  BY <1>1, RendersKept
<1>3. \A e \in calls' : e \in calls /\ e.from = t
  BY <1>2 DEF Roster, Staying
<1>4. \A e \in calls : e.kind \in Manages /\ e.stage = "ok" => e \in calls'
  BY <1>2
<1> QED BY <1>1, <1>2, <1>3, <1>4, RosterSame

\* A list that arrives.
LEMMA ListArrives ==
    ASSUME TypeOK, NEW t \in Tabs, Roster(t), Shown(tab[t]), NEW c \in calls, c.kind = "list", c.stage = "ok",
           Render(t, [tab[t] EXCEPT !.listed = TRUE, !.rows = c.rows], calls \ {c}),
           UNCHANGED <<accounts, home, elsewhere>>
    PROVE  Roster(t)'
<1> DEFINE p == [tab[t] EXCEPT !.listed = TRUE, !.rows = c.rows]
<1>1. c.rows \in Tables /\ tab[t] \in Panels
  BY DEF TypeOK, Requests
<1>2. /\ p \in Panels /\ p.listed = TRUE /\ p.rows = c.rows /\ p.unheard = tab[t].unheard
      /\ p.loading = tab[t].loading /\ p.identity = tab[t].identity
  BY <1>1 DEF Panels
<1>3. Render(t, p, calls \ {c})
  OBVIOUS
<1> HIDE DEF p
<1>4. Shown(p) /\ ~Remounts(t, p)
  BY <1>2 DEF Shown, Remounts
<1>5. tab'[t] = p /\ calls' = calls \ {c}
  BY <1>3, <1>4, RendersKept
<1>6. \A e \in calls : e.kind \notin Manages /\ (e.kind = "list" => e = c) /\ e.from = t
  BY DEF Roster, Staying, ListedOnce
<1>7. \A e \in calls' : e.kind \notin Manages \cup {"list"} /\ e.from = t
  BY <1>5, <1>6
<1>8. Staying(t)' /\ ListedOnce(t)' /\ OneByOne(t)' /\ CarriedOut(t)'
  BY <1>2, <1>4, <1>5, <1>7 DEF Roster, Staying, ListedOnce, OneByOne, CarriedOut, Manages
<1>9. ~elsewhere => c.rows = [u \in Users |-> Listing(u)]
  BY DEF Roster, ListedOnce
<1>10. UpToDate(t)'
  <2> SUFFICES ASSUME ~elsewhere', NEW u \in Users
               PROVE  /\ tab'[t].rows[u] = Listing(u)'
                      /\ \A e \in calls' : ~Told(e, u)'
    BY DEF UpToDate
  <2>1. Listing(u)' = Listing(u)
    BY DEF Listing
  <2>2. tab'[t].rows[u] = Listing(u)
    BY <1>2, <1>5, <1>9
  <2> QED BY <1>7, <2>1, <2>2 DEF Told
<1> QED BY <1>8, <1>10 DEF Roster

\* What was created or moved arrives.
LEMMA ManagedArrives ==
    ASSUME TypeOK, Assigned, NEW t \in Tabs, Roster(t), NEW c \in calls, c.kind \in Manages, c.stage = "ok",
           c.about \in Users, NEW row \in [copies : Nat, org : Anywhere],
           row = IF c.kind = "create" THEN Row(tab[t].rows[c.about].copies + 1, c.org) ELSE Row(1, c.org),
           NEW unheard, unheard = IF c.kind = "create" THEN tab[t].unheard ELSE tab[t].unheard \ {c.about},
           Render(t, [tab[t] EXCEPT !.rows = [tab[t].rows EXCEPT ![c.about] = row], !.unheard = unheard], calls \ {c}),
           UNCHANGED <<accounts, home, elsewhere>>
    PROVE  Roster(t)'
<1> DEFINE rows == [tab[t].rows EXCEPT ![c.about] = row]
           p    == [tab[t] EXCEPT !.rows = rows, !.unheard = unheard]
<1>1. tab[t].rows \in Tables /\ tab[t] \in Panels
  BY DEF TypeOK, Panels
<1>2. rows \in Tables /\ rows[c.about] = row /\ \A u \in Users : u # c.about => rows[u] = tab[t].rows[u]
  BY <1>1 DEF Tables
<1>3. Render(t, p, calls \ {c})
  OBVIOUS
<1> HIDE DEF rows
<1>4. /\ p \in Panels /\ p.listed = tab[t].listed /\ p.rows = rows /\ p.unheard = unheard
      /\ p.loading = tab[t].loading /\ p.identity = tab[t].identity
  BY <1>1, <1>2 DEF Panels
<1> HIDE DEF p
<1>5. Shown(tab[t]) /\ tab[t].listed
  BY DEF Roster, Staying
<1>6. Shown(p) /\ ~Remounts(t, p)
  BY <1>4, <1>5 DEF Shown, Remounts
<1>7. tab'[t] = p /\ calls' = calls \ {c}
  BY <1>3, <1>6, RendersKept
<1>8. Staying(t)' /\ ListedOnce(t)'
  BY <1>4, <1>5, <1>6, <1>7 DEF Roster, Staying, ListedOnce
<1>9. row.copies > 0
  BY <1>1 DEF Row, Tables
<1>10. OneByOne(t)'
  <2>1. ASSUME NEW e \in calls', e.kind = "assign" PROVE tab'[t].rows[e.about].copies > 0
    <3>1. e \in calls /\ tab[t].rows[e.about].copies > 0
      BY <1>7, <2>1 DEF Roster, OneByOne
    <3>2. CASE e.about = c.about
      BY <1>2, <1>4, <1>7, <1>9, <3>2
    <3>3. CASE e.about # c.about
      <4>1. e.about \in Users
        BY <1>7, <2>1 DEF Assigned, Sound
      <4> QED BY <1>2, <1>4, <1>7, <3>1, <3>3, <4>1
    <3> QED BY <3>2, <3>3
  <2> QED BY <1>7, <2>1 DEF Roster, OneByOne
<1>11. UpToDate(t)'
  <2> SUFFICES ASSUME ~elsewhere, NEW u \in Users
               PROVE  /\ u \in tab'[t].unheard \/ (\E e \in calls' : Told(e, u)') \/ tab'[t].rows[u] = Listing(u)'
                      /\ \A e \in calls' : Told(e, u)' =>
                           /\ u \in accounts' /\ home'[u] = e.org
                           /\ e.kind = "create" => tab'[t].rows[u].copies = 0
    BY DEF UpToDate
  <2>1. Listing(u)' = Listing(u)
    BY DEF Listing
  <2>2. /\ u \in tab[t].unheard \/ (\E e \in calls : Told(e, u)) \/ tab[t].rows[u] = Listing(u)
        /\ \A e \in calls : Told(e, u) =>
             /\ u \in accounts /\ home[u] = e.org
             /\ e.kind = "create" => tab[t].rows[u].copies = 0
    BY <1>5 DEF Roster, UpToDate
  <2>3. CASE u # c.about
    <3>1. \A e : e \in calls' /\ Told(e, u) <=> e \in calls /\ Told(e, u)
      BY <1>7, <2>3 DEF Told
    <3> QED BY <1>2, <1>4, <1>7, <2>1, <2>2, <2>3, <3>1 DEF Told
  <2>4. CASE u = c.about
    <3>1. Told(c, u)
      BY <2>4 DEF Told
    <3>2. u \in accounts /\ home[u] = c.org /\ (c.kind = "create" => tab[t].rows[u].copies = 0)
      BY <2>2, <3>1
    <3>3. row = Listing(u)
      BY <2>4, <3>2 DEF Listing, Row
    <3>4. \A e \in calls' : ~Told(e, u)
      <4> SUFFICES ASSUME NEW e \in calls, e # c, Told(e, u) PROVE FALSE
        BY <1>7
      <4>1. e.kind = "create" => tab[t].rows[u].copies = 0
        BY <2>2
      <4>2. c.kind = "assign" \/ e.kind = "assign" => tab[t].rows[u].copies > 0
        BY <2>4 DEF Roster, OneByOne, Told
      <4>3. c.kind # e.kind
        BY <2>4 DEF Roster, OneByOne, Told, Manages
      <4> QED BY <3>2, <4>1, <4>2, <4>3 DEF Told, Manages
    <3> QED BY <1>2, <1>4, <1>7, <2>1, <2>4, <3>3, <3>4 DEF Told
  <2> QED BY <2>3, <2>4
<1>12. CarriedOut(t)'
  BY <1>4, <1>7 DEF Roster, CarriedOut
<1> QED BY <1>8, <1>10, <1>11, <1>12 DEF Roster

\* The tab makes of an answer what the server did.
LEMMA AnswerRoster ==
    ASSUME TypeOK, Assigned, NEW t \in Tabs, Placed(t), Roster(t), NEW c \in calls, Answer(c) PROVE Roster(t)'
<1> DEFINE p    == IF c.kind = "me" THEN [tab[c.from] EXCEPT !.loading = FALSE] ELSE tab[c.from]
           next == IF c.stage = "ok" THEN Accepted(p, c)
                   ELSE IF c.kind = "data" THEN Identified(p, Nobody) ELSE p
           rest == calls \ {c}
<1>1. c \in Requests /\ Sound(c) /\ c.who \in Sessions /\ c.kind \in Kinds /\ c.from = t
  BY DEF TypeOK, Assigned, Requests, Roster, Staying
<1>2. c.stage \in {"ok", "refused"} /\ Render(t, next, rest) /\ UNCHANGED <<accounts, home, elsewhere>>
  BY <1>1 DEF Answer, server
<1>3. tab[t] \in Panels
  BY DEF TypeOK
<1>4. p \in Panels /\ p.listed = tab[t].listed /\ p.rows = tab[t].rows /\ p.unheard = tab[t].unheard
  BY <1>1, <1>3 DEF Panels
<1>5. c.kind # "me" => p = tab[t]
  BY <1>1
<1> HIDE DEF p
<1>6. \A who \in Sessions : /\ Identified(p, who) \in Panels
                            /\ Identified(p, who).listed = p.listed /\ Identified(p, who).rows = p.rows
                            /\ Identified(p, who).unheard = p.unheard
  BY <1>4, IdentifiedIs
<1>7. CASE c.kind \in Asks \/ (c.kind = "data" /\ c.stage = "refused")
  <2>1. next \in Panels /\ next.listed = tab[t].listed /\ next.rows = tab[t].rows /\ next.unheard = tab[t].unheard
    <3>1. CASE c.kind = "me" /\ c.stage = "ok"
      <4>1. next = [p EXCEPT !.identity = c.who]
        BY <3>1 DEF Accepted
      <4> QED BY <1>1, <1>4, <4>1 DEF Panels
    <3>2. CASE c.kind \in {"login", "open", "logout"} /\ c.stage = "ok"
      <4>1. next = Identified(p, c.who)
        BY <3>2 DEF Accepted
      <4> QED BY <1>1, <1>4, <1>6, <4>1
    <3>3. CASE c.stage # "ok"
      BY <1>4, <1>6, <3>3, NothingListed
    <3> QED BY <1>2, <1>7, <3>1, <3>2, <3>3 DEF Asks
  <2>2. \A e \in calls : e.kind \notin Manages
    BY <1>7, Panelled
  <2> HIDE DEF next
  <2> QED BY <1>2, <2>1, <2>2, RosterRender
<1>8. CASE c.kind \in {"data", "list"} \cup Manages /\ ~(c.kind = "data" /\ c.stage = "refused")
  <2>1. Shown(tab[t]) /\ p = tab[t] /\ c.kind \notin Asks
    BY <1>5, <1>8, Panelled DEF Reads, Manages, Asks
  <2>2. CASE c.stage = "refused"
    <3>1. next = tab[t]
      BY <1>8, <2>1, <2>2
    <3> HIDE DEF next
    <3> QED BY <1>2, <1>3, <2>1, <2>2, <3>1, RosterKept
  <2>3. CASE c.kind = "data" /\ c.stage = "ok"
    <3>1. next = [tab[t] EXCEPT !.data = c.who.org]
      BY <2>1, <2>3 DEF Accepted
    <3>2. c.who.org \in Anywhere
      BY <1>1, <2>3 DEF Sound, Sessions, Nobody
    <3>3. /\ next \in Panels /\ next.loading = tab[t].loading /\ next.identity = tab[t].identity
          /\ next.listed = tab[t].listed /\ next.rows = tab[t].rows /\ next.unheard = tab[t].unheard
      BY <1>3, <3>1, <3>2 DEF Panels
    <3> HIDE DEF next
    <3> QED BY <1>2, <2>1, <2>3, <3>3, RosterKept DEF Manages
  <2>4. CASE c.kind = "list" /\ c.stage = "ok"
    <3>1. next = [tab[t] EXCEPT !.listed = TRUE, !.rows = c.rows]
      BY <2>1, <2>4 DEF Accepted
    <3> HIDE DEF next
    <3> QED BY <1>2, <2>1, <2>4, <3>1, ListArrives
  <2>5. CASE c.kind \in Manages /\ c.stage = "ok"
    <3> DEFINE row == IF c.kind = "create" THEN Row(tab[t].rows[c.about].copies + 1, c.org) ELSE Row(1, c.org)
    <3>1. c.about \in Users /\ c.org \in Anywhere /\ tab[t].rows \in Tables
      BY <1>1, <1>3, <2>5 DEF Sound, Manages, Requests, Panels
    <3>2. row \in [copies : Nat, org : Anywhere]
      BY <3>1 DEF Row, Tables
    <3> DEFINE unheard == IF c.kind = "create" THEN tab[t].unheard ELSE tab[t].unheard \ {c.about}
    <3>3. next = [tab[t] EXCEPT !.rows = [tab[t].rows EXCEPT ![c.about] = row], !.unheard = unheard]
      <4>1. CASE c.kind = "create"
        BY <1>3, <2>1, <2>5, <4>1 DEF Accepted, Added, Panels
      <4>2. CASE c.kind = "assign"
        BY <1>3, <2>1, <2>5, <4>2 DEF Accepted, Replaced, Panels
      <4> QED BY <2>5, <4>1, <4>2 DEF Manages
    <3> HIDE DEF next
    <3>4. Render(t, [tab[t] EXCEPT !.rows = [tab[t].rows EXCEPT ![c.about] = row], !.unheard = unheard], calls \ {c})
      BY <1>2, <3>3
    <3>5. /\ row = IF c.kind = "create" THEN Row(tab[t].rows[c.about].copies + 1, c.org) ELSE Row(1, c.org)
          /\ unheard = IF c.kind = "create" THEN tab[t].unheard ELSE tab[t].unheard \ {c.about}
      OBVIOUS
    <3> HIDE DEF row, unheard
    <3> QED BY <1>2, <2>5, <3>1, <3>2, <3>4, <3>5, ManagedArrives
  <2> QED BY <1>2, <1>8, <2>2, <2>3, <2>4, <2>5
<1> QED BY <1>1, <1>7, <1>8 DEF Kinds, Changes, Asks, Manages

\* What was created or moved, and whose answer is lost.
LEMMA ManagedUnheard ==
    ASSUME TypeOK, NEW t \in Tabs, Roster(t), NEW c \in calls, c.kind \in Manages, c.stage = "ok",
           NEW p \in Panels, Render(t, p, calls \ {c}), p.loading = tab[t].loading, p.identity = tab[t].identity,
           p.listed = tab[t].listed, p.rows = tab[t].rows, p.unheard = tab[t].unheard \cup {c.about},
           UNCHANGED <<accounts, home, elsewhere>>
    PROVE  Roster(t)'
<1>1. Shown(tab[t]) /\ tab[t].listed
  BY DEF Roster, Staying
<1>2. Shown(p) /\ ~Remounts(t, p)
  BY <1>1 DEF Shown, Remounts
<1>3. tab'[t] = p /\ calls' = calls \ {c}
  BY <1>2, RendersKept
<1>4. Staying(t)' /\ ListedOnce(t)' /\ OneByOne(t)'
  BY <1>1, <1>2, <1>3 DEF Roster, Staying, ListedOnce, OneByOne, Listing
<1>5. CarriedOut(t)'
  BY <1>3 DEF Roster, CarriedOut
<1>6. UpToDate(t)'
  <2> SUFFICES ASSUME ~elsewhere, NEW u \in Users
               PROVE  /\ u \in tab'[t].unheard \/ (\E e \in calls' : Told(e, u)') \/ tab'[t].rows[u] = Listing(u)'
                      /\ \A e \in calls' : Told(e, u)' =>
                           /\ u \in accounts' /\ home'[u] = e.org
                           /\ e.kind = "create" => tab'[t].rows[u].copies = 0
    BY DEF UpToDate
  <2>1. Listing(u)' = Listing(u)
    BY DEF Listing
  <2>2. /\ u \in tab[t].unheard \/ (\E e \in calls : Told(e, u)) \/ tab[t].rows[u] = Listing(u)
        /\ \A e \in calls : Told(e, u) =>
             /\ u \in accounts /\ home[u] = e.org
             /\ e.kind = "create" => tab[t].rows[u].copies = 0
    BY <1>1 DEF Roster, UpToDate
  <2> QED BY <1>3, <2>1, <2>2 DEF Told
<1> QED BY <1>4, <1>5, <1>6 DEF Roster

\* A call that does not reach the server, or whose answer does not come back.
LEMMA LostRoster ==
    ASSUME TypeOK, Assigned, NEW t \in Tabs, Placed(t), Roster(t), NEW c \in calls, Lost(c) PROVE Roster(t)'
<1> DEFINE p    == Unanswered(tab[t], c)
           rest == calls \ {c}
<1>1. c \in Requests /\ c.kind \in Kinds /\ c.from = t /\ tab[t] \in Panels /\ Sound(c)
  BY DEF TypeOK, Assigned, Requests, Roster, Staying
<1>2. Render(t, p, rest) /\ UNCHANGED <<accounts, home, elsewhere>>
  BY <1>1 DEF Lost, server
<1>3. /\ p \in Panels /\ p.listed = tab[t].listed /\ p.rows = tab[t].rows
      /\ p.unheard = IF c.kind \in Manages /\ c.stage = "ok" THEN tab[t].unheard \cup {c.about}
                     ELSE tab[t].unheard
      /\ c.kind \notin Asks => p.loading = tab[t].loading /\ p.identity = tab[t].identity
  <2>1. c.kind \in {"create", "assign"} => c.about \in Users
    BY <1>1 DEF Sound
  <2> QED BY <1>1, <2>1, UnansweredIs DEF Manages, Asks
<1> HIDE DEF p
<1>4. CASE c.kind \in Asks
  <2>1. \A e \in calls : e.kind \notin Manages
    BY <1>4, Panelled
  <2> QED BY <1>2, <1>3, <2>1, RosterRender
<1>5. CASE c.kind \in Manages /\ c.stage = "ok"
  <2>1. c.kind \notin Asks
    BY <1>5 DEF Manages, Asks
  <2> QED BY <1>2, <1>3, <1>5, <2>1, ManagedUnheard
<1>6. CASE c.kind \notin Asks /\ ~(c.kind \in Manages /\ c.stage = "ok")
  <2>1. Shown(tab[t])
    BY <1>1, <1>6, Panelled DEF Asks, Reads, Manages, Kinds, Changes
  <2> QED BY <1>2, <1>3, <1>6, <2>1, RosterKept
<1> QED BY <1>4, <1>5, <1>6

\* Connections drop and come back; accounts are changed in another browser.
LEMMA OtherRoster ==
    ASSUME TypeOK, NEW t \in Tabs, Tabs = {t}, Roster(t),
           Handshake(t) \/ Drop(t) \/ Elsewhere \/ UNCHANGED vars
    PROVE  Roster(t)'
<1>1. CASE Handshake(t) \/ Drop(t)
  <2>1. UNCHANGED <<calls, accounts, home, elsewhere>>
    BY <1>1 DEF Handshake, Drop, server
  <2>2. PICK s : tab' = [tab EXCEPT ![t].socket = s]
    BY <1>1 DEF Handshake, Drop
  <2>3. /\ tab'[t].listed = tab[t].listed /\ tab'[t].rows = tab[t].rows /\ tab'[t].unheard = tab[t].unheard
        /\ tab'[t].loading = tab[t].loading /\ tab'[t].identity = tab[t].identity
    BY <2>2 DEF TypeOK, Panels
  <2>4. \A e \in calls : e.from = t
    BY DEF Roster, Staying
  <2> QED BY <2>1, <2>3, <2>4, RosterSame DEF Shown
<1>2. CASE Elsewhere
  <2>1. UNCHANGED <<tab, calls>> /\ elsewhere' = TRUE /\ accounts \subseteq accounts'
    BY <1>2 DEF Elsewhere, CreateOrganization, CreateUser, AssignOrganization
  <2> QED BY <2>1 DEF Roster, Staying, ListedOnce, OneByOne, CarriedOut, UpToDate, Shown
<1>3. CASE UNCHANGED vars
  <2>1. UNCHANGED <<tab, calls, accounts, home, elsewhere>>
    BY <1>3 DEF vars, server
  <2>2. \A e \in calls : e.from = t
    BY DEF Roster, Staying
  <2> QED BY <2>1, <2>2, RosterSame
<1> QED BY <1>1, <1>2, <1>3

\* What is sent when nothing is being managed, and is no list.
LEMMA RosterAsks ==
    ASSUME TypeOK, NEW t \in Tabs, Roster(t), NEW d, calls' = calls \cup {d}, d.from = t,
           d.kind \in Asks, \A e \in calls : e.kind \notin Manages, UNCHANGED <<accounts, home, elsewhere, tab>>
    PROVE  Roster(t)'
<1>1. d.kind \notin Manages \cup {"list"}
  BY DEF Manages, Asks
<1>2. Staying(t)'
  BY <1>1 DEF Roster, Staying
<1>3. ListedOnce(t)'
  BY <1>1 DEF Roster, ListedOnce, Listing
<1>4. OneByOne(t)'
  BY <1>1 DEF Roster, OneByOne, Manages
<1>5. UpToDate(t)'
  <2>1. \A u \in Users : Listing(u)' = Listing(u)
    BY DEF Listing
  <2>2. \A e \in calls' : e.kind \notin Manages
    BY <1>1
  <2> QED BY <2>1, <2>2 DEF Roster, UpToDate, Told
<1>6. CarriedOut(t)'
  BY <1>1 DEF Roster, CarriedOut
<1> QED BY <1>2, <1>3, <1>4, <1>5, <1>6 DEF Roster

\* Signing in, signing out and opening an organization.
LEMMA AskRoster ==
    ASSUME TypeOK, Alone, NEW t \in Tabs, Roster(t), SignIn(t) \/ SignOut(t) \/ OpenOrganization(t)
    PROVE  Roster(t)'
<1>1. PICK k \in {"login", "open", "logout"}, u \in Users \cup {"nobody"}, o \in Anywhere : Send(t, k, u, o)
  BY DEF SignIn, SignOut, OpenOrganization, TypeOK, Anywhere
<1> DEFINE d == Request(t, k, u, o)
<1>2. d.from = t /\ d.kind \in Asks
  BY DEF Request, Asks
<1>3. calls' = calls \cup {d} /\ UNCHANGED <<accounts, home, elsewhere, tab>>
  BY <1>1 DEF Send
<1> HIDE DEF d
<1>4. \A e \in calls : e.kind \notin Manages
  <2>1. CASE SignIn(t)
    BY <2>1 DEF SignIn, Roster, Staying, Shown
  <2>2. CASE SignOut(t) \/ OpenOrganization(t)
    BY <2>2 DEF SignOut, OpenOrganization, Free, Waiting, Alone, Changes, Manages, Roster, Staying
  <2> QED BY <2>1, <2>2
<1> QED BY <1>2, <1>3, <1>4, RosterAsks

\* The drawer, and the rows that are moved, of a page that is listed.
LEMMA ManageRoster ==
    ASSUME TypeOK, Alone, NEW t \in Tabs, Placed(t), Roster(t), NewAccount(t) \/ Assign(t) PROVE Roster(t)'
<1>1. PICK k \in Manages, u \in Users, o \in Anywhere :
         /\ Send(t, k, u, o)
         /\ k = "create" => ~Waiting(t, {"create"})
         /\ k = "assign" => /\ tab[t].rows[u].copies > 0
                            /\ ~(\E c \in calls : c.from = t /\ c.kind = "assign" /\ c.about = u)
  <2>1. CASE NewAccount(t)
    BY <2>1 DEF NewAccount, TypeOK, Anywhere, Manages
  <2>2. CASE Assign(t)
    BY <2>2 DEF Assign, TypeOK, Anywhere, Manages
  <2> QED BY <2>1, <2>2
<1> DEFINE d == Request(t, k, u, o)
<1>2. d.from = t /\ d.kind = k /\ d.about = u /\ d.stage = "sent"
  BY DEF Request
<1>3. calls' = calls \cup {d} /\ UNCHANGED <<accounts, home, elsewhere, tab>>
  BY <1>1 DEF Send
<1> HIDE DEF d
<1>4. Managing(t)
  BY DEF NewAccount, Assign
<1>5. tab[t].listed /\ Shown(tab[t])
  BY <1>4 DEF Managing, Alone, Roster, Staying
<1>6. \A e \in calls : e.kind \notin Asks \cup {"list"}
  <2>1. \A e \in calls : e.kind \notin {"open", "logout"}
    BY <1>4 DEF Managing, Free, Waiting, Alone, Roster, Staying
  <2>2. Inside(t)
    BY <1>5, BlankFields DEF Placed, Loading, Outside
  <2> QED BY <1>5, <2>1, <2>2 DEF Inside, Fits, Asks, Reads, Roster, ListedOnce
<1>7. Staying(t)'
  BY <1>2, <1>3, <1>5, <1>6 DEF Roster, Staying, Manages, Asks
<1>8. ListedOnce(t)'
  BY <1>2, <1>3, <1>6 DEF ListedOnce, Manages
<1>9. OneByOne(t)'
  BY <1>1, <1>2, <1>3 DEF Roster, Staying, OneByOne, Waiting
<1>10. UpToDate(t)'
  <2>1. \A v \in Users : Listing(v)' = Listing(v)
    BY <1>3 DEF Listing
  <2>2. \A e, v : e \in calls' /\ Told(e, v) <=> e \in calls /\ Told(e, v)
    BY <1>2, <1>3 DEF Told
  <2> QED BY <1>3, <2>1, <2>2 DEF Roster, UpToDate, Told
<1>11. CarriedOut(t)'
  BY <1>2, <1>3 DEF Roster, CarriedOut
<1> QED BY <1>7, <1>8, <1>9, <1>10, <1>11 DEF Roster

\* Another page, or a reload: nothing is being managed, and the next page is listed anew.
LEMMA NavigateRoster ==
    ASSUME TypeOK, Alone, NEW t \in Tabs, Roster(t), NEW page \in Pages, Navigate(t, page) PROVE Roster(t)'
<1> DEFINE p == [tab[t] EXCEPT !.page = page]
<1>1. calls \in SUBSET Requests /\ tab \in [Tabs -> Panels] /\ p \in Panels
  BY DEF TypeOK, Panels
<1>2. tab' = [tab EXCEPT ![t] = Subscribed(p)] /\ calls' = Unmounted(t, calls) \cup Fetches(t, p)
  BY DEF Navigate
<1> HIDE DEF p, Panels, Requests
<1>3. \A e \in calls : e.from = t /\ e.kind \notin Manages
  BY DEF Navigate, Free, Waiting, Alone, Changes, Manages, Roster, Staying
<1>4. tab'[t].listed = FALSE /\ tab'[t].unheard = {}
  BY <1>1, <1>2, SubscribedIs
<1>5. \A e \in calls' : /\ e.from = t /\ e.kind \notin Manages
                        /\ e.kind = "list" => e = Request(t, "list", "nobody", None) /\ e.stage = "sent"
  BY <1>1, <1>2, <1>3, Remounted
<1> QED BY <1>4, <1>5, RosterUnlisted

LEMMA ReloadRoster ==
    ASSUME TypeOK, Alone, NEW t \in Tabs, Roster(t), Reload(t) PROVE Roster(t)'
<1> DEFINE m == Request(t, "me", "nobody", None)
<1>1. m.from = t /\ m.kind = "me"
  BY DEF Request
<1>2. /\ tab' = [tab EXCEPT ![t] = Blank]
      /\ calls' = Abandoned(t, {c.kind : c \in calls}, calls) \cup {m}
  BY DEF Reload
<1> HIDE DEF m
<1>3. \A e \in calls : e.from = t /\ e.kind \notin {"me", "login"} \cup Changes
  BY DEF Reload, Waiting, Alone, Roster, Staying
<1>4. \A e \in Abandoned(t, {c.kind : c \in calls}, calls) : FALSE
  <2> SUFFICES ASSUME NEW e \in Abandoned(t, {c.kind : c \in calls}, calls) PROVE FALSE
    OBVIOUS
  <2> HIDE DEF Requests
  <2>1. e.kind \notin {"data", "list"} /\ \E c \in calls : e.kind = c.kind
    BY <1>3, AbandonedIs DEF TypeOK
  <2>2. \A c \in calls : c.kind \in Kinds
    BY DEF TypeOK, Requests
  <2> QED BY <1>3, <2>1, <2>2 DEF Kinds
<1>5. tab'[t].listed = FALSE /\ tab'[t].unheard = {}
  BY <1>2 DEF TypeOK, Blank
<1>6. calls' = {m}
  BY <1>2, <1>4
<1> QED BY <1>1, <1>5, <1>6, RosterUnlisted DEF Manages

LEMMA RosterStep ==
    ASSUME TypeOK, Assigned, Alone, NEW t \in Tabs, Tabs = {t}, Placed(t), Roster(t), [Next]_vars PROVE Roster(t)'
<1>1. ASSUME NEW c \in calls, Arrive(c) \/ Handle(c) \/ Logout(c) \/ Fetched(c) PROVE Roster(t)'
  BY <1>1, ArriveRoster
<1>2. ASSUME NEW c \in calls, Listed(c) \/ Managed(c) \/ Answer(c) \/ Lost(c) PROVE Roster(t)'
  BY <1>2, ListedRoster, ManagedRoster, AnswerRoster, LostRoster
<1>3. CASE Page(t)
  <2>1. "dashboard" \in Pages /\ "users" \in Pages
    BY DEF Pages
  <2> QED BY <1>3, <2>1, AskRoster, ManageRoster, NavigateRoster, ReloadRoster DEF Page
<1>4. CASE Handshake(t) \/ Drop(t) \/ Elsewhere \/ UNCHANGED vars
  BY <1>4, OtherRoster
<1> QED BY <1>1, <1>2, <1>3, <1>4 DEF Next

AllRoster == \A t \in Tabs : Roster(t)

\* In one tab, when calls that change something are waited for, the users page that merges
\* what it created and moved itself lists, once it is quiet, what a fresh load would list:
\* every account once, where it is now (users.tsx), whatever is refused or does not reach the
\* server, and but for the accounts it created or moved without hearing of it.
THEOREM RosterStaysCurrent == Alone => (Spec => []RosterIsCurrent)
<1> SUFFICES ASSUME Alone PROVE Spec => []RosterIsCurrent
  OBVIOUS
<1>1. Alone => Awaited
  BY DEF Alone, Awaited
<1>2. Init => AllRoster
  <2> SUFFICES ASSUME Init, NEW t \in Tabs PROVE Roster(t)
    BY DEF AllRoster
  <2>1. calls = {Request(t, "me", "nobody", None)}
    BY DEF Init, Alone
  <2>2. \A e \in calls : e.from = t /\ e.kind = "me"
    BY <2>1 DEF Request
  <2>3. tab[t].listed = FALSE /\ tab[t].unheard = {}
    BY DEF Init, Blank
  <2> QED BY <2>2, <2>3 DEF Roster, Staying, ListedOnce, OneByOne, CarriedOut, UpToDate, Manages
<1>3. TypeOK /\ Assigned /\ AllPlaced /\ AllRoster /\ [Next]_vars => AllRoster'
  BY RosterStep DEF Alone, AllPlaced, AllRoster
<1>4. TypeOK /\ AllRoster => RosterIsCurrent
  <2> SUFFICES ASSUME TypeOK, NEW t \in Tabs, Roster(t), Quiet(t), tab[t].listed, ~elsewhere,
                      NEW u \in Users \ tab[t].unheard
               PROVE  tab[t].rows[u] = Listing(u)
    BY DEF AllRoster, RosterIsCurrent, Listing
  <2>1. calls = {}
    BY DEF Quiet, Roster, Staying
  <2> QED BY <2>1 DEF Roster, UpToDate
<1> QED BY <1>1, <1>2, <1>3, <1>4, AssignedInit, AssignedStep, Situations, PTL DEF Spec

=============================================================================
