------------------------------- MODULE Accounts -------------------------------
(***************************************************************************)
(* Who is signed in, and which organization a browser operates in.          *)
(*                                                                         *)
(* The session of the browser lives on the server and names the tenant of   *)
(* every request.  A tab keeps its own idea of it (the identity of the last *)
(* answer), one live socket that joined a room at its handshake, and panels *)
(* that fetched once and then listen.  The module is about the three of     *)
(* them agreeing, while calls overlap, tabs are reloaded, and admins, on    *)
(* the users page of a tab or elsewhere, create accounts and move people    *)
(* between organizations.                                                   *)
(***************************************************************************)
EXTENDS Naturals, FiniteSets

CONSTANTS
    Users, Admins,   \* accounts that may exist; those whose role is ADMIN
    MaxOrgs,         \* bound: organizations are 1..MaxOrgs, in the order of their names
    Tabs,            \* tabs of the browser
    Overlap,         \* calls whose answer a user need not wait for before going on
    MaxLost, MaxMoves    \* bounds: calls or connections lost; what admins change

Changes == {"open", "logout", "create", "assign"}

ASSUME AccountsAssumption ==
    /\ Admins \subseteq Users /\ MaxOrgs \in Nat /\ Overlap \subseteq Changes
    /\ MaxLost \in Nat /\ MaxMoves \in Nat
    /\ "nobody" \notin Users /\ "gone" \notin Tabs

VARIABLES
    organizations,  \* the organizations that exist
    home,           \* home[u]: the organization the account names, None for none
    accounts,       \* the accounts that exist
    session,        \* the session of the browser
    tab,            \* tab[t]: what a tab has
    calls,          \* requests under way
    moved,          \* history: moved[t], an account was assigned since the tab (re)loaded
    elsewhere,      \* history: an admin changed an account in another browser
    lost, moves

server == <<organizations, home, accounts, moved, elsewhere, moves>>
vars   == <<server, session, tab, calls, lost>>

Orgs   == 1..MaxOrgs
None   == 0
Nobody == [user |-> "nobody", org |-> None]
Belongs(u) == u \notin Admins

\* The socket of a tab: closed, shaking hands, refused, or in the room of an
\* organization (None: connected, in no room).
Closed  == [is |-> "closed",  room |-> None]
Shaking == [is |-> "shaking", room |-> None]
In(org) == [is |-> "open",    room |-> org]

\* What the users page lists of an account: how often, and in which organization.
Row(copies, org) == [copies |-> copies, org |-> org]
NoRows == [u \in Users |-> Row(0, None)]

\* The last two are history: a switch was carried out whose answer was lost; accounts the
\* page had created or moved without hearing of it.
Blank == [loading |-> TRUE, identity |-> Nobody, socket |-> Closed, listening |-> FALSE, data |-> None,
          page |-> "dashboard", listed |-> FALSE, rows |-> NoRows, astray |-> FALSE, unheard |-> {}]

\* A request of a tab, what the server read for it or answered, and the rows it answered.
Request(t, kind, about, org) ==
    [from |-> t, kind |-> kind, about |-> about, org |-> org, stage |-> "sent", who |-> Nobody, rows |-> NoRows]

Init ==
    /\ organizations \in SUBSET Orgs /\ accounts \in SUBSET Users
    /\ home \in [Users -> organizations \cup {None}]
    /\ \A u \in Users : IF u \in accounts THEN Belongs(u) => home[u] # None ELSE home[u] = None
    /\ session = Nobody /\ tab = [t \in Tabs |-> Blank]
    /\ calls = {Request(t, "me", "nobody", None) : t \in Tabs}
    /\ moved = [t \in Tabs |-> FALSE] /\ elsewhere = FALSE /\ lost = 0 /\ moves = 0

---------------------------------------------------------------------------
(* The server: sessions *)

\* A request is where it is now; an answer nobody waits for is dropped.
Becomes(c, d)     == calls' = (calls \ {c}) \cup {x \in {d} : x.from \in Tabs \/ x.stage = "read"}
Answers(c, who)   == Becomes(c, [c EXCEPT !.stage = "ok", !.who = who])
Refuses(c)        == Becomes(c, [c EXCEPT !.stage = "refused", !.who = Nobody])

\* Mutant: whoever has an organization open keeps it.
OrganizationToOpenKept(u, opened) == IF opened \in organizations THEN opened ELSE home[u]

\* organizationToOpen: members their own; an admin the one opened, else the one an old
\* account still names, else the first.
OrganizationToOpen(u, opened) ==
    IF Belongs(u)                     THEN home[u]
    ELSE IF opened \in organizations  THEN opened
    ELSE IF home[u] \in organizations THEN home[u]
    ELSE IF organizations # {}        THEN CHOOSE o \in organizations : \A p \in organizations : o <= p
    ELSE None

SessionFor(u, opened) == [user |-> u, org |-> OrganizationToOpen(u, opened)]

\* A request arrives: the session, or the account of the email, is read and guards pass.
Arrive(c) ==
    /\ c.stage = "sent" /\ c.kind \in {"me", "open", "login"}
    /\ LET allowed == CASE c.kind = "me"   -> session # Nobody
                        [] c.kind = "open" -> session.user \in Admins /\ c.org \in organizations
                        [] OTHER           -> c.about \in accounts
           read    == IF c.kind = "login" THEN SessionFor(c.about, None) ELSE session
       IN  IF allowed THEN Becomes(c, [c EXCEPT !.stage = "read", !.who = read]) ELSE Refuses(c)
    /\ UNCHANGED <<server, session, tab, lost>>

\* me() reads the account again and saves the session when that changed it; open() and
\* login() save the session before they answer.
Me(c) ==
    LET who == SessionFor(c.who.user, c.who.org) IN
    session' = (IF who = c.who THEN session ELSE who) /\ Answers(c, who)

Open(c) == LET who == [c.who EXCEPT !.org = c.org] IN session' = who /\ Answers(c, who)

Login(c) == session' = c.who /\ Answers(c, c.who)

Handle(c) ==
    /\ c.stage = "read"
    /\ CASE c.kind = "me" -> Me(c) [] c.kind = "open" -> Open(c) [] OTHER -> Login(c)
    /\ UNCHANGED <<server, tab, lost>>

Logout(c) ==
    /\ c.stage = "sent" /\ c.kind = "logout"
    /\ session' = Nobody /\ Answers(c, Nobody)
    /\ UNCHANGED <<server, tab, lost>>

\* Any data route: the tenant is the organization of the session, 401 without a session,
\* 409 without an organization.
Fetched(c) ==
    /\ c.stage = "sent" /\ c.kind = "data"
    /\ IF session = Nobody THEN Refuses(c) ELSE Answers(c, session)
    /\ UNCHANGED <<server, session, tab, lost>>

\* The handshake joins the room of the session; anonymous sockets are refused.
Handshake(t) ==
    /\ tab[t].socket = Shaking
    /\ tab' = [tab EXCEPT ![t].socket = IF session = Nobody THEN [Closed EXCEPT !.is = "refused"]
                                        ELSE In(session.org)]
    /\ UNCHANGED <<server, session, calls, lost>>

---------------------------------------------------------------------------
(* The server: accounts *)

\* createUser: members in an organization that exists, admins in none; emails are unique.
\* Organizations are never deleted, so checking and writing are one step.
MayCreate(u, o) == u \in Users \ accounts /\ o \in organizations \cup {None} /\ (Belongs(u) <=> o # None)

CreateUser(u, o) ==
    /\ MayCreate(u, o)
    /\ accounts' = accounts \cup {u} /\ home' = [home EXCEPT ![u] = o]
    /\ UNCHANGED <<organizations, moved>>

\* assignOrganization: of members, to an organization that exists.
MayAssign(u, o) == u \in accounts /\ Belongs(u) /\ o \in organizations

AssignOrganization(u, o) ==
    /\ MayAssign(u, o)
    /\ home' = [home EXCEPT ![u] = o]
    /\ moved' = [t \in Tabs |-> TRUE]
    /\ UNCHANGED <<organizations, accounts>>

CreateOrganization(o) ==
    /\ o \in Orgs \ organizations /\ organizations' = organizations \cup {o}
    /\ UNCHANGED <<home, accounts, moved>>

Elsewhere ==
    /\ moves < MaxMoves /\ moves' = moves + 1 /\ elsewhere' = TRUE
    /\ \E o \in Orgs \cup {None} :
         CreateOrganization(o) \/ \E u \in Users : CreateUser(u, o) \/ AssignOrganization(u, o)
    /\ UNCHANGED <<session, tab, calls, lost>>

\* The same from the users page of a tab, and its list.
IsAdmin == session.user \in Admins

Listed(c) ==
    /\ c.stage = "sent" /\ c.kind = "list"
    /\ IF IsAdmin
       THEN Becomes(c, [c EXCEPT !.stage = "ok", !.rows =
                           [u \in Users |-> IF u \in accounts THEN Row(1, home[u]) ELSE Row(0, None)]])
       ELSE Refuses(c)
    /\ UNCHANGED <<server, session, tab, lost>>

Managed(c) ==
    /\ c.stage = "sent" /\ c.kind \in {"create", "assign"}
    /\ LET allowed == IsAdmin /\ IF c.kind = "create" THEN MayCreate(c.about, c.org) ELSE MayAssign(c.about, c.org)
           Write   == IF c.kind = "create" THEN CreateUser(c.about, c.org) ELSE AssignOrganization(c.about, c.org)
       IN  \/ allowed /\ Write /\ Answers(c, Nobody) /\ UNCHANGED <<elsewhere, moves>>
           \/ ~allowed /\ Refuses(c) /\ UNCHANGED server
    /\ UNCHANGED <<session, tab, lost>>

---------------------------------------------------------------------------
(* A tab *)

Waiting(t, kinds) == \E c \in calls : c.from = t /\ c.kind \in kinds
Shown(p)  == ~p.loading /\ p.identity # Nobody

\* Nobody waits for these any more: what was to be read is of no use, the rest the server
\* still handles.
Abandoned(t, kinds, rest) ==
    LET left == {c \in rest : c.from = t /\ c.kind \in kinds} IN
    (rest \ left) \cup {[c EXCEPT !.from = "gone"] :
                           c \in {c \in left : c.kind \notin {"data", "list"} /\ c.stage \in {"sent", "read"}}}

Unmounted(t, rest) == Abandoned(t, {"data", "list", "create", "assign"}, rest)

\* Mutant: a panel listens on the connection there is, and opens none.
SubscribedIfOpen(p) == [p EXCEPT !.listening = TRUE, !.data = None, !.listed = FALSE, !.rows = NoRows,
                                 !.unheard = {}]

\* Panels that are mounted subscribe on the shared socket, and fetch.
Subscribed(p) == [p EXCEPT !.socket = IF @ = Closed THEN Shaking ELSE @, !.listening = TRUE, !.data = None,
                           !.listed = FALSE, !.rows = NoRows, !.unheard = {}]
Fetches(t, p) == {Request(t, "data", "nobody", None)}
                 \cup {Request(t, "list", "nobody", None) : x \in {p.page} \ {"dashboard"}}

\* Mutant: the content is mounted once, and not keyed on the organization.
RemountsOnce(t, p) == Shown(p) /\ ~Shown(tab[t])

\* AppShell: the content is keyed on the organization.
Remounts(t, p) == Shown(p) /\ (~Shown(tab[t]) \/ p.identity.org # tab[t].identity.org)

Render(t, p, rest) ==
    IF Remounts(t, p)
    THEN tab' = [tab EXCEPT ![t] = Subscribed(p)] /\ calls' = Unmounted(t, rest) \cup Fetches(t, p)
    ELSE IF Shown(p)
    THEN tab' = [tab EXCEPT ![t] = p] /\ calls' = rest
    ELSE /\ tab' = [tab EXCEPT ![t] = [Blank EXCEPT !.loading = p.loading, !.identity = p.identity, !.socket = p.socket]]
         /\ calls' = Unmounted(t, rest)

\* closeSocket, then setIdentity: nobody is moved to the next socket.
Identified(p, who) == [p EXCEPT !.socket = Closed, !.listening = FALSE, !.identity = who, !.astray = FALSE]

\* Mutant: what was moved is added to the list.
ReplacedBeside(p, u, org) == [p EXCEPT !.rows[u] = Row(@.copies + 1, org), !.unheard = @ \ {u}]

\* The users page adds what was created and replaces what was moved.
Added(p, u, org)    == [p EXCEPT !.rows[u] = Row(@.copies + 1, org)]
Replaced(p, u, org) == [p EXCEPT !.rows[u] = Row(1, org), !.unheard = @ \ {u}]

\* What the tab makes of an answer.  A data route that answers 401 ends the session for
\* the tab; any other refusal changes nothing.
Accepted(p, c) ==
    CASE c.kind = "me"     -> [p EXCEPT !.identity = c.who]
      [] c.kind = "data"   -> [p EXCEPT !.data = c.who.org]
      [] c.kind = "list"   -> [p EXCEPT !.listed = TRUE, !.rows = c.rows]
      [] c.kind = "create" -> Added(p, c.about, c.org)
      [] c.kind = "assign" -> Replaced(p, c.about, c.org)
      [] OTHER             -> Identified(p, c.who)

Answer(c) ==
    /\ c.stage \in {"ok", "refused"}
    /\ LET p    == IF c.kind = "me" THEN [tab[c.from] EXCEPT !.loading = FALSE] ELSE tab[c.from]
           next == IF c.stage = "ok" THEN Accepted(p, c)
                   ELSE IF c.kind = "data" THEN Identified(p, Nobody) ELSE p
       IN  Render(c.from, next, calls \ {c})
    /\ UNCHANGED <<server, session, lost>>

\* The server is not reached, or it is and its answer does not come back: the tab cannot
\* tell.  me leaves it signed out, signing out happens locally all the same, and anything
\* else changes nothing in it.
Unanswered(p, c) ==
    CASE c.kind = "me"     -> [p EXCEPT !.loading = FALSE]
      [] c.kind = "logout" -> Identified(p, Nobody)
      [] c.kind = "open" /\ c.stage = "ok" -> [p EXCEPT !.astray = TRUE]
      [] c.kind \in {"create", "assign"} /\ c.stage = "ok" -> [p EXCEPT !.unheard = @ \cup {c.about}]
      [] OTHER             -> p

\* Bound: a tab learns of a loss once the server is done with the call.  A sign-in begins
\* another session, whose cookie may be lost with the answer.
Lost(c) ==
    /\ lost < MaxLost /\ lost' = lost + 1 /\ c.stage # "read" /\ c.from \in Tabs
    /\ Render(c.from, Unanswered(tab[c.from], c), calls \ {c})
    /\ session' = session \/ (c.kind = "login" /\ c.stage = "ok" /\ session' = Nobody)
    /\ UNCHANGED server

\* The connection drops: the same socket shakes hands again, its listeners stay.
Drop(t) ==
    /\ lost < MaxLost /\ lost' = lost + 1 /\ tab[t].socket.is = "open"
    /\ tab' = [tab EXCEPT ![t].socket = Shaking]
    /\ UNCHANGED <<server, session, calls>>

Send(t, kind, about, org) ==
    /\ calls' = calls \cup {Request(t, kind, about, org)}
    /\ UNCHANGED <<organizations, home, accounts, elsewhere, session, tab, lost>>

\* The login form, one submission at a time.
SignIn(t) ==
    /\ ~tab[t].loading /\ tab[t].identity = Nobody /\ ~Waiting(t, {"login"})
    /\ \E u \in Users : Send(t, "login", u, None)
    /\ moved' = [moved EXCEPT ![t] = FALSE] /\ UNCHANGED moves

\* Nothing stops a user from going on while a call that changes something is under way;
\* here they do so with those of Overlap only.
Free(t, kinds) == Shown(tab[t]) /\ ~Waiting(t, kinds \ Overlap)

SignOut(t) == Free(t, Changes) /\ Send(t, "logout", "nobody", None) /\ UNCHANGED <<moved, moves>>

\* The sidebar's switcher, or a row of the organizations page, each busy for itself.
OpenOrganization(t) ==
    /\ Free(t, Changes) /\ tab[t].identity.user \in Admins
    /\ \E o \in organizations \ {tab[t].identity.org} : Send(t, "open", "nobody", o)
    /\ UNCHANGED <<moved, moves>>

\* The users page, once it is listed: one drawer, and rows that are busy while they are saved.
Managing(t) ==
    /\ Free(t, {"open", "logout"}) /\ tab[t].page = "users" /\ (tab[t].listed \/ "create" \in Overlap)
    /\ moves < MaxMoves /\ moves' = moves + 1 /\ UNCHANGED moved

NewAccount(t) ==
    /\ Managing(t) /\ ~Waiting(t, {"create"})
    /\ \E u \in Users, o \in organizations \cup {None} : (Belongs(u) <=> o # None) /\ Send(t, "create", u, o)

Assign(t) ==
    /\ Managing(t)
    /\ \E u \in {u \in Users \ Admins : tab[t].rows[u].copies > 0} :
         /\ ~(\E c \in calls : c.from = t /\ c.kind = "assign" /\ c.about = u)
         /\ \E o \in organizations \ {tab[t].rows[u].org} : Send(t, "assign", u, o)

\* Another page of the app: new panels.
Navigate(t, page) ==
    /\ Free(t, Changes) /\ (page = "users" => tab[t].identity.user \in Admins)
    /\ LET p == [tab[t] EXCEPT !.page = page] IN
       /\ tab' = [tab EXCEPT ![t] = Subscribed(p)]
       /\ calls' = Unmounted(t, calls) \cup Fetches(t, p)
    /\ UNCHANGED <<server, session, lost>>

\* The tab is reloaded: nobody waits for its calls any more, and the server still handles them.
Reload(t) ==
    /\ ~Waiting(t, ({"me", "login"} \cup Changes) \ Overlap)
    /\ tab' = [tab EXCEPT ![t] = Blank]
    /\ calls' = Abandoned(t, {c.kind : c \in calls}, calls) \cup {Request(t, "me", "nobody", None)}
    /\ moved' = [moved EXCEPT ![t] = FALSE]
    /\ UNCHANGED <<organizations, home, accounts, elsewhere, moves, session, lost>>

Page(t) ==
    \/ SignIn(t) \/ SignOut(t) \/ OpenOrganization(t) \/ NewAccount(t) \/ Assign(t)
    \/ Navigate(t, "dashboard") \/ Navigate(t, "users") \/ Reload(t)

Next ==
    \/ \E c \in calls :
         \/ Arrive(c) \/ Handle(c) \/ Logout(c) \/ Fetched(c) \/ Listed(c) \/ Managed(c)
         \/ Answer(c) \/ Lost(c)
    \/ \E t \in Tabs : Handshake(t) \/ Drop(t) \/ Page(t)
    \/ Elsewhere

Spec == Init /\ [][Next]_vars

---------------------------------------------------------------------------
(* Properties *)

\* Nothing a tab waits for, or has left behind, is under way.
Quiet(t) == tab[t].socket # Shaking /\ \A c \in calls : c.from \notin {t, "gone"}

\* The header of a tab, its data, its live events and what the server would do with its next
\* request are of one organization.
OfOneOrganization(t) ==
    /\ tab[t].identity = session
    /\ tab[t].data \in {None, session.org}
    /\ tab[t].socket.is = "open" => tab[t].socket.room = session.org

\* They are once the tab is quiet (app-shell.tsx: never "the previous organization's data
\* under the new name"), except after a switch the server carried out whose answer was lost:
\* then the session is in the new organization and the tab names the old one, until the next
\* switch it hears of, the next sign-in or a reload.
OneOrganizationOnThePage ==
    \A t \in Tabs : Quiet(t) /\ Shown(tab[t]) /\ ~tab[t].astray => OfOneOrganization(t)

\* Without that exception it does not hold (AccountsLost.cfg): a fetch then puts the data of
\* the new organization under the old name.
OneOrganizationWhateverIsLost == \A t \in Tabs : Quiet(t) /\ Shown(tab[t]) => OfOneOrganization(t)

\* And it is live: its panels listen on the socket that is open, not on one that was closed
\* under them (auth-context.tsx: "every panel subscribes again on a fresh connection").
PanelsAreLive ==
    \A t \in Tabs : Quiet(t) /\ Shown(tab[t]) => tab[t].listening /\ tab[t].socket.is = "open"

\* An assignment "takes effect for that person on their next page load", also when it comes
\* between the steps of the load or of the sign-in.
AssignedOnNextLoad ==
    \A t \in Tabs :
        Shown(tab[t]) /\ Belongs(tab[t].identity.user) /\ ~moved[t] =>
            tab[t].identity.org = home[tab[t].identity.user]

\* While nobody else changes accounts, the users page that merges what it did itself lists
\* what a fresh load would list, every account once and where it is now, but for accounts
\* whose creation or move the server carried out and the page did not hear of: nothing
\* fetches the list again (users.tsx), and only moving such an account again puts it right.
RosterIsCurrent ==
    \A t \in Tabs : Quiet(t) /\ tab[t].listed /\ ~elsewhere =>
        \A u \in Users \ tab[t].unheard :
            tab[t].rows[u] = IF u \in accounts THEN Row(1, home[u]) ELSE Row(0, None)
=============================================================================
