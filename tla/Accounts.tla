------------------------------ MODULE Accounts ------------------------------
(***************************************************************************)
(* Accounts, login sessions and WebSocket tickets of the server            *)
(* (internal/server/server.go, auth.go, wsticket.go, users.go and the user *)
(* functions of registry.go).                                              *)
(*                                                                         *)
(* Each HTTP request is a thread.  One step is one critical section of     *)
(* sessionsMu, of the ticket store or of the registry; a request uses what *)
(* it read in one step when it takes the next.  Time passes when a         *)
(* session, a ticket or an account expires.  Steps after which a request   *)
(* is refused without any effect are left out, and so is the login         *)
(* throttle, which LoginGuard models.                                      *)
(***************************************************************************)
EXTENDS Integers, FiniteSets

CONSTANTS Requests,   \* requests that may be in progress together
          Names,      \* user names
          AdminUser,  \* the configured first admin
          Tokens,     \* session tokens, in the order they are drawn
          Tickets,    \* tickets, likewise
          AdminToken, \* the actor "admin-token"
          None

ASSUME AdminUserAssumption == AdminUser \in Names /\ IsFiniteSet(Names)
ASSUME DrawAssumption == Tokens \cap Tickets = {}
ASSUME NoneAssumption == None \notin Names \cup {AdminToken} /\ AdminToken \notin Names

Actors == Names \cup {AdminToken}

VARIABLES
  users, admins,   \* the users table: names, and those with role admin
  expired,         \* users whose expires_at has passed; which rows have one is
                   \* left open
  session,         \* s.sessions: the user of each token, None for no entry
  staleSessions,   \* tokens whose expiresAt has passed
  drawn,           \* tokens and tickets already drawn
  ticket,          \* the ticket store: the actor of each ticket, or None
  staleTickets,    \* tickets whose expiresAt has passed
  admitted,        \* how many upgrades each ticket has admitted
  at,              \* where each request is
  who,             \* the actor it runs for
  arg,             \* the token, ticket or user name it works on
  overlap          \* an admin was removed while another DELETE had passed its check

table == <<users, admins, expired>>
auth == <<session, staleSessions>>
passes == <<ticket, staleTickets, admitted>>
vars == <<table, auth, drawn, passes, at, who, arg, overlap>>

Move(r, label, w, a) ==
  /\ at' = [at EXCEPT ![r] = label]
  /\ who' = [who EXCEPT ![r] = w]
  /\ arg' = [arg EXCEPT ![r] = a]

Finish(r) == Move(r, "idle", None, None)

\* An account that exists and has not expired.
Valid(u) == u \in users \ expired

\* isAdmin.
IsAdmin(w) == w = AdminToken \/ (Valid(w) /\ w \in admins)

-----------------------------------------------------------------------------
(* Login, logout and validSession.                                         *)

\* handleLogin: ValidateUser accepts the credentials ...
Login(r, u) ==
  /\ at[r] = "idle" /\ Valid(u)
  /\ Move(r, "session", u, None)
  /\ UNCHANGED <<table, auth, drawn, passes, overlap>>

\* ... and a session is stored under a new token, unless none can be drawn.
CreateSession(r) ==
  /\ at[r] = "session"
  /\ \/ \E t \in Tokens \ drawn :
          session' = [session EXCEPT ![t] = who[r]] /\ drawn' = drawn \cup {t}
     \/ UNCHANGED <<session, drawn>>
  /\ Finish(r)
  /\ UNCHANGED <<table, staleSessions, passes, overlap>>

\* The entry of a token leaves s.sessions.
Delete(t) ==
  session' = [session EXCEPT ![t] = None] /\ staleSessions' = staleSessions \ {t}

Logout(t) ==
  /\ session[t] # None
  /\ Delete(t)
  /\ UNCHANGED <<table, drawn, passes, at, who, arg, overlap>>

\* validSession reads the entry of the token the request presents ...
ReadSession(r, t) ==
  /\ at[r] = "idle" /\ session[t] # None
  /\ Move(r, IF t \in staleSessions THEN "drop" ELSE "getUser", session[t], t)
  /\ UNCHANGED <<table, auth, drawn, passes, overlap>>

\* Faulty variant: a successful check writes the entry back, renewed.
GetUserRenews(r) ==
  /\ at[r] = "getUser"
  /\ IF Valid(who[r])
     THEN /\ session' = [session EXCEPT ![arg[r]] = who[r]]
          /\ staleSessions' = staleSessions \ {arg[r]}
          /\ \E job \in {"ticket", "admin"} : Move(r, job, who[r], None)
     ELSE Move(r, "drop", who[r], arg[r]) /\ UNCHANGED auth
  /\ UNCHANGED <<table, drawn, passes, overlap>>

\* ... and then its account.  The request goes on with its job, for a ticket or
\* on the users table.
GetUser(r) ==
  /\ at[r] = "getUser"
  /\ IF Valid(who[r])
     THEN \E job \in {"ticket", "admin"} : Move(r, job, who[r], None)
     ELSE Move(r, "drop", who[r], arg[r])
  /\ UNCHANGED <<table, auth, drawn, passes, overlap>>

\* A session that expired or lost its account is deleted.
DropSession(r) ==
  /\ at[r] = "drop"
  /\ Delete(arg[r])
  /\ Finish(r)
  /\ UNCHANGED <<table, drawn, passes, overlap>>

\* The admin token needs no session.
UseAdminToken(r) ==
  /\ at[r] = "idle"
  /\ \E job \in {"ticket", "admin"} : Move(r, job, AdminToken, None)
  /\ UNCHANGED <<table, auth, drawn, passes, overlap>>

-----------------------------------------------------------------------------
(* Tickets.                                                                *)

\* canAccessDevice: an admin may, another user if the device is granted to them.
CanAccess(w, granted) == IsAdmin(w) \/ (Valid(w) /\ granted)

\* handleWSTicket checks the grant and then stores a ticket for the actor.
CheckGrant(r, granted) ==
  /\ at[r] = "ticket"
  /\ IF CanAccess(who[r], granted) THEN Move(r, "issue", who[r], None) ELSE Finish(r)
  /\ UNCHANGED <<table, auth, drawn, passes, overlap>>

Issue(r) ==
  /\ at[r] = "issue"
  /\ \/ \E k \in Tickets \ drawn :
          ticket' = [ticket EXCEPT ![k] = who[r]] /\ drawn' = drawn \cup {k}
     \/ UNCHANGED <<ticket, drawn>>
  /\ Finish(r)
  /\ UNCHANGED <<table, auth, staleTickets, admitted, overlap>>

\* Faulty variant: consume looks the ticket up and leaves it in the store.
ConsumeKeeps(r, k) ==
  /\ at[r] = "idle" /\ ticket[k] # None
  /\ IF k \in staleTickets
     THEN UNCHANGED <<at, who, arg>> ELSE Move(r, "upgrade", ticket[k], k)
  /\ UNCHANGED <<table, auth, drawn, passes, overlap>>

\* authorizeWS: consume takes the ticket out, whether or not it is accepted.  A
\* ticket presented for another device or kind is refused likewise.
Consume(r, k) ==
  /\ at[r] = "idle" /\ ticket[k] # None
  /\ ticket' = [ticket EXCEPT ![k] = None] /\ staleTickets' = staleTickets \ {k}
  /\ \/ k \notin staleTickets /\ Move(r, "upgrade", ticket[k], k)
     \/ UNCHANGED <<at, who, arg>>
  /\ UNCHANGED <<table, auth, drawn, admitted, overlap>>

\* The grant is checked again, and the upgrade goes on.
Upgrade(r, granted) ==
  /\ at[r] = "upgrade"
  /\ admitted' = IF CanAccess(who[r], granted)
                 THEN [admitted EXCEPT ![arg[r]] = @ + 1] ELSE admitted
  /\ Finish(r)
  /\ UNCHANGED <<table, auth, drawn, ticket, staleTickets, overlap>>

-----------------------------------------------------------------------------
(* The users table.                                                        *)

\* The row of user u gets this role and an expiry that has passed or not.
SetRow(u, admin, past) ==
  /\ users' = users \cup {u}
  /\ admins' = IF admin THEN admins \cup {u} ELSE admins \ {u}
  /\ expired' = IF past THEN expired \cup {u} ELSE expired \ {u}

\* Whether removing u as an admin overlaps a DELETE of another request that has
\* passed its check.
Overlaps(r, u) == u \in admins /\ \E x \in Requests \ {r} : at[x] = "delete"

\* isAdmin, before each operation on the table.
CheckAdmin(r) ==
  /\ at[r] = "admin"
  /\ IF IsAdmin(who[r]) THEN Move(r, "table", None, None) ELSE Finish(r)
  /\ UNCHANGED <<table, auth, drawn, passes, overlap>>

\* POST: CreateUser inserts a name that is not taken.
CreateUser(r, u, admin, past) ==
  /\ at[r] = "table" /\ u \notin users
  /\ SetRow(u, admin, past)
  /\ Finish(r)
  /\ UNCHANGED <<auth, drawn, passes, overlap>>

\* Faulty variant: the last admin can be demoted.
UpdateUserUnchecked(r, u, admin, past) ==
  /\ at[r] = "table" /\ u \in users
  /\ SetRow(u, admin, past)
  /\ overlap' = (overlap \/ (~admin /\ Overlaps(r, u)))
  /\ Finish(r)
  /\ UNCHANGED <<auth, drawn, passes>>

\* PATCH: UpdateUser checks and writes under one lock; the last admin keeps its
\* role.
UpdateUser(r, u, admin, past) ==
  /\ at[r] = "table" /\ u \in users
  /\ u \in admins /\ ~admin => Cardinality(admins) > 1
  /\ SetRow(u, admin, past)
  /\ overlap' = (overlap \/ (~admin /\ Overlaps(r, u)))
  /\ Finish(r)
  /\ UNCHANGED <<auth, drawn, passes>>

\* DELETE reads the user; only an admin is counted ...
ReadUser(r, u) ==
  /\ at[r] = "table" /\ u \in users
  /\ Move(r, IF u \in admins THEN "count" ELSE "delete", None, u)
  /\ UNCHANGED <<table, auth, drawn, passes, overlap>>

\* ... among the admins listed in a second read, refusing the last one ...
CountAdmins(r) ==
  /\ at[r] = "count"
  /\ IF Cardinality(admins) > 1 THEN Move(r, "delete", None, arg[r]) ELSE Finish(r)
  /\ UNCHANGED <<table, auth, drawn, passes, overlap>>

\* ... and deletes it.
DeleteUser(r) ==
  /\ at[r] = "delete"
  /\ users' = users \ {arg[r]} /\ admins' = admins \ {arg[r]}
  /\ expired' = expired \ {arg[r]}
  /\ overlap' = (overlap \/ Overlaps(r, arg[r]))
  /\ Finish(r)
  /\ UNCHANGED <<auth, drawn, passes>>

-----------------------------------------------------------------------------
(* Time, the janitor and a restart.                                        *)

SessionExpires(t) ==
  /\ session[t] # None /\ t \notin staleSessions
  /\ staleSessions' = staleSessions \cup {t}
  /\ UNCHANGED <<table, session, drawn, passes, at, who, arg, overlap>>

TicketExpires(k) ==
  /\ ticket[k] # None /\ k \notin staleTickets
  /\ staleTickets' = staleTickets \cup {k}
  /\ UNCHANGED <<table, auth, drawn, ticket, admitted, at, who, arg, overlap>>

AccountExpires(u) ==
  /\ Valid(u)
  /\ expired' = expired \cup {u}
  /\ UNCHANGED <<users, admins, auth, drawn, passes, at, who, arg, overlap>>

\* ticketStore.sweep.
SweptTickets == [k \in Tickets |-> IF k \in staleTickets THEN None ELSE ticket[k]]

\* sweepAuthState.  The two maps have locks of their own and are swept one after
\* the other; no request uses both, so this is one step.
Sweep ==
  /\ session' = [t \in Tokens |-> IF t \in staleSessions THEN None ELSE session[t]]
  /\ ticket' = SweptTickets
  /\ staleSessions' = {} /\ staleTickets' = {}
  /\ UNCHANGED <<table, drawn, admitted, at, who, arg, overlap>>

\* A new process: sessions and tickets are gone, the users table is read back
\* and EnsureUser adds the configured admin if its name is not taken.
Restart ==
  /\ session' = [t \in Tokens |-> None] /\ ticket' = [k \in Tickets |-> None]
  /\ staleSessions' = {} /\ staleTickets' = {}
  /\ at' = [r \in Requests |-> "idle"]
  /\ who' = [r \in Requests |-> None] /\ arg' = [r \in Requests |-> None]
  /\ IF AdminUser \in users THEN UNCHANGED table ELSE SetRow(AdminUser, TRUE, FALSE)
  /\ UNCHANGED <<drawn, admitted, overlap>>

-----------------------------------------------------------------------------
(* The specification.                                                      *)

Init ==
  /\ users = {AdminUser} /\ admins = {AdminUser}
  /\ expired = {}
  /\ session = [t \in Tokens |-> None] /\ staleSessions = {} /\ drawn = {}
  /\ ticket = [k \in Tickets |-> None] /\ staleTickets = {}
  /\ admitted = [k \in Tickets |-> 0]
  /\ at = [r \in Requests |-> "idle"]
  /\ who = [r \in Requests |-> None] /\ arg = [r \in Requests |-> None]
  /\ overlap = FALSE

Arrives(r) ==
  \/ \E u \in Names : Login(r, u)
  \/ \E t \in Tokens : ReadSession(r, t)
  \/ \E k \in Tickets : Consume(r, k)
  \/ UseAdminToken(r)

Handle(r) ==
  \/ CreateSession(r) \/ GetUser(r) \/ DropSession(r) \/ Issue(r)
  \/ \E granted \in BOOLEAN : CheckGrant(r, granted) \/ Upgrade(r, granted)
  \/ CheckAdmin(r)
  \/ \E u \in Names : ReadUser(r, u)
  \/ \E u \in Names, admin, past \in BOOLEAN :
       CreateUser(r, u, admin, past) \/ UpdateUser(r, u, admin, past)
  \/ CountAdmins(r) \/ DeleteUser(r)

Next ==
  \/ \E r \in Requests : Arrives(r) \/ Handle(r)
  \/ \E t \in Tokens : Logout(t) \/ SessionExpires(t)
  \/ \E k \in Tickets : TicketExpires(k)
  \/ \E u \in Names : AccountExpires(u)
  \/ Sweep \/ Restart

Spec == Init /\ [][Next]_vars

-----------------------------------------------------------------------------
(* Properties.                                                             *)

Labels == {"idle", "session", "getUser", "drop", "ticket", "issue", "upgrade", "admin",
           "table", "count", "delete"}

\* The variables keep their types, and an admin is a user.
TypeOK ==
  /\ users \subseteq Names /\ admins \subseteq users /\ expired \subseteq users
  /\ session \in [Tokens -> Names \cup {None}] /\ staleSessions \subseteq Tokens
  /\ drawn \subseteq Tokens \cup Tickets
  /\ ticket \in [Tickets -> Actors \cup {None}] /\ staleTickets \subseteq Tickets
  /\ admitted \in [Tickets -> Nat]
  /\ at \in [Requests -> Labels]
  /\ who \in [Requests -> Actors \cup {None}]
  /\ arg \in [Requests -> Names \cup Tokens \cup Tickets \cup {None}]
  /\ overlap \in BOOLEAN

\* A token whose entry has left s.sessions, by a logout, the janitor, or a check that
\* found it expired or its account gone, is never entered again, whatever a request
\* that read the entry before does afterwards.  The entry outlives its account until
\* that check: under a name that is deleted and created again before it, the token
\* stays valid, although "the session must not survive it" (server.go:580).
EndedSessionStaysEnded ==
  [][\A t \in drawn \cap Tokens : session[t] = None => session'[t] = None]_vars

\* "A ticket is accepted at most once": of all requests that present a ticket, one
\* at most is upgraded.
TicketAdmitsOnce == \A k \in Tickets : admitted[k] <= 1

\* Without an overlap of two requests that remove admins there is always an
\* admin: a DELETE alone, and a PATCH at any time, leaves one.
AdminLostOnlyByOverlap == admins = {} => overlap

=============================================================================
