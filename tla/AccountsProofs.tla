--------------------------- MODULE AccountsProofs ---------------------------
(***************************************************************************)
(* What the accounts promise for any number of requests, users, tokens and *)
(* tickets: ended sessions stay ended, a ticket admits once, and only an   *)
(* overlap of two removals can take the last admin.  And what the login    *)
(* throttle (LoginGuard) promises for any number of overlapping requests.  *)
(***************************************************************************)
EXTENDS Accounts, LoginGuard, FiniteSetTheorems, TLAPS

-----------------------------------------------------------------------------
(* The steps, one disjunct each.                                           *)

\* A case analysis of Next, cited wherever every action is considered.
LEMMA NextCases ==
  ASSUME Next
  PROVE  \/ \E r \in Requests :
              \/ \E u \in Names : Login(r, u) \/ ReadUser(r, u)
              \/ \E t \in Tokens : ReadSession(r, t)
              \/ \E k \in Tickets : Consume(r, k)
              \/ UseAdminToken(r) \/ CreateSession(r) \/ GetUser(r) \/ DropSession(r)
              \/ Issue(r) \/ CheckAdmin(r) \/ CountAdmins(r) \/ DeleteUser(r)
              \/ \E g \in BOOLEAN : CheckGrant(r, g) \/ Upgrade(r, g)
              \/ \E u \in Names, admin, past \in BOOLEAN :
                   CreateUser(r, u, admin, past) \/ UpdateUser(r, u, admin, past)
         \/ \E t \in Tokens : Logout(t) \/ SessionExpires(t)
         \/ \E k \in Tickets : TicketExpires(k)
         \/ \E u \in Names : AccountExpires(u)
         \/ Sweep \/ Restart
BY DEF Next, Arrives, Handle

\* Initially the types are right.
LEMMA InitTypeOK == Init => TypeOK
<1> SUFFICES ASSUME Init PROVE TypeOK
  OBVIOUS
<1>1. overlap \in BOOLEAN
  BY DEF Init
<1> QED
  BY <1>1, AdminUserAssumption, NoneAssumption DEF Init, TypeOK, Labels, Actors

\* What a request holds at its labels.
HoldsInv ==
  \A r \in Requests :
    /\ at[r] \in {"session", "getUser"} => who[r] \in Names
    /\ at[r] \in {"ticket", "issue", "upgrade", "admin"} => who[r] \in Actors
    /\ at[r] \in {"getUser", "drop"} => arg[r] \in Tokens
    /\ at[r] = "upgrade" => arg[r] \in Tickets
    /\ at[r] \in {"count", "delete"} => arg[r] \in Names

TInv == TypeOK /\ HoldsInv

\* The types hold initially, with what each request holds.
LEMMA InitTInv == Init => TInv
<1>1. Init => HoldsInv
  BY DEF Init, HoldsInv
<1> QED
  BY <1>1, InitTypeOK DEF TInv

\* Every step keeps the types and what the requests hold.
LEMMA NextTInv == TInv /\ [Next]_vars => TInv'
<1> SUFFICES ASSUME TInv, [Next]_vars PROVE TInv'
  OBVIOUS
<1> USE NoneAssumption, AdminUserAssumption
<1>1. ASSUME NEW r \in Requests, NEW u \in Names, Login(r, u) PROVE TInv'
  BY <1>1 DEF TInv, TypeOK, HoldsInv, Labels, Actors, Login, Move, table, auth, passes
<1>2. ASSUME NEW r \in Requests, NEW u \in Names, ReadUser(r, u) PROVE TInv'
  BY <1>2 DEF TInv, TypeOK, HoldsInv, Labels, Actors, ReadUser, Move, table, auth, passes
<1>3. ASSUME NEW r \in Requests, NEW t \in Tokens, ReadSession(r, t) PROVE TInv'
  BY <1>3 DEF TInv, TypeOK, HoldsInv, Labels, Actors, ReadSession, Move, table, auth, passes
<1>4. ASSUME NEW r \in Requests, NEW k \in Tickets, Consume(r, k) PROVE TInv'
  BY <1>4 DEF TInv, TypeOK, HoldsInv, Labels, Actors, Consume, Move, table, auth, passes
<1>5. ASSUME NEW r \in Requests, UseAdminToken(r) PROVE TInv'
  BY <1>5 DEF TInv, TypeOK, HoldsInv, Labels, Actors, UseAdminToken, Move, table, auth,
              passes
<1>6. ASSUME NEW r \in Requests, CreateSession(r) PROVE TInv'
  BY <1>6 DEF TInv, TypeOK, HoldsInv, Labels, Actors, CreateSession, Finish, Move, table,
              auth, passes
<1>7. ASSUME NEW r \in Requests, GetUser(r) PROVE TInv'
  BY <1>7 DEF TInv, TypeOK, HoldsInv, Labels, Actors, GetUser, Move, table, auth, passes
<1>8. ASSUME NEW r \in Requests, DropSession(r) PROVE TInv'
  BY <1>8 DEF TInv, TypeOK, HoldsInv, Labels, Actors, DropSession, Delete, Finish, Move,
              table, auth, passes
<1>9. ASSUME NEW r \in Requests, Issue(r) PROVE TInv'
  BY <1>9 DEF TInv, TypeOK, HoldsInv, Labels, Actors, Issue, Finish, Move, table, auth,
              passes
<1>10. ASSUME NEW r \in Requests, CheckAdmin(r) PROVE TInv'
  BY <1>10 DEF TInv, TypeOK, HoldsInv, Labels, Actors, CheckAdmin, Finish, Move, table,
               auth, passes
<1>11. ASSUME NEW r \in Requests, CountAdmins(r) PROVE TInv'
  BY <1>11 DEF TInv, TypeOK, HoldsInv, Labels, Actors, CountAdmins, Finish, Move, table,
               auth, passes
<1>12. ASSUME NEW r \in Requests, DeleteUser(r) PROVE TInv'
  BY <1>12 DEF TInv, TypeOK, HoldsInv, Labels, Actors, DeleteUser, Finish, Move, table,
               auth, passes
<1>13. ASSUME NEW r \in Requests, NEW g \in BOOLEAN, CheckGrant(r, g) PROVE TInv'
  BY <1>13 DEF TInv, TypeOK, HoldsInv, Labels, Actors, CheckGrant, Finish, Move, table,
               auth, passes
<1>14. ASSUME NEW r \in Requests, NEW g \in BOOLEAN, Upgrade(r, g) PROVE TInv'
  BY <1>14 DEF TInv, TypeOK, HoldsInv, Labels, Actors, Upgrade, Finish, Move, table, auth,
               passes
<1>15. ASSUME NEW r \in Requests, NEW u \in Names, NEW admin \in BOOLEAN, NEW past \in BOOLEAN,
             CreateUser(r, u, admin, past) PROVE TInv'
  BY <1>15 DEF TInv, TypeOK, HoldsInv, Labels, Actors, CreateUser, SetRow, Finish, Move,
               table, auth, passes
<1>16. ASSUME NEW r \in Requests, NEW u \in Names, NEW admin \in BOOLEAN, NEW past \in BOOLEAN,
             UpdateUser(r, u, admin, past) PROVE TInv'
  BY <1>16 DEF TInv, TypeOK, HoldsInv, Labels, Actors, UpdateUser, SetRow, Finish, Move,
               table, auth, passes
<1>17. ASSUME NEW t \in Tokens, Logout(t) PROVE TInv'
  BY <1>17 DEF TInv, TypeOK, HoldsInv, Labels, Actors, Logout, Delete, table, auth, passes
<1>18. ASSUME NEW t \in Tokens, SessionExpires(t) PROVE TInv'
  BY <1>18 DEF TInv, TypeOK, HoldsInv, Labels, Actors, SessionExpires, table, auth, passes
<1>19. ASSUME NEW k \in Tickets, TicketExpires(k) PROVE TInv'
  BY <1>19 DEF TInv, TypeOK, HoldsInv, Labels, Actors, TicketExpires, table, auth, passes
<1>20. ASSUME NEW u \in Names, AccountExpires(u) PROVE TInv'
  BY <1>20 DEF TInv, TypeOK, HoldsInv, Labels, Actors, AccountExpires, Valid, table, auth,
               passes
<1>21. ASSUME Sweep PROVE TInv'
  BY <1>21 DEF TInv, TypeOK, HoldsInv, Labels, Actors, Sweep, SweptTickets, table, auth,
               passes
<1>22. ASSUME Restart PROVE TInv'
  BY <1>22 DEF TInv, TypeOK, HoldsInv, Labels, Actors, Restart, SetRow, table, auth, passes
<1>23. ASSUME UNCHANGED vars PROVE TInv'
  BY <1>23 DEF TInv, TypeOK, HoldsInv, Labels, Actors, vars, table, auth, passes
<1> QED
  BY <1>1, <1>2, <1>3, <1>4, <1>5, <1>6, <1>7, <1>8, <1>9, <1>10, <1>11, <1>12, <1>13,
     <1>14, <1>15, <1>16, <1>17, <1>18, <1>19, <1>20, <1>21, <1>22, <1>23, NextCases

\* The state of the accounts keeps its types.
THEOREM TypeCorrect == Spec => []TypeOK
<1>1. Spec => []TInv
  BY InitTInv, NextTInv, PTL DEF Spec
<1> QED
  BY <1>1, PTL DEF TInv

\* Tickets and the requests that present them: a ticket that is stored or being
\* presented has admitted nobody, and is in one place only.
TicketInv ==
  \A k \in Tickets :
    /\ admitted[k] <= 1
    /\ k \notin drawn => ticket[k] = None /\ admitted[k] = 0
    /\ ticket[k] # None => admitted[k] = 0
    /\ \A r \in Requests : at[r] = "upgrade" /\ arg[r] = k =>
         /\ k \in drawn /\ ticket[k] = None /\ admitted[k] = 0
         /\ \A x \in Requests : at[x] = "upgrade" /\ arg[x] = k => x = r

\* No ticket is anywhere at first.
LEMMA InitTicketInv == Init => TicketInv
  BY DEF Init, TicketInv

\* Every step keeps the ticket invariant.
LEMMA NextTicketInv == TInv /\ TicketInv /\ [Next]_vars => TicketInv'
<1> SUFFICES ASSUME TInv, TicketInv, [Next]_vars PROVE TicketInv'
  OBVIOUS
<1> USE NoneAssumption, DrawAssumption
<1>1. ASSUME NEW r \in Requests, NEW u \in Names, Login(r, u) PROVE TicketInv'
  BY <1>1 DEF TInv, TypeOK, HoldsInv, Labels, Actors, TicketInv, Login, Move, table, auth,
              passes
<1>2. ASSUME NEW r \in Requests, NEW u \in Names, ReadUser(r, u) PROVE TicketInv'
  BY <1>2 DEF TInv, TypeOK, HoldsInv, Labels, Actors, TicketInv, ReadUser, Move, table,
              auth, passes
<1>3. ASSUME NEW r \in Requests, NEW t \in Tokens, ReadSession(r, t) PROVE TicketInv'
  BY <1>3 DEF TInv, TypeOK, HoldsInv, Labels, Actors, TicketInv, ReadSession, Move, table,
              auth, passes
<1>4. ASSUME NEW r \in Requests, NEW k \in Tickets, Consume(r, k) PROVE TicketInv'
  BY <1>4 DEF TInv, TypeOK, HoldsInv, Labels, Actors, TicketInv, Consume, Move, table,
              auth, passes
<1>5. ASSUME NEW r \in Requests, UseAdminToken(r) PROVE TicketInv'
  BY <1>5 DEF TInv, TypeOK, HoldsInv, Labels, Actors, TicketInv, UseAdminToken, Move,
              table, auth, passes
<1>6. ASSUME NEW r \in Requests, CreateSession(r) PROVE TicketInv'
  BY <1>6 DEF TInv, TypeOK, HoldsInv, Labels, Actors, TicketInv, CreateSession, Finish,
              Move, table, auth, passes
<1>7. ASSUME NEW r \in Requests, GetUser(r) PROVE TicketInv'
  BY <1>7 DEF TInv, TypeOK, HoldsInv, Labels, Actors, TicketInv, GetUser, Move, table,
              auth, passes
<1>8. ASSUME NEW r \in Requests, DropSession(r) PROVE TicketInv'
  BY <1>8 DEF TInv, TypeOK, HoldsInv, Labels, Actors, TicketInv, DropSession, Delete,
              Finish, Move, table, auth, passes
<1>9. ASSUME NEW r \in Requests, Issue(r) PROVE TicketInv'
  BY <1>9 DEF TInv, TypeOK, HoldsInv, Labels, Actors, TicketInv, Issue, Finish, Move,
              table, auth, passes
<1>10. ASSUME NEW r \in Requests, CheckAdmin(r) PROVE TicketInv'
  BY <1>10 DEF TInv, TypeOK, HoldsInv, Labels, Actors, TicketInv, CheckAdmin, Finish,
               Move, table, auth, passes
<1>11. ASSUME NEW r \in Requests, CountAdmins(r) PROVE TicketInv'
  BY <1>11 DEF TInv, TypeOK, HoldsInv, Labels, Actors, TicketInv, CountAdmins, Finish,
               Move, table, auth, passes
<1>12. ASSUME NEW r \in Requests, DeleteUser(r) PROVE TicketInv'
  BY <1>12 DEF TInv, TypeOK, HoldsInv, Labels, Actors, TicketInv, DeleteUser, Finish,
               Move, table, auth, passes
<1>13. ASSUME NEW r \in Requests, NEW g \in BOOLEAN, CheckGrant(r, g) PROVE TicketInv'
  BY <1>13 DEF TInv, TypeOK, HoldsInv, Labels, Actors, TicketInv, CheckGrant, Finish,
               Move, table, auth, passes
<1>14. ASSUME NEW r \in Requests, NEW g \in BOOLEAN, Upgrade(r, g) PROVE TicketInv'
  BY <1>14 DEF TInv, TypeOK, HoldsInv, Labels, Actors, TicketInv, Upgrade, Finish, Move,
               table, auth, passes
<1>15. ASSUME NEW r \in Requests, NEW u \in Names, NEW admin \in BOOLEAN, NEW past \in BOOLEAN,
             CreateUser(r, u, admin, past) PROVE TicketInv'
  BY <1>15 DEF TInv, TypeOK, HoldsInv, Labels, Actors, TicketInv, CreateUser, SetRow,
               Finish, Move, table, auth, passes
<1>16. ASSUME NEW r \in Requests, NEW u \in Names, NEW admin \in BOOLEAN, NEW past \in BOOLEAN,
             UpdateUser(r, u, admin, past) PROVE TicketInv'
  BY <1>16 DEF TInv, TypeOK, HoldsInv, Labels, Actors, TicketInv, UpdateUser, SetRow,
               Finish, Move, table, auth, passes
<1>17. ASSUME NEW t \in Tokens, Logout(t) PROVE TicketInv'
  BY <1>17 DEF TInv, TypeOK, HoldsInv, Labels, Actors, TicketInv, Logout, Delete, table,
               auth, passes
<1>18. ASSUME NEW t \in Tokens, SessionExpires(t) PROVE TicketInv'
  BY <1>18 DEF TInv, TypeOK, HoldsInv, Labels, Actors, TicketInv, SessionExpires, table,
               auth, passes
<1>19. ASSUME NEW k \in Tickets, TicketExpires(k) PROVE TicketInv'
  BY <1>19 DEF TInv, TypeOK, HoldsInv, Labels, Actors, TicketInv, TicketExpires, table,
               auth, passes
<1>20. ASSUME NEW u \in Names, AccountExpires(u) PROVE TicketInv'
  BY <1>20 DEF TInv, TypeOK, HoldsInv, Labels, Actors, TicketInv, AccountExpires, Valid,
               table, auth, passes
<1>21. ASSUME Sweep PROVE TicketInv'
  BY <1>21 DEF TInv, TypeOK, HoldsInv, Labels, Actors, TicketInv, Sweep, SweptTickets,
               table, auth, passes
<1>22. ASSUME Restart PROVE TicketInv'
  BY <1>22 DEF TInv, TypeOK, HoldsInv, Labels, Actors, TicketInv, Restart, SetRow, table,
               auth, passes
<1>23. ASSUME UNCHANGED vars PROVE TicketInv'
  BY <1>23 DEF TInv, TypeOK, HoldsInv, Labels, Actors, TicketInv, vars, table, auth, passes
<1> QED
  BY <1>1, <1>2, <1>3, <1>4, <1>5, <1>6, <1>7, <1>8, <1>9, <1>10, <1>11, <1>12, <1>13,
     <1>14, <1>15, <1>16, <1>17, <1>18, <1>19, <1>20, <1>21, <1>22, <1>23, NextCases

\* A ticket drawn by handleWSTicket admits one upgrade at most, however many
\* requests present it to authorizeWS.
THEOREM TicketOnce == Spec => []TicketAdmitsOnce
<1>1. Spec => [](TInv /\ TicketInv)
  BY InitTInv, NextTInv, InitTicketInv, NextTicketInv, PTL DEF Spec
<1>2. TicketInv => TicketAdmitsOnce
  BY DEF TicketInv, TicketAdmitsOnce
<1> QED
  BY <1>1, <1>2, PTL

\* Without an overlap an admin is left now, and after any DELETE that has passed
\* its check.
AdminInv ==
  ~overlap => /\ admins # {}
              /\ \A r \in Requests : at[r] = "delete" => \E a \in admins : a # arg[r]

\* The first admin exists after start-up.
LEMMA InitAdminInv == Init => AdminInv
  BY DEF Init, AdminInv

\* Two admins are counted only if there is one besides any given user.
LEMMA OtherAdmin ==
  ASSUME TypeOK, Cardinality(admins) > 1, NEW u
  PROVE  \E a \in admins : a # u
<1> SUFFICES ASSUME admins \subseteq {u} PROVE FALSE
  OBVIOUS
<1>1. IsFiniteSet({u}) /\ Cardinality({u}) = 1
  BY FS_Singleton
<1>2. Cardinality(admins) <= 1
  BY <1>1, FS_Subset
<1>3. Cardinality(admins) \in Nat
  BY <1>1, FS_Subset, FS_CardinalityType
<1> QED
  BY <1>2, <1>3

\* Every step keeps the admin invariant.
LEMMA NextAdminInv == TInv /\ AdminInv /\ [Next]_vars => AdminInv'
<1> SUFFICES ASSUME TInv, AdminInv, [Next]_vars PROVE AdminInv'
  OBVIOUS
<1> USE NoneAssumption, OtherAdmin
<1>1. ASSUME NEW r \in Requests, NEW u \in Names, Login(r, u) PROVE AdminInv'
  BY <1>1 DEF TInv, TypeOK, HoldsInv, AdminInv, Overlaps, Login, Move, table, auth, passes
<1>2. ASSUME NEW r \in Requests, NEW u \in Names, ReadUser(r, u) PROVE AdminInv'
  BY <1>2 DEF TInv, TypeOK, HoldsInv, AdminInv, Overlaps, ReadUser, Move, table, auth,
              passes
<1>3. ASSUME NEW r \in Requests, NEW t \in Tokens, ReadSession(r, t) PROVE AdminInv'
  BY <1>3 DEF TInv, TypeOK, HoldsInv, AdminInv, Overlaps, ReadSession, Move, table, auth,
              passes
<1>4. ASSUME NEW r \in Requests, NEW k \in Tickets, Consume(r, k) PROVE AdminInv'
  BY <1>4 DEF TInv, TypeOK, HoldsInv, AdminInv, Overlaps, Consume, Move, table, auth, passes
<1>5. ASSUME NEW r \in Requests, UseAdminToken(r) PROVE AdminInv'
  BY <1>5 DEF TInv, TypeOK, HoldsInv, AdminInv, Overlaps, UseAdminToken, Move, table,
              auth, passes
<1>6. ASSUME NEW r \in Requests, CreateSession(r) PROVE AdminInv'
  BY <1>6 DEF TInv, TypeOK, HoldsInv, AdminInv, Overlaps, CreateSession, Finish, Move,
              table, auth, passes
<1>7. ASSUME NEW r \in Requests, GetUser(r) PROVE AdminInv'
  BY <1>7 DEF TInv, TypeOK, HoldsInv, AdminInv, Overlaps, GetUser, Move, table, auth, passes
<1>8. ASSUME NEW r \in Requests, DropSession(r) PROVE AdminInv'
  BY <1>8 DEF TInv, TypeOK, HoldsInv, AdminInv, Overlaps, DropSession, Delete, Finish,
              Move, table, auth, passes
<1>9. ASSUME NEW r \in Requests, Issue(r) PROVE AdminInv'
  BY <1>9 DEF TInv, TypeOK, HoldsInv, AdminInv, Overlaps, Issue, Finish, Move, table,
              auth, passes
<1>10. ASSUME NEW r \in Requests, CheckAdmin(r) PROVE AdminInv'
  BY <1>10 DEF TInv, TypeOK, HoldsInv, AdminInv, Overlaps, CheckAdmin, Finish, Move,
               table, auth, passes
<1>11. ASSUME NEW r \in Requests, CountAdmins(r) PROVE AdminInv'
  BY <1>11 DEF TInv, TypeOK, HoldsInv, AdminInv, Overlaps, CountAdmins, Finish, Move,
               table, auth, passes
<1>12. ASSUME NEW r \in Requests, DeleteUser(r) PROVE AdminInv'
  BY <1>12 DEF TInv, TypeOK, HoldsInv, AdminInv, Overlaps, DeleteUser, Finish, Move,
               table, auth, passes
<1>13. ASSUME NEW r \in Requests, NEW g \in BOOLEAN, CheckGrant(r, g) PROVE AdminInv'
  BY <1>13 DEF TInv, TypeOK, HoldsInv, AdminInv, Overlaps, CheckGrant, Finish, Move,
               table, auth, passes
<1>14. ASSUME NEW r \in Requests, NEW g \in BOOLEAN, Upgrade(r, g) PROVE AdminInv'
  BY <1>14 DEF TInv, TypeOK, HoldsInv, AdminInv, Overlaps, Upgrade, Finish, Move, table,
               auth, passes
<1>15. ASSUME NEW r \in Requests, NEW u \in Names, NEW admin \in BOOLEAN, NEW past \in BOOLEAN,
             CreateUser(r, u, admin, past) PROVE AdminInv'
  BY <1>15 DEF TInv, TypeOK, HoldsInv, AdminInv, Overlaps, CreateUser, SetRow, Finish,
               Move, table, auth, passes
<1>16. ASSUME NEW r \in Requests, NEW u \in Names, NEW admin \in BOOLEAN, NEW past \in BOOLEAN,
             UpdateUser(r, u, admin, past) PROVE AdminInv'
  <2> SUFFICES ASSUME ~overlap' PROVE AdminInv'
    BY DEF AdminInv
  <2>1. /\ ~overlap /\ at' = [at EXCEPT ![r] = "idle"] /\ arg' = [arg EXCEPT ![r] = None]
        /\ ~admin => ~Overlaps(r, u)
    BY <1>16 DEF UpdateUser, Finish, Move
  <2>2. /\ admins' = IF admin THEN admins \cup {u} ELSE admins \ {u}
        /\ u \in admins /\ ~admin => Cardinality(admins) > 1
    BY <1>16 DEF UpdateUser, SetRow
  <2>3. \A x \in Requests : at'[x] = "delete" => x # r /\ at[x] = "delete" /\ arg'[x] = arg[x]
    BY <2>1 DEF TInv, TypeOK
  <2>4. CASE admin \/ u \notin admins
    <3>1. admins \subseteq admins'
      BY <2>2, <2>4
    <3> QED
      BY <2>1, <2>3, <3>1 DEF AdminInv
  <2>5. CASE ~admin /\ u \in admins
    <3>1. \E a \in admins : a # u
      BY <2>2, <2>5 DEF TInv
    <3>2. \A x \in Requests : at'[x] # "delete"
      BY <2>1, <2>3, <2>5 DEF Overlaps
    <3> QED
      BY <2>2, <2>5, <3>1, <3>2 DEF AdminInv
  <2> QED
    BY <2>4, <2>5
<1>17. ASSUME NEW t \in Tokens, Logout(t) PROVE AdminInv'
  BY <1>17 DEF TInv, TypeOK, HoldsInv, AdminInv, Overlaps, Logout, Delete, table, auth,
               passes
<1>18. ASSUME NEW t \in Tokens, SessionExpires(t) PROVE AdminInv'
  BY <1>18 DEF TInv, TypeOK, HoldsInv, AdminInv, Overlaps, SessionExpires, table, auth,
               passes
<1>19. ASSUME NEW k \in Tickets, TicketExpires(k) PROVE AdminInv'
  BY <1>19 DEF TInv, TypeOK, HoldsInv, AdminInv, Overlaps, TicketExpires, table, auth,
               passes
<1>20. ASSUME NEW u \in Names, AccountExpires(u) PROVE AdminInv'
  BY <1>20 DEF TInv, TypeOK, HoldsInv, AdminInv, Overlaps, AccountExpires, Valid, table,
               auth, passes
<1>21. ASSUME Sweep PROVE AdminInv'
  BY <1>21 DEF TInv, TypeOK, HoldsInv, AdminInv, Overlaps, Sweep, SweptTickets, table,
               auth, passes
<1>22. ASSUME Restart PROVE AdminInv'
  BY <1>22 DEF TInv, TypeOK, HoldsInv, AdminInv, Overlaps, Restart, SetRow, table, auth,
               passes
<1>23. ASSUME UNCHANGED vars PROVE AdminInv'
  BY <1>23 DEF TInv, TypeOK, HoldsInv, AdminInv, Overlaps, vars, table, auth, passes
<1> QED
  BY <1>1, <1>2, <1>3, <1>4, <1>5, <1>6, <1>7, <1>8, <1>9, <1>10, <1>11, <1>12, <1>13,
     <1>14, <1>15, <1>16, <1>17, <1>18, <1>19, <1>20, <1>21, <1>22, <1>23, NextCases

\* CreateUser, UpdateUser and a DELETE that overlaps no other removal leave an
\* admin.
THEOREM AdminKept == Spec => []AdminLostOnlyByOverlap
<1>1. Spec => [](TInv /\ AdminInv)
  BY InitTInv, NextTInv, InitAdminInv, NextAdminInv, PTL DEF Spec
<1>2. AdminInv => AdminLostOnlyByOverlap
  BY DEF AdminInv, AdminLostOnlyByOverlap
<1> QED
  BY <1>1, <1>2, PTL

\* No step brings back an ended session.
LEMMA NextEnded ==
  ASSUME TInv, [Next]_vars, NEW t \in drawn \cap Tokens, session[t] = None
  PROVE  session'[t] = None
<1> USE NoneAssumption
<1>1. ASSUME NEW r \in Requests, NEW u \in Names, Login(r, u) PROVE session'[t] = None
  BY <1>1 DEF TInv, TypeOK, HoldsInv, Login, Move, table, auth, passes
<1>2. ASSUME NEW r \in Requests, NEW u \in Names, ReadUser(r, u) PROVE session'[t] = None
  BY <1>2 DEF TInv, TypeOK, HoldsInv, ReadUser, Move, table, auth, passes
<1>3. ASSUME NEW r \in Requests, NEW s \in Tokens, ReadSession(r, s) PROVE session'[t] = None
  BY <1>3 DEF TInv, TypeOK, HoldsInv, ReadSession, Move, table, auth, passes
<1>4. ASSUME NEW r \in Requests, NEW k \in Tickets, Consume(r, k) PROVE session'[t] = None
  BY <1>4 DEF TInv, TypeOK, HoldsInv, Consume, Move, table, auth, passes
<1>5. ASSUME NEW r \in Requests, UseAdminToken(r) PROVE session'[t] = None
  BY <1>5 DEF TInv, TypeOK, HoldsInv, UseAdminToken, Move, table, auth, passes
<1>6. ASSUME NEW r \in Requests, CreateSession(r) PROVE session'[t] = None
  BY <1>6 DEF TInv, TypeOK, HoldsInv, CreateSession, Finish, Move, table, auth, passes
<1>7. ASSUME NEW r \in Requests, GetUser(r) PROVE session'[t] = None
  BY <1>7 DEF TInv, TypeOK, HoldsInv, GetUser, Move, table, auth, passes
<1>8. ASSUME NEW r \in Requests, DropSession(r) PROVE session'[t] = None
  BY <1>8 DEF TInv, TypeOK, HoldsInv, DropSession, Delete, Finish, Move, table, auth, passes
<1>9. ASSUME NEW r \in Requests, Issue(r) PROVE session'[t] = None
  BY <1>9 DEF TInv, TypeOK, HoldsInv, Issue, Finish, Move, table, auth, passes
<1>10. ASSUME NEW r \in Requests, CheckAdmin(r) PROVE session'[t] = None
  BY <1>10 DEF TInv, TypeOK, HoldsInv, CheckAdmin, Finish, Move, table, auth, passes
<1>11. ASSUME NEW r \in Requests, CountAdmins(r) PROVE session'[t] = None
  BY <1>11 DEF TInv, TypeOK, HoldsInv, CountAdmins, Finish, Move, table, auth, passes
<1>12. ASSUME NEW r \in Requests, DeleteUser(r) PROVE session'[t] = None
  BY <1>12 DEF TInv, TypeOK, HoldsInv, DeleteUser, Finish, Move, table, auth, passes
<1>13. ASSUME NEW r \in Requests, NEW g \in BOOLEAN, CheckGrant(r, g) PROVE session'[t] = None
  BY <1>13 DEF TInv, TypeOK, HoldsInv, CheckGrant, Finish, Move, table, auth, passes
<1>14. ASSUME NEW r \in Requests, NEW g \in BOOLEAN, Upgrade(r, g) PROVE session'[t] = None
  BY <1>14 DEF TInv, TypeOK, HoldsInv, Upgrade, Finish, Move, table, auth, passes
<1>15. ASSUME NEW r \in Requests, NEW u \in Names, NEW admin \in BOOLEAN, NEW past \in BOOLEAN,
             CreateUser(r, u, admin, past) PROVE session'[t] = None
  BY <1>15 DEF TInv, TypeOK, HoldsInv, CreateUser, SetRow, Finish, Move, table, auth, passes
<1>16. ASSUME NEW r \in Requests, NEW u \in Names, NEW admin \in BOOLEAN, NEW past \in BOOLEAN,
             UpdateUser(r, u, admin, past) PROVE session'[t] = None
  BY <1>16 DEF TInv, TypeOK, HoldsInv, UpdateUser, SetRow, Finish, Move, table, auth, passes
<1>17. ASSUME NEW s \in Tokens, Logout(s) PROVE session'[t] = None
  BY <1>17 DEF TInv, TypeOK, HoldsInv, Logout, Delete, table, auth, passes
<1>18. ASSUME NEW s \in Tokens, SessionExpires(s) PROVE session'[t] = None
  BY <1>18 DEF TInv, TypeOK, HoldsInv, SessionExpires, table, auth, passes
<1>19. ASSUME NEW k \in Tickets, TicketExpires(k) PROVE session'[t] = None
  BY <1>19 DEF TInv, TypeOK, HoldsInv, TicketExpires, table, auth, passes
<1>20. ASSUME NEW u \in Names, AccountExpires(u) PROVE session'[t] = None
  BY <1>20 DEF TInv, TypeOK, HoldsInv, AccountExpires, Valid, table, auth, passes
<1>21. ASSUME Sweep PROVE session'[t] = None
  BY <1>21 DEF TInv, TypeOK, HoldsInv, Sweep, SweptTickets, table, auth, passes
<1>22. ASSUME Restart PROVE session'[t] = None
  BY <1>22 DEF TInv, TypeOK, HoldsInv, Restart, SetRow, table, auth, passes
<1>23. ASSUME UNCHANGED vars PROVE session'[t] = None
  BY <1>23 DEF TInv, TypeOK, HoldsInv, vars, table, auth, passes
<1> QED
  BY <1>1, <1>2, <1>3, <1>4, <1>5, <1>6, <1>7, <1>8, <1>9, <1>10, <1>11, <1>12, <1>13,
     <1>14, <1>15, <1>16, <1>17, <1>18, <1>19, <1>20, <1>21, <1>22, <1>23, NextCases

\* A token is in s.sessions for one stretch of time: no request restores an entry that
\* logout, the janitor or validSession deleted.
THEOREM EndedForever == Spec => EndedSessionStaysEnded
<1>1. TInv /\ [Next]_vars => [\A t \in drawn \cap Tokens :
                                session[t] = None => session'[t] = None]_vars
  BY NextEnded
<1> QED
  BY <1>1, InitTInv, NextTInv, PTL DEF Spec, EndedSessionStaysEnded

-----------------------------------------------------------------------------
(* The login throttle (LoginGuard): the bound on answered wrong passwords, *)
(* for any limit and any finite number of concurrent requests.  A lockout  *)
(* starts with at most MaxAttempts failures, and from then on every        *)
(* failure uses up one request that was already past allowLoginAttempt.    *)

\* The requests that may still record a failure.
Passed == {r \in Logins : login[r] \in {"validate", "record"}}

\* Before a lockout the failures are below the limit; during one they are
\* bounded together with the requests already let in.
CountInv ==
  /\ ~locked => failed = 0 \/ (failed <= count /\ count < MaxAttempts)
  /\ locked => /\ count >= MaxAttempts
               /\ failed + Cardinality(Passed) <= MaxAttempts - 1 + Cardinality(Logins)

GuardInv == GuardTypeOK /\ CountInv

\* Initially nothing is recorded.
LEMMA InitGuardInv == GuardInit => GuardInv
<1> SUFFICES ASSUME GuardInit PROVE GuardInv
  OBVIOUS
<1>1. GuardTypeOK
  <2>1. locked \in BOOLEAN
    BY DEF GuardInit
  <2> QED
    BY <2>1, MaxAttemptsAssumption DEF GuardInit, GuardTypeOK
<1>2. locked = FALSE /\ failed = 0
  BY DEF GuardInit
<1> QED
  BY <1>1, <1>2 DEF GuardInv, CountInv

\* Passed is finite, and bounded by Requests.
LEMMA PassedFinite ==
  /\ Cardinality(Logins) \in Nat
  /\ IsFiniteSet(Passed) /\ Cardinality(Passed) \in Nat
  /\ Cardinality(Passed) <= Cardinality(Logins)
<1>1. Passed \subseteq Logins
  BY DEF Passed
<1> QED
  BY <1>1, LoginsAssumption, FS_Subset, FS_CardinalityType

\* A request that records its failure leaves Passed.
LEMMA PassedShrinks ==
  ASSUME GuardTypeOK, NEW r \in Logins, RecordFailure(r)
  PROVE  /\ Cardinality(Passed') = Cardinality(Passed) - 1
         /\ Cardinality(Passed') <= Cardinality(Logins) - 1
<1>1. r \in Passed /\ Passed' = Passed \ {r}
  BY DEF GuardTypeOK, Passed, RecordFailure, RecordFailureFrom, Goto
<1>2. Cardinality(Passed \ {r}) = Cardinality(Passed) - 1
  BY <1>1, PassedFinite, FS_RemoveElement
<1> QED
  BY <1>1, <1>2, PassedFinite

\* Every step preserves the invariant.
LEMMA NextGuardInv == GuardInv /\ [GuardNext]_guardVars => GuardInv'
<1> SUFFICES ASSUME GuardInv, [GuardNext]_guardVars PROVE GuardInv'
  OBVIOUS
<1> USE MaxAttemptsAssumption
<1>1. ASSUME NEW r \in Logins, Allow(r) PROVE GuardInv'
  BY <1>1 DEF GuardInv, GuardTypeOK, CountInv, Allow, Goto
<1>2. ASSUME NEW r \in Logins, NEW ok \in BOOLEAN, Validate(r, ok) PROVE GuardInv'
  <2>1. GuardTypeOK'
    BY <1>2 DEF GuardInv, GuardTypeOK, Validate, Goto
  <2>2. Passed' \subseteq Passed /\ UNCHANGED <<count, locked, failed>>
    BY <1>2 DEF GuardInv, GuardTypeOK, Passed, Validate, Goto
  <2>3. Cardinality(Passed') \in Nat /\ Cardinality(Passed') <= Cardinality(Passed)
    BY <2>2, PassedFinite, FS_Subset, FS_CardinalityType
  <2>4. CountInv'
    BY <2>2, <2>3, PassedFinite DEF GuardInv, GuardTypeOK, CountInv
  <2> QED
    BY <2>1, <2>4 DEF GuardInv
<1>3. ASSUME NEW r \in Logins, RecordFailure(r) PROVE GuardInv'
  <2>1. GuardTypeOK'
    BY <1>3 DEF GuardInv, GuardTypeOK, RecordFailure, RecordFailureFrom, Goto
  <2>2. /\ Cardinality(Passed') = Cardinality(Passed) - 1
        /\ Cardinality(Passed') <= Cardinality(Logins) - 1
    BY <1>3, PassedShrinks DEF GuardInv
  <2>3. /\ failed' = failed + 1
        /\ count' = IF count > MaxAttempts THEN count ELSE count + 1
        /\ locked' <=> locked \/ count + 1 >= MaxAttempts
    BY <1>3 DEF RecordFailure, RecordFailureFrom
  <2>4. ASSUME locked PROVE CountInv'
    BY <2>2, <2>3, <2>4, PassedFinite DEF GuardInv, GuardTypeOK, CountInv
  <2>5. ASSUME ~locked /\ count + 1 >= MaxAttempts PROVE CountInv'
    BY <2>2, <2>3, <2>5, PassedFinite DEF GuardInv, GuardTypeOK, CountInv
  <2>6. ASSUME ~locked /\ ~(count + 1 >= MaxAttempts) PROVE CountInv'
    BY <2>3, <2>6 DEF GuardInv, GuardTypeOK, CountInv
  <2> QED
    BY <2>1, <2>4, <2>5, <2>6 DEF GuardInv
<1>4. ASSUME NEW r \in Logins, Clear(r) PROVE GuardInv'
  <2>1. GuardTypeOK'
    <3>1. locked' \in BOOLEAN
      BY <1>4 DEF Clear
    <3> QED
      BY <1>4, <3>1 DEF GuardInv, GuardTypeOK, Clear, Goto
  <2>2. ~locked' /\ failed' = 0
    BY <1>4 DEF Clear
  <2> QED
    BY <2>1, <2>2 DEF GuardInv, CountInv
<1>5. ASSUME LockoutPasses PROVE GuardInv'
  BY <1>5 DEF GuardInv, GuardTypeOK, CountInv, LockoutPasses
<1>6. ASSUME SweepLogins PROVE GuardInv'
  BY <1>6 DEF GuardInv, GuardTypeOK, CountInv, SweepLogins, SweepFrom
<1>7. ASSUME UNCHANGED guardVars PROVE GuardInv'
  BY <1>7 DEF GuardInv, GuardTypeOK, CountInv, Passed, guardVars
<1> QED
  BY <1>1, <1>2, <1>3, <1>4, <1>5, <1>6, <1>7 DEF GuardNext, HandleLogin

\* The invariant holds of every behaviour.
THEOREM GuardInvariance == GuardSpec => []GuardInv
  BY InitGuardInv, NextGuardInv, PTL DEF GuardSpec

\* The throttle's state keeps its types.
THEOREM GuardTypeCorrect == GuardSpec => []GuardTypeOK
  BY GuardInvariance, PTL DEF GuardInv

\* handleLogin answers at most MaxAttempts wrong passwords before a lockout,
\* plus one for each other request it had already let in.
THEOREM ThrottleBound == GuardSpec => []FailuresBounded
<1>1. GuardInv => FailuresBounded
  BY PassedFinite, MaxAttemptsAssumption
  DEF GuardInv, GuardTypeOK, CountInv, FailuresBounded
<1> QED
  BY <1>1, GuardInvariance, PTL
=============================================================================
