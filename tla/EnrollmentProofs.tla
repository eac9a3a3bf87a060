-------------------------- MODULE EnrollmentProofs --------------------------
(***************************************************************************)
(* What enrollment, the device keys and the forwarding policy promise for  *)
(* any number of requests, invites, devices and grants; and, for any       *)
(* number of connections of an enrolled device, what Presence promises:    *)
(* the handler behind every entry, that no unwinding handler evicts a      *)
(* healthy one, and that no handler which was waited for writes to a       *)
(* closed database.                                                        *)
(***************************************************************************)
EXTENDS Enrollment, Presence, TLAPS

\* A case analysis of Next, cited wherever every action is considered.
LEMMA NextCases ==
  ASSUME Next
  PROVE  \/ \E c \in Codes : CreateInvite(c) \/ InviteExpires(c) \/ DeleteInvite(c)
         \/ \E r \in Requests :
              \/ \E c \in Codes : ValidateInvite(r, c)
              \/ \E d \in Ids : EnrollKey(r, d)
              \/ EnrollFails(r) \/ UseInvite(r)
         \/ \E d \in Ids :
              \/ CreateDeviceKey(d) \/ RotateDeviceKey(d) \/ RevokeDeviceKey(d)
              \/ KeyExpires(d) \/ Hello(d) \/ Upsert(d) \/ Disconnect(d) \/ DeleteDevice(d)
              \/ \E p \in Policies : SetForwardPolicy(d, p)
         \/ \E s \in Ids, g \in Scopes : AddForwardGrant(s, g) \/ DeleteForwardGrant(s, g)
         \/ Restart
BY DEF Next, Invites, Enroll, Keys, Inventory, Grants

-----------------------------------------------------------------------------
(* Types.                                                                  *)

\* What an enrollment holds at its labels.
HoldsInv ==
  \A r \in Requests : /\ at[r] \in {"create", "use"} => code[r] \in Codes
                      /\ at[r] = "use" => id[r] \in Ids

TInv == TypeOK /\ HoldsInv

\* The types hold initially.
LEMMA InitTInv == Init => TInv
BY MaxRotationsAssumption DEF Init, TInv, TypeOK, HoldsInv, Versions, NoKey, Policies

\* Every step keeps the types and what the enrollments hold.
LEMMA NextTInv == TInv /\ [Next]_vars => TInv'
<1> SUFFICES ASSUME TInv, [Next]_vars PROVE TInv'
  OBVIOUS
<1> USE MaxRotationsAssumption DEF Versions, NoKey, Policies
<1>1. ASSUME NEW c \in Codes, CreateInvite(c) PROVE TInv'
  BY <1>1 DEF TInv, TypeOK, HoldsInv, CreateInvite, enrolling
<1>2. ASSUME NEW c \in Codes, InviteExpires(c) PROVE TInv'
  BY <1>2 DEF TInv, TypeOK, HoldsInv, InviteExpires, enrolling
<1>3. ASSUME NEW c \in Codes, DeleteInvite(c) PROVE TInv'
  BY <1>3 DEF TInv, TypeOK, HoldsInv, DeleteInvite, Usable, enrolling
<1>4. ASSUME NEW r \in Requests, NEW c \in Codes, ValidateInvite(r, c) PROVE TInv'
  BY <1>4 DEF TInv, TypeOK, HoldsInv, ValidateInvite, tables, enrolling
<1>5. ASSUME NEW r \in Requests, NEW d \in Ids, EnrollKey(r, d) PROVE TInv'
  BY <1>5 DEF TInv, TypeOK, HoldsInv, EnrollKey, NewKey, enrolling
<1>6. ASSUME NEW r \in Requests, EnrollFails(r) PROVE TInv'
  BY <1>6 DEF TInv, TypeOK, HoldsInv, EnrollFails, EndEnroll, tables, enrolling
<1>7. ASSUME NEW r \in Requests, UseInvite(r) PROVE TInv'
  <2>0. at[r] = "use"
    BY <1>7 DEF UseInvite
  <2>1. code[r] \in Codes /\ id[r] \in Ids
    BY <2>0 DEF TInv, HoldsInv
  <2>2. CASE Usable(code[r])
    BY <1>7, <2>1, <2>2 DEF TInv, TypeOK, HoldsInv, UseInvite, EndEnroll, enrolling
  <2>3. CASE ~Usable(code[r])
    BY <1>7, <2>1, <2>3 DEF TInv, TypeOK, HoldsInv, UseInvite, EndEnroll, enrolling
  <2> QED
    BY <2>2, <2>3
<1>8. ASSUME NEW d \in Ids, CreateDeviceKey(d) PROVE TInv'
  BY <1>8 DEF TInv, TypeOK, HoldsInv, CreateDeviceKey, NewKey, enrolling
<1>9. ASSUME NEW d \in Ids, RotateDeviceKey(d) PROVE TInv'
  BY <1>9 DEF TInv, TypeOK, HoldsInv, RotateDeviceKey, enrolling
<1>10. ASSUME NEW d \in Ids, RevokeDeviceKey(d) PROVE TInv'
  BY <1>10 DEF TInv, TypeOK, HoldsInv, RevokeDeviceKey, enrolling
<1>11. ASSUME NEW d \in Ids, KeyExpires(d) PROVE TInv'
  BY <1>11 DEF TInv, TypeOK, HoldsInv, KeyExpires, enrolling
<1>12. ASSUME NEW d \in Ids, Hello(d) PROVE TInv'
  BY <1>12 DEF TInv, TypeOK, HoldsInv, Hello, tables, enrolling
<1>13. ASSUME NEW d \in Ids, Upsert(d) PROVE TInv'
  BY <1>13 DEF TInv, TypeOK, HoldsInv, Upsert, enrolling
<1>14. ASSUME NEW d \in Ids, Disconnect(d) PROVE TInv'
  BY <1>14 DEF TInv, TypeOK, HoldsInv, Disconnect, tables, enrolling
<1>15. ASSUME NEW d \in Ids, DeleteDevice(d) PROVE TInv'
  BY <1>15 DEF TInv, TypeOK, HoldsInv, DeleteDevice, enrolling
<1>16. ASSUME NEW d \in Ids, NEW p \in Policies, SetForwardPolicy(d, p) PROVE TInv'
  BY <1>16 DEF TInv, TypeOK, HoldsInv, SetForwardPolicy, enrolling
<1>17. ASSUME NEW s \in Ids, NEW g \in Scopes, AddForwardGrant(s, g) PROVE TInv'
  BY <1>17 DEF TInv, TypeOK, HoldsInv, AddForwardGrant, enrolling
<1>18. ASSUME NEW s \in Ids, NEW g \in Scopes, DeleteForwardGrant(s, g) PROVE TInv'
  BY <1>18 DEF TInv, TypeOK, HoldsInv, DeleteForwardGrant, enrolling
<1>19. ASSUME Restart PROVE TInv'
  BY <1>19 DEF TInv, TypeOK, HoldsInv, Restart, tables, enrolling
<1>20. ASSUME UNCHANGED vars PROVE TInv'
  BY <1>20 DEF TInv, TypeOK, HoldsInv, vars, tables, enrolling
<1> QED
  BY <1>1, <1>2, <1>3, <1>4, <1>5, <1>6, <1>7, <1>8, <1>9, <1>10, <1>11, <1>12, <1>13,
     <1>14, <1>15, <1>16, <1>17, <1>18, <1>19, <1>20, NextCases

\* The tables and the threads keep their types (all of Enrollment).
THEOREM TypeCorrect == Spec => []TypeOK
<1>1. TInv => TypeOK
  BY DEF TInv
<1> QED
  BY <1>1, InitTInv, NextTInv, PTL DEF Spec

-----------------------------------------------------------------------------
(* One key per invite.                                                     *)

\* An invite that has been redeemed has left the table for good.
InviteInv ==
  \A c \in Codes : redeemed[c] = 0 \/ (redeemed[c] = 1 /\ invite[c] = "gone")

\* No invite is redeemed initially.
LEMMA InitInviteInv == Init => InviteInv
BY DEF Init, InviteInv

\* A step redeems an invite only while its row exists, and removes the row.
LEMMA NextInviteInv == TInv /\ InviteInv /\ [Next]_vars => InviteInv'
<1> SUFFICES ASSUME TInv, InviteInv, [Next]_vars PROVE InviteInv'
  OBVIOUS
<1>1. ASSUME NEW c \in Codes, CreateInvite(c) PROVE InviteInv'
  BY <1>1 DEF TInv, TypeOK, HoldsInv, InviteInv, CreateInvite, enrolling
<1>2. ASSUME NEW c \in Codes, InviteExpires(c) PROVE InviteInv'
  BY <1>2 DEF TInv, TypeOK, HoldsInv, InviteInv, InviteExpires, enrolling
<1>3. ASSUME NEW c \in Codes, DeleteInvite(c) PROVE InviteInv'
  BY <1>3 DEF TInv, TypeOK, HoldsInv, InviteInv, DeleteInvite, Usable, enrolling
<1>4. ASSUME NEW r \in Requests, NEW c \in Codes, ValidateInvite(r, c) PROVE InviteInv'
  BY <1>4 DEF TInv, TypeOK, HoldsInv, InviteInv, ValidateInvite, tables, enrolling
<1>5. ASSUME NEW r \in Requests, NEW d \in Ids, EnrollKey(r, d) PROVE InviteInv'
  BY <1>5 DEF TInv, TypeOK, HoldsInv, InviteInv, EnrollKey, NewKey, enrolling
<1>6. ASSUME NEW r \in Requests, EnrollFails(r) PROVE InviteInv'
  BY <1>6 DEF TInv, TypeOK, HoldsInv, InviteInv, EnrollFails, EndEnroll, tables, enrolling
<1>7. ASSUME NEW r \in Requests, UseInvite(r) PROVE InviteInv'
  BY <1>7 DEF TInv, TypeOK, HoldsInv, InviteInv, UseInvite, EndEnroll, Usable, enrolling
<1>8. ASSUME NEW d \in Ids, CreateDeviceKey(d) PROVE InviteInv'
  BY <1>8 DEF TInv, TypeOK, HoldsInv, InviteInv, CreateDeviceKey, NewKey, enrolling
<1>9. ASSUME NEW d \in Ids, RotateDeviceKey(d) PROVE InviteInv'
  BY <1>9 DEF TInv, TypeOK, HoldsInv, InviteInv, RotateDeviceKey, enrolling
<1>10. ASSUME NEW d \in Ids, RevokeDeviceKey(d) PROVE InviteInv'
  BY <1>10 DEF TInv, TypeOK, HoldsInv, InviteInv, RevokeDeviceKey, enrolling
<1>11. ASSUME NEW d \in Ids, KeyExpires(d) PROVE InviteInv'
  BY <1>11 DEF TInv, TypeOK, HoldsInv, InviteInv, KeyExpires, enrolling
<1>12. ASSUME NEW d \in Ids, Hello(d) PROVE InviteInv'
  BY <1>12 DEF TInv, TypeOK, HoldsInv, InviteInv, Hello, tables, enrolling
<1>13. ASSUME NEW d \in Ids, Upsert(d) PROVE InviteInv'
  BY <1>13 DEF TInv, TypeOK, HoldsInv, InviteInv, Upsert, enrolling
<1>14. ASSUME NEW d \in Ids, Disconnect(d) PROVE InviteInv'
  BY <1>14 DEF TInv, TypeOK, HoldsInv, InviteInv, Disconnect, tables, enrolling
<1>15. ASSUME NEW d \in Ids, DeleteDevice(d) PROVE InviteInv'
  BY <1>15 DEF TInv, TypeOK, HoldsInv, InviteInv, DeleteDevice, enrolling
<1>16. ASSUME NEW d \in Ids, NEW p \in Policies, SetForwardPolicy(d, p) PROVE InviteInv'
  BY <1>16 DEF TInv, TypeOK, HoldsInv, InviteInv, SetForwardPolicy, enrolling
<1>17. ASSUME NEW s \in Ids, NEW g \in Scopes, AddForwardGrant(s, g) PROVE InviteInv'
  BY <1>17 DEF TInv, TypeOK, HoldsInv, InviteInv, AddForwardGrant, enrolling
<1>18. ASSUME NEW s \in Ids, NEW g \in Scopes, DeleteForwardGrant(s, g) PROVE InviteInv'
  BY <1>18 DEF TInv, TypeOK, HoldsInv, InviteInv, DeleteForwardGrant, enrolling
<1>19. ASSUME Restart PROVE InviteInv'
  BY <1>19 DEF TInv, TypeOK, HoldsInv, InviteInv, Restart, tables, enrolling
<1>20. ASSUME UNCHANGED vars PROVE InviteInv'
  BY <1>20 DEF TInv, TypeOK, HoldsInv, InviteInv, vars, tables, enrolling
<1> QED
  BY <1>1, <1>2, <1>3, <1>4, <1>5, <1>6, <1>7, <1>8, <1>9, <1>10, <1>11, <1>12, <1>13,
     <1>14, <1>15, <1>16, <1>17, <1>18, <1>19, <1>20, NextCases

\* At most one enrollment per invite is answered with a key (handleEnroll and
\* UseInvite), whatever overlaps, expires, is withdrawn or restarts.
THEOREM InviteOnce == Spec => []OneKeyPerInvite
<1>1. TInv /\ InviteInv => OneKeyPerInvite
  BY DEF TInv, TypeOK, InviteInv, OneKeyPerInvite
<1> QED
  BY <1>1, InitTInv, NextTInv, InitInviteInv, NextInviteInv, PTL DEF Spec

-----------------------------------------------------------------------------
(* The forwarding policy.                                                  *)

\* The row of a device under an operator's restriction says so.
PolicyInv == \A d \in restrained : device[d] = "restricted"

\* Nothing is restricted initially.
LEMMA InitPolicyInv == Init => PolicyInv
BY DEF Init, PolicyInv

\* Only SetForwardPolicy and the deletion of the device end a restriction.
LEMMA NextPolicyInv == TInv /\ PolicyInv /\ [Next]_vars => PolicyInv'
<1> SUFFICES ASSUME TInv, PolicyInv, [Next]_vars PROVE PolicyInv'
  OBVIOUS
<1> USE NoneAssumption DEF Policies
<1>1. ASSUME NEW c \in Codes, CreateInvite(c) PROVE PolicyInv'
  BY <1>1 DEF TInv, TypeOK, PolicyInv, CreateInvite, enrolling
<1>2. ASSUME NEW c \in Codes, InviteExpires(c) PROVE PolicyInv'
  BY <1>2 DEF TInv, TypeOK, PolicyInv, InviteExpires, enrolling
<1>3. ASSUME NEW c \in Codes, DeleteInvite(c) PROVE PolicyInv'
  BY <1>3 DEF TInv, TypeOK, PolicyInv, DeleteInvite, Usable, enrolling
<1>4. ASSUME NEW r \in Requests, NEW c \in Codes, ValidateInvite(r, c) PROVE PolicyInv'
  BY <1>4 DEF TInv, TypeOK, PolicyInv, ValidateInvite, tables, enrolling
<1>5. ASSUME NEW r \in Requests, NEW d \in Ids, EnrollKey(r, d) PROVE PolicyInv'
  BY <1>5 DEF TInv, TypeOK, PolicyInv, EnrollKey, NewKey, enrolling
<1>6. ASSUME NEW r \in Requests, EnrollFails(r) PROVE PolicyInv'
  BY <1>6 DEF TInv, TypeOK, PolicyInv, EnrollFails, EndEnroll, tables, enrolling
<1>7. ASSUME NEW r \in Requests, UseInvite(r) PROVE PolicyInv'
  BY <1>7 DEF TInv, TypeOK, PolicyInv, UseInvite, EndEnroll, Usable, enrolling
<1>8. ASSUME NEW d \in Ids, CreateDeviceKey(d) PROVE PolicyInv'
  BY <1>8 DEF TInv, TypeOK, PolicyInv, CreateDeviceKey, NewKey, enrolling
<1>9. ASSUME NEW d \in Ids, RotateDeviceKey(d) PROVE PolicyInv'
  BY <1>9 DEF TInv, TypeOK, PolicyInv, RotateDeviceKey, enrolling
<1>10. ASSUME NEW d \in Ids, RevokeDeviceKey(d) PROVE PolicyInv'
  BY <1>10 DEF TInv, TypeOK, PolicyInv, RevokeDeviceKey, enrolling
<1>11. ASSUME NEW d \in Ids, KeyExpires(d) PROVE PolicyInv'
  BY <1>11 DEF TInv, TypeOK, PolicyInv, KeyExpires, enrolling
<1>12. ASSUME NEW d \in Ids, Hello(d) PROVE PolicyInv'
  BY <1>12 DEF TInv, TypeOK, PolicyInv, Hello, tables, enrolling
<1>13. ASSUME NEW d \in Ids, Upsert(d) PROVE PolicyInv'
  BY <1>13 DEF TInv, TypeOK, PolicyInv, Upsert, enrolling
<1>14. ASSUME NEW d \in Ids, Disconnect(d) PROVE PolicyInv'
  BY <1>14 DEF TInv, TypeOK, PolicyInv, Disconnect, tables, enrolling
<1>15. ASSUME NEW d \in Ids, DeleteDevice(d) PROVE PolicyInv'
  BY <1>15 DEF TInv, TypeOK, PolicyInv, DeleteDevice, enrolling
<1>16. ASSUME NEW d \in Ids, NEW p \in Policies, SetForwardPolicy(d, p) PROVE PolicyInv'
  BY <1>16 DEF TInv, TypeOK, PolicyInv, SetForwardPolicy, enrolling
<1>17. ASSUME NEW s \in Ids, NEW g \in Scopes, AddForwardGrant(s, g) PROVE PolicyInv'
  BY <1>17 DEF TInv, TypeOK, PolicyInv, AddForwardGrant, enrolling
<1>18. ASSUME NEW s \in Ids, NEW g \in Scopes, DeleteForwardGrant(s, g) PROVE PolicyInv'
  BY <1>18 DEF TInv, TypeOK, PolicyInv, DeleteForwardGrant, enrolling
<1>19. ASSUME Restart PROVE PolicyInv'
  BY <1>19 DEF TInv, TypeOK, PolicyInv, Restart, tables, enrolling
<1>20. ASSUME UNCHANGED vars PROVE PolicyInv'
  BY <1>20 DEF TInv, TypeOK, PolicyInv, vars, tables, enrolling
<1> QED
  BY <1>1, <1>2, <1>3, <1>4, <1>5, <1>6, <1>7, <1>8, <1>9, <1>10, <1>11, <1>12, <1>13,
     <1>14, <1>15, <1>16, <1>17, <1>18, <1>19, <1>20, NextCases

\* A restricted device is admitted only to what is granted (ForwardAllowed), and
\* no hello of the device resets its policy (Upsert).
THEOREM RestrictionKept == Spec => []RestrictionHolds
<1>1. PolicyInv => RestrictionHolds
  BY DEF PolicyInv, RestrictionHolds, ForwardAllowed
<1> QED
  BY <1>1, InitTInv, NextTInv, InitPolicyInv, NextPolicyInv, PTL DEF Spec

-----------------------------------------------------------------------------
(* Tokens.                                                                 *)

KeyStep == \A d \in drawn : /\ key[d] = NoKey => key'[d] = NoKey
                            /\ key'[d] # NoKey => key'[d] >= key[d]

\* No step brings a retired token back.
LEMMA NextKeyStep == TInv /\ [Next]_vars => KeyStep
<1> SUFFICES ASSUME TInv, [Next]_vars PROVE KeyStep
  OBVIOUS
<1> USE MaxRotationsAssumption DEF Versions, NoKey
<1>1. ASSUME NEW c \in Codes, CreateInvite(c) PROVE KeyStep
  BY <1>1 DEF TInv, TypeOK, KeyStep, CreateInvite, enrolling
<1>2. ASSUME NEW c \in Codes, InviteExpires(c) PROVE KeyStep
  BY <1>2 DEF TInv, TypeOK, KeyStep, InviteExpires, enrolling
<1>3. ASSUME NEW c \in Codes, DeleteInvite(c) PROVE KeyStep
  BY <1>3 DEF TInv, TypeOK, KeyStep, DeleteInvite, Usable, enrolling
<1>4. ASSUME NEW r \in Requests, NEW c \in Codes, ValidateInvite(r, c) PROVE KeyStep
  BY <1>4 DEF TInv, TypeOK, KeyStep, ValidateInvite, tables, enrolling
<1>5. ASSUME NEW r \in Requests, NEW d \in Ids, EnrollKey(r, d) PROVE KeyStep
  BY <1>5 DEF TInv, TypeOK, KeyStep, EnrollKey, NewKey, enrolling
<1>6. ASSUME NEW r \in Requests, EnrollFails(r) PROVE KeyStep
  BY <1>6 DEF TInv, TypeOK, KeyStep, EnrollFails, EndEnroll, tables, enrolling
<1>7. ASSUME NEW r \in Requests, UseInvite(r) PROVE KeyStep
  BY <1>7 DEF TInv, TypeOK, KeyStep, UseInvite, EndEnroll, Usable, enrolling
<1>8. ASSUME NEW d \in Ids, CreateDeviceKey(d) PROVE KeyStep
  BY <1>8 DEF TInv, TypeOK, KeyStep, CreateDeviceKey, NewKey, enrolling
<1>9. ASSUME NEW d \in Ids, RotateDeviceKey(d) PROVE KeyStep
  BY <1>9 DEF TInv, TypeOK, KeyStep, RotateDeviceKey, enrolling
<1>10. ASSUME NEW d \in Ids, RevokeDeviceKey(d) PROVE KeyStep
  BY <1>10 DEF TInv, TypeOK, KeyStep, RevokeDeviceKey, enrolling
<1>11. ASSUME NEW d \in Ids, KeyExpires(d) PROVE KeyStep
  BY <1>11 DEF TInv, TypeOK, KeyStep, KeyExpires, enrolling
<1>12. ASSUME NEW d \in Ids, Hello(d) PROVE KeyStep
  BY <1>12 DEF TInv, TypeOK, KeyStep, Hello, tables, enrolling
<1>13. ASSUME NEW d \in Ids, Upsert(d) PROVE KeyStep
  BY <1>13 DEF TInv, TypeOK, KeyStep, Upsert, enrolling
<1>14. ASSUME NEW d \in Ids, Disconnect(d) PROVE KeyStep
  BY <1>14 DEF TInv, TypeOK, KeyStep, Disconnect, tables, enrolling
<1>15. ASSUME NEW d \in Ids, DeleteDevice(d) PROVE KeyStep
  BY <1>15 DEF TInv, TypeOK, KeyStep, DeleteDevice, enrolling
<1>16. ASSUME NEW d \in Ids, NEW p \in Policies, SetForwardPolicy(d, p) PROVE KeyStep
  BY <1>16 DEF TInv, TypeOK, KeyStep, SetForwardPolicy, enrolling
<1>17. ASSUME NEW s \in Ids, NEW g \in Scopes, AddForwardGrant(s, g) PROVE KeyStep
  BY <1>17 DEF TInv, TypeOK, KeyStep, AddForwardGrant, enrolling
<1>18. ASSUME NEW s \in Ids, NEW g \in Scopes, DeleteForwardGrant(s, g) PROVE KeyStep
  BY <1>18 DEF TInv, TypeOK, KeyStep, DeleteForwardGrant, enrolling
<1>19. ASSUME Restart PROVE KeyStep
  BY <1>19 DEF TInv, TypeOK, KeyStep, Restart, tables, enrolling
<1>20. ASSUME UNCHANGED vars PROVE KeyStep
  BY <1>20 DEF TInv, TypeOK, KeyStep, vars, tables, enrolling
<1> QED
  BY <1>1, <1>2, <1>3, <1>4, <1>5, <1>6, <1>7, <1>8, <1>9, <1>10, <1>11, <1>12, <1>13,
     <1>14, <1>15, <1>16, <1>17, <1>18, <1>19, <1>20, NextCases

\* A token that was rotated away or revoked never becomes current again
\* (RotateDeviceKey, RevokeDeviceKey).
THEOREM RetiredForever == Spec => KeyNeverReturns
<1>1. TInv /\ [Next]_vars => [KeyStep]_vars
  BY NextKeyStep
<1>2. KeyNeverReturns <=> [][KeyStep]_vars
  BY DEF KeyNeverReturns, KeyStep
<1> QED
  BY <1>1, <1>2, InitTInv, NextTInv, PTL DEF Spec

-----------------------------------------------------------------------------
(* The connections of a device (Presence), for any number of them.         *)

\* A read loop that ended while its connection was current has lost its socket.
EndedInv == \A c \in Conns : serving[c] = "ended" /\ entry = c => c \notin sock

PresenceInv == PresenceTypeOK /\ EntryHasHandler /\ EndedInv /\ NoLateWrite

\* The initial state satisfies the invariant.
LEMMA InitPresenceInv == PresenceInit => PresenceInv
BY ConnsAssumption DEF PresenceInit, PresenceInv, PresenceTypeOK, EntryHasHandler,
                       EndedInv, NoLateWrite, Idle

\* Every step of every handler preserves it.
LEMMA NextPresenceInv == PresenceInv /\ [PresenceNext]_presenceVars => PresenceInv'
<1> SUFFICES ASSUME PresenceInv, [PresenceNext]_presenceVars PROVE PresenceInv'
  OBVIOUS
<1> USE ConnsAssumption DEF PresenceInv, PresenceTypeOK, EntryHasHandler, EndedInv, NoLateWrite, Idle, Goto,
                           SetOnline, Write, stop
<1>1. ASSUME NEW c \in Conns, HelloAccepted(c) PROVE PresenceInv'
  BY <1>1 DEF HelloAccepted
<1>2. ASSUME NEW c \in Conns, Register(c) PROVE PresenceInv'
  BY <1>2 DEF Register
<1>3. ASSUME NEW c \in Conns, FrameDue(c) PROVE PresenceInv'
  BY <1>3 DEF FrameDue
<1>4. ASSUME NEW c \in Conns, OpenTunnel(c) PROVE PresenceInv'
  BY <1>4 DEF OpenTunnel
<1>5. ASSUME NEW c \in Conns, Drop(c) PROVE PresenceInv'
  BY <1>5 DEF Drop
<1>6. ASSUME NEW c \in Conns, Touch(c) PROVE PresenceInv'
  BY <1>6 DEF Touch
<1>7. ASSUME NEW c \in Conns, LoopEnds(c) PROVE PresenceInv'
  BY <1>7 DEF LoopEnds
<1>8. ASSUME NEW c \in Conns, RemoveAgent(c) PROVE PresenceInv'
  BY <1>8 DEF RemoveAgent
<1>9. ASSUME NEW c \in Conns, SetOffline(c) PROVE PresenceInv'
  BY <1>9 DEF SetOffline
<1>10. ASSUME NEW c \in Conns, Teardown(c) PROVE PresenceInv'
  BY <1>10 DEF Teardown
<1>11. CASE DeleteRow
  BY <1>11 DEF DeleteRow
<1>12. CASE ServerRestart
  BY <1>12 DEF ServerRestart
<1>13. CASE UNCHANGED presenceVars
  BY <1>13 DEF presenceVars
<1>14. ASSUME NEW c \in Conns, Upgrade(c) PROVE PresenceInv'
  BY <1>14 DEF Upgrade
<1>15. ASSUME NEW c \in Conns, Count(c) PROVE PresenceInv'
  BY <1>15 DEF Count
<1>16. ASSUME NEW c \in Conns, HelloFails(c) PROVE PresenceInv'
  BY <1>16 DEF HelloFails
<1>17. CASE StopListening
  BY <1>17 DEF StopListening
<1>18. CASE closeWebSockets
  BY <1>18 DEF closeWebSockets
<1>19. CASE Drained
  BY <1>19 DEF Drained, Counted
<1>20. CASE DrainTimeout
  BY <1>20 DEF DrainTimeout
<1>21. ASSUME NEW c \in Conns, FrameConnect(c) PROVE PresenceInv'
  BY <1>21 DEF FrameConnect
<1> QED
  BY <1>1, <1>2, <1>3, <1>4, <1>5, <1>6, <1>7, <1>8, <1>9, <1>10, <1>11, <1>12, <1>13,
     <1>14, <1>15, <1>16, <1>17, <1>18, <1>19, <1>20, <1>21
  DEF PresenceNext, Unwind, Close

\* The invariant holds in every reachable state.
THEOREM PresenceInvariance == PresenceSpec => []PresenceInv
BY InitPresenceInv, NextPresenceInv, PTL DEF PresenceSpec

\* Types hold, and a handler that returned has closed its socket.
THEOREM PresenceTypeCorrect == PresenceSpec => []PresenceTypeOK
<1>1. PresenceInv => PresenceTypeOK
  BY DEF PresenceInv
<1> QED
  BY <1>1, PresenceInvariance, PTL

\* The entry of a device always has a handler that will remove it.
THEOREM EntryServed == PresenceSpec => []EntryHasHandler
<1>1. PresenceInv => EntryHasHandler
  BY DEF PresenceInv
<1> QED
  BY <1>1, PresenceInvariance, PTL

\* When Close has waited for every counted handler, only a connection it could not
\* yet count has a handler left.
THEOREM DrainedIsQuiet == PresenceSpec => []NoLateWrite
<1>1. PresenceInv => NoLateWrite
  BY DEF PresenceInv
<1> QED
  BY <1>1, PresenceInvariance, PTL

\* No handler that unwinds evicts a registered connection whose socket is open.
THEOREM NoEviction == PresenceSpec => HealthyEntryKept
<1>1. PresenceInv /\ [PresenceNext]_presenceVars
      => [(entry \in sock) => entry' # NoConn \/ Idle' = Conns]_presenceVars
  <2> SUFFICES ASSUME PresenceInv, [PresenceNext]_presenceVars, entry \in sock, presenceVars' # presenceVars
               PROVE  entry' # NoConn \/ Idle' = Conns
    OBVIOUS
  <2>1. entry # NoConn
    BY ConnsAssumption DEF PresenceInv, PresenceTypeOK
  <2>2. ASSUME NEW c \in Conns, RemoveAgent(c) PROVE entry' # NoConn
    BY <2>1, <2>2 DEF RemoveAgent, PresenceInv, EndedInv
  <2>3. ASSUME NEW c \in Conns, Register(c) PROVE entry' # NoConn
    BY <2>3, ConnsAssumption DEF Register
  <2>4. CASE ServerRestart
    BY <2>4 DEF ServerRestart, Idle
  <2>5. ASSUME NEW c \in Conns,
               \/ Upgrade(c) \/ Count(c) \/ HelloAccepted(c) \/ HelloFails(c) \/ FrameDue(c)
               \/ OpenTunnel(c) \/ Drop(c) \/ Touch(c) \/ LoopEnds(c) \/ SetOffline(c)
               \/ Teardown(c) \/ FrameConnect(c)
        PROVE  entry' = entry
    BY <2>5 DEF Upgrade, Count, HelloAccepted, HelloFails, FrameDue, OpenTunnel, Drop,
                Touch, LoopEnds, SetOffline, Teardown, FrameConnect
  <2>6. CASE DeleteRow \/ StopListening \/ Close
    BY <2>1, <2>6 DEF DeleteRow, StopListening, Close, closeWebSockets, Drained,
                      DrainTimeout
  <2> QED
    BY <2>1, <2>2, <2>3, <2>4, <2>5, <2>6 DEF PresenceNext, Unwind
<1> QED
  BY <1>1, PresenceInvariance, PTL DEF PresenceSpec, HealthyEntryKept
=============================================================================
