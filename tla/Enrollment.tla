----------------------------- MODULE Enrollment -----------------------------
(***************************************************************************)
(* Invites, device keys, the device inventory and the forwarding policy    *)
(* (internal/server/api.go and the matching functions of registry.go), up  *)
(* to the two places that rely on them: the hello of an agent connection   *)
(* (agentws.go) and the check of a forward request (forward.go).           *)
(*                                                                         *)
(* Every function of the registry is one critical section of its lock, so  *)
(* an admin operation is one step.  An enrollment is a thread that takes   *)
(* three of them.  The tables survive a restart; threads and connections   *)
(* do not.  The target and the port range of a grant are abstracted to     *)
(* the endpoints they cover.                                               *)
(***************************************************************************)
EXTENDS Integers, FiniteSets

CONSTANTS Requests,      \* enrollments that may be in progress together
          Codes,         \* invite codes, each drawn at most once
          Ids,           \* device ids, each drawn at most once
          Endpoints,     \* what a forward may reach: a device and a port
          Scopes,        \* what a grant may cover: a device or "*", and a port range
          MaxRotations,  \* bound: rotations of one key
          None

ASSUME ScopesAssumption == Scopes \subseteq SUBSET Endpoints
ASSUME MaxRotationsAssumption == MaxRotations \in Nat

Versions == 0..MaxRotations
NoKey == -1
Policies == {"any", "restricted"}

ASSUME NoneAssumption == None \notin Codes \cup Ids \cup Policies

VARIABLES
  invite,    \* "fresh" (not drawn), "live", "expired" or "gone"
  key,       \* device_keys: the number of the current token of an id, or NoKey
  staleKeys, \* ids whose key has expired
  drawn,     \* ids already drawn
  held,      \* ids whose current token a response has carried
  redeemed,  \* how many enrollments each invite has answered with a key
  device,    \* devices: the forward_policy of a row, or None
  grants,    \* forward_grants
  conn,      \* the connection of a device: "none", "hello" or "live"
  restrained,\* devices whose row an operator has last set to "restricted"
  at,        \* where each enrollment is
  code, id   \* the invite and the key it works on

tables == <<invite, key, staleKeys, drawn, device, grants>>
enrolling == <<at, code, id>>
vars == <<tables, held, redeemed, conn, restrained, enrolling>>

-----------------------------------------------------------------------------
(* Invites and enrollment.                                                 *)

CreateInvite(c) ==
  /\ invite[c] = "fresh"
  /\ invite' = [invite EXCEPT ![c] = "live"]
  /\ UNCHANGED <<key, staleKeys, drawn, device, grants, held, redeemed, conn,
                 restrained, enrolling>>

InviteExpires(c) ==
  /\ invite[c] = "live"
  /\ invite' = [invite EXCEPT ![c] = "expired"]
  /\ UNCHANGED <<key, staleKeys, drawn, device, grants, held, redeemed, conn,
                 restrained, enrolling>>

\* UseInvite finds a row to delete, expired or not.
Usable(c) == invite[c] \in {"live", "expired"}

\* handleInviteByCode withdraws an invite.
DeleteInvite(c) ==
  /\ Usable(c)
  /\ invite' = [invite EXCEPT ![c] = "gone"]
  /\ UNCHANGED <<key, staleKeys, drawn, device, grants, held, redeemed, conn,
                 restrained, enrolling>>

\* handleEnroll: ValidateInvite ...
ValidateInvite(r, c) ==
  /\ at[r] = "idle" /\ invite[c] = "live"
  /\ at' = [at EXCEPT ![r] = "create"]
  /\ code' = [code EXCEPT ![r] = c]
  /\ UNCHANGED <<tables, held, redeemed, conn, restrained, id>>

NewKey(d) ==
  /\ d \notin drawn
  /\ drawn' = drawn \cup {d}
  /\ key' = [key EXCEPT ![d] = 0]

\* ... then CreateDeviceKey ...
EnrollKey(r, d) ==
  /\ at[r] = "create"
  /\ NewKey(d)
  /\ at' = [at EXCEPT ![r] = "use"]
  /\ id' = [id EXCEPT ![r] = d]
  /\ UNCHANGED <<invite, staleKeys, device, grants, held, redeemed, conn,
                 restrained, code>>

EndEnroll(r) ==
  /\ at' = [at EXCEPT ![r] = "idle"]
  /\ code' = [code EXCEPT ![r] = None]
  /\ id' = [id EXCEPT ![r] = None]

\* ... which may fail ...
EnrollFails(r) ==
  /\ at[r] = "create"
  /\ EndEnroll(r)
  /\ UNCHANGED <<tables, held, redeemed, conn, restrained>>

\* Faulty variant: whether UseInvite deleted a row is not looked at.
UseInviteUnchecked(r) ==
  /\ at[r] = "use"
  /\ invite' = [invite EXCEPT ![code[r]] = "gone"]
  /\ redeemed' = [redeemed EXCEPT ![code[r]] = @ + 1]
  /\ held' = held \cup {id[r]}
  /\ EndEnroll(r)
  /\ UNCHANGED <<key, staleKeys, drawn, device, grants, conn, restrained>>

\* ... then UseInvite, which fails when the invite has gone; only after it does
\* the response carry the token of the new key.
UseInvite(r) ==
  /\ at[r] = "use"
  /\ IF Usable(code[r])
     THEN /\ invite' = [invite EXCEPT ![code[r]] = "gone"]
          /\ redeemed' = [redeemed EXCEPT ![code[r]] = @ + 1]
          /\ held' = held \cup {id[r]}
     ELSE UNCHANGED <<invite, redeemed, held>>
  /\ EndEnroll(r)
  /\ UNCHANGED <<key, staleKeys, drawn, device, grants, conn, restrained>>

-----------------------------------------------------------------------------
(* Device keys.                                                            *)

\* handleDeviceKeys: an admin creates a key and is answered with its token.
CreateDeviceKey(d) ==
  /\ NewKey(d)
  /\ held' = held \cup {d}
  /\ UNCHANGED <<invite, staleKeys, device, grants, redeemed, conn, restrained,
                 enrolling>>

\* Faulty variant: the new token is stored without looking for the row.
RotateUnchecked(d) ==
  /\ d \in drawn /\ key[d] < MaxRotations
  /\ key' = [key EXCEPT ![d] = @ + 1]
  /\ held' = held \cup {d}
  /\ staleKeys' = staleKeys \ {d}
  /\ UNCHANGED <<invite, drawn, device, grants, redeemed, conn, restrained, enrolling>>

\* RotateDeviceKey replaces the token and the expiry of a key that exists.
RotateDeviceKey(d) ==
  /\ key[d] # NoKey /\ key[d] < MaxRotations
  /\ key' = [key EXCEPT ![d] = @ + 1]
  /\ held' = held \cup {d}
  /\ staleKeys' = staleKeys \ {d}
  /\ UNCHANGED <<invite, drawn, device, grants, redeemed, conn, restrained, enrolling>>

\* RevokeDeviceKey; the connection of the device stays up.
RevokeDeviceKey(d) ==
  /\ key[d] # NoKey
  /\ key' = [key EXCEPT ![d] = NoKey]
  /\ staleKeys' = staleKeys \ {d}
  /\ UNCHANGED <<invite, drawn, device, grants, held, redeemed, conn, restrained,
                 enrolling>>

KeyExpires(d) ==
  /\ key[d] # NoKey /\ d \notin staleKeys
  /\ staleKeys' = staleKeys \cup {d}
  /\ UNCHANGED <<invite, key, drawn, device, grants, held, redeemed, conn,
                 restrained, enrolling>>

\* ValidateDeviceKey of the token that is held: older ones do not match.
ValidateDeviceKey(d) == d \in held /\ key[d] # NoKey /\ d \notin staleKeys

-----------------------------------------------------------------------------
(* The inventory and the agent connection.                                 *)

\* authorizeAgent accepts the token of a hello ...
Hello(d) ==
  /\ conn[d] = "none"
  /\ ValidateDeviceKey(d)
  /\ conn' = [conn EXCEPT ![d] = "hello"]
  /\ UNCHANGED <<tables, held, redeemed, restrained, enrolling>>

\* Faulty variant: the row is written anew on every hello.
UpsertReplaces(d) ==
  /\ conn[d] = "hello"
  /\ device' = [device EXCEPT ![d] = "any"]
  /\ conn' = [conn EXCEPT ![d] = "live"]
  /\ UNCHANGED <<invite, key, staleKeys, drawn, grants, held, redeemed, restrained,
                 enrolling>>

\* ... and Upsert makes the row when there is none and keeps the operator's
\* settings when there is.  The connection goes live even when Upsert fails.
Upsert(d) ==
  /\ conn[d] = "hello"
  /\ \/ device' = [device EXCEPT ![d] = IF @ = None THEN "any" ELSE @]
     \/ UNCHANGED device
  /\ conn' = [conn EXCEPT ![d] = "live"]
  /\ UNCHANGED <<invite, key, staleKeys, drawn, grants, held, redeemed, restrained,
                 enrolling>>

\* The connection ends.
Disconnect(d) ==
  /\ conn[d] = "live"
  /\ conn' = [conn EXCEPT ![d] = "none"]
  /\ UNCHANGED <<tables, held, redeemed, restrained, enrolling>>

\* PATCH with a forward_policy.
SetForwardPolicy(d, p) ==
  /\ device[d] # None
  /\ device' = [device EXCEPT ![d] = p]
  /\ restrained' = IF p = "restricted" THEN restrained \cup {d} ELSE restrained \ {d}
  /\ UNCHANGED <<invite, key, staleKeys, drawn, grants, held, redeemed, conn,
                 enrolling>>

\* DELETE removes the row; the key, the grants and the connection stay.
DeleteDevice(d) ==
  /\ device[d] # None
  /\ device' = [device EXCEPT ![d] = None]
  /\ restrained' = restrained \ {d}
  /\ UNCHANGED <<invite, key, staleKeys, drawn, grants, held, redeemed, conn,
                 enrolling>>

AddForwardGrant(s, g) ==
  /\ device[s] # None
  /\ grants' = grants \cup {<<s, g>>}
  /\ UNCHANGED <<invite, key, staleKeys, drawn, device, held, redeemed, conn,
                 restrained, enrolling>>

DeleteForwardGrant(s, g) ==
  /\ <<s, g>> \in grants
  /\ grants' = grants \ {<<s, g>>}
  /\ UNCHANGED <<invite, key, staleKeys, drawn, device, held, redeemed, conn,
                 restrained, enrolling>>

Granted(s, e) == \E g \in Scopes : <<s, g>> \in grants /\ e \in g

\* The check of handleForwardConnect; ForwardSession models what follows it.
ForwardAllowed(s, e) ==
  device[s] = "any" \/ (device[s] = "restricted" /\ Granted(s, e))

\* The process stops; what is in the database stays.
Restart ==
  /\ at' = [r \in Requests |-> "idle"]
  /\ code' = [r \in Requests |-> None]
  /\ id' = [r \in Requests |-> None]
  /\ conn' = [d \in Ids |-> "none"]
  /\ UNCHANGED <<tables, held, redeemed, restrained>>

-----------------------------------------------------------------------------
Init ==
  /\ invite = [c \in Codes |-> "fresh"]
  /\ key = [d \in Ids |-> NoKey] /\ staleKeys = {} /\ drawn = {}
  /\ held = {} /\ redeemed = [c \in Codes |-> 0]
  /\ device = [d \in Ids |-> None] /\ grants = {}
  /\ conn = [d \in Ids |-> "none"] /\ restrained = {}
  /\ at = [r \in Requests |-> "idle"]
  /\ code = [r \in Requests |-> None] /\ id = [r \in Requests |-> None]

Invites == \E c \in Codes : CreateInvite(c) \/ InviteExpires(c) \/ DeleteInvite(c)

Enroll == \E r \in Requests :
  \/ \E c \in Codes : ValidateInvite(r, c)
  \/ \E d \in Ids : EnrollKey(r, d)
  \/ EnrollFails(r) \/ UseInvite(r)

Keys == \E d \in Ids :
  CreateDeviceKey(d) \/ RotateDeviceKey(d) \/ RevokeDeviceKey(d) \/ KeyExpires(d)

Inventory == \E d \in Ids :
  \/ Hello(d) \/ Upsert(d) \/ Disconnect(d) \/ DeleteDevice(d)
  \/ \E p \in Policies : SetForwardPolicy(d, p)

Grants == \E s \in Ids, g \in Scopes : AddForwardGrant(s, g) \/ DeleteForwardGrant(s, g)

Next == Invites \/ Enroll \/ Keys \/ Inventory \/ Grants \/ Restart

Spec == Init /\ [][Next]_vars

-----------------------------------------------------------------------------
\* The variables keep their types.  An invite, a key and a device row are either
\* there or not, and the token of a key is one of its rotations.
TypeOK ==
  /\ invite \in [Codes -> {"fresh", "live", "expired", "gone"}]
  /\ key \in [Ids -> Versions \cup {NoKey}]
  /\ staleKeys \subseteq Ids /\ drawn \subseteq Ids
  /\ held \subseteq Ids /\ redeemed \in [Codes -> Nat]
  /\ device \in [Ids -> Policies \cup {None}] /\ grants \subseteq Ids \X Scopes
  /\ conn \in [Ids -> {"none", "hello", "live"}]
  /\ restrained \subseteq Ids
  /\ at \in [Requests -> {"idle", "create", "use"}]
  /\ code \in [Requests -> Codes \cup {None}] /\ id \in [Requests -> Ids \cup {None}]

\* "handleEnroll exchanges a one-time invite for a long-lived device key"
\* (api.go:437): whatever enrollments overlap, are retried after a restart or race
\* the withdrawal of the invite, at most one is answered with a key.
OneKeyPerInvite == \A c \in Codes : redeemed[c] <= 1

\* A token that was rotated away or revoked is never the current token of its
\* device again, whatever rotations, revocations and enrollments follow
\* (RotateDeviceKey, RevokeDeviceKey and ValidateDeviceKey).
KeyNeverReturns ==
  [][\A d \in drawn : /\ key[d] = NoKey => key'[d] = NoKey
                      /\ key'[d] # NoKey => key'[d] >= key[d]]_vars

\* Once an operator has restricted a device, handleForwardConnect admits only
\* what is granted to it until the operator lifts the restriction or deletes the
\* device: no reconnect, rotation or restart of the server undoes it.
RestrictionHolds ==
  \A s \in restrained, e \in Endpoints : ForwardAllowed(s, e) => Granted(s, e)
=============================================================================
