----------------------------- MODULE LoginGuard -----------------------------
(***************************************************************************)
(* The login throttle of the server (internal/server/server.go) for one    *)
(* key, a user name and client address: concurrent handleLogin requests    *)
(* share an entry of s.loginAttempts, which the janitor reaps.             *)
(*                                                                         *)
(* allowLoginAttempt, the password check and its bookkeeping are separate  *)
(* critical sections, so requests that were let in before the lockout may  *)
(* fail after it began.                                                    *)
(***************************************************************************)
EXTENDS Integers, FiniteSets

CONSTANTS Logins,     \* the login requests that may be in progress together
          MaxAttempts \* maxLoginAttempts (5 in the code)

ASSUME LoginsAssumption == IsFiniteSet(Logins)
ASSUME MaxAttemptsAssumption == MaxAttempts \in Nat \ {0}

VARIABLES
  count,    \* loginAttempts[key].count, 0 for no entry; values above
            \* MaxAttempts + 1 count as MaxAttempts + 1
  locked,   \* loginAttempts[key].until is in the future
  login,    \* where each request is
  failed    \* failures recorded since the key was last released

guardVars == <<count, locked, login, failed>>

Goto(r, label) == login' = [login EXCEPT ![r] = label]

\* allowLoginAttempt: refused only by a full count whose lockout still runs.
Allow(r) ==
  /\ login[r] = "idle"
  /\ ~(locked /\ count >= MaxAttempts)
  /\ Goto(r, "validate")
  /\ UNCHANGED <<count, locked, failed>>

\* ValidateUser accepts the password or not.
Validate(r, ok) ==
  /\ login[r] = "validate"
  /\ Goto(r, IF ok THEN "clear" ELSE "record")
  /\ UNCHANGED <<count, locked, failed>>

\* recordLoginFailure, given the count that starts a lockout.
RecordFailureFrom(r, limit) ==
  /\ login[r] = "record"
  /\ count' = IF count > MaxAttempts THEN count ELSE count + 1
  /\ locked' = (locked \/ count + 1 >= limit)
  /\ failed' = failed + 1
  /\ Goto(r, "idle")

\* Faulty variant: the lockout starts one failure late.
RecordFailureLate(r) == RecordFailureFrom(r, MaxAttempts + 1)

RecordFailure(r) == RecordFailureFrom(r, MaxAttempts)

\* clearLoginAttempts; the session that handleLogin then creates belongs to
\* module Accounts.
Clear(r) ==
  /\ login[r] = "clear"
  /\ count' = 0 /\ locked' = FALSE /\ failed' = 0
  /\ Goto(r, "idle")

\* loginLockoutTime passes.  The entry stays, so one more failure locks again.
LockoutPasses ==
  /\ locked
  /\ locked' = FALSE /\ failed' = 0
  /\ UNCHANGED <<count, login>>

\* sweepAuthState, given the count from which an entry is dropped.
SweepFrom(limit) ==
  /\ count >= limit /\ ~locked
  /\ count' = 0 /\ failed' = 0
  /\ UNCHANGED <<locked, login>>

\* Faulty variant: an entry that is exactly full is left.
SweepLate == SweepFrom(MaxAttempts + 1)

SweepLogins == SweepFrom(MaxAttempts)

-----------------------------------------------------------------------------

GuardInit ==
  /\ count = 0 /\ locked = FALSE /\ failed = 0
  /\ login = [r \in Logins |-> "idle"]

HandleLogin(r) == (\E ok \in BOOLEAN : Validate(r, ok)) \/ RecordFailure(r) \/ Clear(r)

GuardNext ==
  \/ \E r \in Logins : Allow(r) \/ HandleLogin(r)
  \/ LockoutPasses \/ SweepLogins

GuardSpec == GuardInit /\ [][GuardNext]_guardVars

\* Requests are handled, time passes and the janitor runs every sweepInterval.
GuardFairness ==
  /\ \A r \in Logins : WF_guardVars(HandleLogin(r))
  /\ WF_guardVars(LockoutPasses) /\ WF_guardVars(SweepLogins)

GuardFairSpec == GuardSpec /\ GuardFairness

-----------------------------------------------------------------------------

\* The variables keep their types.
GuardTypeOK ==
  /\ count \in 0 .. MaxAttempts + 1 /\ locked \in BOOLEAN
  /\ login \in [Logins -> {"idle", "validate", "record", "clear"}]
  /\ failed \in Nat

\* Between two moments at which the key is released (a successful login, the end
\* of a lockout, the janitor) at most MaxAttempts wrong passwords are answered,
\* plus one for each other request that had passed allowLoginAttempt before the
\* lockout began.
FailuresBounded == failed <= MaxAttempts - 1 + Cardinality(Logins)

\* Once nobody tries any more, a key that was locked out is forgotten.
LockoutsReaped ==
  <>[](\A r \in Logins : login[r] = "idle") => <>[](count < MaxAttempts /\ ~locked)
=============================================================================
