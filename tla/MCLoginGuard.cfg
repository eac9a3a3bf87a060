SPECIFICATION GuardFairSpec
CONSTANTS
  Logins = {r1, r2, r3, r4}
  MaxAttempts = 3
INVARIANTS FailuresBounded
PROPERTIES LockoutsReaped
