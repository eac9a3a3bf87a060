CONSTANTS
  Requests = {r1, r2}
  Codes = {c1}
  Ids = {d1, d2}
  e1 = e1
  e2 = e2
  Endpoints <- MCEndpoints
  Scopes <- MCScopes
  MaxRotations = 1
  None = None
SYMMETRY Symmetry
SPECIFICATION Spec
INVARIANTS OneKeyPerInvite RestrictionHolds
PROPERTIES KeyNeverReturns
