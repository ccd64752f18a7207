\* Callers of gateway.fetch() and an operator changing the limits.
SPECIFICATION Spec
CONSTANTS
  r1 = r1
  r2 = r2
  r3 = r3
  r4 = r4
  Requests <- MCRequests
  Limits <- MCManyLimits
  MicrotaskArrivals = TRUE
SYMMETRY MCSymmetry
INVARIANTS
  PermitAccounting
  NoIdleWaiting
CHECK_DEADLOCK FALSE
