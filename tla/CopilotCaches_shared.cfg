CONSTANTS
  Binders = {b1}
  Clients = {c1, c2}
  None = None
  MaxCredential = 2
  MaxEpoch = 1
SPECIFICATION Spec
CHECK_DEADLOCK FALSE
INVARIANTS CachedIsCurrent SharedWorkIsReleased
SYMMETRY Symmetry
