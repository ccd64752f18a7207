\* A factory fails while requests queue for the slots of its entry.
SPECIFICATION Spec
CONSTANTS
  r1 = r1
  r2 = r2
  r3 = r3
  p1 = p1
  p2 = p2
  e1 = e1
  e2 = e2
  e3 = e3
  none = none
  Requests <- MCRequests
  Profiles <- MCProfiles
  Objects <- MCObjects
  None = none
  Entry = e1
  MaxEntries = 1
  Connections = 1
  MaxWaiters = 2
INVARIANTS
  ClosedLeavesNothing
CHECK_DEADLOCK FALSE
