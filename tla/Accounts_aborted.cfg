\* A sign-in is aborted between its write and its transaction.
SPECIFICATION ScopedSpec
CONSTANTS
  a1 = a1
  a2 = a2
  a3 = a3
  s1 = s1
  s2 = s2
  r1 = r1
  f1 = f1
  nobody = nobody
  Accounts <- MCOneAccount
  SignIns <- MCSignIns
  Removals = {r1}
  Refreshes = {f1}
  Nobody = nobody
  MaxAuthenticated = 1
  MaxGeneration = 1
  MaxCrashes = 0
  Faults = FALSE
INVARIANTS
  NoOrphanSecret
CHECK_DEADLOCK FALSE
