\* A cleanup that failed is retried beside a refresh.
SPECIFICATION ScopedSpec
CONSTANTS
  a1 = a1
  a2 = a2
  a3 = a3
  s1 = s1
  s2 = s2
  r1 = r1
  f1 = f1
  nobody = nobody
  Accounts <- MCOneAccount
  SignIns <- MCSignIns
  Removals = {r1}
  Refreshes = {f1}
  Nobody = nobody
  MaxAuthenticated = 1
  MaxGeneration = 2
  MaxCrashes = 0
  Faults = TRUE
PROPERTIES
  OldGenerationsStayGone
CHECK_DEADLOCK FALSE
