\* Writes fail and the process crashes; three accounts contend for two places.
SPECIFICATION ScopedSpec
CONSTANTS
  a1 = a1
  a2 = a2
  a3 = a3
  s1 = s1
  s2 = s2
  r1 = r1
  f1 = f1
  nobody = nobody
  Accounts <- MCThreeAccounts
  SignIns <- MCSignIns
  Removals = {r1}
  Refreshes = {f1}
  Nobody = nobody
  MaxAuthenticated = 2
  MaxGeneration = 2
  MaxCrashes = 1
  Faults = TRUE
INVARIANTS
  SecretsFollowRows
PROPERTIES
  RemovalsFinish
CHECK_DEADLOCK FALSE
