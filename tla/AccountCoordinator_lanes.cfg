\* Five jobs, two accounts.  Jobs end and the coordinator is closed for good.
SPECIFICATION FairSpec
CONSTANTS
  reconciliation = reconciliation
  cleanup1 = cleanup1
  cleanup2 = cleanup2
  refresh1 = refresh1
  refresh2 = refresh2
  a1 = a1
  a2 = a2
  l1 = l1
  l2 = l2
  life = life
  none = none
  Jobs <- MCJobs
  Accounts <- MCAccounts
  Plan <- MCPlan
  LaneIds <- MCLanes
  Lifecycle = life
  NoLane = none
  Pooled = a1
INVARIANTS
  DrainedIsQuiet
PROPERTIES
  LanesAreFair
  LanesDrain
CHECK_DEADLOCK FALSE
