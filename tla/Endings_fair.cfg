\* Two permits and a queue of two for four requests; one stream of up to three
\* chunks; two sign-ins and room for one; two commands and two daemons; two requests
\* and two account operations while the gateway closes.
CONSTANTS
  r1 = r1
  r2 = r2
  r3 = r3
  r4 = r4
  Requests <- MCRequests
  Limits <- MCOneLimit
  MicrotaskArrivals = FALSE
  MaxWires = 3
  Flows = {f1, f2}
  MAX_DEVICE_FLOWS = 1
  Managed = {d1, d2}
  Foreground = {}
  Commands = {c1, c2}
  Nobody = Nobody
  Calls = {q1, q2}
  Mutations = {m1, m2}
SPECIFICATION PartsSpec
CHECK_DEADLOCK FALSE
INVARIANTS
  DeliveryIsSafe
  FlowsEndOnce
  CloseIsSafe
PROPERTIES
  ImplementsPool
  WaitersServed
  CauseIsRight
  StreamsEnd
  CancelReturns
  CommandsAndCloseEnd
