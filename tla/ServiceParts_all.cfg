CONSTANTS
  Requests = {r1, r2}
  Origins = {home, away, other}
  Home = home
  MAX_REDIRECTS = 2
  Converted = {a1, a2}
  Native = {n1}
  Plain = {p1}
  Legacy = {l1}
  Owner <- MCOwner
  MAX_RESPONSES = 1
  MAX_RECEIPTS = 1
  MAX_STORED_REPLAY = 2
  MAX_CARRIERS = 1
  TTLS = {1, 2}
  MAX_TIME = 1
  MAX_REQUESTS = 2
  Calls = {x1, x2}
  Strangers = {x3}
  Carriers = {y1}
  MAX_OUTPUT = 4
  MAX_INPUT = 3
  Models = {a1, a2}
  Operations = {b1, b2}
  Unset = Unset
  MAX_GENERATION = 2
  MAX_CREDENTIAL = 2
  MAX_REVISION = 2
  CallIds = {a1, a2}
  MAX_BLOCKS = 3
INIT PartsInit
NEXT PartsNext
CHECK_DEADLOCK FALSE
INVARIANTS ExchangesAreSafe HistoryIsConsistent ReplayIsFaithful 
PROPERTIES PreferencesAreSound
SYMMETRY MCSymmetry
