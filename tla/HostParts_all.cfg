CONSTANTS
  QUEUE_CAP = 2
  FLUSH_BATCH = 2
  EVENT_ROW_CAP = 3
  REPLAY_BATCH = 2
  SUBSCRIBER_CAP = 2
  MAX_USAGE = 2
  MAX_EVENTS = 3
  Keys = {a1, a2}
  Metrics = {w1, w2}
  WINDOWS = 3
  Traces = {t1, t2}
  REQUEST_RECORDS = 4
  DIAGNOSTIC_QUEUE = 2
  MAX_OFFERED = 7
  Managed = {a1, a2}
  Foreground = {f1}
  Commands = {b1, b2}
  Nobody = Nobody
  LOG_FILE_LINES = 2
  LOG_FILE_COUNT = 3
  MAX_LINES = 8
  TARGETS = 2
  RETAIN = 1
  MAX_EDITS = 2
  MAX_APPLIES = 2
INIT PartsInit
NEXT PartsNext
CHECK_DEADLOCK FALSE
INVARIANTS EverythingIsAccounted   RecordsAreAccounted CommandsTellTheTruth RotationIsSafe NoEditIsLost 
SYMMETRY MCSymmetry
