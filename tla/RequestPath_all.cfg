\* Two requests one after the other and one change of their surroundings; streams
\* of four or five events with up to two items, calls and parts.
CONSTANTS
  Absent = Absent
  Accounts = {a1, a2}
  Models = {m1, m2}
  Origins = {o1, o2}
  Catalogues <- MCCatalogues
  MAX_REQUESTS = 2
  MAX_CHANGES = 1
  ChatTools = 2
  CHAT_EVENTS = 4
  MESSAGES_EVENTS = 5
  RESPONSES_EVENTS = 4
  OUTPUT_ITEMS = 2
  CONTENT_PARTS = 2
INIT PartsInit
NEXT PartsNext
CHECK_DEADLOCK FALSE
INVARIANTS
  BuildsOnItsOwn
  AnswerMatchesRecord
  NothingLeftBehind
  ClientAccepts
  NothingLostOrMoved
  CallsAreCheckpointed
  
SYMMETRY MCSymmetry
