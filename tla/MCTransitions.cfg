CONSTANTS
  a = a
  b = b
  c = c
  States = {a, b, c}
  NoState = NoState
  InitState = InitState
  PlainFiles = {c}
  Requests <- AllRequests
  Losing <- LosingRequests
SPECIFICATION Spec
INVARIANTS TypeOK EveryLoadRecorded StartsRecorded FailuresRecorded StoredWhole ExploreComplete
CHECK_DEADLOCK FALSE
