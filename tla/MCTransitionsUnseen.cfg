CONSTANTS
  a = a
  b = b
  c = c
  States = {a, b, c}
  NoState = NoState
  InitState = InitState
  PlainFiles = {}
  Requests <- ExploreRequests
  Losing = {}
SPECIFICATION Spec
INVARIANTS TransitionsRecorded
CHECK_DEADLOCK FALSE
