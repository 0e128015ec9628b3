CONSTANTS
  a = a
  b = b
  c = c
  States = {a, b, c}
  NoState = NoState
  InitState = InitState
  PlainFiles = {c}
  Requests <- WalkRequests
  Losing = {}
SPECIFICATION Spec
INVARIANTS WalkReportsFailure
CHECK_DEADLOCK FALSE
