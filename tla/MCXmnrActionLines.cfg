CONSTANTS
  NoHandler = NoHandler
  Handlers = {h1}
  Sessions = {u1}
  Usid <- OneSession
  Plans <- AllPlans
  PipeSize = 2
  OutputErrors = TRUE
SPECIFICATION Spec
INVARIANTS AllLinesProcessed
CHECK_DEADLOCK FALSE
