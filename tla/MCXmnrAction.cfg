CONSTANTS
  NoHandler = NoHandler
  Handlers = {h1}
  Sessions = {u1}
  Usid <- OneSession
  Plans <- AllPlans
  PipeSize = 3
  OutputErrors = TRUE
SPECIFICATION FairSpec
INVARIANTS TypeOK LockInv AbortEffective NoProcessLeft
PROPERTIES NoStartAfterAbort OneProcessAtATime AbortEnds AbortReturns
CHECK_DEADLOCK FALSE
