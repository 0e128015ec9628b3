CONSTANTS
  NoHandler = NoHandler
  Handlers = {h1, h2}
  Sessions = {u1}
  Usid <- OneSession
  Plans <- ShortPlans
  PipeSize = 1
  OutputErrors = TRUE
SPECIFICATION Spec
INVARIANTS AbortEffective RegistryExact
PROPERTIES KillOnlyInterrupted ImplementsDeviceRun
CHECK_DEADLOCK FALSE
