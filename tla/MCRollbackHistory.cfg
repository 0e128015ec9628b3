CONSTANTS
  new = new
  same = same
  old = old
  Configs <- MCConfigs
  Files <- MCFiles
  Effect <- MCEffect
  Tests <- MCTests
  Schemas <- MCSchemas
  MaxIterations = 2
  MaxOthers = 1
SPECIFICATION MCSpec
INVARIANTS TypeOK SetComesBack SetsStartAlike TestComesBack IterationComesBack AllVisited
PROPERTIES RollbackReaches TestEnds
CHECK_DEADLOCK FALSE
