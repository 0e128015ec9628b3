CONSTANTS
  f1 = f1
  f1_txt = f1_txt
  f1_sp = f1_sp
  f2_2 = f2_2
  f2_10 = f2_10
  bad = bad
  Half = Half
  NoConfig = NoConfig
  Files <- Names
  SetOf <- NameSets
  IndexOf <- NameIndices
  BadNames = {bad}
  Spaced = {f1_sp}
  States <- StateNames
  StateOf <- NameStates
  Plans <- Sequences
  Requests <- SomeFiles
  Lossy = TRUE
SPECIFICATION Spec
INVARIANTS TypeOK DeviceRestored ImportedRight 
PROPERTIES GivesUp
CHECK_DEADLOCK FALSE
