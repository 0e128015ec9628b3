CONSTANTS
  a = a
  b = b
  s1 = s1
  s2 = s2
  Names = {a, b}
  Sessions = {s1}
  Given <- GivenFiles
  Recorded <- WithRollback
  Imported <- TwoFiles
  Kinds <- OneImport
  MaxOps = 2
SPECIFICATION Spec
PROPERTIES SkipKeepsExisting
CHECK_DEADLOCK FALSE
