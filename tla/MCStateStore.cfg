CONSTANTS
  a = a
  b = b
  s1 = s1
  s2 = s2
  Names = {a, b}
  Sessions = {s1, s2}
  Given <- GivenFiles
  Recorded <- WithRollback
  Imported <- TwoFiles
  Kinds <- AllOps
  MaxOps = 2
SPECIFICATION Spec
INVARIANTS TypeOK OneFile NoOrphan WholeAndLabelled
PROPERTIES NoSilentReplace
SYMMETRY Anyone
CHECK_DEADLOCK FALSE
