CONSTANTS
  conv = conv
  test = test
  NoCase = NoCase
  Cases <- MCCases
  Lines <- MCLines
  Patterns <- MCPatterns
  MaxLog = 5
SPECIFICATION Spec
INVARIANTS FirstClustersFound
CHECK_DEADLOCK FALSE
