CONSTANTS
  conv = conv
  test = test
  NoCase = NoCase
  Cases <- MCCases
  Lines <- MCLines
  Patterns <- MCPatterns
  MaxLog = 5
SPECIFICATION Spec
INVARIANTS TypeOK InOrder RightCase MatchesFound
CHECK_DEADLOCK FALSE
