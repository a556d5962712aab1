CONSTANTS
  Labels = {a, b}
  None = None
  MaxLines = 6
  MaxLists = 2
SPECIFICATION MCParserSpec
INVARIANTS TestsAreSections
PROPERTIES ResultsKeep
CHECK_DEADLOCK FALSE
