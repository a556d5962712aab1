CONSTANT
  Lines <- MCLines
SPECIFICATION AsmSpec
INVARIANTS FixedFieldsStay MatchesInvert HartReadsTheLine Reassembles OneReading LIExact
CHECK_DEADLOCK FALSE
