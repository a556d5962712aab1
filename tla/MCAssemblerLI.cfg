CONSTANT
  Lines <- MCLILines
SPECIFICATION AsmSpec
INVARIANT LILoads
CHECK_DEADLOCK FALSE
