CONSTANTS
  ByteSize = 256
  BitAnd <- MCBitAnd
  Divisor = 9
  DIVISOR = 9
  FifoDepth = 3
  RxByte = {49, 193, 121, 48}
  Query <- MCQuery
  Reply <- MCReply
  Answer <- MCAnswer
  Agrees = {121, 89, 13, 10}
  Refuses = {110, 78}
  Refusal <- MCRefusal
SPECIFICATION SerialHistoryFairSpec
INVARIANTS BytesArrive NothingOverflows
PROPERTIES LineIsUarts Finishes
CHECK_DEADLOCK FALSE
