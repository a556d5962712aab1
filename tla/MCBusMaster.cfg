CONSTANTS
  ByteSize = 2
  BitAnd <- MCBitAnd
  Depth = 3
  Span = 4
  Cid = 1
  FifoDepth = 1
  RxByte = {1}
  FirstImage <- MCImages
  MasterAddr = {0, 3, 5, 9, 10}
  WriteData <- MCData
  MaxAccesses = 3
SPECIFICATION MCSpec
INVARIANTS TypeOK WriteFinished AnswersOnTime
PROPERTY ImplementsByteBus
