CONSTANTS
  ByteSize = 4
  BitAnd <- MCBitAnd
  Depth = 8
  Span = 8
  Cid = 1
  FifoDepth = 1
  RxByte = {3}
  NReg = 4
  XLen = 8
  SraBit = 64
  Decode <- MCDecode
  Shl <- MCShl
  Shr <- MCShr
  FirstRegs <- MCRegs
  FirstImage <- MCImages
  KindsUsed = {1,2,3,4,5,6,7,8,9,10,11,12,13,14,15,16,17,18,19,20,21,22,23,24,25,26,27,28,29,30,31,32,33,34,35,36,37,38,39}
SPECIFICATION Spec
INVARIANTS TypeOK WriteSettled RequestsMeetIdleBus OperandsFresh PcAligned
PROPERTY ImplementsIsa
