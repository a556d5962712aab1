CONSTANTS
  ByteSize = 4
  BitAnd <- MCBitAnd
  Depth = 8
  Span = 8
  Cid = 1
  FifoDepth = 1
  RxByte = {3}
  NReg = 4
  XLen = 8
  SraBit = 64
  Decode <- MCDecode
  Shl <- MCShl
  Shr <- MCShr
  FirstRegs <- TopRegs
  RegInits <- MCRegInits
  FirstImage <- TopImages
  KindsUsed = {1, 2, 8, 9, 26}
  Button = {FALSE, TRUE}
SPECIFICATION TopHistorySpec
INVARIANTS RequestsMeetIdleBus StoreIsPrefix
PROPERTIES ImplementsIsaWithRestarts RetFaults
