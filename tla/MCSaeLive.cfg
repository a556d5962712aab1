CONSTANTS
  ByteSize = 4
  BitAnd <- MCBitAnd
  Depth = 8
  Span = 8
  Cid = 1
  FifoDepth = 1
  RxByte = {3}
  NReg = 4
  XLen = 8
  SraBit = 64
  Decode <- MCDecode
  Shl <- MCShl
  Shr <- MCShr
  FirstRegs <- MCRegs
  FirstImage <- MCImages
  KindsUsed = {1, 2, 9, 10, 11, 13, 19, 23, 25, 26, 31, 33, 39}
SPECIFICATION FairSpec

PROPERTIES InstructionsComplete InstructionsFollow
