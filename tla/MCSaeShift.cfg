CONSTANTS
  ByteSize = 4
  BitAnd <- MCBitAnd
  Depth = 8
  Span = 8
  Cid = 1
  FifoDepth = 1
  RxByte = {3}
  NReg = 4
  XLen = 8
  SraBit = 64
  Decode <- MCDecode
  Shl <- MCShl
  Shr <- MCShr
  FirstRegs <- MCRegs
  FirstImage <- MCImages
  KindsUsed = {13, 18, 39}
SPECIFICATION Spec
PROPERTY ShiftUsesLowBits
