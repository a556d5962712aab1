CONSTANTS
  ByteSize = 4
  BitAnd <- MCBitAnd
  FifoDepth = 3
  RxByte = {0, 1, 2, 3}
  CharTime = 3
  MaxBytes = 5
SPECIFICATION MCFairSpec
INVARIANTS TypeOK SendsWhatItTakes NoOverrun PopsWhatItAnswered ReceivedOnce SentOnce
PROPERTIES ImplementsStreams Sends
