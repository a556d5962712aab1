----------------------------- MODULE MMUProofs -----------------------------
(***************************************************************************)
(* Bytes and words; and one edge of the clock in the MMU, whoever drives   *)
(* its buses: the types, what becomes of the two machines, the bytes that  *)
(* a walk over cells has written or collected by its end, the edges it     *)
(* takes, and what the UART's connection does to the queues.  The proofs   *)
(* about the systems that hold an MMU (BusMaster, Sae, Top) rest on these  *)
(* lemmas.                                                                 *)
(***************************************************************************)
EXTENDS MMU, TLAPS

(* Bytes and words. *)

\* The sizes are positive, and multiples of the sizes below them: what keeps an
\* aligned pc aligned when it wraps.
LEMMA Sizes ==
  /\ ByteSize \in Nat \ {0} /\ HalfSize \in Nat \ {0} /\ WordSize \in Nat \ {0}
  /\ HalfSize >= 4 /\ WordSize >= 16
  /\ HalfSize % 4 = 0 /\ WordSize % 4 = 0 /\ WordSize % 2 = 0
<1>1. ByteSize \in Nat /\ ByteSize > 1 /\ ByteSize % 2 = 0
  BY ByteSizeAssumption
<1>2. PICK m \in Nat : ByteSize = 2 * m
  <2>1. ByteSize \div 2 \in Nat /\ ByteSize = 2 * (ByteSize \div 2)
    BY <1>1
  <2> QED BY <2>1
<1>3. m >= 1
  BY <1>1, <1>2
<1>4. PICK k \in Nat : k = m * m /\ k >= 1
  <2>1. m * m \in Nat /\ m * m >= 1
    BY <1>3
  <2> QED BY <2>1
<1>5. HalfSize = 4 * k
  BY <1>2, <1>4 DEF HalfSize
<1>6. PICK j \in Nat : j = k * k /\ j >= 1
  <2>1. k * k \in Nat /\ k * k >= 1
    BY <1>4
  <2> QED BY <2>1
<1>7. WordSize = 16 * j
  BY <1>5, <1>6 DEF WordSize
<1> QED BY <1>1, <1>4, <1>5, <1>6, <1>7

\* Two digits make a number of two digits.
LEMMA TwoDigits ==
  ASSUME NEW b \in Nat, NEW c \in Nat, b > 0, c > 0,
         NEW x \in 0 .. b - 1, NEW y \in 0 .. c - 1
  PROVE  x + b * y \in 0 .. (b * c) - 1
<1>1. y + 1 <= c /\ y >= 0 /\ x >= 0 /\ x + 1 <= b
  OBVIOUS
<1>2. b * y \in Nat
  BY <1>1
<1>3. b * (y + 1) <= b * c
  BY <1>1
<1>4. b * (y + 1) = b * y + b
  BY <1>1
<1> QED BY <1>1, <1>2, <1>3, <1>4

\* The number of a word's bytes is a word.
LEMMA NumOfType ==
  ASSUME NEW p \in Lanes
  PROVE  NumOf(p) \in Word
<1> USE Sizes
<1>1. p[0] \in Byte /\ p[1] \in Byte /\ p[2] \in Byte /\ p[3] \in Byte
  BY DEF Lanes, Lane
<1>2. p[0] + ByteSize * p[1] \in 0 .. HalfSize - 1
  BY <1>1, TwoDigits DEF HalfSize, Byte
<1>3. p[2] + ByteSize * p[3] \in 0 .. HalfSize - 1
  BY <1>1, TwoDigits DEF HalfSize, Byte
<1>4. (p[0] + ByteSize * p[1]) + HalfSize * (p[2] + ByteSize * p[3])
        \in 0 .. (HalfSize * HalfSize) - 1
  BY <1>2, <1>3, TwoDigits
<1> QED BY <1>1, <1>4 DEF NumOf, Word, WordSize, Byte

\* The top digit of a number of two digits.
LEMMA TopDigit ==
  ASSUME NEW b \in Nat, NEW c \in Nat, b > 0, c > 0, NEW x \in 0 .. (b * c) - 1
  PROVE  x \div b \in 0 .. c - 1
<1>1. x \div b \in Int /\ x \div b >= 0
  OBVIOUS
<1>2. b * (x \div b) <= x
  OBVIOUS
<1>3. SUFFICES ASSUME x \div b >= c PROVE FALSE
  BY <1>1
<1>4. b * (x \div b) >= b * c
  BY <1>1, <1>3
<1> QED BY <1>1, <1>2, <1>4

\* The bytes of a word.
LEMMA BytesOfType ==
  ASSUME NEW v \in Word
  PROVE  BytesOf(v) \in Lanes
<1> USE Sizes
<1>1. v \in Nat
  BY DEF Word
<1>2. HalfSize * ByteSize \in Nat /\ HalfSize * ByteSize > 0
  OBVIOUS
<1>3. v \in 0 .. ((HalfSize * ByteSize) * ByteSize) - 1
  BY DEF Word, WordSize, HalfSize
<1>4. v \div (HalfSize * ByteSize) \in Byte
  BY <1>2, <1>3, TopDigit DEF Byte
<1>5. v % ByteSize \in Byte
  BY <1>1 DEF Byte
<1>6. (v \div ByteSize) % ByteSize \in Byte
  BY <1>1 DEF Byte
<1>7. (v \div HalfSize) % ByteSize \in Byte
  BY <1>1 DEF Byte
<1> QED BY <1>4, <1>5, <1>6, <1>7 DEF BytesOf, Lanes, Lane

\* Sign extension gives a word.
LEMMA SignExtendType ==
  ASSUME NEW size \in Nat, NEW v \in Nat
  PROVE  SignExtend(size, v) \in Word
BY Sizes DEF SignExtend, SignedIn, Word

\* A remainder by a multiple of four keeps a number's remainder by four.
LEMMA WrapKeepsAlignment ==
  ASSUME NEW a \in Nat, a % 4 = 0
  PROVE  (a % WordSize) % 4 = 0 /\ a % WordSize \in Word
<1>1. PICK k \in Nat : WordSize = 4 * k /\ k > 0
  <2>1. WordSize = 4 * (WordSize \div 4) /\ WordSize \div 4 \in Nat /\ WordSize \div 4 > 0
    BY Sizes
  <2> QED BY <2>1
<1>2. PICK q \in Int : a = WordSize * q + (a % WordSize)
  <2>1. a = WordSize * (a \div WordSize) + (a % WordSize) /\ a \div WordSize \in Int
    BY Sizes
  <2> QED BY <2>1
<1>3. a % WordSize \in 0 .. WordSize - 1
  BY Sizes
<1>4. WordSize * q = 4 * (k * q) /\ k * q \in Int
  BY <1>1
<1> QED BY <1>2, <1>3, <1>4 DEF Word
-----------------------------------------------------------------------------
(* Remainders. *)

\* Quotient and remainder are what makes n * q + r.
LEMMA DivMod ==
  ASSUME NEW n \in Nat \ {0}, NEW q \in Int, NEW r \in 0 .. n - 1, NEW x \in Int, x = n * q + r
  PROVE  x % n = r /\ x \div n = q
<1> DEFINE d == x \div n
           m == x % n
<1>1. d \in Int /\ m \in 0 .. n - 1 /\ x = n * d + m
  OBVIOUS
<1> HIDE DEF d, m
<1>2. n * (q - d) = m - r
  BY <1>1
<1>3. ASSUME q - d >= 1 PROVE FALSE
  <2>1. n * (q - d) >= n
    BY <1>1, <1>3
  <2> QED BY <1>1, <1>2, <2>1
<1>4. ASSUME d - q >= 1 PROVE FALSE
  <2>1. n * (d - q) >= n
    BY <1>1, <1>4
  <2>2. n * (d - q) = r - m
    BY <1>1
  <2> QED BY <1>1, <2>1, <2>2
<1>5. q = d
  BY <1>1, <1>3, <1>4
<1>6. m = r
  BY <1>1, <1>2, <1>5
<1> QED BY <1>5, <1>6 DEF d, m

\* Moving around a circle of n, forwards from x by less than a turn, or from x to k.
LEMMA Forwards ==
  ASSUME NEW n \in Nat \ {0}, NEW x \in Int, NEW k \in 0 .. n, NEW y \in Int, y = x + k
  PROVE  y % n = IF (x % n) + k < n THEN (x % n) + k ELSE (x % n) + k - n
<1> DEFINE d == x \div n
           m == x % n
<1>1. d \in Int /\ m \in 0 .. n - 1 /\ x = n * d + m
  OBVIOUS
<1> HIDE DEF d, m
<1>2. CASE m + k < n
  <2>1. y = n * d + (m + k) /\ m + k \in 0 .. n - 1
    BY <1>1, <1>2
  <2>2. y % n = m + k
    BY <1>1, <2>1, DivMod
  <2> QED BY <1>2, <2>2 DEF m
<1>3. CASE ~(m + k < n)
  <2>1. PICK q \in Int, r \in 0 .. n - 1 : y = n * q + r /\ r = m + k - n
    <3>1. y = n * (d + 1) + (m + k - n) /\ m + k - n \in 0 .. n - 1 /\ d + 1 \in Int
      BY <1>1, <1>3
    <3> QED BY <3>1
  <2>2. \A z \in Int : z = n * q + r => z % n = r
    BY DivMod
  <2>3. y % n = r
    BY <2>1, <2>2
  <2> QED BY <1>3, <2>1, <2>3 DEF m
<1> QED BY <1>2, <1>3

LEMMA Backwards ==
  ASSUME NEW n \in Nat \ {0}, NEW x \in Int, NEW k \in 0 .. n - 1, NEW y \in Int, y = k - x
  PROVE  y % n = IF k >= x % n THEN k - (x % n) ELSE k - (x % n) + n
<1> DEFINE d == x \div n
           m == x % n
<1>1. d \in Int /\ m \in 0 .. n - 1 /\ x = n * d + m
  OBVIOUS
<1> HIDE DEF d, m
<1>2. CASE k >= m
  <2>1. PICK q \in Int, r \in 0 .. n - 1 : y = n * q + r /\ r = k - m
    <3>1. y = n * (-d) + (k - m) /\ k - m \in 0 .. n - 1 /\ -d \in Int
      BY <1>1, <1>2
    <3> QED BY <3>1
  <2>2. \A z \in Int : z = n * q + r => z % n = r
    BY DivMod
  <2>3. y % n = r
    BY <2>1, <2>2
  <2> QED BY <1>2, <2>1, <2>3 DEF m
<1>3. CASE ~(k >= m)
  <2>1. PICK q \in Int, r \in 0 .. n - 1 : y = n * q + r /\ r = k - m + n
    <3>1. y = n * (-d - 1) + (k - m + n) /\ k - m + n \in 0 .. n - 1 /\ -d - 1 \in Int
      BY <1>1, <1>3
    <3> QED BY <3>1
  <2>2. \A z \in Int : z = n * q + r => z % n = r
    BY DivMod
  <2>3. y % n = r
    BY <2>1, <2>2
  <2> QED BY <1>3, <2>1, <2>3 DEF m
<1> QED BY <1>2, <1>3
-----------------------------------------------------------------------------
(* Requests and types. *)

ReadReq == [valid : BOOLEAN, addr : Word, width : AccessWidth]

WriteReq == [valid : BOOLEAN, addr : Word, width : AccessWidth, data : Lanes]

LEMMA Constants ==
  /\ Depth \in Nat \ {0} /\ Span \in Nat \ {0} /\ Depth <= Span
  /\ 0 \in Byte /\ 0 \in Word
  /\ ZeroLanes \in Lanes /\ ZeroCell \in Cells
  /\ NoRead \in ReadReq /\ NoWrite \in WriteReq
<1>1. 0 \in Byte /\ 0 \in Word
  BY Sizes DEF Byte, Word
<1>2. ZeroLanes \in Lanes /\ ZeroCell \in Cells
  BY <1>1 DEF ZeroLanes, Lanes, ZeroCell, Cells
<1> QED
  BY <1>1, <1>2, DepthAssumption
  DEF NoRead, NoWrite, ReadReq, WriteReq, AccessWidth, BYTE

LEMMA CellOfAddrType == \A addr \in Word : CellOfAddr(addr) \in CellAddr
BY Constants, Sizes DEF CellOfAddr, CellAddr, Word

\* The operators on lanes and cells.
LEMMA LaneTypes ==
  /\ \A p, q \in Lanes : OrLanes(p, q) \in Lanes
  /\ \A p \in Lanes : DropLow(p) \in Lanes
  /\ \A cell \in Cells :
       CellAt(0, cell) \in Lanes /\ CellAt(1, cell) \in Lanes /\ CellAt(2, cell) \in Lanes
  /\ \A byte \in Byte :
       ByteAt(0, byte) \in Lanes /\ ByteAt(1, byte) \in Lanes /\ ByteAt(3, byte) \in Lanes
  /\ \A p \in Lanes, i, j \in Lane : CellOf(p, i, j) \in Cells
<1>1. \A p, q \in Lanes : OrLanes(p, q) \in Lanes
  BY BitAndAssumption DEF OrLanes, Lanes
<1>2. \A p \in Lanes : DropLow(p) \in Lanes
  BY Constants DEF DropLow, Lanes, Lane
<1>3. \A k \in {0, 1, 2}, cell \in Cells : CellAt(k, cell) \in Lanes
  BY Constants DEF CellAt, Lanes, Lane, Cells
<1>4. \A k \in Lane, byte \in Byte : ByteAt(k, byte) \in Lanes
  BY Constants DEF ByteAt, Lanes
<1>5. \A p \in Lanes, i, j \in Lane : CellOf(p, i, j) \in Cells
  BY DEF CellOf, Lanes, Cells
<1> QED BY <1>1, <1>2, <1>3, <1>4, <1>5 DEF Lane

LEMMA SysmemTickType ==
  ASSUME SysmemTypeOK,
         NEW raddr \in CellAddr, NEW waddr \in CellAddr,
         NEW wdata \in Cells, NEW wen \in SUBSET {0, 1},
         SysmemTick(raddr, waddr, wdata, wen)
  PROVE  SysmemTypeOK'
<1>1. rport_data' \in Cells
  <2>1. \A i \in Int : ByteOf(sysmem, i) \in Byte
    BY Constants DEF ByteOf, SysmemTypeOK
  <2>2. CellIn(sysmem, raddr) \in Cells
    BY <2>1 DEF CellIn, Cells, CellAddr
  <2> QED BY <2>2 DEF SysmemTick
<1>2. sysmem' \in [MemByte -> Byte]
  <2>1. \A i \in MemByte : i % 2 \in 0 .. 1
    BY Constants DEF MemByte
  <2>2. \A i \in MemByte : wdata[i % 2] \in Byte
    BY <2>1 DEF Cells
  <2> QED BY <2>2 DEF SysmemTick, Written, SysmemTypeOK
<1> QED BY <1>1, <1>2 DEF SysmemTypeOK

LEMMA MMUReadTickType ==
  ASSUME MMUReadTypeOK, rport_data \in Cells, NEW req \in ReadReq, MMUReadTick(req)
  PROVE  MMUReadTypeOK'
<1> USE DEF MMUReadTypeOK
<1>a. NextCell \in CellAddr
  BY Constants DEF NextCell, CellAddr
<1>b. mr_addr % 2 \in {0, 1}
  BY Sizes DEF Word
<1>c. rport_data[0] \in Byte /\ rport_data[1] \in Byte
  BY DEF Cells
<1>1. CASE MRIdle(req)
  BY <1>1 DEF MRIdle, mmuReadVars
<1>2. CASE MRAccept(req)
  BY <1>2, CellOfAddrType DEF MRAccept, ReadReq, MMUReadState
<1>3. CASE MRPipe
  BY <1>3, <1>a DEF MRPipe, MMUReadState
<1>4. ASSUME NEW p \in Lanes, Deliver(p) PROVE MMUReadTypeOK'
  BY <1>4 DEF Deliver, MMUReadState
<1>5. CASE MRColl
  <2>1. CellAt(0, rport_data) \in Lanes /\ ByteAt(0, rport_data[mr_addr % 2]) \in Lanes
    BY <1>b, <1>c, LaneTypes
  <2> QED BY <1>5, <2>1, <1>4 DEF MRColl
<1>6. CASE MRColl0
  BY <1>6, <1>a, LaneTypes DEF MRColl0, MMUReadState
<1>7. CASE MRColl1UnalignedHalf
  <2>1. OrLanes(DropLow(mr_payload), ByteAt(1, rport_data[0])) \in Lanes
    BY <1>c, LaneTypes
  <2> QED BY <1>7, <2>1, <1>4 DEF MRColl1UnalignedHalf
<1>8. CASE MRColl1AlignedWord
  <2>1. OrLanes(mr_payload, CellAt(2, rport_data)) \in Lanes
    BY LaneTypes
  <2> QED BY <1>8, <2>1, <1>4 DEF MRColl1AlignedWord
<1>9. CASE MRColl1UnalignedWord
  <2>1. OrLanes(DropLow(mr_payload), CellAt(1, rport_data)) \in Lanes
    BY LaneTypes
  <2> QED BY <1>9, <2>1 DEF MRColl1UnalignedWord, MMUReadState
<1>10. CASE MRColl2
  <2>1. OrLanes(mr_payload, ByteAt(3, rport_data[0])) \in Lanes
    BY <1>c, LaneTypes
  <2> QED BY <1>10, <2>1, <1>4 DEF MRColl2
<1> QED
  BY <1>1, <1>2, <1>3, <1>5, <1>6, <1>7, <1>8, <1>9, <1>10 DEF MMUReadTick

LEMMA MMUWriteTickType ==
  ASSUME MMUWriteTypeOK, NEW req \in WriteReq, MMUWriteTick(req)
  PROVE  MMUWriteTypeOK'
<1> USE DEF MMUWriteTypeOK, MMUWriteState
<1>a. NextWCell \in CellAddr /\ CellOfAddr(req.addr) \in CellAddr
  BY Constants, CellOfAddrType DEF NextWCell, CellAddr, WriteReq
<1>b. req.addr % 2 \in {0, 1} /\ req.data \in Lanes
  BY Sizes DEF Word, WriteReq
<1>c. /\ CellOf(req.data, 0, 0) \in Cells
      /\ CellOf(req.data, 0, 1) \in Cells
      /\ CellOf(req.data, 1, 0) \in Cells
      /\ CellOf(mw_payload, 1, 2) \in Cells
      /\ CellOf(mw_payload, 2, 3) \in Cells
  <2>1. 0 \in Lane /\ 1 \in Lane /\ 2 \in Lane /\ 3 \in Lane
    BY DEF Lane
  <2> QED BY <2>1, <1>b, LaneTypes
<1>g. /\ [ZeroCell EXCEPT ![1] = req.data[0]] \in Cells
      /\ [ZeroCell EXCEPT ![0] = mw_payload[3]] \in Cells
  <2>1. req.data[0] \in Byte /\ mw_payload[3] \in Byte
    BY <1>b DEF Lanes, Lane
  <2> QED BY <2>1, Constants DEF Cells
<1>d. ASSUME NEW addr \in CellAddr, NEW data \in Cells, NEW en \in SUBSET {0, 1},
             Port(addr, data, en)
      PROVE  wport_addr' \in CellAddr /\ wport_data' \in Cells /\ wport_en' \in SUBSET {0, 1}
  BY <1>d DEF Port
<1>e. ASSUME Finish PROVE mw_state' = "init" /\ mw_ready' \in BOOLEAN /\ mw_payload' \in Lanes
  BY <1>e DEF Finish
<1>f. ASSUME NEW state \in MMUWriteState, Continue(req, state)
      PROVE  mw_state' \in MMUWriteState /\ mw_ready' \in BOOLEAN /\ mw_payload' \in Lanes
  BY <1>f, <1>b DEF Continue
<1>1. CASE MWIdle(req)
  BY <1>1, <1>e DEF MWIdle
<1>2. CASE MWByte(req)
  BY <1>2, <1>a, <1>b, <1>c, <1>d, <1>e DEF MWByte
<1>3. CASE MWHalf(req)
  BY <1>3, <1>a, <1>b, <1>c, <1>d, <1>e DEF MWHalf
<1>4. CASE MWHalfUnaligned(req)
  BY <1>4, <1>a, <1>b, <1>c, <1>d, <1>f DEF MWHalfUnaligned
<1>5. CASE MWWord(req)
  BY <1>5, <1>a, <1>b, <1>c, <1>d, <1>f DEF MWWord
<1>6. CASE MWWordUnaligned(req)
  BY <1>6, <1>a, <1>b, <1>g, <1>d, <1>f DEF MWWordUnaligned
<1>7. CASE MWHalfUnalignedRest
  BY <1>7, <1>a, <1>d, <1>e DEF MWHalfUnalignedRest
<1>8. CASE MWWordRest
  BY <1>8, <1>a, <1>c, <1>d, <1>e DEF MWWordRest
<1>9. CASE MWWordUnalignedMiddle
  BY <1>9, <1>a, <1>c, <1>d DEF MWWordUnalignedMiddle
<1>10. CASE MWWordUnalignedFish
  BY <1>10, <1>a, <1>g, <1>d, <1>e DEF MWWordUnalignedFish
<1> QED
  BY <1>1, <1>2, <1>3, <1>4, <1>5, <1>6, <1>7, <1>8, <1>9, <1>10 DEF MMUWriteTick

LEMMA UARTConnTickType ==
  ASSUME UARTConnTypeOK,
         NEW rreq \in ReadReq, NEW wreq \in WriteReq, NEW rx \in Byte \cup {NoByte},
         UARTConnTick(rreq, wreq, rx)
  PROVE  UARTConnTypeOK'
<1> USE DEF UARTConnTypeOK
<1>1. UARTReadTick(rreq, rx) /\ UARTWriteTick(wreq)
  BY DEF UARTConnTick
<1>2. uc_wrvalid' \in BOOLEAN /\ uc_wrpayload' \in Byte
  <2>1. wreq.valid \in BOOLEAN /\ wreq.data[0] \in Byte
    BY DEF WriteReq, Lanes, Lane
  <2> QED BY <1>1, <2>1 DEF UARTWriteTick
<1>3. /\ uc_state' \in {"init", "deassert"} /\ uc_rdready' \in BOOLEAN
      /\ uc_valid' \in BOOLEAN /\ uc_payload' \in Byte
  <2>1. CASE UCIdle(rreq)
    BY <2>1 DEF UCIdle, uartReadVars
  <2>2. CASE UCPop(rreq, rx)
    BY <2>2 DEF UCPop, Respond
  <2>3. CASE UCNothing(rreq, rx)
    BY <2>3, Constants DEF UCNothing, Respond
  <2>4. CASE UCDeassert
    BY <2>4 DEF UCDeassert
  <2> QED BY <1>1, <2>1, <2>2, <2>3, <2>4 DEF UARTReadTick
<1> QED BY <1>2, <1>3

\* What the bus sees of the UART's streams.
LEMMA RxWireType == StreamsTypeOK => RxWire \in Byte \cup {NoByte}
<1> SUFFICES ASSUME StreamsTypeOK, rx_fifo # <<>> PROVE Head(rx_fifo) \in Byte
  BY DEF RxWire
<1> QED BY DEF StreamsTypeOK, IsQueue

LEMMA PopType == \A q : IsQueue(q) => IsQueue(Pop(q))
<1> SUFFICES ASSUME NEW q, IsQueue(q), q # <<>> PROVE IsQueue(Tail(q))
  BY DEF Pop
<1>1. q \in Seq(Byte) /\ Len(q) <= FifoDepth
  BY DEF IsQueue
<1>2. Tail(q) \in Seq(Byte) /\ Len(Tail(q)) = Len(q) - 1 /\ Len(q) \in Nat
  BY <1>1
<1> QED BY <1>1, <1>2, FifoAssumption DEF IsQueue

LEMMA PushType == \A q, byte : IsQueue(q) /\ byte \in Byte => IsQueue(Push(q, byte))
<1> SUFFICES ASSUME NEW q, NEW byte \in Byte, IsQueue(q), Len(q) < FifoDepth
             PROVE  IsQueue(Append(q, byte))
  BY DEF Push
<1>1. q \in Seq(Byte)
  BY DEF IsQueue
<1>2. Append(q, byte) \in Seq(Byte) /\ Len(Append(q, byte)) = Len(q) + 1 /\ Len(q) \in Nat
  BY <1>1
<1> QED BY <1>2, FifoAssumption DEF IsQueue

LEMMA StreamsTickType ==
  ASSUME StreamsTypeOK, NEW pop \in BOOLEAN, NEW push \in BOOLEAN, NEW byte \in Byte,
         StreamsTick(pop, push, byte)
  PROVE  StreamsTypeOK'
<1>1. IsQueue(tx_fifo)'
  <2> DEFINE t == IF push THEN Push(tx_fifo, byte) ELSE tx_fifo
  <2>1. IsQueue(t)
    BY PushType DEF StreamsTypeOK
  <2>2. tx_fifo' \in {t, Pop(t)}
    BY DEF StreamsTick, Departures
  <2> HIDE DEF t
  <2>3. IsQueue(t) /\ IsQueue(Pop(t))
    BY <2>1, PopType
  <2> QED BY <2>2, <2>3
<1>2. IsQueue(rx_fifo)'
  <2> DEFINE left == IF pop THEN Pop(rx_fifo) ELSE rx_fifo
  <2>1. IsQueue(left)
    BY PopType DEF StreamsTypeOK
  <2>2. CASE rx_fifo' = left
    BY <2>1, <2>2
  <2>3. ASSUME Len(rx_fifo) < FifoDepth, NEW b \in RxByte, rx_fifo' = Append(left, b)
        PROVE  IsQueue(rx_fifo)'
    <3>1. rx_fifo \in Seq(Byte) /\ Len(rx_fifo) \in Nat
      BY DEF StreamsTypeOK, IsQueue
    <3>2. left \in Seq(Byte) /\ Len(left) <= Len(rx_fifo) /\ Len(left) \in Nat
      <4>1. CASE rx_fifo = <<>> \/ ~pop
        BY <4>1, <3>1 DEF Pop
      <4>2. CASE rx_fifo # <<>> /\ pop
        <5>1. Tail(rx_fifo) \in Seq(Byte) /\ Len(Tail(rx_fifo)) = Len(rx_fifo) - 1
              /\ Len(Tail(rx_fifo)) \in Nat
          BY <3>1, <4>2
        <5> QED BY <3>1, <4>2, <5>1 DEF Pop
      <4> QED BY <4>1, <4>2
    <3>3. b \in Byte
      BY FifoAssumption
    <3> HIDE DEF left
    <3>4. Append(left, b) \in Seq(Byte) /\ Len(Append(left, b)) = Len(left) + 1
      BY <3>2, <3>3
    <3> QED BY <2>3, <3>1, <3>2, <3>4, FifoAssumption DEF IsQueue
  <2>4. \/ rx_fifo' = left
        \/ Len(rx_fifo) < FifoDepth /\ \E b \in RxByte : rx_fifo' = Append(left, b)
    BY DEF StreamsTick
  <2> QED BY <2>2, <2>3, <2>4
<1> QED BY <1>1, <1>2 DEF StreamsTypeOK
-----------------------------------------------------------------------------
\* The types of the MMU survive an edge of the clock, whatever is on its buses.
LEMMA MMUTickType ==
  ASSUME MMUTypeOK, StreamsTypeOK, NEW rreq \in ReadReq, NEW wreq \in WriteReq,
         MMUTick(rreq, wreq, RxWire)
  PROVE  MMUTypeOK'
<1> USE DEF MMUTypeOK
<1>1. SysmemTypeOK'
  BY SysmemTickType DEF MMUTick, MMUReadTypeOK, MMUWriteTypeOK
<1>2. MMUReadTypeOK'
  <2>1. Routed(ToSysmem(rreq.addr), rreq, NoRead) \in ReadReq
    BY Constants DEF Routed
  <2> QED BY <2>1, MMUReadTickType DEF MMUTick, SysmemTypeOK
<1>3. MMUWriteTypeOK'
  <2>1. Routed(ToSysmem(wreq.addr), wreq, NoWrite) \in WriteReq
    BY Constants DEF Routed
  <2> QED BY <2>1, MMUWriteTickType DEF MMUTick
<1>4. UARTConnTypeOK'
  <2>1. /\ Routed(ToUart(rreq.addr), rreq, NoRead) \in ReadReq
        /\ Routed(ToUart(wreq.addr), wreq, NoWrite) \in WriteReq
    BY Constants DEF Routed
  <2> QED BY <2>1, UARTConnTickType, RxWireType DEF MMUTick
<1> QED BY <1>1, <1>2, <1>3, <1>4

LEMMA MMUInitType ==
  ASSUME MMUInit, sysmem \in [MemByte -> Byte]
  PROVE  MMUTypeOK
<1>1. SysmemTypeOK
  BY Constants DEF MMUInit, SysmemTypeOK
<1>2. 0 \in CellAddr /\ BYTE \in AccessWidth
  BY Constants DEF CellAddr, AccessWidth, BYTE
<1>3. MMUReadTypeOK
  BY <1>2, Constants DEF MMUInit, MMUReadInit, MMUReadTypeOK, MMUReadState
<1>4. MMUWriteTypeOK
  BY <1>2, Constants DEF MMUInit, MMUWriteInit, MMUWriteTypeOK, MMUWriteState
<1>5. UARTConnTypeOK
  BY Constants DEF MMUInit, UARTConnInit, UARTConnTypeOK
<1> QED BY <1>1, <1>3, <1>4, <1>5 DEF MMUTypeOK

LEMMA StreamsInitType == StreamsInit => StreamsTypeOK
BY FifoAssumption DEF StreamsInit, StreamsTypeOK, IsQueue
-----------------------------------------------------------------------------
(* What becomes of the machines' states. *)

\* A MMURead that is idle and not asked stays as it is.
LEMMA ReadQuiet ==
  ASSUME mr_state = "init", NEW req, ~req.valid, MMUReadTick(req)
  PROVE  UNCHANGED mmuReadVars
BY DEF MMUReadTick, MRIdle, MRAccept, MRPipe, MRColl, MRColl0, MRColl1UnalignedHalf,
       MRColl1AlignedWord, MRColl1UnalignedWord, MRColl2

\* valid stands only in the state "init".
LEMMA ReadValid ==
  ASSUME mr_valid => mr_state = "init", NEW req, MMUReadTick(req)
  PROVE  mr_valid' => mr_state' = "init"
BY DEF MMUReadTick, MRIdle, MRAccept, MRPipe, MRColl, MRColl0, MRColl1UnalignedHalf,
       MRColl1AlignedWord, MRColl1UnalignedWord, MRColl2, Deliver, mmuReadVars

\* A MMUWrite that is idle and not asked writes nothing.
LEMMA WriteQuiet ==
  ASSUME mw_state = "init", NEW req, ~req.valid, MMUWriteTick(req)
  PROVE  mw_state' = "init" /\ wport_en' = {}
BY DEF MMUWriteTick, MWIdle, MWByte, MWHalf, MWHalfUnaligned, MWWord, MWWordUnaligned,
       MWHalfUnalignedRest, MWWordRest, MWWordUnalignedMiddle, MWWordUnalignedFish,
       Accepts, Finish

\* After any edge, ready says that the machine is in its state "init".
LEMMA WriteReadyTracks ==
  ASSUME NEW req, MMUWriteTick(req)
  PROVE  mw_ready' <=> mw_state' = "init"
<1>1. Finish => (mw_ready' <=> mw_state' = "init")
  BY DEF Finish
<1>2. \A s \in {"half.unaligned", "word", "word.unaligned"} :
        Continue(req, s) => (mw_ready' <=> mw_state' = "init")
  BY DEF Continue
<1> QED
  BY <1>1, <1>2
  DEF MMUWriteTick, MWIdle, MWByte, MWHalf, MWHalfUnaligned, MWWord, MWWordUnaligned,
      MWHalfUnalignedRest, MWWordRest, MWWordUnalignedMiddle, MWWordUnalignedFish

\* The peripheral leaves its state "init" for a request, and only for one cycle.
LEMMA UARTLeavesInit ==
  ASSUME NEW rreq, NEW wreq, NEW rx, UARTConnTick(rreq, wreq, rx), uc_state' # "init"
  PROVE  uc_state = "init" /\ rreq.valid
BY DEF UARTConnTick, UARTReadTick, UCIdle, UCPop, UCNothing, UCDeassert, uartReadVars
-----------------------------------------------------------------------------
(* Addresses.  The bytes an access names, as halves of cells. *)

\* An address, as the cell and the half of the cell it names.
FirstByte(addr) == 2 * CellOfAddr(addr) + (addr % 2)

LEMMA AddressParts ==
  ASSUME NEW addr \in Word
  PROVE  /\ CellOfAddr(addr) \in 0 .. Span - 1
         /\ addr % 2 \in 0 .. 1
         /\ FirstByte(addr) \in 0 .. 2 * Span - 1
         /\ addr % (2 * Span) = FirstByte(addr)
<1>1. Span \in Nat \ {0}
  BY DepthAssumption
<1>2. PICK q \in Nat, p \in 0 .. 1 : addr = 2 * q + p /\ q = addr \div 2 /\ p = addr % 2
  BY Sizes DEF Word
<1>3. PICK c \in Int, h \in 0 .. Span - 1 : q = Span * c + h /\ h = q % Span
  BY <1>1
<1>4. CellOfAddr(addr) = h /\ addr % 2 = p /\ FirstByte(addr) = 2 * h + p
  BY <1>2, <1>3 DEF CellOfAddr, FirstByte
<1>5. 2 * h + p \in 0 .. 2 * Span - 1 /\ 2 * Span \in Nat \ {0}
  BY <1>1
<1>6. addr = (2 * Span) * c + (2 * h + p)
  <2>1. addr = 2 * (Span * c + h) + p
    BY <1>2, <1>3
  <2>2. 2 * (Span * c + h) = (2 * Span) * c + 2 * h
    BY <1>1
  <2> QED BY <1>1, <2>1, <2>2
<1>7. addr \in Int
  BY <1>2
<1>8. addr % (2 * Span) = 2 * h + p
  BY <1>5, <1>6, <1>7, DivMod
<1> QED BY <1>4, <1>5, <1>8

\* Which byte of memory each lane of an access is, and which lane each byte: memory is a
\* circle of 2 * Span bytes.
LEMMA LanePlaces ==
  ASSUME NEW addr \in Word
  PROVE  LET first == FirstByte(addr) IN
         /\ \A k \in Lane : ByteIndex(addr, k) =
              IF first + k < 2 * Span THEN first + k ELSE first + k - 2 * Span
         /\ \A i \in 0 .. 2 * Span - 1 : LaneOf(addr, i) =
              IF i >= first THEN i - first ELSE i - first + 2 * Span
<1> DEFINE n == 2 * Span
<1>1. n \in Nat \ {0} /\ n >= 4
  BY DepthAssumption
<1>2. addr \in Int /\ addr % n = FirstByte(addr)
  BY Sizes, AddressParts DEF Word
<1> HIDE DEF n
<1>3. ASSUME NEW k \in Lane
      PROVE  ByteIndex(addr, k) = IF FirstByte(addr) + k < n THEN FirstByte(addr) + k
                                  ELSE FirstByte(addr) + k - n
  <2>1. k \in 0 .. n /\ addr + k \in Int
    BY <1>1, <1>2 DEF Lane
  <2>2. (addr + k) % n = IF (addr % n) + k < n THEN (addr % n) + k ELSE (addr % n) + k - n
    BY <1>1, <1>2, <2>1, Forwards
  <2> QED BY <1>2, <2>2 DEF ByteIndex, n
<1>4. ASSUME NEW i \in 0 .. n - 1
      PROVE  LaneOf(addr, i) = IF i >= FirstByte(addr) THEN i - FirstByte(addr)
                               ELSE i - FirstByte(addr) + n
  <2>1. i - addr \in Int
    BY <1>2
  <2>2. (i - addr) % n = IF i >= addr % n THEN i - (addr % n) ELSE i - (addr % n) + n
    BY <1>1, <1>2, <2>1, Backwards
  <2> QED BY <1>2, <2>2 DEF LaneOf, n
<1> QED BY <1>3, <1>4 DEF n

\* The cells after a cell.
LEMMA NextCells ==
  ASSUME NEW h \in 0 .. Span - 1
  PROVE  /\ (h + 1) % Span = IF h + 1 < Span THEN h + 1 ELSE h + 1 - Span
         /\ (h + 2) % Span = IF h + 2 < Span THEN h + 2 ELSE h + 2 - Span
         /\ (((h + 1) % Span) + 1) % Span = (h + 2) % Span
<1>1. Span \in Nat /\ Span > 1
  BY DepthAssumption
<1>2. ASSUME NEW g \in 0 .. Span - 1, NEW k \in {1, 2}
      PROVE  (g + k) % Span = IF g + k < Span THEN g + k ELSE g + k - Span
  <2>1. g + k < Span => g + k = Span * 0 + (g + k) /\ g + k \in 0 .. Span - 1
    BY <1>1
  <2>2. ~(g + k < Span) => g + k = Span * 1 + (g + k - Span) /\ g + k - Span \in 0 .. Span - 1
    BY <1>1
  <2>3. g + k \in Int /\ 0 \in Int /\ 1 \in Int /\ Span \in Nat \ {0}
    BY <1>1
  <2> QED BY <2>1, <2>2, <2>3, DivMod
<1>3. (h + 1) % Span \in 0 .. Span - 1
  BY <1>1
<1>4. /\ (h + 1) % Span = IF h + 1 < Span THEN h + 1 ELSE h + 1 - Span
      /\ (h + 2) % Span = IF h + 2 < Span THEN h + 2 ELSE h + 2 - Span
  BY <1>2
<1>5. \A g \in 0 .. Span - 1 : (g + 1) % Span = IF g + 1 < Span THEN g + 1 ELSE g + 1 - Span
  BY <1>2
<1>6. (((h + 1) % Span) + 1) % Span = IF ((h + 1) % Span) + 1 < Span THEN ((h + 1) % Span) + 1
                                    ELSE ((h + 1) % Span) + 1 - Span
  BY <1>3, <1>5
<1> QED BY <1>1, <1>4, <1>6

LEMMA SizeValues ==
  /\ BYTE = 0 /\ HALF = 1 /\ WORD = 2
  /\ Size(BYTE) = 1 /\ Size(HALF) = 2 /\ Size(WORD) = 4 /\ Size(3) = 1
BY DEF BYTE, HALF, WORD, Size

\* Distances on the circle of bytes, in cells and halves.
LEMMA Circle ==
  ASSUME NEW s \in Nat, s > 1,
         NEW c \in 0 .. s - 1, NEW b \in {0, 1}, NEW h \in 0 .. s - 1, NEW p \in {0, 1},
         NEW l \in Int, l = IF 2 * c + b >= 2 * h + p THEN 2 * c + b - (2 * h + p)
                                    ELSE 2 * c + b - (2 * h + p) + 2 * s,
         NEW g \in Int, g = IF h + 1 < s THEN h + 1 ELSE h + 1 - s,
         NEW k \in Int, k = IF h + 2 < s THEN h + 2 ELSE h + 2 - s
  PROVE  /\ l \in Nat
         /\ p = 0 =>
              /\ l = 0 <=> c = h /\ b = 0
              /\ l = 1 <=> c = h /\ b = 1
              /\ l = 2 <=> c = g /\ b = 0
              /\ l = 3 <=> c = g /\ b = 1
         /\ p = 1 =>
              /\ l = 0 <=> c = h /\ b = 1
              /\ l = 1 <=> c = g /\ b = 0
              /\ l = 2 <=> c = g /\ b = 1
              /\ l = 3 <=> c = k /\ b = 0
OBVIOUS

\* The byte of a cell that each lane of an access is, for an aligned address and another.
LEMMA LaneCells ==
  ASSUME NEW addr \in Word, NEW i \in MemByte
  PROVE  LET l == LaneOf(addr, i)
             h == CellOfAddr(addr)
             At(cell, half) == i \div 2 = cell /\ i % 2 = half
         IN /\ l \in Nat
            /\ i \div 2 \in 0 .. Span - 1 /\ i % 2 \in {0, 1}
            /\ addr % 2 = 0 =>
                 /\ l = 0 <=> At(h, 0)
                 /\ l = 1 <=> At(h, 1)
                 /\ l = 2 <=> At((h + 1) % Span, 0)
                 /\ l = 3 <=> At((h + 1) % Span, 1)
            /\ addr % 2 = 1 =>
                 /\ l = 0 <=> At(h, 1)
                 /\ l = 1 <=> At((h + 1) % Span, 0)
                 /\ l = 2 <=> At((h + 1) % Span, 1)
                 /\ l = 3 <=> At((h + 2) % Span, 0)
<1>1. Span \in Nat /\ Span > 1 /\ Depth <= Span /\ Depth \in Nat
  BY DepthAssumption
<1>2. PICK c \in 0 .. Span - 1, b \in {0, 1} : i = 2 * c + b /\ c = i \div 2 /\ b = i % 2
  BY <1>1 DEF MemByte
<1>3. PICK h \in 0 .. Span - 1, p \in {0, 1}, f \in 0 .. 2 * Span - 1 :
        h = CellOfAddr(addr) /\ p = addr % 2 /\ f = 2 * h + p /\ f = FirstByte(addr)
  BY AddressParts DEF FirstByte
<1>4. i \in 0 .. 2 * Span - 1
  BY <1>1 DEF MemByte
<1>5. LaneOf(addr, i) = IF i >= f THEN i - f ELSE i - f + 2 * Span
  BY <1>3, <1>4, LanePlaces
<1>6. PICK g \in Int, k \in Int :
        /\ g = (h + 1) % Span /\ k = (h + 2) % Span
        /\ g = IF h + 1 < Span THEN h + 1 ELSE h + 1 - Span
        /\ k = IF h + 2 < Span THEN h + 2 ELSE h + 2 - Span
  BY <1>1, NextCells
<1>7. PICK l \in Int : /\ l = LaneOf(addr, i)
                      /\ l = IF 2 * c + b >= 2 * h + p THEN 2 * c + b - (2 * h + p)
                            ELSE 2 * c + b - (2 * h + p) + 2 * Span
  <2>1. LaneOf(addr, i) \in Int
    BY <1>1, <1>3, <1>4, <1>5
  <2> QED BY <1>2, <1>3, <1>5, <2>1
<1>8. /\ l \in Nat
      /\ p = 0 =>
           /\ l = 0 <=> c = h /\ b = 0
           /\ l = 1 <=> c = h /\ b = 1
           /\ l = 2 <=> c = g /\ b = 0
           /\ l = 3 <=> c = g /\ b = 1
      /\ p = 1 =>
           /\ l = 0 <=> c = h /\ b = 1
           /\ l = 1 <=> c = g /\ b = 0
           /\ l = 2 <=> c = g /\ b = 1
           /\ l = 3 <=> c = k /\ b = 0
  BY <1>1, <1>6, <1>7, Circle
<1> QED BY <1>2, <1>3, <1>6, <1>7, <1>8
-----------------------------------------------------------------------------
(* Writing. *)

\* The writes of cells that MMUWrite makes of a request are the write of its bytes.
LEMMA CellWrites ==
  ASSUME NEW mem \in [MemByte -> Byte], NEW addr \in Word, NEW data \in Lanes
  PROVE  LET h == CellOfAddr(addr)
             g == (h + 1) % Span
             k == (h + 2) % Span
         IN /\ Written(mem, h, CellOf(data, 0, 0), {addr % 2}) = WriteBytes(mem, addr, BYTE, data)
            /\ addr % 2 = 0 =>
                 /\ Written(mem, h, CellOf(data, 0, 1), {0, 1}) = WriteBytes(mem, addr, HALF, data)
                 /\ Written(Written(mem, h, CellOf(data, 0, 1), {0, 1}),
                            g, CellOf(data, 2, 3), {0, 1}) = WriteBytes(mem, addr, WORD, data)
            /\ addr % 2 = 1 =>
                 /\ Written(Written(mem, h, CellOf(data, 1, 0), {1}),
                            g, CellOf(data, 1, 0), {0}) = WriteBytes(mem, addr, HALF, data)
                 /\ Written(Written(Written(mem, h, [ZeroCell EXCEPT ![1] = data[0]], {1}),
                                    g, CellOf(data, 1, 2), {0, 1}),
                            k, CellOf(data, 3, 3), {0}) = WriteBytes(mem, addr, WORD, data)
<1> DEFINE h == CellOfAddr(addr)
           g == (h + 1) % Span
           k == (h + 2) % Span
           l(i) == LaneOf(addr, i)
           At(i, cell, half) == i \div 2 = cell /\ i % 2 = half
<1>1. addr % 2 \in {0, 1} /\ h # g /\ g # k
  BY AddressParts, NextCells, DepthAssumption
<1>2. \A i \in MemByte :
        /\ l(i) \in Nat /\ i % 2 \in {0, 1}
        /\ addr % 2 = 0 =>
             /\ l(i) = 0 <=> At(i, h, 0)
             /\ l(i) = 1 <=> At(i, h, 1)
             /\ l(i) = 2 <=> At(i, g, 0)
             /\ l(i) = 3 <=> At(i, g, 1)
        /\ addr % 2 = 1 =>
             /\ l(i) = 0 <=> At(i, h, 1)
             /\ l(i) = 1 <=> At(i, g, 0)
             /\ l(i) = 2 <=> At(i, g, 1)
             /\ l(i) = 3 <=> At(i, k, 0)
  BY LaneCells
<1>3. \A i \in MemByte : /\ l(i) < 1 <=> l(i) = 0
                         /\ l(i) < 2 <=> l(i) \in {0, 1}
                         /\ l(i) < 4 <=> l(i) \in {0, 1, 2, 3}
  BY <1>2
<1>4. \A x, y \in Lane : CellOf(data, x, y)[0] = data[x] /\ CellOf(data, x, y)[1] = data[y]
  BY DEF CellOf
<1>5. [ZeroCell EXCEPT ![1] = data[0]][1] = data[0]
  BY DEF ZeroCell
<1>6. 0 \in Lane /\ 1 \in Lane /\ 2 \in Lane /\ 3 \in Lane
  BY DEF Lane
<1>7. \A w : WriteBytes(mem, addr, w, data) =
        [i \in MemByte |-> IF w # 3 /\ l(i) < Size(w) THEN data[l(i)] ELSE mem[i]]
  BY DEF WriteBytes
<1> HIDE DEF h, g, k, l
<1>8. Written(mem, h, CellOf(data, 0, 0), {addr % 2}) = WriteBytes(mem, addr, BYTE, data)
  BY <1>1, <1>2, <1>3, <1>4, <1>6, <1>7, SizeValues DEF Written
<1>9. ASSUME addr % 2 = 0
      PROVE  /\ Written(mem, h, CellOf(data, 0, 1), {0, 1}) = WriteBytes(mem, addr, HALF, data)
             /\ Written(Written(mem, h, CellOf(data, 0, 1), {0, 1}),
                        g, CellOf(data, 2, 3), {0, 1}) = WriteBytes(mem, addr, WORD, data)
  BY <1>1, <1>2, <1>3, <1>4, <1>6, <1>7, <1>9, SizeValues DEF Written
<1>10. ASSUME addr % 2 = 1
      PROVE  Written(Written(mem, h, CellOf(data, 1, 0), {1}),
                     g, CellOf(data, 1, 0), {0}) = WriteBytes(mem, addr, HALF, data)
  BY <1>1, <1>2, <1>3, <1>4, <1>6, <1>7, <1>10, SizeValues DEF Written
<1>11. ASSUME addr % 2 = 1
      PROVE  Written(Written(Written(mem, h, [ZeroCell EXCEPT ![1] = data[0]], {1}),
                             g, CellOf(data, 1, 2), {0, 1}),
                     k, CellOf(data, 3, 3), {0}) = WriteBytes(mem, addr, WORD, data)
  BY <1>1, <1>2, <1>3, <1>4, <1>5, <1>6, <1>7, <1>11, SizeValues DEF Written
<1> QED BY <1>8, <1>9, <1>10, <1>11 DEF h, g, k

LEMMA WrittenType ==
  ASSUME NEW mem \in [MemByte -> Byte], NEW h, NEW data \in Cells, NEW en
  PROVE  Written(mem, h, data, en) \in [MemByte -> Byte]
<1>1. \A i \in MemByte : data[i % 2] \in Byte
  BY Constants DEF MemByte, Cells
<1> QED BY <1>1 DEF Written

LEMMA WritesNothing ==
  ASSUME NEW mem \in [MemByte -> Byte], NEW h, NEW data
  PROVE  Written(mem, h, data, {}) = mem
BY DEF Written

\* What is left to write of a write that has been accepted stays what it is while the
\* machine writes it, and a write that is accepted is at once as good as made.
LEMMA WriteDrains ==
  ASSUME SysmemTypeOK, MMUWriteTypeOK, NEW req \in WriteReq,
         MMUWriteTick(req),
         sysmem' = Written(sysmem, wport_addr, wport_data, wport_en)
  PROVE  Drained' = IF mw_state = "init" /\ req.valid
                      THEN WriteBytes(Drained, req.addr, req.width, req.data) ELSE Drained
<1> DEFINE now == Written(sysmem, wport_addr, wport_data, wport_en)
           h == CellOfAddr(req.addr)
<1> USE DEF MMUWriteTypeOK
<1>1. now \in [MemByte -> Byte] /\ sysmem' = now
  BY WrittenType DEF SysmemTypeOK
<1>2. mw_state = "init" => Drained = now
  BY DEF Drained
<1>3. req.addr \in Word /\ req.data \in Lanes /\ req.width \in AccessWidth
  BY DEF WriteReq
<1>4. \A addr, data, en : Finish /\ Port(addr, data, en) => Drained' = Written(now, addr, data, en)
  BY <1>1 DEF Finish, Port, Drained
<1> DEFINE Goal == Drained' = IF mw_state = "init" /\ req.valid
                                THEN WriteBytes(Drained, req.addr, req.width, req.data)
                                ELSE Drained
<1>5. CASE MWIdle(req)
  <2>1. Drained' = now
    BY <1>1, <1>5, WritesNothing DEF MWIdle, Finish, Drained
  <2>2. req.valid => WriteBytes(now, req.addr, req.width, req.data) = now
    <3>1. req.valid => req.width = 3
      BY <1>3, <1>5, SizeValues DEF MWIdle, AccessWidth
    <3> QED BY <1>1, <3>1 DEF WriteBytes
  <2> QED BY <1>2, <1>5, <2>1, <2>2 DEF MWIdle
<1>6. CASE MWByte(req)
  <2>1. Drained' = Written(now, h, CellOf(req.data, 0, 0), {req.addr % 2})
    BY <1>4, <1>6 DEF MWByte
  <2> QED BY <1>1, <1>2, <1>3, <1>6, <2>1, CellWrites DEF MWByte, Accepts
<1>7. CASE MWHalf(req)
  <2>1. Drained' = Written(now, h, CellOf(req.data, 0, 1), {0, 1})
    BY <1>4, <1>7 DEF MWHalf
  <2> QED BY <1>1, <1>2, <1>3, <1>7, <2>1, CellWrites DEF MWHalf, Accepts
<1>8. CASE MWHalfUnaligned(req)
  <2>1. Drained' = Written(Written(now, h, CellOf(req.data, 1, 0), {1}),
                           (h + 1) % Span, CellOf(req.data, 1, 0), {0})
    BY <1>1, <1>8 DEF MWHalfUnaligned, Continue, Port, Drained, NextWCell
  <2>2. mw_state = "init" /\ req.valid /\ req.width = HALF /\ req.addr % 2 = 1
    BY <1>8 DEF MWHalfUnaligned, Accepts
  <2>3. Drained' = WriteBytes(now, req.addr, HALF, req.data)
    BY <1>1, <1>3, <2>1, <2>2, CellWrites
  <2> QED BY <1>2, <2>2, <2>3
<1>9. CASE MWWord(req)
  <2>1. Drained' = Written(Written(now, h, CellOf(req.data, 0, 1), {0, 1}),
                           (h + 1) % Span, CellOf(req.data, 2, 3), {0, 1})
    BY <1>1, <1>9 DEF MWWord, Continue, Port, Drained, NextWCell
  <2> QED BY <1>1, <1>2, <1>3, <1>9, <2>1, CellWrites DEF MWWord, Accepts
<1>10. CASE MWWordUnaligned(req)
  <2>1. Drained' = Written(Written(Written(now, h, [ZeroCell EXCEPT ![1] = req.data[0]], {1}),
                                   (h + 1) % Span, CellOf(req.data, 1, 2), {0, 1}),
                           (h + 2) % Span, CellOf(req.data, 3, 3), {0})
    BY <1>1, <1>10 DEF MWWordUnaligned, Continue, Port, Drained, NextWCell
  <2>2. mw_state = "init" /\ req.valid /\ req.width = WORD /\ req.addr % 2 = 1
    BY <1>10 DEF MWWordUnaligned, Accepts
  <2>3. Drained' = WriteBytes(now, req.addr, WORD, req.data)
    BY <1>1, <1>3, <2>1, <2>2, CellWrites
  <2> QED BY <1>2, <2>2, <2>3
<1>11. CASE MWHalfUnalignedRest
  <2>1. Drained = Written(now, NextWCell, wport_data, {0})
    BY <1>11 DEF MWHalfUnalignedRest, Drained
  <2>2. Drained' = Written(now, NextWCell, wport_data, {0})
    BY <1>4, <1>11 DEF MWHalfUnalignedRest
  <2> QED BY <1>11, <2>1, <2>2 DEF MWHalfUnalignedRest
<1>12. CASE MWWordRest
  <2>1. Drained = Written(now, NextWCell, CellOf(mw_payload, 2, 3), {0, 1})
    BY <1>12 DEF MWWordRest, Drained
  <2>2. Drained' = Written(now, NextWCell, CellOf(mw_payload, 2, 3), {0, 1})
    BY <1>4, <1>12 DEF MWWordRest
  <2> QED BY <1>12, <2>1, <2>2 DEF MWWordRest
<1>13. CASE MWWordUnalignedMiddle
  <2>1. NextWCell \in 0 .. Span - 1 /\ (NextWCell + 1) % Span = (wport_addr + 2) % Span
    BY NextCells, Constants DEF NextWCell, CellAddr
  <2> QED BY <1>1, <1>13, <2>1 DEF MWWordUnalignedMiddle, Port, Drained, NextWCell
<1>14. CASE MWWordUnalignedFish
  <2>1. Drained = Written(now, NextWCell, CellOf(mw_payload, 3, 3), {0})
    BY <1>14 DEF MWWordUnalignedFish, Drained
  <2>2. Drained' = Written(now, NextWCell, [ZeroCell EXCEPT ![0] = mw_payload[3]], {0})
    BY <1>4, <1>14 DEF MWWordUnalignedFish
  <2>3. [ZeroCell EXCEPT ![0] = mw_payload[3]][0] = CellOf(mw_payload, 3, 3)[0]
    BY DEF ZeroCell, CellOf
  <2>4. Drained' = Drained
    BY <2>1, <2>2, <2>3 DEF Written
  <2> QED BY <1>14, <2>4 DEF MWWordUnalignedFish
<1> QED BY <1>5, <1>6, <1>7, <1>8, <1>9, <1>10, <1>11, <1>12, <1>13, <1>14 DEF MMUWriteTick

LEMMA DrainedType ==
  ASSUME SysmemTypeOK, MMUWriteTypeOK
  PROVE  Drained \in [MemByte -> Byte]
<1> USE DEF MMUWriteTypeOK
<1>1. sysmem \in [MemByte -> Byte]
  BY DEF SysmemTypeOK
<1>2. \A x, y \in Lane : CellOf(mw_payload, x, y) \in Cells
  BY LaneTypes
<1>3. 1 \in Lane /\ 2 \in Lane /\ 3 \in Lane
  BY DEF Lane
<1> QED BY <1>1, <1>2, <1>3, WrittenType DEF Drained, MMUWriteState
-----------------------------------------------------------------------------
(* Reading. *)

\* The byte of a cell that each lane of an access names.
LEMMA LaneBytes ==
  ASSUME NEW addr \in Word
  PROVE  LET h == CellOfAddr(addr)
             g == (h + 1) % Span
             k == (h + 2) % Span
         IN /\ addr % 2 = 0 =>
                 /\ ByteIndex(addr, 0) = 2 * h /\ ByteIndex(addr, 1) = 2 * h + 1
                 /\ ByteIndex(addr, 2) = 2 * g /\ ByteIndex(addr, 3) = 2 * g + 1
            /\ addr % 2 = 1 =>
                 /\ ByteIndex(addr, 0) = 2 * h + 1 /\ ByteIndex(addr, 1) = 2 * g
                 /\ ByteIndex(addr, 2) = 2 * g + 1 /\ ByteIndex(addr, 3) = 2 * k
<1>1. Span \in Nat /\ Span > 1
  BY DepthAssumption
<1>2. PICK h \in 0 .. Span - 1, p \in {0, 1}, f \in 0 .. 2 * Span - 1 :
        h = CellOfAddr(addr) /\ p = addr % 2 /\ f = 2 * h + p /\ f = FirstByte(addr)
  BY AddressParts DEF FirstByte
<1>3. PICK g \in Int, k \in Int :
        /\ g = (h + 1) % Span /\ k = (h + 2) % Span
        /\ g = IF h + 1 < Span THEN h + 1 ELSE h + 1 - Span
        /\ k = IF h + 2 < Span THEN h + 2 ELSE h + 2 - Span
  BY <1>1, NextCells
<1>4. \A j \in Lane : ByteIndex(addr, j) = IF f + j < 2 * Span THEN f + j ELSE f + j - 2 * Span
  BY <1>2, LanePlaces
<1>5. \A j \in Lane : ByteIndex(addr, j) = IF 2 * h + p + j < 2 * Span THEN 2 * h + p + j
                                            ELSE 2 * h + p + j - 2 * Span
  BY <1>2, <1>4
<1>6. 0 \in Lane /\ 1 \in Lane /\ 2 \in Lane /\ 3 \in Lane
  BY DEF Lane
<1>7. p = 0 => /\ ByteIndex(addr, 0) = 2 * h /\ ByteIndex(addr, 1) = 2 * h + 1
               /\ ByteIndex(addr, 2) = 2 * g /\ ByteIndex(addr, 3) = 2 * g + 1
  BY <1>1, <1>3, <1>5, <1>6
<1>8. p = 1 => /\ ByteIndex(addr, 0) = 2 * h + 1 /\ ByteIndex(addr, 1) = 2 * g
               /\ ByteIndex(addr, 2) = 2 * g + 1 /\ ByteIndex(addr, 3) = 2 * k
  BY <1>1, <1>3, <1>5, <1>6
<1> QED BY <1>2, <1>3, <1>7, <1>8

\* Cell j after the first cell of an access.
CellAhead(mem, addr, j) == CellIn(mem, (CellOfAddr(addr) + j) % Span)

LEMMA OrByte == \A a \in Byte : BitOr(a, 0) = a /\ BitOr(0, a) = a /\ BitOr(0, 0) = 0
<1>1. \A a \in Byte : a \in Int /\ BitAnd(a, 0) = 0 /\ BitAnd(0, a) = 0
  BY BitAndAssumption DEF Byte
<1> QED BY <1>1, Constants DEF BitOr

\* What MMURead makes of the cells it reads is the bytes it was asked for.
LEMMA CellReads ==
  ASSUME NEW mem \in [MemByte -> Byte], NEW addr \in Word
  PROVE  LET c == CellIn(mem, CellOfAddr(addr))
             d == CellAhead(mem, addr, 1)
             e == CellAhead(mem, addr, 2)
         IN /\ \A w \in {BYTE, 3} : ReadBytes(mem, addr, w) = ByteAt(0, c[addr % 2])
            /\ addr % 2 = 0 =>
                 /\ ReadBytes(mem, addr, HALF) = CellAt(0, c)
                 /\ ReadBytes(mem, addr, WORD) = OrLanes(CellAt(0, c), CellAt(2, d))
            /\ addr % 2 = 1 =>
                 /\ ReadBytes(mem, addr, HALF) = OrLanes(DropLow(CellAt(0, c)), ByteAt(1, d[0]))
                 /\ ReadBytes(mem, addr, WORD) =
                      OrLanes(OrLanes(DropLow(CellAt(0, c)), CellAt(1, d)), ByteAt(3, e[0]))
<1> DEFINE c == CellIn(mem, CellOfAddr(addr))
           d == CellAhead(mem, addr, 1)
           e == CellAhead(mem, addr, 2)
           b(k) == ByteOf(mem, ByteIndex(addr, k))
<1>1. addr % 2 \in {0, 1}
  BY AddressParts
<1>a. \A h \in Int : CellIn(mem, h)[0] = ByteOf(mem, 2 * h) /\ CellIn(mem, h)[1] = ByteOf(mem, 2 * h + 1)
  BY DEF CellIn
<1>b. /\ CellOfAddr(addr) \in Int
      /\ (CellOfAddr(addr) + 1) % Span \in Int /\ (CellOfAddr(addr) + 2) % Span \in Int
  BY AddressParts, DepthAssumption
<1>2. addr % 2 = 0 => b(0) = c[0] /\ b(1) = c[1] /\ b(2) = d[0] /\ b(3) = d[1]
  BY <1>a, <1>b, LaneBytes DEF CellAhead
<1>3. addr % 2 = 1 => b(0) = c[1] /\ b(1) = d[0] /\ b(2) = d[1] /\ b(3) = e[0]
  BY <1>a, <1>b, LaneBytes DEF CellAhead
<1>4. \A i : ByteOf(mem, i) \in Byte
  BY Constants DEF ByteOf
<1>5. c[0] \in Byte /\ c[1] \in Byte /\ d[0] \in Byte /\ d[1] \in Byte /\ e[0] \in Byte
  BY <1>4 DEF CellAhead, CellIn
<1>6. \A w : ReadBytes(mem, addr, w) = [k \in Lane |-> IF k < Size(w) THEN b(k) ELSE 0]
  BY DEF ReadBytes
<1>7. Lane = {0, 1, 2, 3}
  BY DEF Lane
<1> HIDE DEF b, c, d, e
<1>8. \A w \in {BYTE, 3} : ReadBytes(mem, addr, w) = ByteAt(0, c[addr % 2])
  BY <1>1, <1>2, <1>3, <1>6, <1>7, SizeValues DEF ByteAt
<1>9. ASSUME addr % 2 = 0 PROVE ReadBytes(mem, addr, HALF) = CellAt(0, c)
  BY <1>2, <1>6, <1>7, <1>9, SizeValues DEF CellAt
<1>10. ASSUME addr % 2 = 0 PROVE ReadBytes(mem, addr, WORD) = OrLanes(CellAt(0, c), CellAt(2, d))
  BY <1>2, <1>5, <1>6, <1>7, <1>10, SizeValues, OrByte DEF CellAt, OrLanes
<1>11. ASSUME addr % 2 = 1
       PROVE  ReadBytes(mem, addr, HALF) = OrLanes(DropLow(CellAt(0, c)), ByteAt(1, d[0]))
  BY <1>3, <1>5, <1>6, <1>7, <1>11, SizeValues, OrByte DEF CellAt, ByteAt, DropLow, OrLanes
<1>12. ASSUME addr % 2 = 1
       PROVE  ReadBytes(mem, addr, WORD) =
                OrLanes(OrLanes(DropLow(CellAt(0, c)), CellAt(1, d)), ByteAt(3, e[0]))
  BY <1>3, <1>5, <1>6, <1>7, <1>12, SizeValues, OrByte DEF CellAt, ByteAt, DropLow, OrLanes
<1> QED BY <1>8, <1>9, <1>10, <1>11, <1>12 DEF c, d, e

LEMMA ReadBytesType ==
  ASSUME NEW mem \in [MemByte -> Byte], NEW addr, NEW w
  PROVE  ReadBytes(mem, addr, w) \in Lanes
<1>1. \A i : ByteOf(mem, i) \in Byte
  BY Constants DEF ByteOf
<1> QED BY <1>1, Constants DEF ReadBytes, Lanes

\* The request needs more than the cell it begins in.
Spans(addr, width) == width = WORD \/ (width = HALF /\ addr % 2 = 1)

\* What MMURead has in each of its states of the bytes it was asked for, from the port's
\* address on, while the memory stands still.
Collected ==
  LET Cell(j) == CellAhead(sysmem, mr_addr, j)
      At(j) == rport_addr = (CellOfAddr(mr_addr) + j) % Span
      first == CellIn(sysmem, CellOfAddr(mr_addr))
      spans == Spans(mr_addr, mr_width)
  IN /\ mr_valid <=> mr_state = "init"
     /\ mr_state = "init" => mr_payload = ReadBytes(sysmem, mr_addr, mr_width)
     /\ mr_state = "pipe" => rport_addr = CellOfAddr(mr_addr)
     /\ mr_state = "coll" => ~spans /\ rport_data = first
     /\ mr_state = "coll0" => spans /\ rport_data = first /\ At(1)
     /\ mr_state = "coll1" =>
          spans /\ mr_payload = CellAt(0, first) /\ rport_data = Cell(1) /\ At(2)
     /\ mr_state = "coll2" =>
          /\ mr_width = WORD /\ mr_addr % 2 = 1
          /\ mr_payload = OrLanes(DropLow(CellAt(0, first)), CellAt(1, Cell(1)))
          /\ rport_data = Cell(2)

\* MMURead goes on collecting the bytes it was asked for, until it has them.
LEMMA ReadCollects ==
  ASSUME SysmemTypeOK, MMUReadTypeOK, NEW req \in ReadReq, MMUReadTick(req),
         rport_data' = CellIn(sysmem, rport_addr), sysmem' = sysmem,
         (mr_state = "init" /\ req.valid) \/ Collected
  PROVE  /\ Collected'
         /\ mr_state = "init" /\ req.valid => mr_addr' = req.addr /\ mr_width' = req.width
         /\ ~(mr_state = "init" /\ req.valid) => mr_addr' = mr_addr /\ mr_width' = mr_width
<1> DEFINE h == CellOfAddr(mr_addr)
           first == CellIn(sysmem, h)
           second == CellIn(sysmem, (h + 1) % Span)
           third == CellIn(sysmem, (h + 2) % Span)
<1>1. mr_addr \in Word /\ mr_width \in AccessWidth /\ sysmem \in [MemByte -> Byte]
      /\ mr_state \in MMUReadState
  BY DEF MMUReadTypeOK, SysmemTypeOK
<1>2. mr_addr % 2 \in {0, 1} /\ h \in 0 .. Span - 1
  BY <1>1, AddressParts
<1>3. (((h + 1) % Span) + 1) % Span = (h + 2) % Span
  BY <1>2, NextCells
<1>4. mr_width \in {BYTE, HALF, WORD, 3}
  BY <1>1, SizeValues DEF AccessWidth
<1>5. second = CellAhead(sysmem, mr_addr, 1) /\ third = CellAhead(sysmem, mr_addr, 2)
  BY DEF CellAhead
<1>6. /\ \A w \in {BYTE, 3} :
           ReadBytes(sysmem, mr_addr, w) = ByteAt(0, first[mr_addr % 2])
      /\ mr_addr % 2 = 0 =>
           /\ ReadBytes(sysmem, mr_addr, HALF) = CellAt(0, first)
           /\ ReadBytes(sysmem, mr_addr, WORD) = OrLanes(CellAt(0, first), CellAt(2, second))
      /\ mr_addr % 2 = 1 =>
           /\ ReadBytes(sysmem, mr_addr, HALF) =
                OrLanes(DropLow(CellAt(0, first)), ByteAt(1, second[0]))
           /\ ReadBytes(sysmem, mr_addr, WORD) =
                OrLanes(OrLanes(DropLow(CellAt(0, first)), CellAt(1, second)),
                        ByteAt(3, third[0]))
  BY <1>1, <1>5, CellReads
<1>7. Collected <=>
        /\ mr_valid <=> mr_state = "init"
        /\ mr_state = "init" => mr_payload = ReadBytes(sysmem, mr_addr, mr_width)
        /\ mr_state = "pipe" => rport_addr = h
        /\ mr_state = "coll" => ~Spans(mr_addr, mr_width) /\ rport_data = first
        /\ mr_state = "coll0" =>
             Spans(mr_addr, mr_width) /\ rport_data = first /\ rport_addr = (h + 1) % Span
        /\ mr_state = "coll1" =>
             /\ Spans(mr_addr, mr_width) /\ mr_payload = CellAt(0, first)
             /\ rport_data = second /\ rport_addr = (h + 2) % Span
        /\ mr_state = "coll2" =>
             /\ mr_width = WORD /\ mr_addr % 2 = 1
             /\ mr_payload = OrLanes(DropLow(CellAt(0, first)), CellAt(1, second))
             /\ rport_data = third
  BY <1>5 DEF Collected
<1>8. UNCHANGED <<mr_addr, mr_width>> =>
        (h' = h /\ first' = first /\ second' = second /\ third' = third
         /\ Spans(mr_addr, mr_width)' = Spans(mr_addr, mr_width)
         /\ ReadBytes(sysmem, mr_addr, mr_width)' = ReadBytes(sysmem, mr_addr, mr_width))
  OBVIOUS
<1>9. ASSUME UNCHANGED <<mr_addr, mr_width>>
      PROVE  Collected' <=>
        /\ mr_valid' <=> mr_state' = "init"
        /\ mr_state' = "init" => mr_payload' = ReadBytes(sysmem, mr_addr, mr_width)
        /\ mr_state' = "pipe" => rport_addr' = h
        /\ mr_state' = "coll" => ~Spans(mr_addr, mr_width) /\ rport_data' = first
        /\ mr_state' = "coll0" =>
             Spans(mr_addr, mr_width) /\ rport_data' = first /\ rport_addr' = (h + 1) % Span
        /\ mr_state' = "coll1" =>
             /\ Spans(mr_addr, mr_width) /\ mr_payload' = CellAt(0, first)
             /\ rport_data' = second /\ rport_addr' = (h + 2) % Span
        /\ mr_state' = "coll2" =>
             /\ mr_width = WORD /\ mr_addr % 2 = 1
             /\ mr_payload' = OrLanes(DropLow(CellAt(0, first)), CellAt(1, second))
             /\ rport_data' = third
  BY <1>5, <1>9 DEF Collected, CellAhead, Spans, ReadBytes
<1>10. rport_data' = CellIn(sysmem, rport_addr)
  OBVIOUS
<1>11. /\ rport_addr = h => rport_data' = first
       /\ rport_addr = (h + 1) % Span => rport_data' = second
       /\ rport_addr = (h + 2) % Span => rport_data' = third
  BY <1>10
<1> HIDE DEF h, first, second, third
<1>12. CASE MRIdle(req)
  <2>1. Collected /\ mr_state = "init" /\ UNCHANGED mmuReadVars
    BY <1>12 DEF MRIdle
  <2>2. Collected'
    BY <1>7, <1>9, <2>1 DEF mmuReadVars
  <2> QED BY <1>12, <2>1, <2>2 DEF MRIdle, mmuReadVars
<1>13. CASE MRAccept(req)
  BY <1>13 DEF MRAccept, Collected
<1>15. CASE MRPipe
  BY <1>4, <1>7, <1>9, <1>11, <1>15 DEF MRPipe, Spans, NextCell
<1>16. ASSUME mr_state # "init", Collected, Deliver(ReadBytes(sysmem, mr_addr, mr_width))
       PROVE  Collected' /\ UNCHANGED <<mr_addr, mr_width>>
  BY <1>9, <1>16 DEF Deliver
<1>17. CASE MRColl
  BY <1>2, <1>4, <1>6, <1>7, <1>16, <1>17, SizeValues DEF MRColl, Spans
<1>18. CASE MRColl0
  BY <1>3, <1>7, <1>9, <1>11, <1>18 DEF MRColl0, NextCell
<1>19. CASE MRColl1UnalignedHalf
  BY <1>6, <1>7, <1>16, <1>19, SizeValues DEF MRColl1UnalignedHalf, Spans
<1>20. CASE MRColl1AlignedWord
  BY <1>6, <1>7, <1>16, <1>20, SizeValues DEF MRColl1AlignedWord, Spans
<1>21. CASE MRColl1UnalignedWord
  BY <1>7, <1>9, <1>11, <1>21, SizeValues DEF MRColl1UnalignedWord, Spans
<1>22. CASE MRColl2
  BY <1>6, <1>7, <1>16, <1>22, SizeValues DEF MRColl2
<1> QED BY <1>12, <1>13, <1>15, <1>17, <1>18, <1>19, <1>20, <1>21, <1>22 DEF MMUReadTick
-----------------------------------------------------------------------------
(* How long the machines take. *)

\* How long the machines stay in each of their states: one edge, and where they go.
LEMMA ReadPaces ==
  ASSUME NEW req, MMUReadTick(req)
  PROVE  /\ mr_state = "init" /\ req.valid => mr_state' = "pipe"
         /\ mr_state = "pipe" => mr_state' = IF Spans(mr_addr, mr_width) THEN "coll0" ELSE "coll"
         /\ mr_state = "coll0" => mr_state' = "coll1"
         /\ mr_state = "coll1" =>
              mr_state' = IF mr_width # HALF /\ mr_addr % 2 = 1 THEN "coll2" ELSE "init"
         /\ mr_state \in {"coll", "coll2"} => mr_state' = "init"
BY DEF MMUReadTick, MRIdle, MRAccept, MRPipe, MRColl, MRColl0, MRColl1UnalignedHalf,
       MRColl1AlignedWord, MRColl1UnalignedWord, MRColl2, Deliver, Spans

LEMMA WritePaces ==
  ASSUME NEW req, MMUWriteTick(req)
  PROVE  /\ mw_state = "init" /\ req.valid =>
              mw_state' = CASE req.width = HALF /\ req.addr % 2 = 1 -> "half.unaligned"
                            [] req.width = WORD /\ req.addr % 2 = 1 -> "word.unaligned"
                            [] req.width = WORD /\ req.addr % 2 = 0 -> "word"
                            [] OTHER -> "init"
         /\ mw_state = "word.unaligned" => mw_state' = "word.unaligned.fish"
         /\ mw_state \in {"half.unaligned", "word", "word.unaligned.fish"} => mw_state' = "init"
BY SizeValues
DEF MMUWriteTick, MWIdle, MWByte, MWHalf, MWHalfUnaligned, MWWord, MWWordUnaligned,
    MWHalfUnalignedRest, MWWordRest, MWWordUnalignedMiddle, MWWordUnalignedFish,
    Accepts, Finish, Continue
-----------------------------------------------------------------------------
(* The UART's queues, with what the connection is about to do to them. *)

\* The queues, with what the connection is about to do to them in the next cycle.
RxLeft == IF uc_rdready THEN Pop(rx_fifo) ELSE rx_fifo

TxAll == IF uc_wrvalid THEN Push(tx_fifo, uc_wrpayload) ELSE tx_fifo

LEMMA PopShortens == \A q : IsQueue(q) => Len(Pop(q)) <= Len(q)
<1> SUFFICES ASSUME NEW q, IsQueue(q), q # <<>> PROVE Len(Tail(q)) <= Len(q)
  BY DEF Pop, IsQueue
<1>1. q \in Seq(Byte)
  BY DEF IsQueue
<1> QED BY <1>1

\* The line fills what is left of one queue, and drains the other.
LEMMA LineMoves ==
  ASSUME StreamsTypeOK, StreamsTick(uc_rdready, uc_wrvalid, uc_wrpayload)
  PROVE  /\ rx_fifo' \in Arrivals(RxLeft)
         /\ tx_fifo' \in Departures(TxAll)
<1>1. CASE rx_fifo' = RxLeft
  BY <1>1 DEF Arrivals, StreamsTick, TxAll
<1>2. CASE rx_fifo' # RxLeft
  <2>1. PICK b \in RxByte : rx_fifo' = Append(RxLeft, b) /\ Len(rx_fifo) < FifoDepth
    BY <1>2 DEF StreamsTick, RxLeft
  <2>2. Len(RxLeft) <= Len(rx_fifo) /\ Len(rx_fifo) \in Nat
    BY PopShortens DEF RxLeft, StreamsTypeOK, IsQueue
  <2>3. Len(RxLeft) \in Nat
    BY PopType DEF RxLeft, StreamsTypeOK, IsQueue
  <2>4. Len(RxLeft) < FifoDepth
    BY <2>1, <2>2, <2>3, FifoAssumption
  <2> QED BY <2>1, <2>4 DEF Arrivals, StreamsTick, TxAll
<1> QED BY <1>1, <1>2

\* A byte that arrives behind the one that is taken is one that arrives after it.
LEMMA PopOfArrival ==
  ASSUME NEW q, IsQueue(q), q # <<>>, NEW r \in Arrivals(q)
  PROVE  Pop(r) \in Arrivals(Pop(q))
<1>1. q \in Seq(Byte) /\ Len(q) \in Nat /\ Len(q) >= 1 /\ Len(q) <= FifoDepth
  BY DEF IsQueue
<1>2. CASE r = q
  BY <1>2 DEF Arrivals
<1>3. ASSUME Len(q) < FifoDepth, NEW b \in RxByte, r = Append(q, b)
      PROVE  Pop(r) \in Arrivals(Pop(q))
  <2>1. b \in Byte
    BY FifoAssumption
  <2>2. Tail(Append(q, b)) = Append(Tail(q), b) /\ Append(q, b) # <<>>
    BY <1>1, <2>1
  <2>3. Len(Tail(q)) = Len(q) - 1
    BY <1>1
  <2>4. Len(Tail(q)) < FifoDepth
    BY <1>1, <1>3, <2>3, FifoAssumption
  <2> QED BY <1>3, <2>2, <2>4 DEF Pop, Arrivals
<1> QED BY <1>2, <1>3 DEF Arrivals

\* What the UART's connection does at an edge, as the two queues see it: a read that it
\* takes pops a byte and answers it, or 0; a write pushes one.
LEMMA UARTMoves ==
  ASSUME StreamsTypeOK, UARTConnTypeOK, uc_rdready => uc_state = "deassert",
         NEW rreq \in ReadReq, NEW wreq \in WriteReq,
         UARTConnTick(rreq, wreq, RxWire), StreamsTick(uc_rdready, uc_wrvalid, uc_wrpayload)
  PROVE  /\ uc_rdready' => uc_state' = "deassert"
         /\ uc_state = "init" /\ rreq.valid =>
              /\ uc_state' = "deassert" /\ uc_valid'
              /\ uc_payload' = IF RxLeft = <<>> THEN 0 ELSE Head(RxLeft)
              /\ RxLeft' \in Arrivals(Pop(RxLeft))
         /\ ~(uc_state = "init" /\ rreq.valid) =>
              /\ uc_state' = "init" /\ UNCHANGED <<uc_valid, uc_payload>>
              /\ RxLeft' \in Arrivals(RxLeft)
         /\ wreq.valid => TxAll' \in {Push(q, wreq.data[0]) : q \in Departures(TxAll)}
         /\ ~wreq.valid => TxAll' \in Departures(TxAll)
<1>1. UARTReadTick(rreq, RxWire) /\ UARTWriteTick(wreq)
  BY DEF UARTConnTick
<1>2. rx_fifo' \in Arrivals(RxLeft) /\ tx_fifo' \in Departures(TxAll)
  BY LineMoves
<1>3. uc_state = "init" => RxLeft = rx_fifo
  BY DEF RxLeft
<1>4. RxWire # NoByte <=> rx_fifo # <<>>
  <2>1. rx_fifo # <<>> => Head(rx_fifo) \in Byte
    BY DEF StreamsTypeOK, IsQueue
  <2>2. NoByte \notin Byte
    BY DEF NoByte, Byte
  <2> QED BY <2>1, <2>2 DEF RxWire
<1>5. /\ wreq.valid => TxAll' \in {Push(q, wreq.data[0]) : q \in Departures(TxAll)}
      /\ ~wreq.valid => TxAll' \in Departures(TxAll)
  BY <1>1, <1>2 DEF UARTWriteTick, TxAll
<1>6. CASE UCIdle(rreq)
  BY <1>2, <1>5, <1>6 DEF UCIdle, uartReadVars, RxLeft
<1>7. CASE UCPop(rreq, RxWire)
  <2>1. uc_state = "init" /\ rreq.valid /\ rx_fifo # <<>> /\ uc_rdready'
        /\ uc_payload' = RxWire /\ uc_valid' /\ uc_state' = "deassert"
    BY <1>4, <1>7 DEF UCPop, Respond
  <2>2. Pop(rx_fifo') \in Arrivals(Pop(rx_fifo))
    BY <1>2, <1>3, <2>1, PopOfArrival DEF StreamsTypeOK
  <2>3. RxLeft' \in Arrivals(Pop(RxLeft))
    BY <1>3, <2>1, <2>2 DEF RxLeft
  <2> QED BY <1>3, <1>5, <2>1, <2>3 DEF RxWire
<1>8. CASE UCNothing(rreq, RxWire)
  <2>1. uc_state = "init" /\ rreq.valid /\ rx_fifo = <<>> /\ ~uc_rdready'
        /\ uc_payload' = 0 /\ uc_valid' /\ uc_state' = "deassert"
    BY <1>4, <1>8 DEF UCNothing, Respond
  <2>2. RxLeft' = rx_fifo' /\ RxLeft = <<>> /\ Pop(RxLeft) = RxLeft
    BY <1>3, <2>1 DEF RxLeft, Pop
  <2> QED BY <1>2, <1>5, <2>1, <2>2
<1>9. CASE UCDeassert
  BY <1>2, <1>5, <1>9 DEF UCDeassert, RxLeft
<1> QED BY <1>1, <1>6, <1>7, <1>8, <1>9 DEF UARTReadTick
=============================================================================
