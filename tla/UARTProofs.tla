----------------------------- MODULE UARTProofs -----------------------------
(***************************************************************************)
(* The UART and its connection, for FIFOs of any depth above two and any   *)
(* character time above two cycles: the handshakes, the refinement of      *)
(* UARTStreams, and with the record of UARTHistory what has become of      *)
(* every byte.  A FIFO is the queue of its output register and what is     *)
(* behind it (Held); the lemmas on FifoAfter say what an edge does to it.  *)
(***************************************************************************)
EXTENDS UARTHistory, SequenceTheorems, TLAPS

\* The connection sets ready for one cycle, and the receiver takes a byte within two
\* cycles of its end.
IInv ==
  /\ TypeOK
  /\ SendsWhatItTakes
  /\ uc_rdready => uc_state = "deassert"
  /\ PopsWhatItAnswered
  /\ serial_rx_rdy => rx_state = "idle" /\ line_gap >= 2
  /\ NoOverrun

LEMMA ZeroByte == 0 \in Byte
BY ByteSizeAssumption DEF Byte

\* An edge keeps a FIFO within its depth.
LEMMA FifoType ==
  ASSUME NEW f, IsFifo(f), NEW w_en \in BOOLEAN, NEW w_data \in Byte, NEW r_en \in BOOLEAN
  PROVE  IsFifo(FifoAfter(f, w_en, w_data, r_en))
<1> DEFINE refill == f.rest # <<>> /\ (~f.rdy \/ r_en)
           left   == IF refill THEN Tail(f.rest) ELSE f.rest
           g      == FifoAfter(f, w_en, w_data, r_en)
<1>1. f.rest \in Seq(Byte) /\ Len(f.rest) \in Nat /\ Len(f.rest) < FifoDepth
      /\ f.rdy \in BOOLEAN /\ f.data \in Byte
  BY DEF IsFifo
<1>2. left \in Seq(Byte) /\ Len(left) \in Nat /\ Len(left) <= Len(f.rest)
  <2>1. CASE refill
    BY <1>1, <2>1
  <2>2. CASE ~refill
    BY <1>1, <2>2
  <2> QED BY <2>1, <2>2
<1>3. refill => Head(f.rest) \in Byte
  BY <1>1
<1>4. /\ g.rdy = (refill \/ (f.rdy /\ ~r_en))
      /\ g.data = IF refill THEN Head(f.rest) ELSE f.data
      /\ g.rest = IF w_en /\ HasRoom(f) THEN Append(left, w_data) ELSE left
  BY DEF FifoAfter
<1> HIDE DEF left, g
<1>5. g.data \in Byte
  BY <1>1, <1>3, <1>4
<1>6. g.rest \in Seq(Byte) /\ Len(g.rest) < FifoDepth
  <2>1. CASE w_en /\ HasRoom(f)
    <3>1. Append(left, w_data) \in Seq(Byte) /\ Len(Append(left, w_data)) = Len(left) + 1
      BY <1>2
    <3>2. Len(f.rest) < FifoDepth - 1
      BY <2>1 DEF HasRoom
    <3> QED BY <1>1, <1>2, <1>4, <2>1, <3>1, <3>2, UartAssumption
  <2>2. CASE ~(w_en /\ HasRoom(f))
    BY <1>1, <1>2, <1>4, <2>2, UartAssumption
  <2> QED BY <2>1, <2>2
<1>7. g.rdy \in BOOLEAN
  BY <1>4
<1> QED BY <1>5, <1>6, <1>7 DEF IsFifo, g

\* A FIFO that shows a byte and is not read goes on showing it.
LEMMA FifoShows ==
  ASSUME NEW f, f.rdy, NEW w_en, NEW w_data
  PROVE  /\ FifoAfter(f, w_en, w_data, FALSE).rdy
         /\ FifoAfter(f, w_en, w_data, FALSE).data = f.data
BY DEF FifoAfter

LEMMA CountDownType ==
  \A n \in 0 .. CharTime : CountDown(n) \in 0 .. CharTime /\ (n > 0 => CountDown(n) = n - 1)
BY UartAssumption DEF CountDown
-----------------------------------------------------------------------------
LEMMA IInvInit == Init => IInv
<1> SUFFICES ASSUME Init PROVE IInv
  OBVIOUS
<1>1. UARTConnTypeOK
  BY ZeroByte DEF Init, UARTConnInit, UARTConnTypeOK
<1>2. IsFifo(EmptyFifo)
  <2>1. <<>> \in Seq(Byte) /\ Len(<<>>) = 0
    OBVIOUS
  <2> QED BY <2>1, ZeroByte, UartAssumption DEF IsFifo, EmptyFifo
<1>3. UartTypeOK
  <2>1. tx_state = "idle" /\ rx_state = "idle" /\ tx_buf = EmptyFifo /\ rx_buf = EmptyFifo
    BY DEF Init, UartInit
  <2>2. rx_w_en \in BOOLEAN /\ serial_rx_rdy \in BOOLEAN
    BY DEF Init, UartInit
  <2>3. /\ serial_tx_busy \in 0 .. CharTime /\ line_gap \in 0 .. CharTime
        /\ serial_tx_data \in Byte /\ rx_w_data \in Byte /\ serial_rx_data \in Byte
    BY ZeroByte, UartAssumption DEF Init, UartInit
  <2> QED BY <1>2, <2>1, <2>2, <2>3 DEF UartTypeOK
<1> QED
  BY <1>1, <1>3
  DEF Init, UartInit, UARTConnInit, IInv, TypeOK, SendsWhatItTakes, PopsWhatItAnswered,
      NoOverrun, RxAck

\* An edge, whatever the master and the line do.
LEMMA TickStep ==
  ASSUME IInv,
         NEW reads \in BOOLEAN, NEW writes \in BOOLEAN, NEW wbyte \in Byte,
         NEW ends \in BOOLEAN, NEW lbyte \in RxByte,
         Tick(reads, writes, wbyte, ends, lbyte)
  PROVE  IInv'
<1> DEFINE rreq == [NoRead EXCEPT !.valid = reads]
           wreq == [NoWrite EXCEPT !.valid = writes, !.data = ByteAt(0, wbyte)]
<1>1. /\ UARTReadTick(rreq, RdWire) /\ UARTWriteTick(wreq)
      /\ TxTick(uc_wrvalid, uc_wrpayload) /\ RxTick(uc_rdready, ends, lbyte)
  BY DEF Tick, UARTConnTick
<1>2. wreq.valid = writes /\ wreq.data[0] = wbyte
  BY DEF NoWrite, ByteAt, Lane
<1>3. UARTConnTypeOK /\ UartTypeOK
  BY DEF IInv, TypeOK
<1>4. lbyte \in Byte
  BY UartAssumption
<1>5. RdWire # NoByte => rx_buf.rdy /\ RdWire = rx_buf.data /\ RdWire \in Byte
  BY <1>3 DEF RdWire, UartTypeOK, IsFifo
<1> HIDE DEF rreq, wreq
<1>6. UARTConnTypeOK'
  <2>1. uc_wrvalid' \in BOOLEAN /\ uc_wrpayload' \in Byte
    BY <1>1, <1>2, <1>3 DEF UARTWriteTick, UARTConnTypeOK
  <2>2. /\ uc_state' \in {"init", "deassert"} /\ uc_rdready' \in BOOLEAN
        /\ uc_valid' \in BOOLEAN /\ uc_payload' \in Byte
    BY <1>1, <1>3, <1>5, ZeroByte
    DEF UARTReadTick, UCIdle, UCPop, UCNothing, UCDeassert, Respond, uartReadVars,
        UARTConnTypeOK
  <2> QED BY <2>1, <2>2 DEF UARTConnTypeOK
<1>7. UartTypeOK'
  <2>1. IsFifo(tx_buf') /\ IsFifo(rx_buf')
    BY <1>1, <1>3, FifoType DEF TxTick, RxTick, UartTypeOK, UARTConnTypeOK
  <2>2. tx_state' \in {"idle", "wait"} /\ serial_tx_data' \in Byte
    BY <1>1, <1>3 DEF TxTick, TxTake, TxTakes, TxIdle, TxWait, UartTypeOK, IsFifo
  <2>3. serial_tx_busy' \in 0 .. CharTime
    BY <1>1, <1>3, CountDownType, UartAssumption DEF TxTick, SerialTx, UartTypeOK
  <2>4. rx_state' \in {"idle", "read"} /\ rx_w_en' \in BOOLEAN /\ rx_w_data' \in Byte
    BY <1>1, <1>3 DEF RxTick, RxIdle, RxRead, UartTypeOK
  <2>5. line_gap' \in 0 .. CharTime
    BY <1>1, <1>3, CountDownType, UartAssumption DEF RxTick, SerialRx, UartTypeOK
  <2>6. serial_rx_rdy' \in BOOLEAN /\ serial_rx_data' \in Byte
    BY <1>1, <1>3, <1>4 DEF RxTick, SerialRx, UartTypeOK
  <2> QED BY <2>1, <2>2, <2>3, <2>4, <2>5, <2>6 DEF UartTypeOK
<1>8. SendsWhatItTakes'
  <2> SUFFICES ASSUME tx_state' = "wait"
               PROVE  serial_tx_busy' = 0 /\ tx_buf'.rdy /\ serial_tx_data' = tx_buf'.data
    BY DEF SendsWhatItTakes, TxRdy
  <2>1. TxTake
    BY <1>1 DEF TxTick, TxIdle, TxWait
  <2>2. tx_state # "wait" /\ TxRdy /\ tx_buf.rdy /\ serial_tx_data' = tx_buf.data
    BY <2>1 DEF TxTake, TxTakes
  <2>3. tx_buf' = FifoAfter(tx_buf, uc_wrvalid, uc_wrpayload, FALSE)
    BY <1>1, <2>2 DEF TxTick
  <2>4. serial_tx_busy' = 0
    BY <1>1, <2>2 DEF TxTick, SerialTx, TxAck, TxRdy, CountDown
  <2> QED BY <2>2, <2>3, <2>4, FifoShows
<1>9. (uc_rdready => uc_state = "deassert")' /\ PopsWhatItAnswered'
  <2> SUFFICES ASSUME uc_rdready'
               PROVE  /\ uc_state' = "deassert"
                      /\ rx_buf'.rdy /\ uc_payload' = rx_buf'.data
    BY DEF PopsWhatItAnswered
  <2>1. UCPop(rreq, RdWire)
    BY <1>1 DEF UARTReadTick, UCIdle, UCNothing, UCDeassert, uartReadVars, IInv
  <2>2. ~uc_rdready /\ rx_buf.rdy /\ uc_payload' = rx_buf.data /\ uc_state' = "deassert"
    BY <1>5, <2>1 DEF UCPop, Respond, IInv
  <2>3. rx_buf' = FifoAfter(rx_buf, rx_w_en, rx_w_data, FALSE)
    BY <1>1, <1>3, <2>2 DEF RxTick, UARTConnTypeOK
  <2> QED BY <2>2, <2>3, FifoShows
<1>10. (serial_rx_rdy => rx_state = "idle" /\ line_gap >= 2)' /\ NoOverrun'
  <2>1. line_gap \in 0 .. CharTime
    BY <1>3 DEF UartTypeOK
  <2>2. CASE rx_state = "idle"
    BY <1>1, <2>1, <2>2, CountDownType, UartAssumption
    DEF IInv, RxTick, RxIdle, RxRead, SerialRx, NoOverrun, RxAck
  <2>3. CASE rx_state = "read"
    BY <1>1, <2>1, <2>3, CountDownType, UartAssumption
    DEF IInv, RxTick, RxIdle, RxRead, SerialRx, NoOverrun, RxAck
  <2> QED BY <1>3, <2>2, <2>3 DEF UartTypeOK
<1> QED BY <1>6, <1>7, <1>8, <1>9, <1>10 DEF IInv, TypeOK

LEMMA IInvStep == IInv /\ [Next]_vars => IInv'
<1> SUFFICES ASSUME IInv, [Next]_vars PROVE IInv'
  OBVIOUS
<1>1. CASE Next
  BY <1>1, TickStep DEF Next
<1>2. CASE UNCHANGED vars
  BY <1>2
  DEF vars, uartConnVars, uartVars, txVars, rxVars, IInv, TypeOK, UARTConnTypeOK,
      UartTypeOK, SendsWhatItTakes, PopsWhatItAnswered, NoOverrun, RxAck, TxRdy
<1> QED BY <1>1, <1>2
-----------------------------------------------------------------------------
(* A FIFO is a queue. *)

LEMMA Joined ==
  ASSUME NEW p \in Seq(Byte), NEW q \in Seq(Byte), NEW b \in Byte
  PROVE  /\ p \o q \in Seq(Byte) /\ Len(p \o q) = Len(p) + Len(q)
         /\ p \o Append(q, b) = Append(p \o q, b)
         /\ Append(p, b) \o q = p \o (<<b>> \o q)
<1>1. <<b>> \in Seq(Byte)
  OBVIOUS
<1>2. Append(q, b) = q \o <<b>> /\ Append(p, b) = p \o <<b>>
  BY AppendIsConcat
<1>3. p \o q \in Seq(Byte) /\ Append(p \o q, b) = (p \o q) \o <<b>> /\ Len(p \o q) = Len(p) + Len(q)
  BY ConcatProperties, AppendIsConcat
<1>4. p \o Append(q, b) = Append(p \o q, b) /\ Append(p, b) \o q = p \o (<<b>> \o q)
  BY <1>1, <1>2, <1>3, ConcatAssociative
<1> QED BY <1>3, <1>4

LEMMA FirstAndRest ==
  ASSUME NEW q \in Seq(Byte), NEW b \in Byte
  PROVE  /\ q # <<>> => Head(q) \in Byte /\ Tail(q) \in Seq(Byte) /\ <<Head(q)>> \o Tail(q) = q
         /\ <<b>> \o q \in Seq(Byte) /\ <<b>> \o q # <<>> /\ Len(<<b>> \o q) = Len(q) + 1
         /\ Head(<<b>> \o q) = b /\ Tail(<<b>> \o q) = q
         /\ <<>> \o q = q
<1>1. ASSUME NEW c \in Byte, NEW r \in Seq(Byte)
      PROVE  /\ <<c>> \o r \in Seq(Byte) /\ Len(<<c>> \o r) = Len(r) + 1
             /\ \A i \in 1 .. Len(r) + 1 : (<<c>> \o r)[i] = IF i = 1 THEN c ELSE r[i - 1]
  <2>1. <<c>> \in Seq(Byte) /\ Len(<<c>>) = 1 /\ <<c>>[1] = c /\ Len(r) \in Nat
    OBVIOUS
  <2> QED BY <2>1, ConcatProperties
<1>2. ASSUME q # <<>> PROVE Head(q) \in Byte /\ Tail(q) \in Seq(Byte) /\ <<Head(q)>> \o Tail(q) = q
  <2>1. Head(q) \in Byte /\ Tail(q) \in Seq(Byte) /\ Len(Tail(q)) = Len(q) - 1 /\ Len(q) \in Nat
        /\ \A i \in 1 .. Len(Tail(q)) : Tail(q)[i] = q[i + 1]
    BY <1>2, HeadTailProperties, EmptySeq
  <2>2. Head(q) = q[1]
    OBVIOUS
  <2> DEFINE t == Tail(q)
             h == Head(q)
             s == <<h>> \o t
  <2>3. s \in Seq(Byte) /\ Len(s) = Len(q) /\ \A i \in 1 .. Len(q) : s[i] = IF i = 1 THEN h ELSE t[i - 1]
    BY <1>1, <2>1
  <2> HIDE DEF s, t, h
  <2>4. \A i \in 1 .. Len(s) : s[i] = q[i]
    BY <2>1, <2>2, <2>3 DEF t, h
  <2>5. s = q
    BY <2>3, <2>4, SeqEqual
  <2> QED BY <2>1, <2>5 DEF s, t, h
<1>3. Tail(<<b>> \o q) = q /\ Head(<<b>> \o q) = b /\ <<b>> \o q # <<>>
  <2> DEFINE s == <<b>> \o q
  <2>1. s \in Seq(Byte) /\ Len(s) = Len(q) + 1 /\ Len(q) \in Nat
        /\ \A i \in 1 .. Len(q) + 1 : s[i] = IF i = 1 THEN b ELSE q[i - 1]
    BY <1>1
  <2> HIDE DEF s
  <2>2. s # <<>>
    BY <2>1
  <2>3. Tail(s) \in Seq(Byte) /\ Len(Tail(s)) = Len(q) /\ \A i \in 1 .. Len(q) : Tail(s)[i] = q[i]
    BY <2>1, <2>2, HeadTailProperties
  <2>4. Tail(s) = q
    BY <2>3, SeqEqual
  <2>5. Head(s) = b
    BY <2>1, <2>2
  <2> QED BY <2>2, <2>4, <2>5 DEF s
<1> QED BY <1>1, <1>2, <1>3, ConcatEmptySeq

\* A FIFO whose output register is empty has a byte behind it only in the cycle after that
\* byte was written.
Refills(f) == f.rdy \/ Len(f.rest) <= 1

\* A FIFO is a queue: an edge takes the oldest byte, if it is read, and then adds one, if
\* there is room.
LEMMA FifoHolds ==
  ASSUME NEW f, IsFifo(f), Refills(f),
         NEW w_en \in BOOLEAN, NEW w_data \in Byte, NEW r_en \in BOOLEAN, r_en => f.rdy
  PROVE  LET h    == Held(f)
             g    == FifoAfter(f, w_en, w_data, r_en)
             left == IF r_en THEN Tail(h) ELSE h
         IN /\ h \in Seq(Byte) /\ Len(h) <= FifoDepth
            /\ HasRoom(f) <=> Len(h) < FifoDepth
            /\ f.rdy => h # <<>> /\ Head(h) = f.data /\ Tail(h) = f.rest
            /\ ~f.rdy => h = f.rest
            /\ Held(g) = IF w_en /\ HasRoom(f) THEN Append(left, w_data) ELSE left
            /\ Refills(g)
<1> DEFINE h       == Held(f)
           g       == FifoAfter(f, w_en, w_data, r_en)
           left    == IF r_en THEN Tail(h) ELSE h
           refill  == f.rest # <<>> /\ (~f.rdy \/ r_en)
           rest    == IF refill THEN Tail(f.rest) ELSE f.rest
           With(q) == IF w_en /\ HasRoom(f) THEN Append(q, w_data) ELSE q
<1>1. f.rest \in Seq(Byte) /\ Len(f.rest) \in Nat /\ Len(f.rest) < FifoDepth
      /\ f.rdy \in BOOLEAN /\ f.data \in Byte /\ FifoDepth \in Nat /\ FifoDepth > 2
  BY UartAssumption DEF IsFifo
<1>2. /\ f.rdy => h = <<f.data>> \o f.rest
      /\ ~f.rdy => h = f.rest
  BY <1>1, FirstAndRest DEF Held
<1> HIDE DEF h
<1>3. /\ f.rdy => h # <<>> /\ Head(h) = f.data /\ Tail(h) = f.rest /\ Len(h) = Len(f.rest) + 1
      /\ h \in Seq(Byte)
  <2>1. CASE f.rdy
    <3>1. h = <<f.data>> \o f.rest
      BY <1>2, <2>1
    <3> QED BY <1>1, <3>1, FirstAndRest
  <2>2. CASE ~f.rdy
    BY <1>1, <1>2, <2>2
  <2> QED BY <2>1, <2>2
<1>4. Len(h) <= FifoDepth /\ (HasRoom(f) <=> Len(h) < FifoDepth)
  BY <1>1, <1>2, <1>3 DEF HasRoom, Refills
<1>5. /\ g.rdy = (refill \/ (f.rdy /\ ~r_en))
      /\ g.data = IF refill THEN Head(f.rest) ELSE f.data
      /\ g.rest = With(rest)
  BY DEF FifoAfter
<1>6. \A p, q \in Seq(Byte) : p \o With(q) = With(p \o q)
  BY Joined
<1>7. refill => /\ left = f.rest /\ <<Head(f.rest)>> \o Tail(f.rest) = f.rest
                /\ Head(f.rest) \in Byte /\ Tail(f.rest) \in Seq(Byte)
  BY <1>1, <1>2, <1>3, FirstAndRest
<1>8. \A b \in Byte : <<b>> \in Seq(Byte)
  OBVIOUS
<1> HIDE DEF g, With
<1>9. Held(g) = With(left)
  <2>1. CASE refill
    <3>1. Held(g) = <<Head(f.rest)>> \o With(Tail(f.rest))
      BY <1>5, <2>1 DEF Held
    <3>2. <<Head(f.rest)>> \in Seq(Byte)
      BY <1>7, <1>8, <2>1
    <3> HIDE DEF refill, left
    <3> QED BY <1>6, <1>7, <2>1, <3>1, <3>2
  <2>2. CASE f.rdy /\ ~r_en
    <3>1. Held(g) = <<f.data>> \o With(f.rest) /\ left = <<f.data>> \o f.rest
      BY <1>2, <1>5, <2>2 DEF Held
    <3> QED BY <1>1, <1>6, <1>8, <3>1
  <2>3. CASE f.rest = <<>> /\ ~(f.rdy /\ ~r_en)
    <3>1. Held(g) = <<>> \o With(f.rest) /\ left = f.rest
      BY <1>2, <1>3, <1>5, <2>3 DEF Held
    <3>2. <<>> \in Seq(Byte) /\ <<>> \o f.rest = f.rest
      BY <1>1, FirstAndRest
    <3> QED BY <1>1, <1>6, <3>1, <3>2
  <2> QED BY <2>1, <2>2, <2>3
<1>10. Refills(g)
  <2> SUFFICES ASSUME ~g.rdy PROVE Len(g.rest) <= 1
    BY DEF Refills
  <2>1. f.rest = <<>> /\ g.rest = With(<<>>)
    BY <1>5
  <2>2. Len(<<>>) = 0 /\ Len(Append(<<>>, w_data)) = 1
    OBVIOUS
  <2> QED BY <2>1, <2>2 DEF With
<1> QED BY <1>2, <1>3, <1>4, <1>9, <1>10 DEF h, g, With
-----------------------------------------------------------------------------
(* The refinement of UARTStreams. *)

\* The FIFOs are queues of what the line delivers and the bus writes: the receiver puts at
\* most one byte in two cycles before its FIFO.
QueueInv ==
  /\ Refills(tx_buf) /\ Refills(rx_buf)
  /\ rx_w_en => rx_state = "idle" /\ rx_w_data \in RxByte
  /\ rx_state = "read" \/ serial_rx_rdy => serial_rx_data \in RxByte
  /\ ~rx_buf.rdy /\ rx_buf.rest # <<>> => ~rx_w_en /\ Head(rx_buf.rest) \in RxByte

LEMMA QueueInit == Init => QueueInv
BY DEF Init, UartInit, QueueInv, EmptyFifo, Refills

\* What an edge does to the FIFOs.
LEMMA FifoMoves ==
  ASSUME IInv, QueueInv,
         NEW reads \in BOOLEAN, NEW writes \in BOOLEAN, NEW wbyte \in Byte,
         NEW ends \in BOOLEAN, NEW lbyte \in RxByte,
         Tick(reads, writes, wbyte, ends, lbyte)
  PROVE  /\ IsFifo(tx_buf) /\ uc_wrvalid \in BOOLEAN /\ uc_wrpayload \in Byte
         /\ tx_buf' = FifoAfter(tx_buf, uc_wrvalid, uc_wrpayload, tx_state = "wait")
         /\ tx_state = "wait" => TxRdy /\ tx_buf.rdy /\ serial_tx_data = tx_buf.data
         /\ IsFifo(rx_buf) /\ rx_w_en \in BOOLEAN /\ rx_w_data \in Byte /\ uc_rdready \in BOOLEAN
         /\ rx_buf' = FifoAfter(rx_buf, rx_w_en, rx_w_data, uc_rdready)
         /\ uc_rdready => rx_buf.rdy
         /\ Refills(tx_buf)' /\ Refills(rx_buf)'
<1>1. /\ IsFifo(tx_buf) /\ uc_wrvalid \in BOOLEAN /\ uc_wrpayload \in Byte
      /\ IsFifo(rx_buf) /\ rx_w_en \in BOOLEAN /\ rx_w_data \in Byte /\ uc_rdready \in BOOLEAN
  BY DEF IInv, TypeOK, UARTConnTypeOK, UartTypeOK
<1>2. /\ tx_buf' = FifoAfter(tx_buf, uc_wrvalid, uc_wrpayload, tx_state = "wait")
      /\ rx_buf' = FifoAfter(rx_buf, rx_w_en, rx_w_data, uc_rdready)
  BY DEF Tick, TxTick, RxTick
<1>3. /\ tx_state = "wait" => TxRdy /\ tx_buf.rdy /\ serial_tx_data = tx_buf.data
      /\ uc_rdready => rx_buf.rdy
  BY DEF IInv, SendsWhatItTakes, PopsWhatItAnswered
<1>4. (tx_state = "wait") \in BOOLEAN
  OBVIOUS
<1>5. Refills(tx_buf')
  BY <1>1, <1>2, <1>3, <1>4, FifoHolds DEF QueueInv
<1>6. Refills(rx_buf')
  BY <1>1, <1>2, <1>3, FifoHolds DEF QueueInv
<1> QED BY <1>1, <1>2, <1>3, <1>5, <1>6 DEF Refills

\* What an edge does to the receiver.  No byte ends on the line while it is busy.
LEMMA ReceiverMoves ==
  ASSUME IInv, QueueInv,
         NEW reads \in BOOLEAN, NEW writes \in BOOLEAN, NEW wbyte \in Byte,
         NEW ends \in BOOLEAN, NEW lbyte \in RxByte,
         Tick(reads, writes, wbyte, ends, lbyte)
  PROVE  /\ rx_state \in {"idle", "read"}
         /\ rx_state = "read" => ~rx_w_en /\ ~serial_rx_rdy
         /\ rx_state = "read" \/ serial_rx_rdy => ~ends /\ serial_rx_data' = serial_rx_data
         /\ ends => serial_rx_data' = lbyte
         /\ rx_state' = IF rx_state = "idle" /\ serial_rx_rdy THEN "read" ELSE "idle"
         /\ serial_rx_rdy' = ends
         /\ rx_w_en' <=> rx_state = "read"
         /\ rx_w_en' => rx_w_data' = serial_rx_data
<1>1. /\ rx_state \in {"idle", "read"} /\ serial_rx_rdy \in BOOLEAN
      /\ RxIdle \/ RxRead
      /\ SerialRx(ends, lbyte)
  BY DEF Tick, RxTick, IInv, TypeOK, UartTypeOK
<1>2. /\ rx_state = "read" => ~rx_w_en /\ ~serial_rx_rdy /\ line_gap # 0
      /\ serial_rx_rdy => line_gap # 0
  <2>1. line_gap \in Nat
    BY DEF IInv, TypeOK, UartTypeOK
  <2> QED BY <2>1 DEF IInv, QueueInv, NoOverrun, RxAck
<1> QED BY <1>1, <1>2 DEF RxIdle, RxRead, SerialRx, RxAck

LEMMA QueueStep ==
  ASSUME IInv, QueueInv,
         NEW reads \in BOOLEAN, NEW writes \in BOOLEAN, NEW wbyte \in Byte,
         NEW ends \in BOOLEAN, NEW lbyte \in RxByte,
         Tick(reads, writes, wbyte, ends, lbyte)
  PROVE  QueueInv'
<1>1. (rx_w_en => rx_state = "idle" /\ rx_w_data \in RxByte)'
  BY ReceiverMoves DEF QueueInv
<1>2. (rx_state = "read" \/ serial_rx_rdy => serial_rx_data \in RxByte)'
  BY ReceiverMoves DEF QueueInv
<1>3. (~rx_buf.rdy /\ rx_buf.rest # <<>> => ~rx_w_en /\ Head(rx_buf.rest) \in RxByte)'
  <2> SUFFICES ASSUME ~rx_buf'.rdy, rx_buf'.rest # <<>>
               PROVE  ~rx_w_en' /\ Head(rx_buf'.rest) \in RxByte
    OBVIOUS
  <2>1. rx_buf' = FifoAfter(rx_buf, rx_w_en, rx_w_data, uc_rdready)
    BY FifoMoves
  <2>2. rx_w_en /\ rx_buf.rest = <<>> /\ rx_buf'.rest = Append(<<>>, rx_w_data)
    BY <2>1 DEF FifoAfter
  <2>3. Head(Append(<<>>, rx_w_data)) = rx_w_data
    OBVIOUS
  <2> QED BY <2>2, <2>3, ReceiverMoves DEF QueueInv
<1>4. Refills(tx_buf)' /\ Refills(rx_buf)'
  BY FifoMoves
<1> QED BY <1>1, <1>2, <1>3, <1>4 DEF QueueInv

LEMMA QueueInvStep == IInv /\ QueueInv /\ [Next]_vars => QueueInv'
<1> SUFFICES ASSUME IInv, QueueInv, [Next]_vars PROVE QueueInv'
  OBVIOUS
<1>1. CASE Next
  BY <1>1, QueueStep DEF Next
<1>2. CASE UNCHANGED vars
  BY <1>2 DEF vars, uartVars, txVars, rxVars, QueueInv, Refills
<1> QED BY <1>1, <1>2

LEMMA StreamsStep ==
  ASSUME IInv, QueueInv,
         NEW reads \in BOOLEAN, NEW writes \in BOOLEAN, NEW wbyte \in Byte,
         NEW ends \in BOOLEAN, NEW lbyte \in RxByte,
         Tick(reads, writes, wbyte, ends, lbyte)
  PROVE  Streams!StreamsTick(uc_rdready, uc_wrvalid, uc_wrpayload)
<1> DEFINE tx == Held(tx_buf)
           rx == IF rx_buf.rdy THEN Held(rx_buf) ELSE <<>>
           pushed == IF uc_wrvalid THEN Streams!Push(tx, uc_wrpayload) ELSE tx
           left == IF uc_rdready THEN Streams!Pop(rx) ELSE rx
<1>1. tx' \in Streams!Departures(pushed)
  <2> DEFINE taken == IF tx_state = "wait" THEN Tail(tx) ELSE tx
             room  == uc_wrvalid /\ HasRoom(tx_buf)
  <2>1. /\ tx \in Seq(Byte)
        /\ HasRoom(tx_buf) <=> Len(tx) < FifoDepth
        /\ tx_state = "wait" => tx # <<>>
        /\ tx' = IF room THEN Append(taken, uc_wrpayload) ELSE taken
        /\ uc_wrpayload \in Byte
    <3>1. PICK r \in BOOLEAN : r = (tx_state = "wait")
      OBVIOUS
    <3>2. tx_buf' = FifoAfter(tx_buf, uc_wrvalid, uc_wrpayload, r) /\ (r => tx_buf.rdy)
          /\ IsFifo(tx_buf) /\ uc_wrvalid \in BOOLEAN /\ uc_wrpayload \in Byte
      <4>1. tx_buf' = FifoAfter(tx_buf, uc_wrvalid, uc_wrpayload, tx_state = "wait")
        BY FifoMoves
      <4>2. tx_buf' = FifoAfter(tx_buf, uc_wrvalid, uc_wrpayload, r)
        BY <3>1, <4>1
      <4> QED BY <3>1, <4>2, FifoMoves
    <3>3. /\ tx \in Seq(Byte)
          /\ HasRoom(tx_buf) <=> Len(tx) < FifoDepth
          /\ tx_buf.rdy => tx # <<>>
          /\ tx' = IF uc_wrvalid /\ HasRoom(tx_buf)
                     THEN Append(IF r THEN Tail(tx) ELSE tx, uc_wrpayload)
                     ELSE IF r THEN Tail(tx) ELSE tx
      BY <3>2, FifoHolds DEF QueueInv
    <3> HIDE DEF tx
    <3> QED BY <3>1, <3>2, <3>3
  <2> HIDE DEF tx
  <2>2. pushed = IF room THEN Append(tx, uc_wrpayload) ELSE tx
    BY <2>1 DEF Streams!Push
  <2>3. tx' = pushed \/ (pushed # <<>> /\ tx' = Tail(pushed))
    <3>1. CASE tx_state # "wait"
      BY <2>1, <2>2, <3>1
    <3>2. CASE tx_state = "wait"
      <4>1. Append(tx, uc_wrpayload) # <<>>
            /\ Tail(Append(tx, uc_wrpayload)) = Append(Tail(tx), uc_wrpayload)
        BY <2>1, <3>2, HeadTailAppend, AppendProperties
      <4> QED BY <2>1, <2>2, <3>2, <4>1
    <3> QED BY <3>1, <3>2
  <2> QED BY <2>3 DEF Streams!Departures, Streams!Pop
<1>2. rx' \in {left} \cup {Append(left, b) : b \in IF Len(rx) < FifoDepth THEN RxByte ELSE {}}
  <2> DEFINE h     == Held(rx_buf)
             taken == IF uc_rdready THEN Tail(h) ELSE h
             room  == rx_w_en /\ HasRoom(rx_buf)
  <2>1. /\ h \in Seq(Byte)
        /\ HasRoom(rx_buf) <=> Len(h) < FifoDepth
        /\ rx_buf.rdy => h # <<>> /\ Tail(h) = rx_buf.rest
        /\ ~rx_buf.rdy => h = rx_buf.rest
        /\ h' = IF room THEN Append(taken, rx_w_data) ELSE taken
        /\ uc_rdready => rx_buf.rdy
        /\ rx_w_en => rx_w_data \in RxByte
    BY FifoMoves, FifoHolds DEF QueueInv
  <2>2. rx_buf'.rdy = ((rx_buf.rest # <<>> /\ (~rx_buf.rdy \/ uc_rdready)) \/ (rx_buf.rdy /\ ~uc_rdready))
    BY FifoMoves DEF FifoAfter
  <2> HIDE DEF h
  <2>3. CASE rx_buf.rdy
    <3>1. left = taken
      BY <2>1, <2>3 DEF Streams!Pop, h
    <3>2. rx' = IF rx_buf'.rdy THEN h' ELSE <<>>
      BY DEF h
    <3>3. CASE rx_buf'.rdy
      BY <2>1, <2>3, <3>1, <3>2, <3>3 DEF h
    <3>4. CASE ~rx_buf'.rdy
      BY <2>1, <2>2, <2>3, <3>1, <3>2, <3>4
    <3> QED BY <3>3, <3>4
  <2>4. CASE ~rx_buf.rdy
    <3>1. left = <<>> /\ rx = <<>> /\ taken = rx_buf.rest /\ ~uc_rdready
      BY <2>1, <2>4 DEF Streams!Pop
    <3>2. CASE rx_buf.rest = <<>>
      BY <2>2, <2>4, <3>1, <3>2
    <3>3. CASE rx_buf.rest # <<>>
      <4>1. ~rx_w_en /\ Head(rx_buf.rest) \in RxByte /\ Len(rx_buf.rest) <= 1
        BY <2>4, <3>3 DEF QueueInv, Refills
      <4>2. rx' = rx_buf.rest
        BY <2>1, <2>2, <2>4, <3>1, <3>3, <4>1 DEF h
      <4>3. rx_buf.rest = Append(<<>>, Head(rx_buf.rest)) /\ Len(<<>>) < FifoDepth
        BY <2>1, <2>4, <3>3, <4>1, UartAssumption
      <4> QED BY <3>1, <4>1, <4>2, <4>3
    <3> QED BY <3>2, <3>3
  <2> QED BY <2>3, <2>4
<1> QED BY <1>1, <1>2 DEF Streams!StreamsTick
-----------------------------------------------------------------------------
(* The history of the bytes. *)

Histories == ended \in Seq(Byte) /\ offered \in Seq(Byte) /\ written \in Seq(Byte) /\ sent \in Seq(Byte)

LEMMA HistoriesStep ==
  ASSUME IInv, Histories, NEW ends \in BOOLEAN, NEW lbyte \in RxByte, Recorded(ends, lbyte)
  PROVE  Histories'
<1>1. /\ lbyte \in Byte /\ rx_w_data \in Byte /\ uc_wrpayload \in Byte /\ serial_tx_data \in Byte
  BY UartAssumption DEF IInv, TypeOK, UartTypeOK, UARTConnTypeOK
<1>2. \A q \in Seq(Byte), b \in Byte : Append(q, b) \in Seq(Byte)
  OBVIOUS
<1> QED BY <1>1, <1>2 DEF Histories, Recorded, AppendIf

\* A byte moves along the sending direction, or stays.
LEMMA SentOnceStep ==
  ASSUME IInv, QueueInv, Histories, SentOnce,
         NEW reads \in BOOLEAN, NEW writes \in BOOLEAN, NEW wbyte \in Byte,
         NEW ends \in BOOLEAN, NEW lbyte \in RxByte,
         Tick(reads, writes, wbyte, ends, lbyte), Recorded(ends, lbyte)
  PROVE  SentOnce'
<1> DEFINE tx == Held(tx_buf)
           w  == uc_wrpayload
           room == uc_wrvalid /\ HasRoom(tx_buf)
           With(q) == IF room THEN Append(q, w) ELSE q
           d == tx_buf.data
<1>1. PICK r \in BOOLEAN : r = (tx_state = "wait")
  OBVIOUS
<1>2. /\ tx_buf' = FifoAfter(tx_buf, uc_wrvalid, uc_wrpayload, r) /\ (r => tx_buf.rdy)
      /\ IsFifo(tx_buf) /\ uc_wrvalid \in BOOLEAN /\ w \in Byte
      /\ r => TxRdy /\ serial_tx_data = d
      /\ d \in Byte /\ tx_buf.rest \in Seq(Byte)
  <2>1. /\ tx_buf' = FifoAfter(tx_buf, uc_wrvalid, uc_wrpayload, r) /\ (r => tx_buf.rdy)
        /\ IsFifo(tx_buf) /\ uc_wrvalid \in BOOLEAN /\ w \in Byte
    <3>1. tx_buf' = FifoAfter(tx_buf, uc_wrvalid, uc_wrpayload, tx_state = "wait")
      BY FifoMoves
    <3>2. tx_buf' = FifoAfter(tx_buf, uc_wrvalid, uc_wrpayload, r)
      BY <1>1, <3>1
    <3> QED BY <1>1, <3>2, FifoMoves
  <2>2. tx_state = "wait" => TxRdy /\ serial_tx_data = d
    BY FifoMoves DEF TxRdy
  <2>3. r => TxRdy /\ serial_tx_data = d
    BY <1>1, <2>2 DEF TxRdy
  <2> QED BY <2>1, <2>3 DEF IsFifo
<1>3. /\ tx \in Seq(Byte)
      /\ r => tx = <<d>> \o tx_buf.rest /\ Tail(tx) = tx_buf.rest
      /\ tx' = With(IF r THEN Tail(tx) ELSE tx)
  <2>1. r => tx = <<d>> \o tx_buf.rest
    BY <1>2 DEF Held
  <2> QED BY <1>2, <2>1, FifoHolds DEF QueueInv
<1>4. written' = With(written) /\ sent' = IF r THEN Append(sent, d) ELSE sent
  BY <1>1, <1>2 DEF Recorded, AppendIf, TxAck
<1>5. written = sent \o tx /\ written \in Seq(Byte) /\ sent \in Seq(Byte)
  BY DEF SentOnce, Histories
<1>6. \A p, q \in Seq(Byte) : p \o With(q) = With(p \o q)
  BY <1>2, Joined
<1> HIDE DEF tx, With, d
<1>7. written' = sent' \o tx'
  <2>1. CASE ~r
    BY <1>3, <1>4, <1>5, <1>6, <2>1
  <2>2. CASE r
    <3>1. Append(sent, d) \o tx_buf.rest = sent \o tx
      <4>1. Append(sent, d) \o tx_buf.rest = sent \o (<<d>> \o tx_buf.rest)
        BY <1>2, <1>5, Joined
      <4> QED BY <1>3, <2>2, <4>1
    <3>2. Append(sent, d) \in Seq(Byte)
      BY <1>2, <1>5
    <3>3. Append(sent, d) \o With(tx_buf.rest) = With(sent \o tx)
      BY <1>2, <1>6, <3>1, <3>2
    <3> QED BY <1>3, <1>4, <1>5, <2>2, <3>3
  <2> QED BY <2>1, <2>2
<1> QED BY <1>7 DEF SentOnce, tx

\* A byte moves along the receiving direction, or stays.
LEMMA ReceivedOnceStep ==
  ASSUME IInv, QueueInv, Histories, ReceivedOnce,
         NEW reads \in BOOLEAN, NEW writes \in BOOLEAN, NEW wbyte \in Byte,
         NEW ends \in BOOLEAN, NEW lbyte \in RxByte,
         Tick(reads, writes, wbyte, ends, lbyte), Recorded(ends, lbyte)
  PROVE  ReceivedOnce'
<1> DEFINE w == rx_w_data
           d == serial_rx_data
<1>1. /\ w \in Byte /\ d \in Byte /\ lbyte \in Byte
      /\ ended \in Seq(Byte) /\ offered \in Seq(Byte)
      /\ rx_w_en \in BOOLEAN /\ serial_rx_rdy \in BOOLEAN
  BY UartAssumption DEF IInv, TypeOK, UartTypeOK, Histories
<1>2. /\ ended' = IF ends THEN Append(ended, lbyte) ELSE ended
      /\ offered' = IF rx_w_en THEN Append(offered, w) ELSE offered
  BY DEF Recorded, AppendIf
<1>3. /\ ended = offered \o (IF rx_w_en THEN <<w>> ELSE <<>>)
                         \o (IF rx_state = "read" \/ serial_rx_rdy THEN <<d>> ELSE <<>>)
      /\ ReceivedOnce' <=>
           ended' = offered' \o (IF rx_w_en' THEN <<rx_w_data'>> ELSE <<>>)
                       \o (IF rx_state' = "read" \/ serial_rx_rdy' THEN <<serial_rx_data'>> ELSE <<>>)
  BY DEF ReceivedOnce
<1>4. \A q \in Seq(Byte), b \in Byte :
        /\ Append(q, b) \in Seq(Byte) /\ q \o <<b>> = Append(q, b)
        /\ q \o <<>> = q
  BY AppendIsConcat, ConcatEmptySeq
<1>5. offered' \in Seq(Byte) /\ offered' = offered \o (IF rx_w_en THEN <<w>> ELSE <<>>)
  BY <1>1, <1>2, <1>4
<1>6. CASE rx_state = "read"
  <2>1. /\ ended' = ended /\ rx_w_en' /\ rx_w_data' = d
        /\ ~(rx_state' = "read" \/ serial_rx_rdy')
    BY <1>2, <1>6, ReceiverMoves
  <2>2. ended = offered' \o <<d>>
    BY <1>3, <1>5, <1>6
  <2>3. offered' \o <<d>> \in Seq(Byte) /\ (offered' \o <<d>>) \o <<>> = offered' \o <<d>>
    BY <1>1, <1>4, <1>5
  <2>4. ReceivedOnce' <=> ended' = (offered' \o <<d>>) \o <<>>
    BY <1>3, <2>1
  <2> QED BY <2>1, <2>2, <2>3, <2>4
<1>7. CASE rx_state = "idle" /\ serial_rx_rdy
  <2>1. /\ ended' = ended /\ ~rx_w_en' /\ serial_rx_data' = d /\ rx_state' = "read"
    BY <1>2, <1>7, ReceiverMoves
  <2>2. ended = offered' \o <<d>>
    BY <1>3, <1>5, <1>7
  <2>3. ReceivedOnce' <=> ended' = (offered' \o <<>>) \o <<d>>
    BY <1>3, <2>1
  <2>4. offered' \o <<>> = offered'
    BY <1>4, <1>5
  <2> QED BY <2>1, <2>2, <2>3, <2>4
<1>8. CASE rx_state = "idle" /\ ~serial_rx_rdy
  <2>1. /\ ~rx_w_en' /\ rx_state' # "read" /\ serial_rx_rdy' = ends
        /\ ends => serial_rx_data' = lbyte
    BY <1>8, ReceiverMoves
  <2>2. ended = offered'
    BY <1>1, <1>3, <1>4, <1>5, <1>8
  <2>3. offered' \o <<>> = offered'
    BY <1>4, <1>5
  <2>4. CASE ends
    <3>1. ReceivedOnce' <=> ended' = (offered' \o <<>>) \o <<lbyte>>
      BY <1>3, <2>1, <2>4
    <3>2. ended' = Append(offered', lbyte) /\ offered' \o <<lbyte>> = Append(offered', lbyte)
      BY <1>1, <1>2, <1>4, <1>5, <2>2, <2>4
    <3> QED BY <2>3, <3>1, <3>2
  <2>5. CASE ~ends
    <3>1. ReceivedOnce' <=> ended' = (offered' \o <<>>) \o <<>>
      BY <1>3, <2>1, <2>5
    <3> QED BY <1>2, <2>2, <2>3, <2>5, <3>1
  <2> QED BY <2>4, <2>5
<1> QED BY <1>6, <1>7, <1>8, ReceiverMoves

HistoryInv == IInv /\ QueueInv /\ Histories /\ SentOnce /\ ReceivedOnce

LEMMA HistoryInvInit == HistoryInit => HistoryInv
<1> SUFFICES ASSUME HistoryInit PROVE HistoryInv
  OBVIOUS
<1>1. IInv /\ QueueInv
  BY IInvInit, QueueInit DEF HistoryInit
<1>2. <<>> \in Seq(Byte) /\ <<>> \o <<>> = <<>>
  BY ConcatEmptySeq
<1>3. Histories
  BY <1>2 DEF HistoryInit, Histories
<1>4. SentOnce /\ ReceivedOnce
  BY <1>2 DEF HistoryInit, Init, UartInit, SentOnce, ReceivedOnce, Held, EmptyFifo
<1> QED BY <1>1, <1>3, <1>4 DEF HistoryInv

LEMMA HistoryInvStep == HistoryInv /\ [HistoryNext]_<<vars, historyVars>> => HistoryInv'
<1> SUFFICES ASSUME HistoryInv, [HistoryNext]_<<vars, historyVars>> PROVE HistoryInv'
  OBVIOUS
<1>1. CASE HistoryNext
  <2>1. PICK reads \in BOOLEAN, writes \in BOOLEAN, ends \in BOOLEAN, wbyte \in Byte, lbyte \in RxByte :
          Tick(reads, writes, wbyte, ends, lbyte) /\ Recorded(ends, lbyte)
    BY <1>1 DEF HistoryNext
  <2>2. IInv' /\ QueueInv'
    BY <2>1, TickStep, QueueStep DEF HistoryInv
  <2>3. Histories' /\ SentOnce' /\ ReceivedOnce'
    BY <2>1, HistoriesStep, SentOnceStep, ReceivedOnceStep DEF HistoryInv
  <2> QED BY <2>2, <2>3 DEF HistoryInv
<1>2. CASE UNCHANGED <<vars, historyVars>>
  <2>1. IInv' /\ QueueInv'
    BY <1>2, IInvStep, QueueInvStep DEF HistoryInv
  <2>2. Histories' /\ SentOnce' /\ ReceivedOnce'
    BY <1>2 DEF HistoryInv, vars, historyVars, uartVars, txVars, rxVars, Histories, SentOnce, ReceivedOnce
  <2> QED BY <2>1, <2>2 DEF HistoryInv
<1> QED BY <1>1, <1>2
-----------------------------------------------------------------------------
LEMMA Invariance == Spec => []IInv
BY IInvInit, IInvStep, PTL DEF Spec

\* Every variable keeps the values its register has room for, and no FIFO overflows.
THEOREM TypeCorrect == Spec => []TypeOK
<1>1. IInv => TypeOK
  BY DEF IInv
<1> QED BY <1>1, Invariance, PTL

\* What leaves the sending FIFO is what the line was given.
THEOREM TakesWhatItSends == Spec => []SendsWhatItTakes
<1>1. IInv => SendsWhatItTakes
  BY DEF IInv
<1> QED BY <1>1, Invariance, PTL

\* The receiver always listens when a byte ends on the line.
THEOREM NeverOverruns == Spec => []NoOverrun
<1>1. IInv => NoOverrun
  BY DEF IInv
<1> QED BY <1>1, Invariance, PTL

\* What leaves the receiving FIFO is what the bus was answered.
THEOREM AnswersWhatItPops == Spec => []PopsWhatItAnswered
<1>1. IInv => PopsWhatItAnswered
  BY DEF IInv
<1> QED BY <1>1, Invariance, PTL

\* The two FIFOs and the machines before them are the two queues that the rest of the
\* system is checked with.
THEOREM RefinesStreams == Spec => ImplementsStreams
<1>1. Init => Streams!StreamsInit
  BY FirstAndRest DEF Init, UartInit, EmptyFifo, Held, Streams!StreamsInit
<1>2. IInv /\ QueueInv /\ [Next]_vars => [Streams!StreamsTick(uc_rdready, uc_wrvalid, uc_wrpayload)]_vars
  BY StreamsStep DEF Next
<1> QED BY <1>1, <1>2, QueueInit, QueueInvStep, IInvInit, IInvStep, PTL DEF Spec, ImplementsStreams

\* Every byte that ends on the line is put to the FIFO once, in the order of the line.
THEOREM ReceivesOnce == HistorySpec => []ReceivedOnce
<1>1. HistoryInv => ReceivedOnce
  BY DEF HistoryInv
<1> QED BY <1>1, HistoryInvInit, HistoryInvStep, PTL DEF HistorySpec

\* Every byte the FIFO has taken is sent once, in the order of the writes.
THEOREM SendsOnce == HistorySpec => []SentOnce
<1>1. HistoryInv => SentOnce
  BY DEF HistoryInv
<1> QED BY <1>1, HistoryInvInit, HistoryInvStep, PTL DEF HistorySpec
=============================================================================
