---------------------------- MODULE SerialProofs ----------------------------
(***************************************************************************)
(* The serial line from end to end, for any clock of nine cycles a bit or  *)
(* more, any texts and any depth of the FIFOs: each direction of the line  *)
(* at every cycle of a frame, and the program and the driver, which take   *)
(* turns.                                                                  *)
(***************************************************************************)
EXTENDS SerialHistory, SequenceTheorems, TLAPS

Half == Divisor \div 2

\* Bit i of a byte's frame: the start bit, the eight bits, the stop bit.
FrameBit(byte, i) == IF i = 0 THEN 0 ELSE IF i = 9 THEN 1 ELSE (byte \div 2^(i - 1)) % 2
-----------------------------------------------------------------------------
(* From the design to the driver. *)

\* n bits of byte's frame are left to transmit.
Sending(byte, n) ==
  /\ at_timer \in 0 .. Divisor - 1
  /\ at_shreg \in Seq({0, 1}) /\ Len(at_shreg) = n
  /\ \A k \in 1 .. n : at_shreg[k] = FrameBit(byte, 10 - n + k - 1)

\* What the driver's receiver has of a frame after each of its bits but the last.
Shifted(byte) ==
  LET b(i) == FrameBit(byte, i)
  IN [c \in 0 .. 9 |->
       IF c <= 1 THEN 0
       ELSE IF c = 2 THEN b(1)
       ELSE IF c = 3 THEN 2 * b(1) + b(2)
       ELSE IF c = 4 THEN 4 * b(1) + 2 * b(2) + b(3)
       ELSE IF c = 5 THEN 8 * b(1) + 4 * b(2) + 2 * b(3) + b(4)
       ELSE IF c = 6 THEN 16 * b(1) + 8 * b(2) + 4 * b(3) + 2 * b(4) + b(5)
       ELSE IF c = 7 THEN 32 * b(1) + 16 * b(2) + 8 * b(3) + 4 * b(4) + 2 * b(5) + b(6)
       ELSE IF c = 8 THEN 64 * b(1) + 32 * b(2) + 16 * b(3) + 8 * b(4) + 4 * b(5) + 2 * b(6) + b(7)
       ELSE 128 * b(1) + 64 * b(2) + 32 * b(3) + 16 * b(4) + 8 * b(5) + 4 * b(6) + 2 * b(7) + b(8)]

\* The receiver meanwhile: it has not seen the start bit, it has heard the frame, or it has
\* sampled the bits before the one on the line, or that one too, and its timer runs with
\* the transmitter's.
Hearing(byte, n) ==
  \/ /\ c_rx_state = "RX_IDLE" /\ n = 10 /\ at_timer = Divisor - 1
     /\ said = Append(heard, byte)
  \/ /\ c_rx_state = "RX_IDLE" /\ n = 1 /\ at_timer <= Divisor - 2 - Half
     /\ said = heard
  \/ /\ c_rx_state = "RX_BIT" /\ said = Append(heard, byte)
     /\ c_rx_counter \in 0 .. 9 /\ c_rx_sr = Shifted(byte)[c_rx_counter]
     /\ \/ /\ c_rx_counter = 10 - n /\ at_timer >= Divisor - 1 - Half
           /\ c_rx_timer = at_timer + 2 + Half - Divisor
        \/ /\ c_rx_counter = 11 - n /\ at_timer <= Divisor - 2 - Half
           /\ c_rx_timer = at_timer + 2 + Half

\* The line rests, or a frame is on it and one byte has been said and not heard, or heard
\* before its stop bit is over.
SaidInv ==
  /\ heard \in Seq(Byte)
  /\ \/ at_shreg = <<>> /\ c_rx_state = "RX_IDLE" /\ said = heard
     \/ \E byte \in Byte, n \in 1 .. 10 : Sending(byte, n) /\ Hearing(byte, n)

\* The machine that sends gives the transmitter a byte only when that is ready.
TakeInv == tx_state \in {"idle", "wait"} /\ (tx_state = "wait" => at_shreg = <<>> /\ tx_buf.rdy)
-----------------------------------------------------------------------------
(* From the driver to the design. *)

\* The cycles since the bit on the line began, and since the frame did.
Passed == Divisor - c_tx_timer
Elapsed == c_tx_counter * Divisor + Passed

ShiftingOut(byte) ==
  /\ c_tx_state = "TX_BIT" /\ c_tx_counter \in 0 .. 9 /\ c_tx_timer \in 1 .. Divisor
  /\ c_tx_sr = TxFrame(byte) \div 2^c_tx_counter
  /\ p_uart_rx = FrameBit(byte, c_tx_counter)

LineBefore(byte) == IF c_tx_counter = 0 THEN 1 ELSE FrameBit(byte, c_tx_counter - 1)

\* The line as the receiver sees it, one and two cycles late.
Synced(byte) ==
  /\ ar_sync = IF Passed >= 1 THEN p_uart_rx ELSE LineBefore(byte)
  /\ ar_i = IF Passed >= 2 THEN p_uart_rx ELSE LineBefore(byte)

\* It has the first n bits of byte's frame.
Sampled(byte, n) ==
  /\ ar_shreg \in Seq({0, 1}) /\ Len(ar_shreg) = n
  /\ \A k \in 1 .. n : ar_shreg[k] = FrameBit(byte, k - 1)

\* It has not seen the start bit; it has sampled the bits before the one on the line, or
\* that one too; it has them all; or it is waiting for the next start bit.
Sampling(byte) ==
  \/ /\ ar_state = "IDLE" /\ c_tx_counter = 0 /\ Passed <= 2
     /\ told = Append(ended, byte)
  \/ /\ ar_state = "BUSY" /\ told = Append(ended, byte)
     /\ \/ /\ Passed <= 3 + Half /\ ar_timer = 3 + Half - Passed
           /\ (c_tx_counter = 0 => Passed >= 3)
           /\ Sampled(byte, c_tx_counter)
        \/ /\ Passed >= 4 + Half /\ ar_timer = 3 + Half + Divisor - Passed
           /\ c_tx_counter < 9
           /\ Sampled(byte, c_tx_counter + 1)
  \/ /\ ar_state = "DONE" /\ told = Append(ended, byte)
     /\ c_tx_counter = 9 /\ Passed = 4 + Half
     /\ Sampled(byte, 10)
  \/ /\ ar_state = "IDLE" /\ told = ended
     /\ c_tx_counter = 9 /\ Passed >= 5 + Half

\* The receiver is done with the frame, before its stop bit is over.
Ended == c_tx_counter = 9 /\ Passed >= 5 + Half

\* line_gap runs out before the receiver is done with another byte.
ToldInv ==
  /\ ended \in Seq(Byte)
  /\ line_gap \in Nat
  /\ \/ /\ c_tx_state = "TX_IDLE" /\ p_uart_rx = 1 /\ ar_sync = 1 /\ ar_i = 1
        /\ ar_state = "IDLE" /\ told = ended /\ line_gap <= 9 * Divisor + 4 + Half
     \/ \E byte \in RxByte :
          /\ ShiftingOut(byte) /\ Synced(byte) /\ Sampling(byte)
          /\ Ended => line_gap <= 10 * Divisor + 4 + Half - Passed
          /\ ~Ended => line_gap = 0 \/ line_gap + Elapsed <= 9 * Divisor + 3 + Half

\* The machine that receives is back in time for the next byte.
TakenInv ==
  /\ c_tx_buffer \in Seq(RxByte)
  /\ rx_state \in {"idle", "read"} /\ ar_rdy \in BOOLEAN
  /\ ar_rdy => line_gap = 10 * Divisor - 1 /\ rx_state = "idle"
  /\ rx_state = "read" => line_gap = 10 * Divisor - 2
-----------------------------------------------------------------------------
(* The program and the driver. *)

\* The bytes the program has printed or will, and the transmitter has not taken.
Wr == IF uc_wrvalid THEN 1 ELSE 0
Rd(f) == IF f.rdy THEN 1 ELSE 0
Pending == Rd(tx_buf) + Len(tx_buf.rest) + Wr + Len(p_left)

\* It fits into the FIFO, and the FIFO shows its first byte an edge after it has one.
TextInv ==
  /\ p_left \in Seq(Byte) /\ uc_wrvalid \in BOOLEAN /\ uc_wrpayload \in Byte
  /\ tx_buf.rdy \in BOOLEAN /\ tx_buf.data \in Byte /\ tx_buf.rest \in Seq(Byte)
  /\ ~tx_buf.rdy => Len(tx_buf.rest) <= 1
  /\ serial_tx_data \in Byte
  /\ p_state = "reading" => p_left = <<>>
  /\ Pending <= FifoDepth

\* Nothing goes to the design.
Silent ==
  /\ c_tx_state = "TX_IDLE" /\ c_tx_buffer = <<>> /\ p_uart_rx = 1 /\ ar_sync = 1 /\ ar_i = 1
  /\ ar_state = "IDLE" /\ ~ar_rdy /\ rx_state = "idle" /\ ~rx_w_en
  /\ ~rx_buf.rdy /\ rx_buf.rest = <<>> /\ uc_payload = 0

\* Nothing does until the driver has all of the query; by then the program has nothing
\* left to print until a character comes that ends its loop.
TurnInv ==
  /\ state \in {"RECV_QUERY", "RECV_ANSWER"}
  /\ state = "RECV_QUERY" =>
        /\ Silent /\ p_state # "ended" /\ recvd = heard
        /\ Len(said) + Pending = Len(Query)
  /\ state = "RECV_ANSWER" /\ p_state # "ended" => Pending = 0

Inv == SaidInv /\ TakeInv /\ ToldInv /\ TakenInv /\ TextInv /\ TurnInv
-----------------------------------------------------------------------------
(* Frames. *)

\* A bit is long enough for either receiver to be done with it before the next one's middle.
LEMMA Rates ==
  /\ Divisor \in Nat /\ Divisor >= 9 /\ DIVISOR = Divisor
  /\ Half \in Nat /\ Half >= 4 /\ Half + 5 <= Divisor
  /\ Byte = 0 .. 255
BY DivisorAssumption, LinkAssumption DEF Half, Byte

LEMMA Powers ==
  /\ 2^0 = 1 /\ 2^1 = 2 /\ 2^2 = 4 /\ 2^3 = 8 /\ 2^4 = 16 /\ 2^5 = 32 /\ 2^6 = 64
  /\ 2^7 = 128 /\ 2^8 = 256 /\ 2^9 = 512
OBVIOUS

\* A register shifted bit by bit.
LEMMA Halving == \A x \in Nat, c \in 0 .. 8 : (x \div 2^c) \div 2 = x \div 2^(c + 1)
<1> SUFFICES ASSUME NEW x \in Nat, NEW c \in 0 .. 8
             PROVE  (x \div 2^c) \div 2 = x \div 2^(c + 1)
  OBVIOUS
<1>1. CASE c = 0
  <2>1. 2^c = 1 /\ 2^(c + 1) = 2
    BY <1>1, Powers
  <2>2. (x \div 1) \div 2 = x \div 2
    OBVIOUS
  <2> QED BY <2>1, <2>2
<1>2. CASE c = 1
  <2>1. 2^c = 2 /\ 2^(c + 1) = 4
    BY <1>2, Powers
  <2>2. (x \div 2) \div 2 = x \div 4
    OBVIOUS
  <2> QED BY <2>1, <2>2
<1>3. CASE c = 2
  <2>1. 2^c = 4 /\ 2^(c + 1) = 8
    BY <1>3, Powers
  <2>2. (x \div 4) \div 2 = x \div 8
    OBVIOUS
  <2> QED BY <2>1, <2>2
<1>4. CASE c = 3
  <2>1. 2^c = 8 /\ 2^(c + 1) = 16
    BY <1>4, Powers
  <2>2. (x \div 8) \div 2 = x \div 16
    OBVIOUS
  <2> QED BY <2>1, <2>2
<1>5. CASE c = 4
  <2>1. 2^c = 16 /\ 2^(c + 1) = 32
    BY <1>5, Powers
  <2>2. (x \div 16) \div 2 = x \div 32
    OBVIOUS
  <2> QED BY <2>1, <2>2
<1>6. CASE c = 5
  <2>1. 2^c = 32 /\ 2^(c + 1) = 64
    BY <1>6, Powers
  <2>2. (x \div 32) \div 2 = x \div 64
    OBVIOUS
  <2> QED BY <2>1, <2>2
<1>7. CASE c = 6
  <2>1. 2^c = 64 /\ 2^(c + 1) = 128
    BY <1>7, Powers
  <2>2. (x \div 64) \div 2 = x \div 128
    OBVIOUS
  <2> QED BY <2>1, <2>2
<1>8. CASE c = 7
  <2>1. 2^c = 128 /\ 2^(c + 1) = 256
    BY <1>8, Powers
  <2>2. (x \div 128) \div 2 = x \div 256
    OBVIOUS
  <2> QED BY <2>1, <2>2
<1>9. CASE c = 8
  <2>1. 2^c = 256 /\ 2^(c + 1) = 512
    BY <1>9, Powers
  <2>2. (x \div 256) \div 2 = x \div 512
    OBVIOUS
  <2> QED BY <2>1, <2>2
<1>10. c \in {0, 1, 2, 3, 4, 5, 6, 7, 8}
  OBVIOUS
<1> QED BY <1>1, <1>2, <1>3, <1>4, <1>5, <1>6, <1>7, <1>8, <1>9, <1>10

\* A frame's bits.
LEMMA FrameBits ==
  ASSUME NEW byte \in Byte
  PROVE  /\ FrameBit(byte, 0) = 0 /\ FrameBit(byte, 9) = 1
         /\ FrameBit(byte, 1) = byte % 2 /\ FrameBit(byte, 2) = (byte \div 2) % 2
         /\ FrameBit(byte, 3) = (byte \div 4) % 2 /\ FrameBit(byte, 4) = (byte \div 8) % 2
         /\ FrameBit(byte, 5) = (byte \div 16) % 2 /\ FrameBit(byte, 6) = (byte \div 32) % 2
         /\ FrameBit(byte, 7) = (byte \div 64) % 2 /\ FrameBit(byte, 8) = (byte \div 128) % 2
<1>1. byte \div 1 = byte /\ byte \in 0 .. 255
  BY Rates
<1> QED BY <1>1, Powers DEF FrameBit

\* They are bits,
LEMMA FrameBitType == \A byte \in Byte : \A i \in 0 .. 9 : FrameBit(byte, i) \in {0, 1}
<1> SUFFICES ASSUME NEW byte \in Byte, NEW i \in 0 .. 9 PROVE FrameBit(byte, i) \in {0, 1}
  OBVIOUS
<1>1. byte \in 0 .. 255
  BY Rates
<1>2. \A q \in Int : q % 2 \in {0, 1}
  OBVIOUS
<1>3. /\ byte % 2 \in {0, 1} /\ (byte \div 2) % 2 \in {0, 1}
      /\ (byte \div 4) % 2 \in {0, 1} /\ (byte \div 8) % 2 \in {0, 1}
      /\ (byte \div 16) % 2 \in {0, 1} /\ (byte \div 32) % 2 \in {0, 1}
      /\ (byte \div 64) % 2 \in {0, 1} /\ (byte \div 128) % 2 \in {0, 1}
  BY <1>1, <1>2
<1>4. i \in {0, 1, 2, 3, 4, 5, 6, 7, 8, 9}
  OBVIOUS
<1> QED BY <1>3, <1>4, FrameBits

\* and the middle ones are the byte's digits.
LEMMA BinaryDigits ==
  ASSUME NEW byte \in Byte
  PROVE  byte = (byte % 2) + 2 * ((byte \div 2) % 2) + 4 * ((byte \div 4) % 2)
                + 8 * ((byte \div 8) % 2) + 16 * ((byte \div 16) % 2) + 32 * ((byte \div 32) % 2)
                + 64 * ((byte \div 64) % 2) + 128 * ((byte \div 128) % 2)
BY Rates

\* A bit before others, and one behind them.
LEMMA Before ==
  ASSUME NEW S, NEW seq \in Seq(S), NEW e \in S
  PROVE  /\ <<e>> \o seq \in Seq(S) /\ Len(<<e>> \o seq) = Len(seq) + 1
         /\ (<<e>> \o seq)[1] = e /\ \A k \in 1 .. Len(seq) : (<<e>> \o seq)[k + 1] = seq[k]
<1>1. <<e>> \in Seq(S) /\ Len(<<e>>) = 1 /\ <<e>>[1] = e
  OBVIOUS
<1> QED BY <1>1, ConcatProperties

LEMMA Behind ==
  ASSUME NEW S, NEW seq \in Seq(S), NEW e \in S
  PROVE  /\ seq \o <<e>> \in Seq(S) /\ Len(seq \o <<e>>) = Len(seq) + 1
         /\ (seq \o <<e>>)[Len(seq) + 1] = e /\ \A k \in 1 .. Len(seq) : (seq \o <<e>>)[k] = seq[k]
<1>1. <<e>> \in Seq(S) /\ Len(<<e>>) = 1 /\ <<e>>[1] = e
  OBVIOUS
<1> QED BY <1>1, ConcatProperties

\* The transmitter in the design sends the bits of a frame,
LEMMA FrameIs ==
  ASSUME NEW byte \in Byte
  PROVE  /\ Frame(byte) \in Seq({0, 1}) /\ Len(Frame(byte)) = 10
         /\ \A k \in 1 .. 10 : Frame(byte)[k] = FrameBit(byte, k - 1)
<1>1. PICK f : f = [k \in 1 .. 8 |-> (byte \div 2^(k - 1)) % 2]
  OBVIOUS
<1>2. \A k \in 1 .. 8 : f[k] = FrameBit(byte, k)
  BY <1>1 DEF FrameBit
<1>3. f \in [1 .. 8 -> {0, 1}]
  BY <1>1, <1>2, FrameBitType
<1>4. f \in Seq({0, 1}) /\ Len(f) = 8
  <2>1. \A S : \A g \in [1 .. 8 -> S] : g \in Seq(S)
    BY SeqDef
  <2>2. f \in Seq({0, 1})
    BY <1>3, <2>1
  <2>3. DOMAIN f = 1 .. 8
    BY <1>3
  <2>4. DOMAIN f = 1 .. Len(f) /\ Len(f) \in Nat
    BY <2>2, LenProperties
  <2>5. \A n \in Nat : 1 .. n = 1 .. 8 => n = 8
    OBVIOUS
  <2> QED BY <2>2, <2>3, <2>4, <2>5
<1>5. PICK head : head = <<0>> \o f
  OBVIOUS
<1>6. PICK S : S = {0, 1}
  OBVIOUS
<1>7. head \in Seq(S) /\ Len(head) = 9 /\ head[1] = 0 /\ \A k \in 1 .. 8 : head[k + 1] = f[k]
  <2>1. f \in Seq(S) /\ 0 \in S
    BY <1>4, <1>6
  <2>2. /\ <<0>> \o f \in Seq(S) /\ Len(<<0>> \o f) = Len(f) + 1
        /\ (<<0>> \o f)[1] = 0 /\ \A k \in 1 .. Len(f) : (<<0>> \o f)[k + 1] = f[k]
    BY <2>1, Before
  <2> QED BY <1>4, <1>5, <2>2
<1>8. Frame(byte) = head \o <<1>>
  BY <1>1, <1>5 DEF Frame
<1>9. /\ Frame(byte) \in Seq(S) /\ Len(Frame(byte)) = 10
      /\ Frame(byte)[10] = 1 /\ \A k \in 1 .. 9 : Frame(byte)[k] = head[k]
  <2>1. 1 \in S
    BY <1>6
  <2>2. head \in Seq(S)
    BY <1>7
  <2>3. /\ head \o <<1>> \in Seq(S) /\ Len(head \o <<1>>) = Len(head) + 1
        /\ (head \o <<1>>)[Len(head) + 1] = 1
        /\ \A k \in 1 .. Len(head) : (head \o <<1>>)[k] = head[k]
    BY <2>1, <2>2, Behind
  <2> QED BY <1>7, <1>8, <2>3
<1>10. \A k \in 1 .. 10 : Frame(byte)[k] = FrameBit(byte, k - 1)
  <2> SUFFICES ASSUME NEW k \in 1 .. 10 PROVE Frame(byte)[k] = FrameBit(byte, k - 1)
    OBVIOUS
  <2>1. CASE k = 1
    BY <1>7, <1>9, <2>1, FrameBits
  <2>2. CASE k = 10
    BY <1>9, <2>2, FrameBits
  <2>3. CASE k \in 2 .. 9
    <3>1. PICK i \in 1 .. 8 : k = i + 1
      BY <2>3
    <3>2. k - 1 = i /\ Frame(byte)[k] = head[i + 1]
      BY <1>9, <2>3, <3>1
    <3> QED BY <1>2, <1>7, <3>2
  <2> QED BY <2>1, <2>2, <2>3
<1> QED BY <1>6, <1>9, <1>10

\* and its receiver makes a byte of those it has sampled.
LEMMA FramedIs ==
  ASSUME NEW byte \in Byte, NEW bits \in Seq({0, 1}), Len(bits) = 10,
         \A k \in 1 .. 10 : bits[k] = FrameBit(byte, k - 1)
  PROVE  FramedByte(bits) = byte
<1>1. /\ bits[2] = byte % 2 /\ bits[3] = (byte \div 2) % 2 /\ bits[4] = (byte \div 4) % 2
      /\ bits[5] = (byte \div 8) % 2 /\ bits[6] = (byte \div 16) % 2 /\ bits[7] = (byte \div 32) % 2
      /\ bits[8] = (byte \div 64) % 2 /\ bits[9] = (byte \div 128) % 2
  BY FrameBits
<1>2. FramedByte(bits) = bits[2] * 2^0 + bits[3] * 2^1 + bits[4] * 2^2 + bits[5] * 2^3
                         + bits[6] * 2^4 + bits[7] * 2^5 + bits[8] * 2^6 + bits[9] * 2^7
  BY DEF FramedByte
<1>3. FramedByte(bits) = bits[2] * 1 + bits[3] * 2 + bits[4] * 4 + bits[5] * 8
                         + bits[6] * 16 + bits[7] * 32 + bits[8] * 64 + bits[9] * 128
  BY <1>2, Powers
<1>4. FramedByte(bits) =
        (byte % 2) * 1 + ((byte \div 2) % 2) * 2 + ((byte \div 4) % 2) * 4
        + ((byte \div 8) % 2) * 8 + ((byte \div 16) % 2) * 16 + ((byte \div 32) % 2) * 32
        + ((byte \div 64) % 2) * 64 + ((byte \div 128) % 2) * 128
  BY <1>1, <1>3
<1>5. /\ byte % 2 \in Int /\ (byte \div 2) % 2 \in Int /\ (byte \div 4) % 2 \in Int
      /\ (byte \div 8) % 2 \in Int /\ (byte \div 16) % 2 \in Int /\ (byte \div 32) % 2 \in Int
      /\ (byte \div 64) % 2 \in Int /\ (byte \div 128) % 2 \in Int
  BY Rates
<1> QED BY <1>4, <1>5, BinaryDigits

\* The connector shifts the same bits out of its register,
LEMMA ShiftsOut ==
  ASSUME NEW byte \in Byte, NEW c \in 0 .. 8, NEW sr, sr = TxFrame(byte) \div 2^c
  PROVE  sr % 2 = FrameBit(byte, c + 1) /\ sr \div 2 = TxFrame(byte) \div 2^(c + 1)
<1>1. byte \in Nat /\ byte <= 255
  BY Rates
<1>2. PICK x \in Nat : x = TxFrame(byte) /\ (x = 256 + byte \/ x = 65280 + byte)
  BY <1>1 DEF TxFrame
<1>3. sr \div 2 = TxFrame(byte) \div 2^(c + 1)
  <2>1. (x \div 2^c) \div 2 = x \div 2^(c + 1)
    BY Halving
  <2> QED BY <1>2, <2>1
<1>4. \A q, m \in Nat : (2 * m + q) % 2 = q % 2
  OBVIOUS
<1>5. CASE c = 0
  <2>1. 2^c = 1 /\ FrameBit(byte, c + 1) = (byte \div 1) % 2
    BY <1>1, <1>5, Powers DEF FrameBit
  <2>2. x \div 1 = 2 * 128 + (byte \div 1) \/ x \div 1 = 2 * 32640 + (byte \div 1)
    BY <1>1, <1>2
  <2>3. byte \div 1 \in Nat
    BY <1>1
  <2>4. (x \div 1) % 2 = (byte \div 1) % 2
    BY <1>4, <2>2, <2>3
  <2> QED BY <1>2, <1>3, <2>1, <2>4
<1>6. CASE c = 1
  <2>1. 2^c = 2 /\ FrameBit(byte, c + 1) = (byte \div 2) % 2
    BY <1>1, <1>6, Powers DEF FrameBit
  <2>2. x \div 2 = 2 * 64 + (byte \div 2) \/ x \div 2 = 2 * 16320 + (byte \div 2)
    BY <1>1, <1>2
  <2>3. byte \div 2 \in Nat
    BY <1>1
  <2>4. (x \div 2) % 2 = (byte \div 2) % 2
    BY <1>4, <2>2, <2>3
  <2> QED BY <1>2, <1>3, <2>1, <2>4
<1>7. CASE c = 2
  <2>1. 2^c = 4 /\ FrameBit(byte, c + 1) = (byte \div 4) % 2
    BY <1>1, <1>7, Powers DEF FrameBit
  <2>2. x \div 4 = 2 * 32 + (byte \div 4) \/ x \div 4 = 2 * 8160 + (byte \div 4)
    BY <1>1, <1>2
  <2>3. byte \div 4 \in Nat
    BY <1>1
  <2>4. (x \div 4) % 2 = (byte \div 4) % 2
    BY <1>4, <2>2, <2>3
  <2> QED BY <1>2, <1>3, <2>1, <2>4
<1>8. CASE c = 3
  <2>1. 2^c = 8 /\ FrameBit(byte, c + 1) = (byte \div 8) % 2
    BY <1>1, <1>8, Powers DEF FrameBit
  <2>2. x \div 8 = 2 * 16 + (byte \div 8) \/ x \div 8 = 2 * 4080 + (byte \div 8)
    BY <1>1, <1>2
  <2>3. byte \div 8 \in Nat
    BY <1>1
  <2>4. (x \div 8) % 2 = (byte \div 8) % 2
    BY <1>4, <2>2, <2>3
  <2> QED BY <1>2, <1>3, <2>1, <2>4
<1>9. CASE c = 4
  <2>1. 2^c = 16 /\ FrameBit(byte, c + 1) = (byte \div 16) % 2
    BY <1>1, <1>9, Powers DEF FrameBit
  <2>2. x \div 16 = 2 * 8 + (byte \div 16) \/ x \div 16 = 2 * 2040 + (byte \div 16)
    BY <1>1, <1>2
  <2>3. byte \div 16 \in Nat
    BY <1>1
  <2>4. (x \div 16) % 2 = (byte \div 16) % 2
    BY <1>4, <2>2, <2>3
  <2> QED BY <1>2, <1>3, <2>1, <2>4
<1>10. CASE c = 5
  <2>1. 2^c = 32 /\ FrameBit(byte, c + 1) = (byte \div 32) % 2
    BY <1>1, <1>10, Powers DEF FrameBit
  <2>2. x \div 32 = 2 * 4 + (byte \div 32) \/ x \div 32 = 2 * 1020 + (byte \div 32)
    BY <1>1, <1>2
  <2>3. byte \div 32 \in Nat
    BY <1>1
  <2>4. (x \div 32) % 2 = (byte \div 32) % 2
    BY <1>4, <2>2, <2>3
  <2> QED BY <1>2, <1>3, <2>1, <2>4
<1>11. CASE c = 6
  <2>1. 2^c = 64 /\ FrameBit(byte, c + 1) = (byte \div 64) % 2
    BY <1>1, <1>11, Powers DEF FrameBit
  <2>2. x \div 64 = 2 * 2 + (byte \div 64) \/ x \div 64 = 2 * 510 + (byte \div 64)
    BY <1>1, <1>2
  <2>3. byte \div 64 \in Nat
    BY <1>1
  <2>4. (x \div 64) % 2 = (byte \div 64) % 2
    BY <1>4, <2>2, <2>3
  <2> QED BY <1>2, <1>3, <2>1, <2>4
<1>12. CASE c = 7
  <2>1. 2^c = 128 /\ FrameBit(byte, c + 1) = (byte \div 128) % 2
    BY <1>1, <1>12, Powers DEF FrameBit
  <2>2. x \div 128 = 2 * 1 + (byte \div 128) \/ x \div 128 = 2 * 255 + (byte \div 128)
    BY <1>1, <1>2
  <2>3. byte \div 128 \in Nat
    BY <1>1
  <2>4. (x \div 128) % 2 = (byte \div 128) % 2
    BY <1>4, <2>2, <2>3
  <2> QED BY <1>2, <1>3, <2>1, <2>4
<1>13. CASE c = 8
  <2>1. 2^c = 256 /\ FrameBit(byte, c + 1) = 1
    BY <1>13, Powers DEF FrameBit
  <2>2. (x \div 256) % 2 = 1
    BY <1>1, <1>2
  <2> QED BY <1>2, <1>3, <2>1, <2>2
<1>14. c \in {0, 1, 2, 3, 4, 5, 6, 7, 8}
  OBVIOUS
<1> QED BY <1>5, <1>6, <1>7, <1>8, <1>9, <1>10, <1>11, <1>12, <1>13, <1>14

\* and shifts them into the other.
LEMMA ShiftsIn ==
  ASSUME NEW byte \in Byte
  PROVE  /\ Shifted(byte)[0] = 0
         /\ \A c \in 0 .. 8 : Shifted(byte)[c + 1] = 2 * Shifted(byte)[c] + FrameBit(byte, c)
         /\ \A c \in 0 .. 9 : Shifted(byte)[c] \in Nat /\ Shifted(byte)[c] <= 255
         /\ ReversedByte(2 * Shifted(byte)[9] + 1) = byte
<1>1. PICK b \in [0 .. 9 -> {0, 1}] : \A i \in 0 .. 9 : b[i] = FrameBit(byte, i)
  <2>1. [i \in 0 .. 9 |-> FrameBit(byte, i)] \in [0 .. 9 -> {0, 1}]
    BY FrameBitType
  <2> QED BY <2>1
<1>2. PICK s : s = Shifted(byte)
  OBVIOUS
<1>3. /\ s[0] = 0 /\ s[1] = 0 /\ s[2] = b[1] /\ s[3] = 2 * b[1] + b[2]
      /\ s[4] = 4 * b[1] + 2 * b[2] + b[3]
      /\ s[5] = 8 * b[1] + 4 * b[2] + 2 * b[3] + b[4]
      /\ s[6] = 16 * b[1] + 8 * b[2] + 4 * b[3] + 2 * b[4] + b[5]
      /\ s[7] = 32 * b[1] + 16 * b[2] + 8 * b[3] + 4 * b[4] + 2 * b[5] + b[6]
      /\ s[8] = 64 * b[1] + 32 * b[2] + 16 * b[3] + 8 * b[4] + 4 * b[5] + 2 * b[6] + b[7]
      /\ s[9] = 128 * b[1] + 64 * b[2] + 32 * b[3] + 16 * b[4] + 8 * b[5] + 4 * b[6] + 2 * b[7] + b[8]
  BY <1>1, <1>2 DEF Shifted
<1>4. /\ b[0] = 0 /\ b[9] = 1
      /\ b[1] \in 0 .. 1 /\ b[2] \in 0 .. 1 /\ b[3] \in 0 .. 1 /\ b[4] \in 0 .. 1
      /\ b[5] \in 0 .. 1 /\ b[6] \in 0 .. 1 /\ b[7] \in 0 .. 1 /\ b[8] \in 0 .. 1
  BY <1>1, FrameBits
<1>5. \A c \in 0 .. 8 : s[c + 1] = 2 * s[c] + b[c]
  <2> SUFFICES ASSUME NEW c \in 0 .. 8 PROVE s[c + 1] = 2 * s[c] + b[c]
    OBVIOUS
  <2>1. CASE c \in {0, 1, 2}
    BY <1>3, <1>4, <2>1
  <2>2. CASE c \in {3, 4, 5}
    BY <1>3, <1>4, <2>2
  <2>3. CASE c \in {6, 7, 8}
    BY <1>3, <1>4, <2>3
  <2> QED BY <2>1, <2>2, <2>3
<1>6. \A c \in 0 .. 9 : s[c] \in Nat /\ s[c] <= 255
  <2>1. \A c \in 0 .. 8 : s[c] \in Nat => s[c + 1] \in Nat /\ s[c + 1] <= 2 * s[c] + 1
    <3> SUFFICES ASSUME NEW c \in 0 .. 8, s[c] \in Nat
                 PROVE  s[c + 1] \in Nat /\ s[c + 1] <= 2 * s[c] + 1
      OBVIOUS
    <3>1. b[c] \in {0, 1} /\ s[c + 1] = 2 * s[c] + b[c]
      BY <1>1, <1>5
    <3> QED BY <3>1
  <2>2. s[1] \in Nat /\ s[1] <= 0
    BY <1>3
  <2>3. s[2] \in Nat /\ s[2] <= 1
    <3>1. s[1 + 1] \in Nat /\ s[1 + 1] <= 2 * s[1] + 1
      BY <2>1, <2>2
    <3> QED BY <2>2, <3>1
  <2>4. s[3] \in Nat /\ s[3] <= 3
    <3>1. s[2 + 1] \in Nat /\ s[2 + 1] <= 2 * s[2] + 1
      BY <2>1, <2>3
    <3> QED BY <2>3, <3>1
  <2>5. s[4] \in Nat /\ s[4] <= 7
    <3>1. s[3 + 1] \in Nat /\ s[3 + 1] <= 2 * s[3] + 1
      BY <2>1, <2>4
    <3> QED BY <2>4, <3>1
  <2>6. s[5] \in Nat /\ s[5] <= 15
    <3>1. s[4 + 1] \in Nat /\ s[4 + 1] <= 2 * s[4] + 1
      BY <2>1, <2>5
    <3> QED BY <2>5, <3>1
  <2>7. s[6] \in Nat /\ s[6] <= 31
    <3>1. s[5 + 1] \in Nat /\ s[5 + 1] <= 2 * s[5] + 1
      BY <2>1, <2>6
    <3> QED BY <2>6, <3>1
  <2>8. s[7] \in Nat /\ s[7] <= 63
    <3>1. s[6 + 1] \in Nat /\ s[6 + 1] <= 2 * s[6] + 1
      BY <2>1, <2>7
    <3> QED BY <2>7, <3>1
  <2>9. s[8] \in Nat /\ s[8] <= 127
    <3>1. s[7 + 1] \in Nat /\ s[7 + 1] <= 2 * s[7] + 1
      BY <2>1, <2>8
    <3> QED BY <2>8, <3>1
  <2>10. s[9] \in Nat /\ s[9] <= 255
    <3>1. s[8 + 1] \in Nat /\ s[8 + 1] <= 2 * s[8] + 1
      BY <2>1, <2>9
    <3> QED BY <2>9, <3>1
  <2>11. ASSUME NEW c \in {0, 1, 2, 3, 4} PROVE s[c] \in Nat /\ s[c] <= 255
    <3>1. s[0] \in Nat /\ s[0] <= 255
      BY <1>3
    <3> QED BY <2>2, <2>3, <2>4, <2>5, <3>1
  <2>12. ASSUME NEW c \in {5, 6, 7, 8, 9} PROVE s[c] \in Nat /\ s[c] <= 255
    BY <2>6, <2>7, <2>8, <2>9, <2>10
  <2>13. \A c \in 0 .. 9 : c \in {0, 1, 2, 3, 4} \/ c \in {5, 6, 7, 8, 9}
    OBVIOUS
  <2> QED BY <2>11, <2>12, <2>13
<1>7. PICK x \in Nat : x = 2 * s[9] + 1
  BY <1>6
<1>8. \A y, z \in Nat, bit \in {0, 1} : z = 2 * y + bit => z % 2 = bit /\ z \div 2 = y
  OBVIOUS
<1>9. \A k \in 0 .. 8 : s[k + 1] % 2 = b[k] /\ s[k + 1] \div 2 = s[k]
  <2> SUFFICES ASSUME NEW k \in 0 .. 8 PROVE s[k + 1] % 2 = b[k] /\ s[k + 1] \div 2 = s[k]
    OBVIOUS
  <2>1. PICK y, z, bit : y = s[k] /\ bit = b[k] /\ z = s[k + 1]
    OBVIOUS
  <2>2. y \in Nat /\ z \in Nat
    BY <1>6, <2>1
  <2>3. bit \in {0, 1} /\ z = 2 * y + bit
    BY <1>1, <1>5, <2>1
  <2>4. z % 2 = bit /\ z \div 2 = y
    BY <1>8, <2>2, <2>3
  <2> QED BY <2>1, <2>4
<1>10. x \div 2^1 = s[9]
  <2>1. PICK y \in Nat : y = s[9] /\ x = 2 * y + 1
    BY <1>6, <1>7
  <2> QED BY <2>1, Powers
<1>11. x \div 2^2 = s[8] /\ s[9] % 2 = b[8]
  <2>1. (x \div 2^1) \div 2 = x \div 2^(1 + 1) /\ s[8 + 1] \div 2 = s[8] /\ s[8 + 1] % 2 = b[8]
    BY <1>9, Halving
  <2> QED BY <1>10, <2>1
<1>12. x \div 2^3 = s[7] /\ s[8] % 2 = b[7]
  <2>1. (x \div 2^2) \div 2 = x \div 2^(2 + 1) /\ s[7 + 1] \div 2 = s[7] /\ s[7 + 1] % 2 = b[7]
    BY <1>9, Halving
  <2> QED BY <1>11, <2>1
<1>13. x \div 2^4 = s[6] /\ s[7] % 2 = b[6]
  <2>1. (x \div 2^3) \div 2 = x \div 2^(3 + 1) /\ s[6 + 1] \div 2 = s[6] /\ s[6 + 1] % 2 = b[6]
    BY <1>9, Halving
  <2> QED BY <1>12, <2>1
<1>14. x \div 2^5 = s[5] /\ s[6] % 2 = b[5]
  <2>1. (x \div 2^4) \div 2 = x \div 2^(4 + 1) /\ s[5 + 1] \div 2 = s[5] /\ s[5 + 1] % 2 = b[5]
    BY <1>9, Halving
  <2> QED BY <1>13, <2>1
<1>15. x \div 2^6 = s[4] /\ s[5] % 2 = b[4]
  <2>1. (x \div 2^5) \div 2 = x \div 2^(5 + 1) /\ s[4 + 1] \div 2 = s[4] /\ s[4 + 1] % 2 = b[4]
    BY <1>9, Halving
  <2> QED BY <1>14, <2>1
<1>16. x \div 2^7 = s[3] /\ s[4] % 2 = b[3]
  <2>1. (x \div 2^6) \div 2 = x \div 2^(6 + 1) /\ s[3 + 1] \div 2 = s[3] /\ s[3 + 1] % 2 = b[3]
    BY <1>9, Halving
  <2> QED BY <1>15, <2>1
<1>17. x \div 2^8 = s[2] /\ s[3] % 2 = b[2]
  <2>1. (x \div 2^7) \div 2 = x \div 2^(7 + 1) /\ s[2 + 1] \div 2 = s[2] /\ s[2 + 1] % 2 = b[2]
    BY <1>9, Halving
  <2> QED BY <1>16, <2>1
<1>18. x \div 2^9 = s[1] /\ s[2] % 2 = b[1]
  <2>1. (x \div 2^8) \div 2 = x \div 2^(8 + 1) /\ s[1 + 1] \div 2 = s[1] /\ s[1 + 1] % 2 = b[1]
    BY <1>9, Halving
  <2> QED BY <1>17, <2>1
<1>19. /\ (x \div 2^1) % 2 = b[8] /\ (x \div 2^2) % 2 = b[7] /\ (x \div 2^3) % 2 = b[6]
       /\ (x \div 2^4) % 2 = b[5] /\ (x \div 2^5) % 2 = b[4] /\ (x \div 2^6) % 2 = b[3]
       /\ (x \div 2^7) % 2 = b[2] /\ (x \div 2^8) % 2 = b[1]
  <2>1. s[2] % 2 = b[1]
    BY <1>18
  <2> QED BY <1>10, <1>11, <1>12, <1>13, <1>14, <1>15, <1>16, <1>17, <1>18, <2>1
<1>20. ReversedByte(x) =
         ((x \div 2^1) % 2) * 2^7 + ((x \div 2^2) % 2) * 2^6 + ((x \div 2^3) % 2) * 2^5
         + ((x \div 2^4) % 2) * 2^4 + ((x \div 2^5) % 2) * 2^3 + ((x \div 2^6) % 2) * 2^2
         + ((x \div 2^7) % 2) * 2^1 + ((x \div 2^8) % 2) * 2^0
  BY DEF ReversedByte
<1>21. ReversedByte(x) =
         b[8] * 2^7 + b[7] * 2^6 + b[6] * 2^5 + b[5] * 2^4 + b[4] * 2^3 + b[3] * 2^2 + b[2] * 2^1
         + b[1] * 2^0
  BY <1>19, <1>20
<1>22. ReversedByte(x) =
         b[8] * 128 + b[7] * 64 + b[6] * 32 + b[5] * 16 + b[4] * 8 + b[3] * 4 + b[2] * 2 + b[1] * 1
  BY <1>21, Powers
<1>23. /\ b[1] = byte % 2 /\ b[2] = (byte \div 2) % 2 /\ b[3] = (byte \div 4) % 2
       /\ b[4] = (byte \div 8) % 2 /\ b[5] = (byte \div 16) % 2 /\ b[6] = (byte \div 32) % 2
       /\ b[7] = (byte \div 64) % 2 /\ b[8] = (byte \div 128) % 2
  BY <1>1, FrameBits
<1>24. byte = b[1] + 2 * b[2] + 4 * b[3] + 8 * b[4] + 16 * b[5] + 32 * b[6] + 64 * b[7] + 128 * b[8]
  BY <1>23, BinaryDigits
<1>25. ReversedByte(x) = byte
  BY <1>4, <1>22, <1>24
<1> QED BY <1>1, <1>2, <1>3, <1>5, <1>6, <1>7, <1>25
-----------------------------------------------------------------------------
(* The steps. *)

\* One edge of the transmitter in the middle of a frame.
LEMMA SendingOn ==
  ASSUME NEW byte \in Byte, NEW n \in 1 .. 10, Sending(byte, n),
         AsyncTxTick(Uart!TxAck, serial_tx_data)
  PROVE  /\ at_o' = FrameBit(byte, 10 - n)
         /\ at_timer = 0 => at_timer' = Divisor - 1
         /\ at_timer # 0 => at_timer' = at_timer - 1
         /\ at_timer # 0 => Sending(byte, n)'
         /\ at_timer = 0 /\ n = 1 => at_shreg' = <<>>
         /\ at_timer = 0 /\ n # 1 => Sending(byte, n - 1)'
<1>1. /\ at_timer \in Int /\ 0 <= at_timer /\ at_timer <= Divisor - 1
      /\ at_shreg \in Seq({0, 1}) /\ Len(at_shreg) = n
      /\ \A k \in 1 .. n : at_shreg[k] = FrameBit(byte, 10 - n + k - 1)
  BY Rates DEF Sending
<1>2. at_shreg # <<>> /\ Head(at_shreg) = at_shreg[1]
  BY <1>1
<1>3. /\ at_o' = Head(at_shreg)
      /\ at_shreg' = IF at_timer = 0 THEN Tail(at_shreg) ELSE at_shreg
      /\ at_timer' = IF at_timer = 0 THEN Divisor - 1 ELSE at_timer - 1
  BY <1>2 DEF AsyncTxTick, AsyncTxRdy
<1>4. at_o' = FrameBit(byte, 10 - n)
  <2>1. 1 \in 1 .. n /\ 10 - n + 1 - 1 = 10 - n
    OBVIOUS
  <2> QED BY <1>1, <1>2, <1>3, <2>1
<1>5. ASSUME at_timer # 0 PROVE Sending(byte, n)'
  <2>1. at_timer' \in 0 .. Divisor - 1 /\ at_shreg' = at_shreg
    BY <1>1, <1>3, <1>5, Rates
  <2> QED BY <1>1, <2>1 DEF Sending
<1>6. ASSUME at_timer = 0, n = 1 PROVE at_shreg' = <<>>
  <2>1. PICK S : S = {0, 1}
    OBVIOUS
  <2>2. at_shreg \in Seq(S) /\ Len(at_shreg) = 1
    BY <1>1, <1>6, <2>1
  <2>3. Tail(at_shreg) \in Seq(S) /\ Len(Tail(at_shreg)) = 0
    <3>1. Tail(at_shreg) \in Seq(S) /\ Len(Tail(at_shreg)) = Len(at_shreg) - 1
      BY <1>2, <2>2, HeadTailProperties
    <3> QED BY <2>2, <3>1
  <2>4. Tail(at_shreg) = <<>>
    BY <2>3, EmptySeq
  <2> QED BY <1>3, <1>6, <2>4
<1>7. ASSUME at_timer = 0, n # 1 PROVE Sending(byte, n - 1)'
  <2>1. PICK S : S = {0, 1}
    OBVIOUS
  <2>2. at_shreg \in Seq(S) /\ Len(at_shreg) = n /\ at_shreg # <<>> /\ at_shreg' = Tail(at_shreg)
    BY <1>1, <1>2, <1>3, <1>7, <2>1
  <2>3. /\ at_shreg' \in Seq(S) /\ Len(at_shreg') = n - 1
        /\ \A k \in 1 .. n - 1 : at_shreg'[k] = at_shreg[k + 1]
    BY <2>2
  <2>4. at_timer' \in 0 .. Divisor - 1
    BY <1>3, <1>7, Rates
  <2>5. \A k \in 1 .. n - 1 : at_shreg'[k] = FrameBit(byte, 10 - (n - 1) + k - 1)
    <3> SUFFICES ASSUME NEW k \in 1 .. n - 1
                 PROVE  at_shreg'[k] = FrameBit(byte, 10 - (n - 1) + k - 1)
      OBVIOUS
    <3>1. k + 1 \in 1 .. n /\ 10 - n + (k + 1) - 1 = 10 - (n - 1) + k - 1
      OBVIOUS
    <3>2. at_shreg[k + 1] = FrameBit(byte, 10 - n + (k + 1) - 1)
      BY <1>1, <3>1
    <3> QED BY <2>3, <3>1, <3>2
  <2> QED BY <2>1, <2>3, <2>4, <2>5 DEF Sending
<1> QED BY <1>3, <1>4, <1>5, <1>6, <1>7

\* The line rests: the driver's end does too.
LEMMA RestHeard ==
  ASSUME SaidInv, at_shreg = <<>>, serial_tx_data \in Byte,
         AsyncTxTick(Uart!TxAck, serial_tx_data), ConnectorRx(at_o'),
         said' = AppendIf(Uart!TxAck, said, serial_tx_data),
         heard' = AppendIf(Received(at_o'), heard, last_byte')
  PROVE  SaidInv'
<1>1. heard \in Seq(Byte) /\ c_rx_state = "RX_IDLE" /\ said = heard
  <2>1. Len(at_shreg) = 0
    OBVIOUS
  <2>2. ASSUME NEW byte \in Byte, NEW n \in 1 .. 10, Sending(byte, n) PROVE FALSE
    BY <2>1, <2>2 DEF Sending
  <2> QED BY <2>1, <2>2 DEF SaidInv
<1>2. /\ at_o' = 1
      /\ at_shreg' = IF Uart!TxAck THEN Frame(serial_tx_data) ELSE <<>>
      /\ at_timer' = IF Uart!TxAck THEN Divisor - 1 ELSE at_timer
  BY DEF AsyncTxTick, AsyncTxRdy
<1>3. c_rx_state' = "RX_IDLE"
  BY <1>1, <1>2 DEF ConnectorRx, RxIdleLine, RxStart, RxHold, RxSample, Samples, connectorRxVars
<1>4. heard' = heard
  BY <1>1 DEF Received, Samples, AppendIf
<1>5. CASE Uart!TxAck
  <2>1. PICK byte \in Byte : byte = serial_tx_data
    OBVIOUS
  <2>2. at_shreg' = Frame(byte) /\ at_timer' = Divisor - 1 /\ at_timer' \in 0 .. Divisor - 1
    BY <1>2, <1>5, <2>1, Rates
  <2>3. Sending(byte, 10)'
    <3>1. \A k \in 1 .. 10 : FrameBit(byte, 10 - 10 + k - 1) = FrameBit(byte, k - 1)
      OBVIOUS
    <3>2. /\ at_shreg' \in Seq({0, 1}) /\ Len(at_shreg') = 10
          /\ \A k \in 1 .. 10 : at_shreg'[k] = FrameBit(byte, k - 1)
      BY <2>2, FrameIs
    <3> QED BY <2>2, <3>1, <3>2 DEF Sending
  <2>4. Hearing(byte, 10)'
    BY <1>1, <1>3, <1>4, <1>5, <2>1, <2>2 DEF Hearing, AppendIf
  <2> QED BY <1>1, <1>4, <2>3, <2>4 DEF SaidInv
<1>6. CASE ~Uart!TxAck
  BY <1>1, <1>2, <1>3, <1>4, <1>6 DEF SaidInv, AppendIf
<1> QED BY <1>5, <1>6

\* The driver's end in a frame, at the edge in which the line's level is line.
LEMMA HearingOn ==
  ASSUME NEW byte \in Byte, NEW n \in 1 .. 10, Hearing(byte, n),
         at_timer \in 0 .. Divisor - 1,
         heard \in Seq(Byte),
         at_o' = FrameBit(byte, 10 - n),
         at_timer = 0 => at_timer' = Divisor - 1, at_timer # 0 => at_timer' = at_timer - 1,
         ConnectorRx(at_o'), said' = said,
         heard' = AppendIf(Received(at_o'), heard, last_byte')
  PROVE  /\ heard' \in Seq(Byte)
         /\ at_timer # 0 => Hearing(byte, n)'
         /\ at_timer = 0 /\ n # 1 => Hearing(byte, n - 1)'
         /\ at_timer = 0 /\ n = 1 => c_rx_state' = "RX_IDLE" /\ said' = heard'
<1>1. at_timer \in Int /\ 0 <= at_timer /\ at_timer <= Divisor - 1
  BY Rates
<1>2. CASE c_rx_state = "RX_IDLE" /\ n = 10 /\ at_timer = Divisor - 1 /\ said = Append(heard, byte)
  <2>1. at_o' = 0 /\ ~Received(at_o') /\ heard' = heard
    BY <1>2, FrameBits DEF Received, Samples, AppendIf
  <2>2. c_rx_state' = "RX_BIT" /\ c_rx_timer' = Half /\ c_rx_sr' = 0 /\ c_rx_counter' = 0
    BY <1>2, <2>1, Rates
       DEF ConnectorRx, RxIdleLine, RxStart, RxHold, RxSample, Samples, Half
  <2>3. at_timer # 0 /\ at_timer' = Divisor - 2
    BY <1>2, Rates
  <2>4. Shifted(byte)[0] = 0
    BY ShiftsIn
  <2> QED BY <1>2, <2>1, <2>2, <2>3, <2>4, Rates DEF Hearing
<1>3. CASE c_rx_state = "RX_IDLE" /\ n = 1 /\ at_timer <= Divisor - 2 - Half /\ said = heard
  <2>1. at_o' = 1 /\ ~Received(at_o') /\ heard' = heard
    BY <1>3, FrameBits DEF Received, Samples, AppendIf
  <2>2. c_rx_state' = "RX_IDLE"
    BY <1>3, <2>1
       DEF ConnectorRx, RxIdleLine, RxStart, RxHold, RxSample, Samples, connectorRxVars
  <2> QED BY <1>1, <1>3, <2>1, <2>2, Rates DEF Hearing
<1>4. CASE /\ c_rx_state = "RX_BIT" /\ said = Append(heard, byte)
           /\ c_rx_counter \in 0 .. 9 /\ c_rx_sr = Shifted(byte)[c_rx_counter]
           /\ c_rx_counter = 11 - n /\ at_timer <= Divisor - 2 - Half
           /\ c_rx_timer = at_timer + 2 + Half
  <2>1. c_rx_timer > 1 /\ n # 1
    BY <1>1, <1>4, Rates
  <2>2. /\ c_rx_state' = "RX_BIT" /\ c_rx_timer' = c_rx_timer - 1
        /\ c_rx_sr' = c_rx_sr /\ c_rx_counter' = c_rx_counter
    BY <1>4, <2>1 DEF ConnectorRx, RxIdleLine, RxStart, RxHold, RxSample, Samples
  <2>3. ~Received(at_o') /\ heard' = heard
    BY <2>1 DEF Received, Samples, AppendIf
  <2>4. CASE at_timer # 0
    BY <1>1, <1>4, <2>2, <2>3, <2>4, Rates DEF Hearing
  <2>5. CASE at_timer = 0
    <3>1. at_timer' = Divisor - 1 /\ c_rx_timer' = 1 + Half /\ c_rx_counter' = 10 - (n - 1)
      BY <1>4, <2>2, <2>5, Rates
    <3> QED BY <1>4, <2>1, <2>2, <2>3, <2>5, <3>1, Rates DEF Hearing
  <2> QED BY <2>4, <2>5
<1>5. CASE /\ c_rx_state = "RX_BIT" /\ said = Append(heard, byte)
           /\ c_rx_counter \in 0 .. 9 /\ c_rx_sr = Shifted(byte)[c_rx_counter]
           /\ c_rx_counter = 10 - n /\ at_timer >= Divisor - 1 - Half
           /\ c_rx_timer = at_timer + 2 + Half - Divisor
  <2>1. at_timer # 0 /\ at_timer' = at_timer - 1 /\ c_rx_timer >= 1
    BY <1>1, <1>5, Rates
  <2>2. CASE c_rx_timer > 1
    <3>1. /\ c_rx_state' = "RX_BIT" /\ c_rx_timer' = c_rx_timer - 1
          /\ c_rx_sr' = c_rx_sr /\ c_rx_counter' = c_rx_counter
      BY <1>5, <2>2 DEF ConnectorRx, RxIdleLine, RxStart, RxHold, RxSample, Samples
    <3>2. ~Received(at_o') /\ heard' = heard
      BY <2>2 DEF Received, Samples, AppendIf
    <3> QED BY <1>1, <1>5, <2>1, <2>2, <3>1, <3>2, Rates DEF Hearing
  <2>3. CASE c_rx_timer = 1
    <3>1. PICK c \in 0 .. 9 : c = c_rx_counter /\ n = 10 - c
      BY <1>5
    <3>2. PICK bit \in {0, 1} : bit = at_o' /\ bit = FrameBit(byte, c)
      BY <3>1, FrameBitType
    <3>3. PICK sr \in Nat : sr = c_rx_sr /\ sr = Shifted(byte)[c] /\ sr <= 255
      BY <1>5, <3>1, ShiftsIn
    <3>4. RxShifted(at_o') = 2 * sr + bit
      <4>1. 2 * sr + bit \in Nat /\ 2 * sr + bit <= 511
        <5>1. bit = 0 \/ bit = 1
          BY <3>2
        <5>2. sr <= 255
          BY <3>3
        <5> QED BY <5>1, <5>2
      <4>2. (2 * sr + bit) % 65536 = 2 * sr + bit
        BY <4>1
      <4> QED BY <3>2, <3>3, <4>2 DEF RxShifted
    <3>5. /\ c_rx_timer' = Divisor /\ c_rx_counter' = c + 1
          /\ c_rx_state' = IF c + 1 = 10 THEN "RX_IDLE" ELSE "RX_BIT"
          /\ c_rx_sr' = IF Received(at_o') THEN ReversedByte(RxShifted(at_o')) ELSE RxShifted(at_o')
          /\ last_byte' = IF Received(at_o') THEN c_rx_sr' ELSE last_byte
      BY <1>5, <2>3, <3>1, Rates
         DEF ConnectorRx, RxIdleLine, RxStart, RxHold, RxSample, Samples
    <3>6. at_timer' = Divisor - 2 - Half
      BY <1>5, <2>1, <2>3, Rates
    <3>7. CASE c = 9
      <4>1. bit = 1 /\ RxShifted(at_o') = 2 * sr + 1
        BY <3>2, <3>4, <3>7, FrameBits
      <4>2. ((2 * sr + 1) \div 512) % 2 = 0
        <5>1. PICK x \in Nat : x = 2 * sr + 1 /\ x < 512
          BY <3>3
        <5>2. x \div 512 = 0
          BY <5>1
        <5>3. 0 % 2 = 0
          OBVIOUS
        <5> QED BY <5>1, <5>2, <5>3
      <4>3. Received(at_o')
        BY <1>5, <2>3, <3>1, <3>2, <3>7, <4>1, <4>2 DEF Received, Samples
      <4>4. ReversedByte(2 * sr + 1) = byte
        BY <3>3, <3>7, ShiftsIn
      <4>5. heard' = Append(heard, byte)
        BY <3>5, <4>1, <4>3, <4>4 DEF AppendIf
      <4> QED BY <1>5, <2>1, <3>1, <3>5, <3>6, <3>7, <4>5 DEF Hearing
    <3>8. CASE c # 9
      <4>1. ~Received(at_o') /\ heard' = heard
        BY <3>1, <3>8 DEF Received, AppendIf
      <4>2. c_rx_sr' = Shifted(byte)[c + 1] /\ c_rx_state' = "RX_BIT" /\ c + 1 \in 0 .. 9
        <5>1. Shifted(byte)[c + 1] = 2 * Shifted(byte)[c] + FrameBit(byte, c)
          <6>1. c \in 0 .. 8
            BY <3>8
          <6> QED BY <6>1, ShiftsIn
        <5> QED BY <3>2, <3>3, <3>4, <3>5, <3>8, <4>1, <5>1
      <4>3. c_rx_counter' = 11 - n /\ c_rx_timer' = at_timer' + 2 + Half
        BY <3>1, <3>5, <3>6, Rates
      <4> QED BY <1>5, <2>1, <3>1, <3>5, <3>6, <4>1, <4>2, <4>3 DEF Hearing
    <3> QED BY <3>7, <3>8
  <2>4. c_rx_timer > 1 \/ c_rx_timer = 1
    BY <1>1, <1>5, <2>1, Rates
  <2> QED BY <2>2, <2>3, <2>4
<1> QED BY <1>2, <1>3, <1>4, <1>5 DEF Hearing

\* The design's line and what the driver hears of it: SaidInv is kept.
LEMMA SaidStep ==
  ASSUME SaidInv, Uart!TxAck => at_shreg = <<>>, serial_tx_data \in Byte,
         AsyncTxTick(Uart!TxAck, serial_tx_data), ConnectorRx(at_o'),
         said' = AppendIf(Uart!TxAck, said, serial_tx_data),
         heard' = AppendIf(Received(at_o'), heard, last_byte')
  PROVE  SaidInv'
<1>1. CASE at_shreg = <<>>
  BY <1>1, RestHeard
<1>2. CASE at_shreg # <<>>
  <2>1. PICK byte \in Byte, n \in 1 .. 10 : Sending(byte, n) /\ Hearing(byte, n)
    BY <1>2 DEF SaidInv
  <2>2. said' = said /\ heard \in Seq(Byte)
    BY <1>2 DEF SaidInv, AppendIf
  <2>3. at_timer \in 0 .. Divisor - 1
    BY <2>1 DEF Sending
  <2>4. /\ at_o' = FrameBit(byte, 10 - n)
        /\ at_timer = 0 => at_timer' = Divisor - 1
        /\ at_timer # 0 => at_timer' = at_timer - 1
        /\ at_timer # 0 => Sending(byte, n)'
        /\ at_timer = 0 /\ n = 1 => at_shreg' = <<>>
        /\ at_timer = 0 /\ n # 1 => Sending(byte, n - 1)'
    BY <2>1, SendingOn
  <2>5. /\ heard' \in Seq(Byte)
        /\ at_timer # 0 => Hearing(byte, n)'
        /\ at_timer = 0 /\ n # 1 => Hearing(byte, n - 1)'
        /\ at_timer = 0 /\ n = 1 => c_rx_state' = "RX_IDLE" /\ said' = heard'
    BY <2>1, <2>2, <2>3, <2>4, HearingOn
  <2>6. CASE at_timer # 0
    BY <2>4, <2>5, <2>6 DEF SaidInv
  <2>7. CASE at_timer = 0 /\ n = 1
    BY <2>4, <2>5, <2>7 DEF SaidInv
  <2>8. CASE at_timer = 0 /\ n # 1
    <3>1. n - 1 \in 1 .. 10
      BY <2>8
    <3> QED BY <2>4, <2>5, <2>8, <3>1 DEF SaidInv
  <2> QED BY <2>6, <2>7, <2>8
<1> QED BY <1>1, <1>2

\* One tick of the connector in a frame: on in the bit, on to the next, or it was the last.
LEMMA ShiftingOn ==
  ASSUME NEW byte \in Byte, ShiftingOut(byte), ConnectorTx
  PROVE  /\ Passed \in 0 .. Divisor - 1 /\ ~TxStarts
         /\ Passed # Divisor - 1 => /\ Passed' = Passed + 1
                                    /\ c_tx_counter' = c_tx_counter /\ p_uart_rx' = p_uart_rx
                                    /\ ShiftingOut(byte)'
         /\ Passed = Divisor - 1 /\ c_tx_counter # 9 => /\ Passed' = 0
                                                        /\ c_tx_counter' = c_tx_counter + 1
                                                        /\ ShiftingOut(byte)'
         /\ Passed = Divisor - 1 /\ c_tx_counter = 9 =>
              c_tx_state' = "TX_IDLE" /\ p_uart_rx' = 1
<1>1. /\ c_tx_state = "TX_BIT" /\ c_tx_counter \in 0 .. 9
      /\ p_uart_rx = FrameBit(byte, c_tx_counter)
      /\ c_tx_timer \in Int /\ 1 <= c_tx_timer /\ c_tx_timer <= Divisor
      /\ c_tx_sr = TxFrame(byte) \div 2^c_tx_counter
  BY Rates DEF ShiftingOut
<1>2. TxHold \/ TxBit
  BY <1>1 DEF ConnectorTx, TxStart, TxStarts, TxRest
<1>3. Passed \in 0 .. Divisor - 1 /\ ~TxStarts /\ (Passed = Divisor - 1 <=> c_tx_timer = 1)
  BY <1>1, Rates DEF Passed, TxStarts
<1>4. CASE Passed # Divisor - 1
  <2>1. /\ c_tx_timer > 1 /\ c_tx_timer' = c_tx_timer - 1
        /\ p_uart_rx' = p_uart_rx /\ c_tx_state' = c_tx_state
        /\ c_tx_sr' = c_tx_sr /\ c_tx_counter' = c_tx_counter
    BY <1>1, <1>2, <1>3, <1>4 DEF TxHold, TxBit
  <2>2. Passed' = Passed + 1 /\ c_tx_timer' \in 1 .. Divisor
    BY <1>1, <2>1, Rates DEF Passed
  <2> QED BY <1>1, <1>3, <1>4, <2>1, <2>2 DEF ShiftingOut
<1>5. CASE Passed = Divisor - 1
  <2>1. /\ c_tx_timer' = Divisor
        /\ c_tx_sr' = c_tx_sr \div 2
        /\ c_tx_counter' = c_tx_counter + 1
        /\ IF c_tx_counter' = 10 THEN p_uart_rx' = 1 /\ c_tx_state' = "TX_IDLE"
                                 ELSE p_uart_rx' = c_tx_sr % 2 /\ c_tx_state' = c_tx_state
    BY <1>1, <1>2, <1>3, <1>5, Rates DEF TxHold, TxBit
  <2>2. CASE c_tx_counter = 9
    BY <1>3, <1>5, <2>1, <2>2
  <2>3. CASE c_tx_counter # 9
    <3>1. PICK c \in 0 .. 8 : c = c_tx_counter
      BY <1>1, <2>3
    <3>2. c_tx_sr % 2 = FrameBit(byte, c + 1) /\ c_tx_sr \div 2 = TxFrame(byte) \div 2^(c + 1)
      BY <1>1, <3>1, ShiftsOut
    <3>3. c_tx_counter' = c + 1 /\ c + 1 # 10 /\ c + 1 \in 0 .. 9
      BY <2>1, <3>1
    <3>4. Passed' = 0 /\ c_tx_timer' \in 1 .. Divisor
      BY <2>1, Rates DEF Passed
    <3> QED BY <1>1, <1>3, <1>5, <2>1, <2>3, <3>1, <3>2, <3>3, <3>4 DEF ShiftingOut
  <2> QED BY <2>2, <2>3
<1> QED BY <1>3, <1>4, <1>5

\* The registers before the receiver follow.
LEMMA SyncedOn ==
  ASSUME NEW byte \in Byte, ShiftingOut(byte), ConnectorTx, Synced(byte),
         ar_sync' = p_uart_rx, ar_i' = ar_sync
  PROVE  /\ Passed # Divisor - 1 \/ c_tx_counter # 9 => Synced(byte)'
         /\ Passed = Divisor - 1 /\ c_tx_counter = 9 => ar_sync' = 1 /\ ar_i' = 1
<1>1. p_uart_rx = FrameBit(byte, c_tx_counter) /\ c_tx_counter \in 0 .. 9
  BY DEF ShiftingOut
<1>2. /\ Passed \in 0 .. Divisor - 1
      /\ ar_sync = IF Passed >= 1 THEN p_uart_rx ELSE LineBefore(byte)
  BY ShiftingOn DEF Synced
<1>3. CASE Passed # Divisor - 1
  <2>1. Passed' = Passed + 1 /\ c_tx_counter' = c_tx_counter /\ p_uart_rx' = p_uart_rx
    BY <1>3, ShiftingOn
  <2>2. LineBefore(byte)' = LineBefore(byte)
    BY <2>1 DEF LineBefore
  <2>3. PICK j \in Nat : j = Passed /\ Passed' = j + 1
    BY <1>2, <2>1
  <2>4. /\ ar_sync' = p_uart_rx'
        /\ ar_i' = IF j + 1 >= 2 THEN p_uart_rx' ELSE LineBefore(byte)'
    BY <1>2, <2>1, <2>2, <2>3
  <2>5. j + 1 >= 1
    BY <2>3
  <2> QED BY <1>3, <2>3, <2>4, <2>5 DEF Synced
<1>4. CASE Passed = Divisor - 1
  <2>1. ar_i' = p_uart_rx
    BY <1>2, <1>4, Rates
  <2>2. CASE c_tx_counter = 9
    BY <1>1, <1>4, <2>1, <2>2, FrameBits
  <2>3. CASE c_tx_counter # 9
    <3>1. Passed' = 0 /\ c_tx_counter' = c_tx_counter + 1
      BY <1>4, <2>3, ShiftingOn
    <3>2. LineBefore(byte)' = FrameBit(byte, c_tx_counter)
      <4>1. c_tx_counter + 1 # 0 /\ (c_tx_counter + 1) - 1 = c_tx_counter
        BY <1>1
      <4> QED BY <3>1, <4>1 DEF LineBefore
    <3> QED BY <1>1, <2>1, <2>3, <3>1, <3>2 DEF Synced
  <2> QED BY <2>2, <2>3
<1> QED BY <1>3, <1>4

\* The receiver's register grows by a bit of the frame.
LEMMA SampledOn ==
  ASSUME NEW byte \in Byte, NEW n \in 0 .. 9, Sampled(byte, n),
         ar_shreg' = Append(ar_shreg, FrameBit(byte, n))
  PROVE  Sampled(byte, n + 1)' /\ Len(ar_shreg') = n + 1
<1>1. PICK S : S = {0, 1}
  OBVIOUS
<1>2. PICK bit \in S : bit = FrameBit(byte, n)
  BY <1>1, FrameBitType
<1>3. /\ ar_shreg \in Seq(S) /\ Len(ar_shreg) = n
      /\ \A k \in 1 .. n : ar_shreg[k] = FrameBit(byte, k - 1)
  BY <1>1 DEF Sampled
<1>4. /\ Append(ar_shreg, bit) \in Seq(S) /\ Len(Append(ar_shreg, bit)) = n + 1
      /\ Append(ar_shreg, bit)[n + 1] = bit
      /\ \A k \in 1 .. n : Append(ar_shreg, bit)[k] = ar_shreg[k]
  BY <1>3
<1>5. ar_shreg' = Append(ar_shreg, bit)
  BY <1>2
<1>6. ASSUME NEW k \in 1 .. n + 1 PROVE ar_shreg'[k] = FrameBit(byte, k - 1)
  <2>1. CASE k = n + 1
    <3>1. k - 1 = n
      BY <2>1
    <3> QED BY <1>2, <1>4, <1>5, <2>1, <3>1
  <2>2. CASE k \in 1 .. n
    BY <1>3, <1>4, <1>5, <2>2
  <2>3. k = n + 1 \/ k \in 1 .. n
    OBVIOUS
  <2> QED BY <2>1, <2>2, <2>3
<1> QED BY <1>1, <1>4, <1>5, <1>6 DEF Sampled

LEMMA SampledStays ==
  ASSUME NEW byte, NEW n, Sampled(byte, n), ar_shreg' = ar_shreg
  PROVE  Sampled(byte, n)'
BY DEF Sampled

\* One edge of the receiver in a frame.
LEMMA SamplingOn ==
  ASSUME NEW byte \in Byte, ShiftingOut(byte), ConnectorTx, Synced(byte), Sampling(byte),
         ended \in Seq(Byte), NEW ack, AsyncRxDone => ack, AsyncRxTick(ack, p_uart_rx),
         told' = told, ended' = AppendIf(AsyncRxDone, ended, ar_data')
  PROVE  /\ ended' \in Seq(Byte)
         /\ Passed # Divisor - 1 \/ c_tx_counter # 9 => Sampling(byte)'
         /\ Passed = Divisor - 1 /\ c_tx_counter = 9 => ar_state' = "IDLE" /\ told' = ended'
<1>1. /\ c_tx_counter \in 0 .. 9 /\ Passed \in 0 .. Divisor - 1
      /\ p_uart_rx = FrameBit(byte, c_tx_counter)
      /\ ar_i = IF Passed >= 2 THEN p_uart_rx ELSE LineBefore(byte)
  BY ShiftingOn DEF ShiftingOut, Synced
<1>2. PICK c \in 0 .. 9, j \in 0 .. Divisor - 1 : c = c_tx_counter /\ j = Passed
  BY <1>1
<1>3. /\ j # Divisor - 1 => Passed' = j + 1 /\ c_tx_counter' = c
      /\ j = Divisor - 1 /\ c # 9 => Passed' = 0 /\ c_tx_counter' = c + 1
  BY <1>2, ShiftingOn
<1>4. j \in Int /\ 0 <= j /\ j <= Divisor - 1 /\ c \in Int /\ 0 <= c /\ c <= 9
  BY Rates
<1>5. CASE ar_state = "IDLE" /\ c = 0 /\ j <= 2 /\ told = Append(ended, byte)
  <2>1. ~AsyncRxDone /\ ended' = ended /\ j # Divisor - 1
    BY <1>4, <1>5, Rates DEF AsyncRxDone, AppendIf
  <2>2. Passed' = j + 1 /\ c_tx_counter' = 0
    BY <1>3, <1>5, <2>1
  <2>3. CASE j = 2
    <3>1. ar_i = 0
      BY <1>1, <1>2, <1>5, <2>3, FrameBits
    <3>2. ar_state' = "BUSY" /\ ar_timer' = Half /\ ar_shreg' = <<>>
      BY <1>5, <2>1, <3>1 DEF AsyncRxTick, Half
    <3>3. Sampled(byte, 0)'
      <4>1. Len(<<>>) = 0 /\ <<>> \in Seq({0, 1}) /\ 1 .. 0 = {}
        OBVIOUS
      <4> QED BY <3>2, <4>1 DEF Sampled
    <3>4. /\ Passed' = 3 /\ 3 <= 3 + Half /\ ar_timer' = 3 + Half - Passed' /\ Passed' >= 3
      BY <2>2, <2>3, <3>2, Rates
    <3> QED BY <1>2, <1>5, <2>1, <2>2, <3>2, <3>3, <3>4 DEF Sampling
  <2>4. CASE j # 2
    <3>1. ar_i = 1
      BY <1>1, <1>2, <1>4, <1>5, <2>4 DEF LineBefore
    <3>2. ar_state' = "IDLE"
      BY <1>5, <2>1, <3>1 DEF AsyncRxTick
    <3>3. Passed' <= 2
      BY <1>4, <1>5, <2>2, <2>4
    <3> QED BY <1>2, <1>5, <2>1, <2>2, <3>2, <3>3 DEF Sampling
  <2> QED BY <2>3, <2>4
<1>6. CASE /\ ar_state = "BUSY" /\ told = Append(ended, byte)
           /\ j <= 3 + Half /\ ar_timer = 3 + Half - j /\ (c = 0 => j >= 3) /\ Sampled(byte, c)
  <2>1. ~AsyncRxDone /\ ended' = ended /\ j # Divisor - 1
    BY <1>4, <1>6, Rates DEF AsyncRxDone, AppendIf
  <2>2. Passed' = j + 1 /\ c_tx_counter' = c
    BY <1>3, <2>1
  <2>3. CASE j # 3 + Half
    <3>1. ar_timer # 0
      BY <1>4, <1>6, <2>3, Rates
    <3>2. ar_timer' = ar_timer - 1 /\ ar_state' = "BUSY" /\ ar_shreg' = ar_shreg
      BY <1>6, <2>1, <3>1 DEF AsyncRxTick
    <3>3. /\ Passed' <= 3 + Half /\ ar_timer' = 3 + Half - Passed'
          /\ c_tx_counter' = 0 => Passed' >= 3
      BY <1>4, <1>6, <2>2, <2>3, <3>2, Rates
    <3>4. Sampled(byte, c)'
      BY <1>6, <3>2, SampledStays
    <3>5. Sampled(byte, c_tx_counter)'
      BY <2>2, <3>4 DEF Sampled
    <3> QED BY <1>2, <1>6, <2>1, <3>2, <3>3, <3>5 DEF Sampling
  <2>4. CASE j = 3 + Half
    <3>1. ar_timer = 0 /\ ar_i = FrameBit(byte, c)
      BY <1>1, <1>2, <1>6, <2>4, Rates
    <3>2. /\ ar_shreg' = Append(ar_shreg, ar_i) /\ ar_timer' = Divisor - 1
          /\ ar_state' = IF Len(ar_shreg') = 10 THEN "DONE" ELSE "BUSY"
      BY <1>6, <2>1, <3>1 DEF AsyncRxTick
    <3>3. Sampled(byte, c + 1)' /\ Len(ar_shreg') = c + 1
      BY <1>6, <3>1, <3>2, SampledOn
    <3>4. Passed' = 4 + Half
      BY <2>2, <2>4, Rates
    <3>5. CASE c = 9
      <4>1. ar_state' = "DONE" /\ c_tx_counter' = 9 /\ Sampled(byte, 10)'
        BY <2>2, <3>2, <3>3, <3>5
      <4> QED BY <1>2, <1>6, <2>1, <3>4, <4>1 DEF Sampling
    <3>6. CASE c # 9
      <4>1. c + 1 # 10 /\ c < 9
        BY <1>4, <3>6
      <4>2. ar_state' = "BUSY" /\ c_tx_counter' < 9
        BY <2>2, <3>2, <3>3, <4>1
      <4>3. Sampled(byte, c_tx_counter + 1)'
        BY <2>2, <3>3 DEF Sampled
      <4>4. Passed' >= 4 + Half /\ ar_timer' = 3 + Half + Divisor - Passed'
        BY <3>2, <3>4, Rates
      <4> QED BY <1>2, <1>6, <2>1, <4>2, <4>3, <4>4 DEF Sampling
    <3> QED BY <3>5, <3>6
  <2> QED BY <2>3, <2>4
<1>7. CASE /\ ar_state = "BUSY" /\ told = Append(ended, byte)
           /\ j >= 4 + Half /\ ar_timer = 3 + Half + Divisor - j /\ c < 9
           /\ Sampled(byte, c + 1)
  <2>1. ~AsyncRxDone /\ ended' = ended /\ ar_timer # 0 /\ c # 9
    BY <1>4, <1>7, Rates DEF AsyncRxDone, AppendIf
  <2>2. ar_timer' = ar_timer - 1 /\ ar_state' = "BUSY" /\ ar_shreg' = ar_shreg
    BY <1>7, <2>1 DEF AsyncRxTick
  <2>3. Sampled(byte, c + 1)'
    BY <1>7, <2>2, SampledStays
  <2>4. CASE j # Divisor - 1
    <3>1. Passed' = j + 1 /\ c_tx_counter' = c
      BY <1>3, <2>4
    <3>2. Sampled(byte, c_tx_counter + 1)' /\ c_tx_counter' < 9
      BY <1>7, <2>3, <3>1 DEF Sampled
    <3>3. Passed' >= 4 + Half /\ ar_timer' = 3 + Half + Divisor - Passed'
      BY <1>4, <1>7, <2>2, <3>1, Rates
    <3> QED BY <1>2, <1>7, <2>1, <2>2, <3>2, <3>3 DEF Sampling
  <2>5. CASE j = Divisor - 1
    <3>1. Passed' = 0 /\ c_tx_counter' = c + 1
      BY <1>3, <2>1, <2>5
    <3>2. Sampled(byte, c_tx_counter)' /\ c_tx_counter' # 0
      BY <1>4, <2>3, <3>1 DEF Sampled
    <3>3. Passed' <= 3 + Half /\ ar_timer' = 3 + Half - Passed'
      BY <1>7, <2>2, <2>5, <3>1, Rates
    <3> QED BY <1>2, <1>7, <2>1, <2>2, <3>2, <3>3 DEF Sampling
  <2> QED BY <2>4, <2>5
<1>8. CASE /\ ar_state = "DONE" /\ told = Append(ended, byte) /\ c = 9 /\ j = 4 + Half
           /\ Sampled(byte, 10)
  <2>1. ar_state' = "IDLE" /\ ar_data' = FramedByte(ar_shreg) /\ ended' = Append(ended, ar_data')
    BY <1>8 DEF AsyncRxTick, AsyncRxDone, AppendIf
  <2>2. FramedByte(ar_shreg) = byte
    BY <1>8, FramedIs DEF Sampled
  <2>3. ended' \in Seq(Byte) /\ told' = ended'
    <3>1. ended' = Append(ended, byte)
      BY <2>1, <2>2
    <3>2. Append(ended, byte) \in Seq(Byte)
      BY AppendProperties
    <3> QED BY <1>8, <3>1, <3>2
  <2>4. CASE j # Divisor - 1
    <3>1. Passed' >= 5 + Half /\ c_tx_counter' = 9
      BY <1>3, <1>8, <2>4, Rates
    <3> QED BY <1>2, <1>8, <2>1, <2>3, <2>4, <3>1 DEF Sampling
  <2>5. CASE j = Divisor - 1
    BY <1>2, <1>8, <2>1, <2>3, <2>5
  <2> QED BY <2>4, <2>5
<1>9. CASE ar_state = "IDLE" /\ told = ended /\ c = 9 /\ j >= 5 + Half
  <2>1. ~AsyncRxDone /\ ended' = ended
    BY <1>9 DEF AsyncRxDone, AppendIf
  <2>2. ar_i = 1
    <3>1. c_tx_counter = 9 /\ Passed >= 2
      BY <1>2, <1>9, Rates
    <3> QED BY <1>1, <3>1, FrameBits
  <2>3. ar_state' = "IDLE"
    BY <1>9, <2>1, <2>2 DEF AsyncRxTick
  <2>4. CASE j # Divisor - 1
    <3>1. Passed' >= 5 + Half /\ c_tx_counter' = 9
      BY <1>3, <1>4, <1>9, <2>4, Rates
    <3> QED BY <1>2, <1>9, <2>1, <2>3, <2>4, <3>1 DEF Sampling
  <2>5. CASE j = Divisor - 1
    BY <1>2, <1>9, <2>1, <2>3, <2>5
  <2> QED BY <2>4, <2>5
<1> QED BY <1>2, <1>5, <1>6, <1>7, <1>8, <1>9 DEF Sampling

LEMMA Distribution ==
  \A c \in 0 .. 9 : c * Divisor \in Nat /\ (c + 1) * Divisor = c * Divisor + Divisor
<1>1. Divisor \in Nat
  BY Rates
<1>2. ASSUME NEW c \in {0, 1, 2, 3, 4, 5, 6, 7, 8, 9}
      PROVE  c * Divisor \in Nat /\ (c + 1) * Divisor = c * Divisor + Divisor
  BY <1>1, <1>2
<1>3. \A c \in 0 .. 9 : c \in {0, 1, 2, 3, 4, 5, 6, 7, 8, 9}
  OBVIOUS
<1> QED BY <1>2, <1>3

LEMMA GapCounts == \A gap \in Nat : /\ Uart!CountDown(gap) \in Nat
                                    /\ Uart!CountDown(gap) = 0 \/ Uart!CountDown(gap) = gap - 1
BY DEF Uart!CountDown

\* When a byte ends, no other has for its time on the line.
LEMMA EndsApart ==
  ASSUME ToldInv, AsyncRxDone
  PROVE  line_gap = 0 /\ FramedByte(ar_shreg) \in RxByte
<1>1. PICK byte \in RxByte :
        /\ ShiftingOut(byte) /\ Sampling(byte)
        /\ ~Ended => line_gap = 0 \/ line_gap + Elapsed <= 9 * Divisor + 3 + Half
  BY DEF ToldInv, AsyncRxDone
<1>2. byte \in Byte
  BY LinkAssumption
<1>3. c_tx_counter = 9 /\ Passed = 4 + Half /\ Sampled(byte, 10)
  BY <1>1 DEF Sampling, AsyncRxDone
<1>4. ~Ended
  BY <1>3, Rates DEF Ended
<1>5. Elapsed = 9 * Divisor + 4 + Half
  BY <1>3, Rates DEF Elapsed
<1>6. line_gap = 0
  BY <1>1, <1>4, <1>5, Rates DEF ToldInv
<1>7. FramedByte(ar_shreg) = byte
  BY <1>2, <1>3, FramedIs DEF Sampled
<1> QED BY <1>6, <1>7

\* The driver's line and what the design hears of it: ToldInv is kept.
LEMMA ToldStep ==
  ASSUME ToldInv, TxStarts => Head(c_tx_buffer) \in RxByte, AsyncRxDone => Uart!RxAck,
         ConnectorTx, AsyncRxTick(Uart!RxAck, p_uart_rx),
         line_gap' = IF AsyncRxDone THEN 10 * Divisor - 1 ELSE Uart!CountDown(line_gap),
         told' = AppendIf(TxStarts, told, Head(c_tx_buffer)),
         ended' = AppendIf(AsyncRxDone, ended, ar_data')
  PROVE  ToldInv'
<1>1. ended \in Seq(Byte) /\ line_gap \in Nat
  BY DEF ToldInv
<1>2. ar_sync' = p_uart_rx /\ ar_i' = ar_sync
  BY DEF AsyncRxTick
<1>3. line_gap' \in Nat
  BY <1>1, Rates, GapCounts
<1>4. CASE /\ c_tx_state = "TX_IDLE" /\ p_uart_rx = 1 /\ ar_sync = 1 /\ ar_i = 1
           /\ ar_state = "IDLE" /\ told = ended /\ line_gap <= 9 * Divisor + 4 + Half
  <2>1. /\ ~AsyncRxDone /\ ended' = ended
        /\ ar_sync' = 1 /\ ar_i' = 1 /\ ar_state' = "IDLE"
    BY <1>2, <1>4 DEF AsyncRxDone, AsyncRxTick, AppendIf
  <2>2. line_gap' = 0 \/ line_gap' = line_gap - 1
    BY <1>1, <2>1, GapCounts
  <2>3. CASE TxStarts
    <3>1. PICK byte \in RxByte : byte = Head(c_tx_buffer)
      BY <2>3
    <3>2. byte \in Byte
      BY LinkAssumption
    <3>3. /\ p_uart_rx' = 0 /\ c_tx_state' = "TX_BIT" /\ c_tx_timer' = Divisor
          /\ c_tx_sr' = TxFrame(byte) /\ c_tx_counter' = 0
      BY <2>3, <3>1, Rates DEF ConnectorTx, TxStart, TxRest, TxHold, TxBit, TxStarts
    <3>4. ShiftingOut(byte)'
      <4>1. TxFrame(byte) \in Nat
        BY <3>2, Rates DEF TxFrame
      <4>2. TxFrame(byte) \div 2^0 = TxFrame(byte)
        BY <4>1, Powers
      <4>3. 0 \in 0 .. 9 /\ Divisor \in 1 .. Divisor
        BY Rates
      <4> QED BY <3>2, <3>3, <4>2, <4>3, FrameBits DEF ShiftingOut
    <3>5. Passed' = 0
      BY <3>3, Rates DEF Passed
    <3>6. Synced(byte)'
      BY <2>1, <3>3, <3>5 DEF Synced, LineBefore
    <3>7. Sampling(byte)'
      BY <1>4, <2>1, <2>3, <3>1, <3>3, <3>5 DEF Sampling, AppendIf
    <3>8. ~Ended' /\ Elapsed' = 0
      BY <3>3, <3>5, Rates DEF Ended, Elapsed
    <3>9. line_gap' = 0 \/ line_gap' + Elapsed' <= 9 * Divisor + 3 + Half
      BY <1>1, <1>4, <2>2, <3>8, Rates
    <3> QED BY <1>1, <1>3, <2>1, <3>4, <3>6, <3>7, <3>8, <3>9 DEF ToldInv
  <2>4. CASE ~TxStarts
    <3>1. c_tx_state' = "TX_IDLE" /\ p_uart_rx' = 1
      BY <1>4, <2>4 DEF ConnectorTx, TxStart, TxRest, TxHold, TxBit, TxStarts, connectorTxVars
    <3>2. told' = ended'
      BY <1>4, <2>1, <2>4 DEF AppendIf
    <3>3. line_gap' <= 9 * Divisor + 4 + Half
      BY <1>1, <1>4, <2>2, Rates
    <3> QED BY <1>1, <1>3, <2>1, <3>1, <3>2, <3>3 DEF ToldInv
  <2> QED BY <2>3, <2>4
<1>5. ASSUME NEW byte \in RxByte, ShiftingOut(byte), Synced(byte), Sampling(byte),
             Ended => line_gap <= 10 * Divisor + 4 + Half - Passed,
             ~Ended => line_gap = 0 \/ line_gap + Elapsed <= 9 * Divisor + 3 + Half
      PROVE  ToldInv'
  <2>1. byte \in Byte
    BY LinkAssumption
  <2>2. c_tx_counter \in 0 .. 9 /\ Passed \in 0 .. Divisor - 1 /\ ~TxStarts
    BY <1>5, <2>1, ShiftingOn DEF ShiftingOut
  <2>3. told' = told
    BY <2>2 DEF AppendIf
  <2>4. PICK ack : ack = Uart!RxAck
    OBVIOUS
  <2>5. /\ ended' \in Seq(Byte)
        /\ Passed # Divisor - 1 \/ c_tx_counter # 9 => Sampling(byte)'
        /\ Passed = Divisor - 1 /\ c_tx_counter = 9 => ar_state' = "IDLE" /\ told' = ended'
    <3>1. AsyncRxTick(ack, p_uart_rx) /\ (AsyncRxDone => ack)
      BY <2>4
    <3> QED BY <1>1, <1>5, <2>1, <2>3, <3>1, SamplingOn
  <2>6. /\ Passed # Divisor - 1 \/ c_tx_counter # 9 => Synced(byte)'
        /\ Passed = Divisor - 1 /\ c_tx_counter = 9 => ar_sync' = 1 /\ ar_i' = 1
    BY <1>2, <1>5, <2>1, SyncedOn
  <2>7. /\ Passed # Divisor - 1 => /\ Passed' = Passed + 1
                                   /\ c_tx_counter' = c_tx_counter
                                   /\ ShiftingOut(byte)'
        /\ Passed = Divisor - 1 /\ c_tx_counter # 9 => /\ Passed' = 0
                                                       /\ c_tx_counter' = c_tx_counter + 1
                                                       /\ ShiftingOut(byte)'
        /\ Passed = Divisor - 1 /\ c_tx_counter = 9 => c_tx_state' = "TX_IDLE" /\ p_uart_rx' = 1
    BY <1>5, <2>1, ShiftingOn
  <2>8. PICK c \in 0 .. 9, j \in 0 .. Divisor - 1 : c = c_tx_counter /\ j = Passed
    BY <2>2
  <2>9. j \in Int /\ 0 <= j /\ j <= Divisor - 1 /\ c \in Int /\ 0 <= c /\ c <= 9
    BY Rates
  <2>10. CASE c = 9 /\ j >= 5 + Half
    <3>1. Ended /\ ~AsyncRxDone
      BY <1>5, <2>8, <2>9, <2>10, Rates DEF Ended, Sampling, AsyncRxDone
    <3>2. line_gap' = 0 \/ line_gap' = line_gap - 1
      BY <1>1, <3>1, GapCounts
    <3>3. line_gap <= 10 * Divisor + 4 + Half - j
      BY <1>5, <2>8, <3>1
    <3>4. CASE j # Divisor - 1
      <4>1. Passed' = j + 1 /\ c_tx_counter' = 9
        BY <2>7, <2>8, <2>10, <3>4
      <4>2. Ended'
        BY <2>9, <2>10, <4>1, Rates DEF Ended
      <4>3. line_gap' <= 10 * Divisor + 4 + Half - Passed'
        BY <1>1, <2>9, <3>2, <3>3, <4>1, Rates
      <4> QED BY <1>3, <2>5, <2>6, <2>7, <2>8, <3>4, <4>2, <4>3 DEF ToldInv
    <3>5. CASE j = Divisor - 1
      <4>1. line_gap' <= 9 * Divisor + 4 + Half
        BY <1>1, <3>2, <3>3, <3>5, Rates
      <4> QED BY <1>3, <2>5, <2>6, <2>7, <2>8, <2>10, <3>5, <4>1 DEF ToldInv
    <3> QED BY <3>4, <3>5
  <2>11. CASE c = 9 /\ j = 4 + Half
    <3>1. CASE AsyncRxDone
      <4>1. line_gap' = 10 * Divisor - 1
        BY <3>1
      <4>2. CASE j # Divisor - 1
        <5>1. Passed' = 5 + Half /\ c_tx_counter' = 9
          BY <2>7, <2>8, <2>11, <4>2, Rates
        <5>2. Ended'
          BY <5>1, Rates DEF Ended
        <5>3. line_gap' <= 10 * Divisor + 4 + Half - Passed'
          BY <4>1, <5>1, Rates
        <5> QED BY <1>3, <2>5, <2>6, <2>7, <2>8, <4>2, <5>2, <5>3 DEF ToldInv
      <4>3. CASE j = Divisor - 1
        <5>1. line_gap' <= 9 * Divisor + 4 + Half
          BY <2>11, <4>1, <4>3, Rates
        <5> QED BY <1>3, <2>5, <2>6, <2>7, <2>8, <2>11, <4>3, <5>1 DEF ToldInv
      <4> QED BY <4>2, <4>3
    <3>2. CASE ~AsyncRxDone
      BY <1>5, <2>8, <2>11, <3>2, Rates DEF Sampling, AsyncRxDone
    <3> QED BY <3>1, <3>2
  <2>12. CASE ~(c = 9 /\ j >= 4 + Half)
    <3>1. ~AsyncRxDone
      BY <1>5, <2>8, <2>12, Rates DEF Sampling, AsyncRxDone
    <3>2. line_gap' = 0 \/ line_gap' = line_gap - 1
      BY <1>1, <3>1, GapCounts
    <3>3. ~Ended
      BY <2>8, <2>9, <2>12, Rates DEF Ended
    <3>4. PICK e \in Nat : e = c * Divisor
      BY Distribution
    <3>5. line_gap = 0 \/ line_gap + e + j <= 9 * Divisor + 3 + Half
      <4>1. Elapsed = e + j
        BY <2>8, <3>4 DEF Elapsed
      <4> QED BY <1>1, <1>5, <2>9, <3>3, <3>4, <4>1
    <3>6. CASE j # Divisor - 1
      <4>1. Passed' = j + 1 /\ c_tx_counter' = c
        BY <2>7, <2>8, <3>6
      <4>2. ~Ended'
        BY <2>9, <2>12, <4>1, Rates DEF Ended
      <4>3. Elapsed' = e + (j + 1)
        BY <3>4, <4>1 DEF Elapsed
      <4>4. line_gap' = 0 \/ line_gap' + Elapsed' <= 9 * Divisor + 3 + Half
        BY <1>1, <1>3, <2>9, <3>2, <3>4, <3>5, <4>3, Rates
      <4> QED BY <1>3, <2>5, <2>6, <2>7, <2>8, <3>6, <4>2, <4>4 DEF ToldInv
    <3>7. CASE j = Divisor - 1
      <4>1. c # 9
        BY <2>12, <3>7, Rates
      <4>2. Passed' = 0 /\ c_tx_counter' = c + 1
        BY <2>7, <2>8, <3>7, <4>1
      <4>3. ~Ended'
        BY <4>2, Rates DEF Ended
      <4>4. (c + 1) * Divisor = e + Divisor
        BY <3>4, Distribution
      <4>5. Elapsed' = e + Divisor
        BY <3>4, <4>2, <4>4, Rates DEF Elapsed
      <4>6. line_gap' = 0 \/ line_gap' + Elapsed' <= 9 * Divisor + 3 + Half
        BY <1>1, <1>3, <3>2, <3>4, <3>5, <3>7, <4>5, Rates
      <4> QED BY <1>3, <2>5, <2>6, <2>7, <2>8, <3>7, <4>1, <4>3, <4>6 DEF ToldInv
    <3> QED BY <3>6, <3>7
  <2>13. (c = 9 /\ j >= 5 + Half) \/ (c = 9 /\ j = 4 + Half) \/ ~(c = 9 /\ j >= 4 + Half)
    BY <2>9, Rates
  <2> QED BY <2>10, <2>11, <2>12, <2>13
<1> QED BY <1>4, <1>5 DEF ToldInv

\* The receiving machine is back before another byte ends: TakenInv is kept.
LEMMA TakenStep ==
  ASSUME ToldInv, TakenInv, Uart!RxIdle \/ Uart!RxRead, AsyncRxTick(Uart!RxAck, p_uart_rx),
         line_gap' = IF AsyncRxDone THEN 10 * Divisor - 1 ELSE Uart!CountDown(line_gap),
         c_tx_buffer' \in Seq(RxByte)
  PROVE  TakenInv'
<1>1. line_gap \in Nat /\ Divisor \in Nat /\ Divisor >= 9
  BY Rates DEF ToldInv
<1>2. line_gap # 0 => line_gap' = line_gap - 1 /\ ~AsyncRxDone
  BY <1>1, EndsApart DEF Uart!CountDown
<1>3. ar_rdy' = IF Uart!RxAck THEN AsyncRxDone ELSE ar_rdy
  BY DEF AsyncRxTick
<1>4. CASE rx_state = "idle"
  <2>1. ar_rdy' = AsyncRxDone /\ rx_state' = IF ar_rdy THEN "read" ELSE "idle"
    BY <1>3, <1>4 DEF Uart!RxAck, Uart!RxIdle, Uart!RxRead
  <2>2. ar_rdy' \in BOOLEAN
    BY <2>1 DEF AsyncRxDone
  <2>3. CASE ar_rdy
    <3>1. line_gap = 10 * Divisor - 1
      BY <2>3 DEF TakenInv
    <3>2. line_gap' = 10 * Divisor - 2 /\ ~AsyncRxDone
      BY <1>1, <1>2, <3>1
    <3> QED BY <2>1, <2>2, <2>3, <3>2 DEF TakenInv
  <2>4. CASE ~ar_rdy
    BY <2>1, <2>2, <2>4 DEF TakenInv
  <2> QED BY <2>3, <2>4
<1>5. CASE rx_state = "read"
  <2>1. line_gap = 10 * Divisor - 2 /\ (ar_rdy => line_gap = 10 * Divisor - 1) /\ ar_rdy \in BOOLEAN
    BY <1>5 DEF TakenInv
  <2>2. ~ar_rdy
    BY <1>1, <2>1
  <2>3. ar_rdy' = ar_rdy /\ rx_state' = "idle"
    BY <1>3, <1>5 DEF Uart!RxAck, Uart!RxIdle, Uart!RxRead
  <2> QED BY <2>1, <2>2, <2>3 DEF TakenInv
<1> QED BY <1>4, <1>5 DEF TakenInv

\* A byte that ends is taken.
LEMMA EndsTaken ==
  ASSUME ToldInv, TakenInv, AsyncRxDone
  PROVE  Uart!RxAck
BY EndsApart, Rates DEF TakenInv, Uart!RxAck

\* The cycles until the transmitter is ready.
LEMMA TxLeftIs ==
  /\ at_shreg = <<>> => AsyncTxLeft = 0
  /\ \A byte \in Byte, n \in 1 .. 10 :
       Sending(byte, n) => /\ at_shreg # <<>> /\ AsyncTxLeft = (n - 1) * Divisor + at_timer + 1
                           /\ AsyncTxLeft \in Nat \ {0}
<1>1. at_shreg = <<>> => AsyncTxLeft = 0
  BY DEF AsyncTxLeft, AsyncTxRdy
<1>2. ASSUME NEW byte \in Byte, NEW n \in 1 .. 10, Sending(byte, n)
      PROVE  /\ at_shreg # <<>> /\ AsyncTxLeft = (n - 1) * Divisor + at_timer + 1
             /\ AsyncTxLeft \in Nat \ {0}
  <2>1. at_shreg # <<>> /\ Len(at_shreg) = n /\ at_timer \in Nat
    BY <1>2, Rates DEF Sending
  <2>2. AsyncTxLeft = (n - 1) * Divisor + at_timer + 1
    BY <2>1 DEF AsyncTxLeft, AsyncTxRdy
  <2>3. PICK c \in 0 .. 9 : c = n - 1
    OBVIOUS
  <2>4. PICK e \in Nat : e = (n - 1) * Divisor
    BY <2>3, Distribution
  <2> QED BY <2>1, <2>2, <2>4
<1> QED BY <1>1, <1>2

\* The sending machine gives it a byte when it is, and the FIFO shows one: TakeInv is kept.
LEMMA TakeStep ==
  ASSUME SaidInv, TakeInv, TextInv, Uart!TxTake \/ Uart!TxIdle \/ Uart!TxWait,
         tx_buf' = Uart!FifoAfter(tx_buf, uc_wrvalid, uc_wrpayload, tx_state = "wait"),
         AsyncTxTick(Uart!TxAck, serial_tx_data)
  PROVE  TakeInv'
<1>1. CASE Uart!TxTake
  <2>1. tx_state = "idle" /\ tx_state' = "wait" /\ AsyncTxLeft = 0 /\ tx_buf.rdy
    BY <1>1 DEF Uart!TxTake, Uart!TxTakes, Uart!TxRdy
  <2>2. at_shreg = <<>>
    BY <2>1, TxLeftIs DEF SaidInv
  <2>3. at_shreg' = <<>>
    BY <2>1, <2>2 DEF AsyncTxTick, AsyncTxRdy, Uart!TxAck
  <2>4. tx_buf'.rdy
    BY <2>1 DEF Uart!FifoAfter
  <2> QED BY <2>1, <2>3, <2>4 DEF TakeInv
<1>2. CASE ~Uart!TxTake
  BY <1>2 DEF Uart!TxIdle, Uart!TxWait, TakeInv
<1> QED BY <1>1, <1>2

\* What the program has not yet sent fits into the FIFO.
LEMMA Room == TextInv => (uc_wrvalid => Uart!HasRoom(tx_buf))
<1> SUFFICES ASSUME TextInv, uc_wrvalid PROVE Len(tx_buf.rest) < FifoDepth - 1
  BY DEF Uart!HasRoom
<1>1. Len(tx_buf.rest) \in Nat /\ Len(p_left) \in Nat /\ FifoDepth \in Nat /\ FifoDepth > 2
  BY LinkAssumption, LenProperties DEF TextInv
<1>2. Wr = 1
  BY DEF Wr
<1>3. CASE tx_buf.rdy
  <2>1. Rd(tx_buf) = 1
    BY <1>3 DEF Rd
  <2>2. 1 + Len(tx_buf.rest) + 1 + Len(p_left) <= FifoDepth
    BY <1>2, <2>1 DEF TextInv, Pending
  <2> QED BY <1>1, <2>2
<1>4. CASE ~tx_buf.rdy
  BY <1>1, <1>4 DEF TextInv
<1> QED BY <1>3, <1>4

\* A byte that goes to the transmitter at this edge.
Acked == IF tx_state = "wait" THEN 1 ELSE 0

\* The FIFO is not read when it is empty, nor written when it is full.
LEMMA FifoCounts ==
  ASSUME TextInv, TakeInv,
         tx_buf' = Uart!FifoAfter(tx_buf, uc_wrvalid, uc_wrpayload, tx_state = "wait")
  PROVE  /\ tx_buf'.rdy \in BOOLEAN /\ tx_buf'.data \in Byte /\ tx_buf'.rest \in Seq(Byte)
         /\ ~tx_buf'.rdy => Len(tx_buf'.rest) <= 1
         /\ Rd(tx_buf)' + Len(tx_buf'.rest) + Acked = Rd(tx_buf) + Len(tx_buf.rest) + Wr
<1>1. PICK f : f = tx_buf
  OBVIOUS
<1>2. PICK g : g = tx_buf'
  OBVIOUS
<1>3. PICK w_en \in BOOLEAN : w_en = uc_wrvalid
  BY DEF TextInv
<1>4. PICK r_en \in BOOLEAN : r_en = (tx_state = "wait")
  OBVIOUS
<1>5. PICK w_data \in Byte : w_data = uc_wrpayload
  BY DEF TextInv
<1>6. /\ f.rdy \in BOOLEAN /\ f.data \in Byte /\ f.rest \in Seq(Byte)
       /\ (~f.rdy => Len(f.rest) <= 1)
  BY <1>1 DEF TextInv
<1>7. w_en => Uart!HasRoom(f)
  BY <1>1, <1>3, Room
<1>8. r_en => f.rdy
  BY <1>1, <1>4 DEF TakeInv
<1>9. g = Uart!FifoAfter(f, w_en, w_data, r_en)
  BY <1>1, <1>2, <1>3, <1>4, <1>5
<1>10. PICK refill \in BOOLEAN : refill = (f.rest # <<>> /\ (~f.rdy \/ r_en))
  OBVIOUS
<1>11. PICK left : left = IF refill THEN Tail(f.rest) ELSE f.rest
  OBVIOUS
<1>12. g.rdy = (refill \/ (f.rdy /\ ~r_en)) /\ g.rdy \in BOOLEAN
  <2>1. g.rdy = ((f.rest # <<>> /\ (~f.rdy \/ r_en)) \/ (f.rdy /\ ~r_en))
    BY <1>9 DEF Uart!FifoAfter
  <2> QED BY <1>6, <1>10, <2>1
<1>13. g.data = IF refill THEN Head(f.rest) ELSE f.data
  BY <1>4, <1>6, <1>9, <1>10 DEF Uart!FifoAfter
<1>14. g.rest = IF w_en THEN Append(left, w_data) ELSE left
  <2>1. g.rest = IF w_en /\ Uart!HasRoom(f) THEN Append(left, w_data) ELSE left
    BY <1>3, <1>4, <1>6, <1>9, <1>10, <1>11 DEF Uart!FifoAfter
  <2> QED BY <1>3, <1>7, <2>1
<1>15. Len(f.rest) \in Nat /\ (f.rest # <<>> <=> Len(f.rest) # 0)
  BY <1>6, EmptySeq
<1>16. left \in Seq(Byte) /\ Len(left) = Len(f.rest) - (IF refill THEN 1 ELSE 0)
  <2>1. CASE refill
    <3>1. f.rest # <<>>
      BY <1>10, <2>1
    <3>2. Tail(f.rest) \in Seq(Byte) /\ Len(Tail(f.rest)) = Len(f.rest) - 1
      BY <1>6, <3>1, HeadTailProperties
    <3> QED BY <1>11, <2>1, <3>2
  <2>2. CASE ~refill
    BY <1>6, <1>11, <1>15, <2>2
  <2> QED BY <2>1, <2>2
<1>17. g.data \in Byte
  <2>1. CASE refill
    <3>1. f.rest # <<>>
      BY <1>10, <2>1
    <3>2. Head(f.rest) \in Byte
      BY <1>6, <3>1, HeadTailProperties
    <3> QED BY <1>13, <2>1, <3>2
  <2>2. CASE ~refill
    BY <1>6, <1>10, <1>13, <2>2
  <2> QED BY <2>1, <2>2
<1>18. g.rest \in Seq(Byte) /\ Len(g.rest) = Len(left) + (IF w_en THEN 1 ELSE 0)
  <2>1. CASE w_en
    <3>1. Append(left, w_data) \in Seq(Byte) /\ Len(Append(left, w_data)) = Len(left) + 1
      BY <1>5, <1>16, AppendProperties
    <3> QED BY <1>3, <1>14, <2>1, <3>1
  <2>2. CASE ~w_en
    <3>1. Len(left) \in Nat
      BY <1>16, LenProperties
    <3> QED BY <1>3, <1>16, <1>14, <2>2, <3>1
  <2> QED BY <2>1, <2>2
<1>19. g.rdy \in BOOLEAN
  BY <1>12
<1>20. ASSUME ~g.rdy PROVE Len(g.rest) <= 1
  <2>1. ~refill /\ ~(f.rdy /\ ~r_en)
    BY <1>12, <1>20
  <2>2. f.rest = <<>>
    BY <1>10, <2>1
  <2>3. Len(left) = 0
    BY <1>11, <2>1, <2>2
  <2> QED BY <1>18, <2>3
<1>21. PICK a \in {0, 1} : a = IF g.rdy THEN 1 ELSE 0
  OBVIOUS
<1>22. PICK b \in {0, 1} : b = IF f.rdy THEN 1 ELSE 0
  OBVIOUS
<1>23. PICK c \in {0, 1} : c = IF r_en THEN 1 ELSE 0
  OBVIOUS
<1>24. PICK d \in {0, 1} : d = IF refill THEN 1 ELSE 0
  OBVIOUS
<1>25. PICK e \in {0, 1} : e = IF w_en THEN 1 ELSE 0
  OBVIOUS
<1>26. a + c = b + d
  <2>1. CASE refill
    <3>1. f.rdy <=> r_en
      BY <1>6, <1>8, <1>10, <2>1
    <3>2. g.rdy
      BY <1>12, <2>1
    <3>3. a = 1 /\ d = 1 /\ b = c
      BY <1>21, <1>22, <1>23, <1>24, <2>1, <3>1, <3>2
    <3> QED BY <3>3, <1>23
  <2>2. CASE ~refill /\ r_en
    <3>1. f.rdy /\ ~g.rdy
      BY <1>8, <1>12, <2>2
    <3>2. a = 0 /\ d = 0 /\ b = 1 /\ c = 1
      BY <1>21, <1>22, <1>23, <1>24, <2>2, <3>1
    <3> QED BY <3>2
  <2>3. CASE ~refill /\ ~r_en
    <3>1. g.rdy <=> f.rdy
      BY <1>12, <2>3
    <3>2. a = b /\ d = 0 /\ c = 0
      BY <1>21, <1>22, <1>23, <1>24, <2>3, <3>1
    <3> QED BY <3>2
  <2> QED BY <2>1, <2>2, <2>3
<1>27. Len(left) = Len(f.rest) - d /\ Len(g.rest) = Len(left) + e
  BY <1>16, <1>18, <1>24, <1>25
<1>28. a + Len(g.rest) + c = b + Len(f.rest) + e
  <2>1. PICK m, l, k \in Int : m = Len(f.rest) /\ l = Len(left) /\ k = Len(g.rest)
    <3>1. Len(f.rest) \in Int
      BY <1>15
    <3>2. Len(left) \in Int
      BY <1>16, LenProperties
    <3>3. Len(g.rest) \in Int
      BY <1>18, LenProperties
    <3> QED BY <3>1, <3>2, <3>3
  <2>2. l = m - d /\ k = l + e /\ a + c = b + d
    BY <1>26, <1>27, <2>1
  <2>3. a + k + c = b + m + e
    BY <2>2
  <2> QED BY <2>1, <2>3
<1>29. Rd(g) = a /\ Rd(f) = b
  BY <1>21, <1>22 DEF Rd
<1>30. Acked = c
  <2>1. CASE tx_state = "wait"
    BY <1>4, <1>23, <2>1 DEF Acked
  <2>2. CASE tx_state # "wait"
    BY <1>4, <1>23, <2>2 DEF Acked
  <2> QED BY <2>1, <2>2
<1>31. Wr = e
  BY <1>3, <1>25 DEF Wr
<1>32. Rd(tx_buf)' = a /\ Rd(tx_buf) = b
  BY <1>1, <1>2, <1>29 DEF Rd
<1> QED BY <1>1, <1>2, <1>17, <1>18, <1>19, <1>20, <1>28, <1>30, <1>31, <1>32

\* The bus, with the program's access.
ReadReq(acts) == [NoRead EXCEPT !.valid = Reads(acts)]
WriteReq(acts) == [NoWrite EXCEPT !.valid = Writes(acts),
                                  !.data = ByteAt(0, IF p_left = <<>> THEN 0 ELSE Head(p_left))]

\* The program writes a byte of its text, or leaves it, or begins another.
LEMMA ProgramOn ==
  ASSUME TextInv, NEW acts \in BOOLEAN, ProgramTick(acts), UARTWriteTick(WriteReq(acts))
  PROVE  /\ uc_wrvalid' \in BOOLEAN /\ uc_wrpayload' \in Byte /\ p_left' \in Seq(Byte)
         /\ p_state' = "reading" => p_left' = <<>>
         /\ p_state = "ended" => p_state' = "ended"
         /\ \/ Wr' + Len(p_left') = Len(p_left) /\ (p_state' = "ended" => p_state = "ended")
            \/ /\ p_state = "reading" /\ p_state' = "ended"
               /\ uc_payload \in Agrees \cup Refuses
               /\ Len(p_left') <= FifoDepth /\ (p_left = <<>> => Wr' = 0)
<1>1. uc_wrvalid' = Writes(acts) /\ Writes(acts) \in BOOLEAN
  BY DEF UARTWriteTick, WriteReq, NoWrite, Writes
<1>2. p_left \in Seq(Byte) /\ Len(p_left) \in Nat /\ uc_wrpayload \in Byte
  BY LenProperties DEF TextInv
<1>3. CASE ~Writes(acts)
  <2>1. uc_wrpayload' = uc_wrpayload
    BY <1>3 DEF UARTWriteTick, WriteReq, NoWrite
  <2>2. Wr' = 0
    BY <1>1, <1>3 DEF Wr
  <2>3. CASE p_state = "reading" /\ uc_payload \in Agrees \cup Refuses
    <3>1. p_state' = "ended" /\ p_left' \in {Answer, Refusal}
      BY <1>3, <2>3 DEF ProgramTick, Reads
    <3>2. p_left' \in Seq(Byte) /\ Len(p_left') <= FifoDepth
      BY <3>1, LinkAssumption
    <3> QED BY <1>1, <1>2, <2>1, <2>2, <2>3, <3>1, <3>2
  <2>4. CASE ~(p_state = "reading" /\ uc_payload \in Agrees \cup Refuses)
    <3>1. p_left' = p_left /\ (p_state' = "ended" => p_state = "ended")
      BY <1>3, <2>4 DEF ProgramTick, Reads
    <3>2. /\ p_state' = "reading" => p_left' = <<>>
          /\ p_state = "ended" => p_state' = "ended"
      BY <1>3, <2>4, <3>1 DEF ProgramTick, Reads
    <3> QED BY <1>1, <1>2, <2>1, <2>2, <3>1, <3>2
  <2> QED BY <2>3, <2>4
<1>4. CASE Writes(acts)
  <2>1. p_left # <<>>
    BY <1>4 DEF Writes
  <2>2. /\ Head(p_left) \in Byte /\ Tail(p_left) \in Seq(Byte)
        /\ Len(Tail(p_left)) = Len(p_left) - 1
    BY <1>2, <2>1, HeadTailProperties
  <2>3. uc_wrpayload' = Head(p_left)
    <3>1. 0 \in Lane
      BY DEF Lane
    <3> QED BY <1>4, <2>1, <3>1 DEF UARTWriteTick, WriteReq, NoWrite, ByteAt
  <2>4. Wr' = 1
    BY <1>1, <1>4 DEF Wr
  <2>5. p_left' = Tail(p_left) /\ p_state' = p_state
    BY <1>4, <2>1 DEF ProgramTick, Reads, TextInv
  <2>6. p_state' # "reading"
    BY <2>1, <2>5 DEF TextInv
  <2> QED BY <1>1, <1>2, <2>2, <2>3, <2>4, <2>5, <2>6
<1> QED BY <1>3, <1>4

\* What is pending is sent, but for the program's next text.
LEMMA PendingOn ==
  ASSUME TextInv, TakeInv, NEW acts \in BOOLEAN,
         ProgramTick(acts), UARTWriteTick(WriteReq(acts)),
         tx_buf' = Uart!FifoAfter(tx_buf, uc_wrvalid, uc_wrpayload, tx_state = "wait")
  PROVE  /\ Pending \in Nat /\ Pending' \in Nat /\ Acked \in {0, 1} /\ (Acked = 1 => Pending # 0)
         /\ p_state = "ended" => p_state' = "ended"
         /\ tx_buf'.rdy \in BOOLEAN /\ tx_buf'.data \in Byte /\ tx_buf'.rest \in Seq(Byte)
         /\ ~tx_buf'.rdy => Len(tx_buf'.rest) <= 1
         /\ \/ Pending' + Acked = Pending /\ (p_state' = "ended" => p_state = "ended")
            \/ /\ p_state = "reading" /\ p_state' = "ended"
               /\ uc_payload \in Agrees \cup Refuses
               /\ Pending = 0 => Pending' <= FifoDepth
<1>1. PICK g : g = tx_buf'
  OBVIOUS
<1>2. Rd(g) = Rd(tx_buf)'
  BY <1>1 DEF Rd
<1>3. Acked = 1 => tx_buf.rdy
  BY DEF Acked, TakeInv
<1>4. /\ g.rdy \in BOOLEAN /\ g.data \in Byte /\ g.rest \in Seq(Byte)
      /\ ~g.rdy => Len(g.rest) <= 1
      /\ Rd(g) + Len(g.rest) + Acked = Rd(tx_buf) + Len(tx_buf.rest) + Wr
  BY <1>1, <1>2, FifoCounts
<1>5. /\ Rd(tx_buf) \in {0, 1} /\ Rd(g) \in {0, 1} /\ Wr \in {0, 1} /\ Wr' \in {0, 1}
      /\ Acked \in {0, 1}
  <2>1. Rd(tx_buf) \in {0, 1} /\ Rd(g) \in {0, 1}
    BY DEF Rd
  <2>2. Wr \in {0, 1}
    BY DEF Wr
  <2>3. Wr' \in {0, 1}
    BY DEF Wr
  <2> QED BY <2>1, <2>2, <2>3 DEF Acked
<1>6. Rd(g) + Len(g.rest) + Acked = Rd(tx_buf) + Len(tx_buf.rest) + Wr
  BY <1>4
<1>7. /\ Len(tx_buf.rest) \in Nat /\ Len(g.rest) \in Nat /\ Len(p_left) \in Nat
      /\ Len(p_left') \in Nat
  <2>1. p_left' \in Seq(Byte)
    BY ProgramOn
  <2> QED BY <1>4, <2>1, LenProperties DEF TextInv
<1>8. Pending = Rd(tx_buf) + Len(tx_buf.rest) + Wr + Len(p_left)
  BY DEF Pending
<1>9. Pending' = Rd(g) + Len(g.rest) + Wr' + Len(p_left')
  BY <1>1, <1>2 DEF Pending
<1>10. PICK a, b, c, d, e, x, y, z, w :
         /\ a = Rd(tx_buf) /\ b = Len(tx_buf.rest) /\ c = Wr /\ d = Len(p_left)
         /\ x = Rd(g) /\ y = Len(g.rest) /\ z = Wr' /\ w = Len(p_left') /\ e = Acked
  OBVIOUS
<1> /\ a \in Nat /\ b \in Nat /\ c \in Nat /\ d \in Nat /\ e \in Nat
    /\ x \in Nat /\ y \in Nat /\ z \in Nat /\ w \in Nat
  BY <1>5, <1>7, <1>10
<1>11. Pending = a + b + c + d /\ Pending' = x + y + z + w /\ x + y + e = a + b + c
  BY <1>6, <1>8, <1>9, <1>10
<1>12. Pending \in Nat /\ Pending' \in Nat
  BY <1>11
<1>13. e = 1 => Pending # 0
  <2>1. ASSUME e = 1 PROVE a = 1
    BY <1>3, <1>5, <1>10, <2>1 DEF Rd
  <2> QED BY <1>11, <2>1
<1>14. CASE Wr' + Len(p_left') = Len(p_left) /\ (p_state' = "ended" => p_state = "ended")
  <2>1. z + w = d
    BY <1>10, <1>14
  <2>2. Pending' + e = Pending
    BY <1>11, <2>1
  <2> QED BY <1>1, <1>4, <1>5, <1>10, <1>12, <1>13, <1>14, <2>2, ProgramOn
<1>15. CASE /\ p_state = "reading" /\ p_state' = "ended"
            /\ uc_payload \in Agrees \cup Refuses
            /\ Len(p_left') <= FifoDepth /\ (p_left = <<>> => Wr' = 0)
  <2>1. p_left = <<>>
    BY <1>15 DEF TextInv
  <2>2. z = 0 /\ w <= FifoDepth
    BY <1>10, <1>15, <2>1
  <2>3. ASSUME Pending = 0 PROVE Pending' <= FifoDepth
    <3>1. a = 0 /\ b = 0 /\ c = 0 /\ d = 0
      BY <1>11, <2>3
    <3>2. x = 0 /\ y = 0
      BY <1>11, <3>1
    <3> QED BY <1>11, <2>2, <3>2, LinkAssumption
  <2> QED BY <1>1, <1>4, <1>5, <1>10, <1>12, <1>13, <1>15, <2>3, ProgramOn
<1> QED BY <1>14, <1>15, ProgramOn

\* What the invariant says of the histories.
LEMMA SaidIs ==
  ASSUME SaidInv
  PROVE  /\ heard \in Seq(Byte) /\ said \in Seq(Byte) /\ said \in OneMoreThan(heard)
         /\ Len(said) \in Nat /\ Len(heard) \in Nat /\ Len(said) >= Len(heard)
<1>1. heard \in Seq(Byte) /\ (said = heard \/ \E byte \in Byte : said = Append(heard, byte))
  BY DEF SaidInv, Hearing
<1>2. Len(heard) \in Nat
  BY <1>1, LenProperties
<1>3. CASE said = heard
  BY <1>1, <1>2, <1>3 DEF OneMoreThan
<1>4. CASE \E byte \in Byte : said = Append(heard, byte)
  <2>1. PICK byte \in Byte : said = Append(heard, byte)
    BY <1>4
  <2>2. Append(heard, byte) \in Seq(Byte) /\ Len(Append(heard, byte)) = Len(heard) + 1
    BY <1>1, <2>1, AppendProperties
  <2> QED BY <1>1, <1>2, <2>1, <2>2 DEF OneMoreThan
<1> QED BY <1>1, <1>3, <1>4

LEMMA ToldIs ==
  ASSUME ToldInv
  PROVE  told \in OneMoreThan(ended)
BY LinkAssumption DEF ToldInv, Sampling, OneMoreThan

\* While the query is under way, the other direction rests, and the program has read
\* nothing.
LEMMA SilentStep ==
  ASSUME Silent, NEW acts \in BOOLEAN, LinkTick(acts), ~DriverReplies(at_o')
  PROVE  Silent'
<1>1. /\ c_tx_state = "TX_IDLE" /\ c_tx_buffer = <<>> /\ p_uart_rx = 1 /\ ar_sync = 1 /\ ar_i = 1
      /\ ar_state = "IDLE" /\ ~ar_rdy /\ rx_state = "idle" /\ ~rx_w_en
      /\ ~rx_buf.rdy /\ rx_buf.rest = <<>> /\ uc_payload = 0
  BY DEF Silent
<1>2. c_tx_state' = "TX_IDLE" /\ c_tx_buffer' = <<>> /\ p_uart_rx' = 1
  <2>1. TxRest /\ TxBufferLeft = <<>>
    BY <1>1 DEF LinkTick, ConnectorTick, ConnectorTx, TxStart, TxHold, TxBit, TxStarts, TxBufferLeft
  <2>2. DriverWaits(at_o') \/ DriverCollects(at_o')
    BY DEF LinkTick, ConnectorTick
  <2>3. c_tx_buffer' = <<>>
    BY <2>1, <2>2 DEF DriverWaits, DriverCollects
  <2> QED BY <1>1, <2>1, <2>3 DEF TxRest, connectorTxVars
<1>3. ar_sync' = 1 /\ ar_i' = 1 /\ ar_state' = "IDLE" /\ ~ar_rdy'
  <2>1. AsyncRxTick(Uart!RxAck, p_uart_rx) /\ ~AsyncRxDone
    BY <1>1 DEF LinkTick, AsyncRxDone
  <2>2. ar_sync' = 1 /\ ar_i' = 1 /\ ar_state' = "IDLE"
    BY <1>1, <2>1 DEF AsyncRxTick
  <2>3. ar_rdy' = IF Uart!RxAck THEN AsyncRxDone ELSE ar_rdy
    BY <2>1 DEF AsyncRxTick
  <2>4. ~ar_rdy'
    BY <1>1, <2>1, <2>3
  <2> QED BY <2>2, <2>4
<1>4. rx_state' = "idle" /\ ~rx_w_en'
  BY <1>1 DEF LinkTick, UartMachines, Uart!RxIdle, Uart!RxRead
<1>5. ~rx_buf'.rdy /\ rx_buf'.rest = <<>>
  <2>1. rx_buf' = Uart!FifoAfter(rx_buf, rx_w_en, rx_w_data, uc_rdready)
    BY DEF LinkTick, UartMachines
  <2> QED BY <1>1, <2>1 DEF Uart!FifoAfter
<1>6. uc_payload' = 0
  <2>1. RdWire = NoByte
    BY <1>1 DEF RdWire
  <2>2. UARTReadTick(ReadReq(acts), RdWire)
    BY DEF LinkTick, UARTConnTick, ReadReq
  <2> QED
    BY <1>1, <2>1, <2>2
       DEF UARTReadTick, UCIdle, UCPop, UCNothing, UCDeassert, Respond, uartReadVars
<1> QED BY <1>2, <1>3, <1>4, <1>5, <1>6 DEF Silent

\* A character other than 0 has been sent by the driver, after it had all of the query.
LEMMA ReadsAfterQuery ==
  ASSUME TurnInv, uc_payload \in Agrees \cup Refuses
  PROVE  state = "RECV_ANSWER"
BY LinkAssumption DEF TurnInv, Silent

\* TextInv is kept: the program's next text comes when all of the last is sent.
LEMMA TextStep ==
  ASSUME TextInv, TakeInv, TurnInv, NEW acts \in BOOLEAN, LinkTick(acts)
  PROVE  TextInv'
<1>1. /\ ProgramTick(acts) /\ UARTWriteTick(WriteReq(acts))
      /\ tx_buf' = Uart!FifoAfter(tx_buf, uc_wrvalid, uc_wrpayload, tx_state = "wait")
  BY DEF LinkTick, UartMachines, UARTConnTick, WriteReq
<1>2. /\ uc_wrvalid' \in BOOLEAN /\ uc_wrpayload' \in Byte /\ p_left' \in Seq(Byte)
      /\ p_state' = "reading" => p_left' = <<>>
  BY <1>1, ProgramOn
<1>3. /\ Pending \in Nat /\ Pending' \in Nat /\ Acked \in {0, 1}
      /\ tx_buf'.rdy \in BOOLEAN /\ tx_buf'.data \in Byte /\ tx_buf'.rest \in Seq(Byte)
      /\ ~tx_buf'.rdy => Len(tx_buf'.rest) <= 1
      /\ \/ Pending' + Acked = Pending
         \/ /\ p_state = "reading" /\ uc_payload \in Agrees \cup Refuses
            /\ Pending = 0 => Pending' <= FifoDepth
  BY <1>1, PendingOn
<1>4. serial_tx_data' \in Byte
  BY DEF LinkTick, UartMachines, Uart!TxTake, Uart!TxIdle, Uart!TxWait, TextInv
<1>5. Pending' <= FifoDepth
  <2>1. CASE Pending' + Acked = Pending
    <3>1. Pending <= FifoDepth /\ FifoDepth \in Nat
      BY LinkAssumption DEF TextInv
    <3>2. PICK p, q, e \in Nat : p = Pending /\ q = Pending' /\ e = Acked
      BY <1>3
    <3>3. p <= FifoDepth /\ q + e = p
      BY <2>1, <3>1, <3>2
    <3>4. q <= FifoDepth
      BY <3>1, <3>3
    <3> QED BY <3>2, <3>4
  <2>2. CASE /\ p_state = "reading" /\ uc_payload \in Agrees \cup Refuses
             /\ Pending = 0 => Pending' <= FifoDepth
    BY <2>2, ReadsAfterQuery DEF TurnInv
  <2> QED BY <1>3, <2>1, <2>2
<1> QED BY <1>2, <1>3, <1>4, <1>5 DEF TextInv

\* TurnInv is kept: when the driver has the whole query, none of it is left.
LEMMA TurnStep ==
  ASSUME TextInv, TakeInv, TurnInv, SaidInv, SaidInv',
         NEW acts \in BOOLEAN, SerialHistoryTick(acts)
  PROVE  TurnInv'
<1>1. LinkTick(acts)
  BY DEF SerialHistoryTick
<1>2. /\ ProgramTick(acts) /\ UARTWriteTick(WriteReq(acts))
      /\ tx_buf' = Uart!FifoAfter(tx_buf, uc_wrvalid, uc_wrpayload, tx_state = "wait")
  BY <1>1 DEF LinkTick, UartMachines, UARTConnTick, WriteReq
<1>3. /\ Pending \in Nat /\ Pending' \in Nat /\ Acked \in {0, 1} /\ (Acked = 1 => Pending # 0)
      /\ p_state = "ended" => p_state' = "ended"
      /\ \/ Pending' + Acked = Pending /\ (p_state' = "ended" => p_state = "ended")
         \/ p_state' = "ended" /\ uc_payload \in Agrees \cup Refuses
  BY <1>2, PendingOn
<1>4. DriverWaits(at_o') \/ DriverCollects(at_o') \/ DriverReplies(at_o')
  BY <1>1 DEF LinkTick, ConnectorTick
<1>5. Len(said') = Len(said) + Acked
  <2>1. said' = AppendIf(Uart!TxAck, said, serial_tx_data)
    BY DEF SerialHistoryTick
  <2>2. serial_tx_data \in Byte /\ said \in Seq(Byte) /\ Len(said) \in Nat
    BY SaidIs DEF TextInv
  <2>3. CASE tx_state = "wait"
    <3>1. said' = Append(said, serial_tx_data) /\ Acked = 1
      BY <2>1, <2>3 DEF Acked, Uart!TxAck, AppendIf
    <3> QED BY <2>2, <3>1, AppendProperties
  <2>4. CASE tx_state # "wait"
    <3>1. said' = said /\ Acked = 0
      BY <2>1, <2>4 DEF Acked, Uart!TxAck, AppendIf
    <3> QED BY <2>2, <3>1
  <2> QED BY <2>3, <2>4
<1>6. heard' = AppendIf(Received(at_o'), heard, last_byte')
  BY DEF SerialHistoryTick
<1>7. CASE state = "RECV_QUERY"
  <2>1. /\ Silent /\ p_state # "ended" /\ recvd = heard /\ Len(said) + Pending = Len(Query)
    BY <1>7 DEF TurnInv
  <2>2. p_state' # "ended" /\ Pending' + Acked = Pending
    BY <1>3, <1>7, <2>1, ReadsAfterQuery
  <2>3. Len(said') + Pending' = Len(Query)
    <3>1. PICK p, q, e, l, k \in Nat :
            p = Pending /\ q = Pending' /\ e = Acked /\ l = Len(said) /\ k = Len(Query)
      <4>1. Len(Query) \in Nat
        BY LinkAssumption, LenProperties
      <4> QED BY <1>3, <4>1, SaidIs
    <3>2. Len(said') = l + e /\ q + e = p /\ l + p = k
      BY <1>5, <2>1, <2>2, <3>1
    <3>3. (l + e) + q = k
      BY <3>2
    <3> QED BY <3>1, <3>2, <3>3
  <2>4. CASE DriverReplies(at_o')
    <3>1. state' = "RECV_ANSWER" /\ heard' = Query
      BY <1>6, <2>1, <2>4 DEF DriverReplies, AppendIf
    <3>2. Len(said') \in Nat /\ Len(said') >= Len(heard')
      <4>1. (Len(said) \in Nat /\ Len(said) >= Len(heard))'
        BY SaidIs, PTL
      <4> QED BY <4>1
    <3>3. Pending' = 0
      BY <1>3, <2>3, <3>1, <3>2
    <3> QED BY <3>1, <3>3 DEF TurnInv
  <2>5. CASE ~DriverReplies(at_o')
    <3>1. Silent'
      BY <1>1, <2>1, <2>5, SilentStep
    <3>2. state' = "RECV_QUERY" /\ recvd' = heard'
      BY <1>4, <1>6, <1>7, <2>1, <2>5 DEF DriverWaits, DriverCollects, AppendIf, driverVars
    <3> QED BY <2>2, <2>3, <3>1, <3>2 DEF TurnInv
  <2> QED BY <2>4, <2>5
<1>8. CASE state = "RECV_ANSWER"
  <2>1. state' = "RECV_ANSWER"
    BY <1>4, <1>8 DEF DriverWaits, DriverCollects, DriverReplies, driverVars
  <2>2. ASSUME p_state' # "ended" PROVE Pending' = 0
    <3>1. p_state # "ended" /\ Pending' + Acked = Pending
      BY <1>3, <2>2
    <3>2. Pending = 0
      BY <1>8, <3>1 DEF TurnInv
    <3>3. PICK q, e \in Nat : q = Pending' /\ e = Acked
      BY <1>3
    <3>4. q + e = 0
      BY <3>1, <3>2, <3>3
    <3>5. q = 0
      BY <3>4
    <3> QED BY <3>3, <3>5
  <2> QED BY <2>1, <2>2 DEF TurnInv
<1> QED BY <1>7, <1>8 DEF TurnInv

LEMMA InvInit == SerialHistoryInit => Inv
<1> SUFFICES ASSUME SerialHistoryInit PROVE Inv
  OBVIOUS
<1>1. /\ LinkInit /\ said = <<>> /\ heard = <<>> /\ told = <<>> /\ ended = <<>>
      /\ UARTConnInit /\ AsyncInit /\ ConnectorInit /\ Uart!UartInit
      /\ p_state = "query" /\ p_left = Query
  BY DEF SerialHistoryInit, LinkInit
<1>2. <<>> \in Seq(Byte) /\ <<>> \in Seq(RxByte) /\ Len(<<>>) = 0 /\ 0 \in Byte
  BY Rates
<1>3. SaidInv
  BY <1>1, <1>2 DEF SaidInv, AsyncInit, ConnectorInit
<1>4. TakeInv
  BY <1>1 DEF TakeInv, Uart!UartInit
<1>5. ToldInv
  <2>1. line_gap = 0 /\ 0 <= 9 * Divisor + 4 + Half
    BY <1>1, Rates DEF Uart!UartInit
  <2> QED BY <1>1, <1>2, <2>1 DEF ToldInv, AsyncInit, ConnectorInit
<1>6. TakenInv
  BY <1>1, <1>2 DEF TakenInv, AsyncInit, ConnectorInit, Uart!UartInit
<1>7. ~tx_buf.rdy /\ tx_buf.rest = <<>> /\ tx_buf.data = 0 /\ tx_buf.rdy \in BOOLEAN
  BY <1>1 DEF Uart!UartInit, Uart!EmptyFifo
<1>8. Pending = Len(Query) /\ Len(Query) \in Nat /\ Query \in Seq(Byte) /\ Len(Query) <= FifoDepth
  <2>1. Query \in Seq(Byte) /\ Len(Query) <= FifoDepth
    BY LinkAssumption
  <2>2. Len(Query) \in Nat
    BY <2>1, LenProperties
  <2>3. Rd(tx_buf) = 0 /\ Wr = 0 /\ Len(tx_buf.rest) = 0
    BY <1>1, <1>2, <1>7 DEF Rd, Wr, UARTConnInit
  <2> QED BY <1>1, <2>1, <2>2, <2>3 DEF Pending
<1>9. TextInv
  <2>1. /\ p_left \in Seq(Byte) /\ uc_wrvalid \in BOOLEAN /\ uc_wrpayload \in Byte
        /\ serial_tx_data \in Byte /\ p_state # "reading"
    BY <1>1, <1>2, <1>8 DEF UARTConnInit, Uart!UartInit
  <2> QED BY <1>2, <1>7, <1>8, <2>1 DEF TextInv
<1>10. TurnInv
  <2>1. /\ state = "RECV_QUERY" /\ p_state # "ended" /\ recvd = heard
        /\ Len(said) + Pending = Len(Query)
    BY <1>1, <1>2, <1>8 DEF ConnectorInit
  <2>2. Silent
    BY <1>1 DEF Silent, UARTConnInit, AsyncInit, ConnectorInit, Uart!UartInit, Uart!EmptyFifo
  <2> QED BY <2>1, <2>2 DEF TurnInv
<1> QED BY <1>3, <1>4, <1>5, <1>6, <1>9, <1>10 DEF Inv

\* Every step keeps the invariant.
LEMMA InvStep == Inv /\ [SerialHistoryNext]_serialHistoryVars => Inv'
<1> SUFFICES ASSUME Inv, [SerialHistoryNext]_serialHistoryVars PROVE Inv'
  OBVIOUS
<1>1. SaidInv /\ TakeInv /\ ToldInv /\ TakenInv /\ TextInv /\ TurnInv
  BY DEF Inv
<1>2. CASE SerialHistoryNext
  <2>1. PICK acts \in BOOLEAN : SerialHistoryTick(acts)
    BY <1>2 DEF SerialHistoryNext
  <2>2. /\ LinkTick(acts)
        /\ said' = AppendIf(Uart!TxAck, said, serial_tx_data)
        /\ heard' = AppendIf(Received(at_o'), heard, last_byte')
        /\ told' = AppendIf(TxStarts, told, Head(c_tx_buffer))
        /\ ended' = AppendIf(AsyncRxDone, ended, ar_data')
    BY <2>1 DEF SerialHistoryTick
  <2>3. /\ UartMachines
        /\ AsyncTxTick(Uart!TxAck, serial_tx_data) /\ AsyncRxTick(Uart!RxAck, p_uart_rx)
        /\ line_gap' = IF AsyncRxDone THEN 10 * Divisor - 1 ELSE Uart!CountDown(line_gap)
        /\ ConnectorTx /\ ConnectorRx(at_o')
        /\ DriverWaits(at_o') \/ DriverCollects(at_o') \/ DriverReplies(at_o')
    BY <2>2 DEF LinkTick, ConnectorTick
  <2>4. SaidInv'
    <3>1. (Uart!TxAck => at_shreg = <<>>) /\ serial_tx_data \in Byte
      BY <1>1 DEF TakeInv, TextInv, Uart!TxAck
    <3> QED BY <1>1, <2>2, <2>3, <3>1, SaidStep
  <2>5. TakeInv'
    BY <1>1, <2>3, TakeStep DEF UartMachines
  <2>6. TxStarts => Head(c_tx_buffer) \in RxByte /\ Tail(c_tx_buffer) \in Seq(RxByte)
    <3>1. c_tx_buffer \in Seq(RxByte)
      BY <1>1 DEF TakenInv
    <3>2. TxStarts => c_tx_buffer # <<>>
      BY DEF TxStarts
    <3> QED BY <3>1, <3>2, HeadTailProperties
  <2>7. ToldInv'
    BY <1>1, <2>2, <2>3, <2>6, EndsTaken, ToldStep
  <2>8. TakenInv'
    <3>1. c_tx_buffer' \in {TxBufferLeft, Reply}
      BY <2>3 DEF DriverWaits, DriverCollects, DriverReplies
    <3>2. TxBufferLeft \in Seq(RxByte)
      BY <1>1, <2>6 DEF TxBufferLeft, TakenInv
    <3>3. c_tx_buffer' \in Seq(RxByte)
      BY <3>1, <3>2, LinkAssumption
    <3> QED BY <1>1, <2>3, <3>3, TakenStep DEF UartMachines
  <2>9. TextInv'
    BY <1>1, <2>2, TextStep
  <2>10. TurnInv'
    BY <1>1, <2>1, <2>4, TurnStep
  <2> QED BY <2>4, <2>5, <2>7, <2>8, <2>9, <2>10 DEF Inv
<1>3. CASE UNCHANGED serialHistoryVars
  <2> USE <1>3 DEF serialHistoryVars, heardVars, linkVars, uartConnVars, asyncVars, connectorVars,
                   connectorTxVars, connectorRxVars, driverVars, machineVars
  <2>1. SaidInv'
    BY <1>1 DEF SaidInv, Sending, Hearing
  <2>2. TakeInv'
    BY <1>1 DEF TakeInv
  <2>3. ToldInv'
    BY <1>1 DEF ToldInv, ShiftingOut, Synced, Sampling, Sampled, LineBefore, Ended, Elapsed, Passed
  <2>4. TakenInv'
    BY <1>1 DEF TakenInv
  <2>5. TextInv'
    BY <1>1 DEF TextInv, Pending, Rd, Wr
  <2>6. TurnInv'
    BY <1>1 DEF TurnInv, Silent, Pending, Rd, Wr
  <2> QED BY <2>1, <2>2, <2>3, <2>4, <2>5, <2>6 DEF Inv
<1> QED BY <1>2, <1>3

LEMMA Invariance == SerialHistorySpec => []Inv
BY InvInit, InvStep, PTL DEF SerialHistorySpec

\* What either end of the line has heard is what the other has said, byte by byte and in
\* order, but for the one that is on the line: the bits are sampled about their middles at
\* both ends (AsyncSerial, UartConnector::tick()).
THEOREM HearsWhatIsSaid == SerialHistorySpec => []BytesArrive
<1>1. Inv => BytesArrive
  BY SaidIs, ToldIs DEF Inv, BytesArrive
<1> QED BY <1>1, Invariance, PTL

\* Nothing that the program prints finds the UART's FIFO full, though it looks at no ready.
THEOREM LosesNothing == SerialHistorySpec => []NothingOverflows
<1>1. Inv => NothingOverflows
  BY Room DEF Inv, NothingOverflows
<1> QED BY <1>1, Invariance, PTL

\* The transmitter is busy for ten bits from the ack on.
LEMMA TxLeftOn ==
  ASSUME SaidInv, TakeInv, serial_tx_data \in Byte, AsyncTxTick(Uart!TxAck, serial_tx_data)
  PROVE  AsyncTxLeft' = IF Uart!TxAck /\ AsyncTxLeft = 0 THEN 10 * Divisor
                        ELSE Uart!CountDown(AsyncTxLeft)
<1>1. CASE at_shreg = <<>> /\ Uart!TxAck
  <2>1. AsyncTxLeft = 0
    BY <1>1, TxLeftIs
  <2>2. PICK byte \in Byte : byte = serial_tx_data
    OBVIOUS
  <2>3. at_shreg' = Frame(byte) /\ at_timer' = Divisor - 1
    BY <1>1, <2>2 DEF AsyncTxTick, AsyncTxRdy
  <2>4. at_shreg' \in Seq({0, 1}) /\ Len(at_shreg') = 10
    BY <2>3, FrameIs
  <2>5. at_shreg' # <<>>
    BY <2>4
  <2>6. AsyncTxLeft' = (10 - 1) * Divisor + (Divisor - 1) + 1
    BY <2>3, <2>4, <2>5 DEF AsyncTxLeft, AsyncTxRdy
  <2>7. (10 - 1) * Divisor + (Divisor - 1) + 1 = 10 * Divisor
    BY Rates
  <2> QED BY <1>1, <2>1, <2>6, <2>7
<1>2. CASE at_shreg = <<>> /\ ~Uart!TxAck
  <2>1. AsyncTxLeft = 0
    BY <1>2, TxLeftIs
  <2>2. at_shreg' = <<>>
    BY <1>2 DEF AsyncTxTick, AsyncTxRdy
  <2>3. AsyncTxLeft' = 0
    BY <2>2 DEF AsyncTxLeft, AsyncTxRdy
  <2> QED BY <1>2, <2>1, <2>3 DEF Uart!CountDown
<1>3. CASE at_shreg # <<>>
  <2>1. PICK byte \in Byte, n \in 1 .. 10 : Sending(byte, n)
    BY <1>3 DEF SaidInv
  <2>2. /\ AsyncTxLeft = (n - 1) * Divisor + at_timer + 1 /\ AsyncTxLeft \in Nat \ {0}
        /\ at_timer \in Nat
    <3>1. AsyncTxLeft = (n - 1) * Divisor + at_timer + 1 /\ AsyncTxLeft \in Nat \ {0}
      BY <2>1, TxLeftIs
    <3>2. at_timer \in Nat
      BY <2>1, Rates DEF Sending
    <3> QED BY <3>1, <3>2
  <2>3. ~Uart!TxAck
    BY <1>3 DEF TakeInv, Uart!TxAck
  <2>4. /\ at_timer = 0 => at_timer' = Divisor - 1
        /\ at_timer # 0 => at_timer' = at_timer - 1
        /\ at_timer # 0 => Sending(byte, n)'
        /\ at_timer = 0 /\ n = 1 => at_shreg' = <<>>
        /\ at_timer = 0 /\ n # 1 => Sending(byte, n - 1)'
    BY <2>1, SendingOn
  <2>5. ASSUME NEW m \in 1 .. 10, Sending(byte, m)'
        PROVE  AsyncTxLeft' = (m - 1) * Divisor + at_timer' + 1
    <3>1. Len(at_shreg') = m
      BY <2>5 DEF Sending
    <3>2. at_shreg' # <<>>
      BY <3>1
    <3> QED BY <3>1, <3>2 DEF AsyncTxLeft, AsyncTxRdy
  <2>6. AsyncTxLeft' = AsyncTxLeft - 1
    <3>1. PICK e \in Nat : e = (n - 1) * Divisor
      <4>1. n - 1 \in 0 .. 9
        OBVIOUS
      <4> QED BY <4>1, Distribution
    <3>2. CASE at_timer # 0
      <4>1. AsyncTxLeft' = e + at_timer' + 1 /\ at_timer' = at_timer - 1
        BY <2>4, <2>5, <3>1, <3>2
      <4> QED BY <2>2, <3>1, <4>1
    <3>3. CASE at_timer = 0 /\ n = 1
      <4>1. AsyncTxLeft' = 0
        BY <2>4, <3>3 DEF AsyncTxLeft, AsyncTxRdy
      <4>2. AsyncTxLeft = 1
        BY <2>2, <3>3, Rates
      <4> QED BY <4>1, <4>2
    <3>4. CASE at_timer = 0 /\ n # 1
      <4>1. n - 1 \in 1 .. 10 /\ n - 2 \in 0 .. 9 /\ (n - 2) + 1 = n - 1
        BY <3>4
      <4>2. Sending(byte, n - 1)' /\ at_timer' = Divisor - 1
        BY <2>4, <3>4
      <4>3. AsyncTxLeft' = ((n - 1) - 1) * Divisor + at_timer' + 1
        BY <2>5, <4>1, <4>2
      <4>4. (n - 1) - 1 = n - 2
        OBVIOUS
      <4>5. PICK d \in Nat : d = (n - 2) * Divisor /\ e = d + Divisor
        BY <3>1, <4>1, Distribution
      <4>6. AsyncTxLeft' = d + (Divisor - 1) + 1
        BY <4>2, <4>3, <4>4, <4>5
      <4>7. AsyncTxLeft = e + 0 + 1
        BY <2>2, <3>1, <3>4
      <4> QED BY <4>5, <4>6, <4>7, Rates
    <3> QED BY <3>2, <3>3, <3>4
  <2> QED BY <2>2, <2>3, <2>6 DEF Uart!CountDown
<1> QED BY <1>1, <1>2, <1>3

\* Every step is one of the UART's machines on a line of its own.
LEMMA LineStep ==
  Inv /\ [SerialHistoryNext]_serialHistoryVars =>
    [\E ends \in BOOLEAN, byte \in RxByte :
       Uart!TxTick(uc_wrvalid, uc_wrpayload) /\ Uart!RxTick(uc_rdready, ends, byte)]_linkVars
<1> SUFFICES ASSUME Inv, [SerialHistoryNext]_serialHistoryVars
             PROVE  \/ UNCHANGED linkVars
                    \/ \E ends \in BOOLEAN, byte \in RxByte :
                         Uart!TxTick(uc_wrvalid, uc_wrpayload) /\ Uart!RxTick(uc_rdready, ends, byte)
  OBVIOUS
<1>1. CASE UNCHANGED serialHistoryVars
  BY <1>1 DEF serialHistoryVars
<1>2. CASE SerialHistoryNext
  <2>1. PICK acts \in BOOLEAN : LinkTick(acts)
    BY <1>2 DEF SerialHistoryNext, SerialHistoryTick
  <2>2. /\ UartMachines
        /\ AsyncTxTick(Uart!TxAck, serial_tx_data) /\ AsyncRxTick(Uart!RxAck, p_uart_rx)
        /\ line_gap' = IF AsyncRxDone THEN 10 * Divisor - 1 ELSE Uart!CountDown(line_gap)
    BY <2>1 DEF LinkTick
  <2>3. SaidInv /\ TakeInv /\ ToldInv /\ TakenInv /\ TextInv
    BY DEF Inv
  <2>4. AsyncTxLeft' = IF Uart!TxAck /\ AsyncTxLeft = 0 THEN 10 * Divisor
                       ELSE Uart!CountDown(AsyncTxLeft)
    BY <2>2, <2>3, TxLeftOn DEF TextInv
  <2>5. Uart!TxTick(uc_wrvalid, uc_wrpayload)
    BY <2>2, <2>4 DEF UartMachines, Uart!TxTick, Uart!SerialTx, Uart!TxRdy
  <2>6. PICK ends \in BOOLEAN : ends = AsyncRxDone
    BY DEF AsyncRxDone
  <2>7. PICK byte \in RxByte : AsyncRxDone => byte = FramedByte(ar_shreg)
    <3>1. PICK other \in RxByte : TRUE
      BY LinkAssumption
    <3> QED BY <2>3, <3>1, EndsApart
  <2>8. /\ ends => line_gap = 0
        /\ line_gap' = IF ends THEN 10 * Divisor - 1 ELSE Uart!CountDown(line_gap)
    BY <2>2, <2>3, <2>6, EndsApart
  <2>9. /\ ar_rdy' = IF Uart!RxAck THEN ends ELSE ar_rdy
        /\ ar_data' = IF Uart!RxAck /\ ends THEN byte ELSE ar_data
    BY <2>2, <2>6, <2>7 DEF AsyncRxTick
  <2>10. Uart!SerialRx(ends, byte)
    BY <2>8, <2>9 DEF Uart!SerialRx
  <2>11. Uart!RxTick(uc_rdready, ends, byte)
    BY <2>2, <2>10 DEF UartMachines, Uart!RxTick
  <2> QED BY <2>5, <2>11
<1> QED BY <1>1, <1>2

\* The line keeps the times that the UART is proved with: a character's time of ten bits
\* from an ack on, and at least one between the ends of two bytes.
THEOREM KeepsTheTimes == SerialHistorySpec => LineIsUarts
BY Invariance, LineStep, PTL DEF SerialHistorySpec, LineIsUarts
=============================================================================
