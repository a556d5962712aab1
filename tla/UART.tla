-------------------------------- MODULE UART --------------------------------
(***************************************************************************)
(* UART: the two state machines between the serial line and the bytes that *)
(* the peripheral on the bus reads and writes, each with a FIFO of         *)
(* FifoDepth bytes.  An action is one edge of the clock.                   *)
(*                                                                         *)
(* Two libraries are modelled from how the machines use them:              *)
(*   - SyncFIFOBuffered: the oldest byte is in an output register, the     *)
(*     others in a memory behind it, so a byte written into an empty FIFO  *)
(*     is seen two edges later; w_en of a full FIFO does nothing;          *)
(*   - AsyncSerial: a byte takes CharTime cycles on the line at least, and *)
(*     rdy of the receiver follows its end if ack is set at that edge; the *)
(*     byte is lost if it is not.                                          *)
(***************************************************************************)
EXTENDS Words, Sequences

CONSTANTS FifoDepth,   \* 32
          RxByte,      \* the bytes the line may deliver
          CharTime     \* 10 bits of default_clk_frequency / 115200 cycles

ASSUME UartAssumption ==
  /\ FifoDepth \in Nat /\ FifoDepth > 2
  /\ RxByte \subseteq Byte
  /\ CharTime \in Nat /\ CharTime > 2

VARIABLES tx_state, tx_buf,      \* the FSM that sends, and its FIFO
          serial_tx_data,        \* serial.tx.data
          serial_tx_busy,        \* cycles until serial.tx.rdy
          rx_state, rx_buf,      \* the FSM that receives, and its FIFO
          rx_w_en, rx_w_data,    \* the registers at the FIFO's write port
          serial_rx_rdy, serial_rx_data,
          line_gap               \* cycles until another byte can end on the line

txVars == <<tx_state, tx_buf, serial_tx_data, serial_tx_busy>>
rxVars == <<rx_state, rx_buf, rx_w_en, rx_w_data, serial_rx_rdy, serial_rx_data, line_gap>>
uartVars == <<txVars, rxVars>>
-----------------------------------------------------------------------------
(* The FIFO. *)

EmptyFifo == [rdy |-> FALSE, data |-> 0, rest |-> <<>>]

IsFifo(f) ==
  /\ f.rdy \in BOOLEAN /\ f.data \in Byte
  /\ f.rest \in Seq(Byte) /\ Len(f.rest) < FifoDepth

\* What it holds, the oldest byte first.
Held(f) == (IF f.rdy THEN <<f.data>> ELSE <<>>) \o f.rest

HasRoom(f) == Len(f.rest) < FifoDepth - 1

\* One edge, with what its ports carry: the output register is refilled when it is
\* empty or read.
FifoAfter(f, w_en, w_data, r_en) ==
  LET refill == f.rest # <<>> /\ (~f.rdy \/ r_en)
      left   == IF refill THEN Tail(f.rest) ELSE f.rest
  IN [rdy  |-> refill \/ (f.rdy /\ ~r_en),
      data |-> IF refill THEN Head(f.rest) ELSE f.data,
      rest |-> IF w_en /\ HasRoom(f) THEN Append(left, w_data) ELSE left]
-----------------------------------------------------------------------------
UartTypeOK ==
  /\ tx_state \in {"idle", "wait"} /\ rx_state \in {"idle", "read"}
  /\ IsFifo(tx_buf) /\ IsFifo(rx_buf)
  /\ serial_tx_data \in Byte /\ serial_tx_busy \in 0 .. CharTime
  /\ rx_w_en \in BOOLEAN /\ rx_w_data \in Byte
  /\ serial_rx_rdy \in BOOLEAN /\ serial_rx_data \in Byte
  /\ line_gap \in 0 .. CharTime

UartInit ==
  /\ tx_state = "idle" /\ tx_buf = EmptyFifo
  /\ serial_tx_data = 0 /\ serial_tx_busy = 0
  /\ rx_state = "idle" /\ rx_buf = EmptyFifo
  /\ rx_w_en = FALSE /\ rx_w_data = 0
  /\ serial_rx_rdy = FALSE /\ serial_rx_data = 0
  /\ line_gap = 0

CountDown(n) == IF n = 0 THEN 0 ELSE n - 1
-----------------------------------------------------------------------------
(* Sending. *)

TxRdy == serial_tx_busy = 0

TxAck == tx_state = "wait"

\* Mutants: the line need not be free; the last byte is not seen.
TxTakesBlindly == tx_buf.rdy
TxTakesButLast == TxRdy /\ tx_buf.rdy /\ tx_buf.rest # <<>>

TxTakes == TxRdy /\ tx_buf.rdy

TxTake ==
  /\ tx_state = "idle" /\ TxTakes
  /\ serial_tx_data' = tx_buf.data
  /\ tx_state' = "wait"

TxIdle ==
  /\ tx_state = "idle" /\ ~TxTakes
  /\ UNCHANGED <<tx_state, serial_tx_data>>

TxWait ==
  /\ tx_state = "wait"
  /\ tx_state' = "idle"
  /\ UNCHANGED serial_tx_data

\* serial.tx: it takes the byte at ack.
SerialTx ==
  serial_tx_busy' = IF TxAck /\ TxRdy THEN CharTime ELSE CountDown(serial_tx_busy)

\* Mutants: the FIFO is not read; it is written only while the machine is idle.
TxTickNeverReads(wr_valid, wr_payload) ==
  /\ TxTake \/ TxIdle \/ TxWait
  /\ tx_buf' = FifoAfter(tx_buf, wr_valid, wr_payload, FALSE)
  /\ SerialTx

TxTickWritesIdle(wr_valid, wr_payload) ==
  /\ TxTake \/ TxIdle \/ TxWait
  /\ tx_buf' = FifoAfter(tx_buf, wr_valid /\ tx_state = "idle", wr_payload, tx_state = "wait")
  /\ SerialTx

\* wr_valid and wr_payload are the wires of uart.wr.
TxTick(wr_valid, wr_payload) ==
  /\ TxTake \/ TxIdle \/ TxWait
  /\ tx_buf' = FifoAfter(tx_buf, wr_valid, wr_payload, tx_state = "wait")
  /\ SerialTx
-----------------------------------------------------------------------------
(* Receiving. *)

RxAck == rx_state = "idle"

\* Mutant: the FIFO's write enable stays set.
RxIdleWrites ==
  /\ rx_state = "idle"
  /\ rx_state' = IF serial_rx_rdy THEN "read" ELSE "idle"
  /\ UNCHANGED <<rx_w_en, rx_w_data>>

RxIdle ==
  /\ rx_state = "idle"
  /\ rx_w_en' = FALSE
  /\ rx_state' = IF serial_rx_rdy THEN "read" ELSE "idle"
  /\ UNCHANGED rx_w_data

\* Mutant: the machine waits for room in the FIFO.
RxReadWaits ==
  /\ rx_state = "read"
  /\ rx_w_data' = serial_rx_data
  /\ rx_w_en' = HasRoom(rx_buf)
  /\ rx_state' = IF HasRoom(rx_buf) THEN "idle" ELSE "read"

RxRead ==
  /\ rx_state = "read"
  /\ rx_w_data' = serial_rx_data
  /\ rx_w_en' = TRUE
  /\ rx_state' = "idle"

\* serial.rx: byte is the one that ends on the line at this edge, or none does.
SerialRx(ends, byte) ==
  /\ ends => line_gap = 0
  /\ line_gap' = IF ends THEN CharTime - 1 ELSE CountDown(line_gap)
  /\ serial_rx_rdy' = IF RxAck THEN ends ELSE serial_rx_rdy
  /\ serial_rx_data' = IF RxAck /\ ends THEN byte ELSE serial_rx_data

\* rd_ready is the wire of uart.rd.
RxTick(rd_ready, ends, byte) ==
  /\ RxIdle \/ RxRead
  /\ rx_buf' = FifoAfter(rx_buf, rx_w_en, rx_w_data, rd_ready)
  /\ SerialRx(ends, byte)
=============================================================================
