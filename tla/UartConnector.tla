--------------------------- MODULE UartConnector ----------------------------
(***************************************************************************)
(* UartConnector: the simulation's end of the serial line, in C++, and the *)
(* driver that uses it.  The driver's loop runs once for each edge of the  *)
(* design's clock, after it: tick() sets the line to the design, and reads *)
(* that from the design, as the edge has left it.                          *)
(***************************************************************************)
EXTENDS Integers, Sequences

CONSTANTS DIVISOR,        \* CLOCK_HZ / 115200
          Query, Reply, Answer    \* what the driver waits for, then sends, and waits for

ASSUME ConnectorAssumption == DIVISOR \in Nat /\ DIVISOR >= 2

VARIABLES p_uart_rx,      \* the line to the design
          c_tx_state, c_tx_buffer, c_tx_timer, c_tx_sr, c_tx_counter,
          c_rx_state, c_rx_timer, c_rx_sr, c_rx_counter, last_byte,
          state, recvd, done      \* the driver's

connectorTxVars == <<p_uart_rx, c_tx_state, c_tx_timer, c_tx_sr, c_tx_counter>>
connectorRxVars == <<c_rx_state, c_rx_timer, c_rx_sr, c_rx_counter, last_byte>>
driverVars == <<state, recvd, done>>
connectorVars == <<connectorTxVars, c_tx_buffer, connectorRxVars, driverVars>>

ConnectorInit ==
  /\ p_uart_rx = 1
  /\ c_tx_state = "TX_IDLE" /\ c_tx_buffer = <<>>
  /\ c_tx_timer = 0 /\ c_tx_sr = 0 /\ c_tx_counter = 0
  /\ c_rx_state = "RX_IDLE"
  /\ c_rx_timer = 0 /\ c_rx_sr = 0 /\ c_rx_counter = 0 /\ last_byte = 0
  /\ state = "RECV_QUERY" /\ recvd = <<>> /\ done = FALSE
-----------------------------------------------------------------------------
(* To the design. *)

\* A char is signed: from 0x80 on, its upper bits are ones, which do no harm.
TxFrame(char) == IF char < 128 THEN 256 + char ELSE 65280 + char

TxStarts == c_tx_state = "TX_IDLE" /\ c_tx_buffer # <<>>

TxStart ==
  /\ TxStarts
  /\ p_uart_rx' = 0
  /\ c_tx_state' = "TX_BIT"
  /\ c_tx_timer' = DIVISOR
  /\ c_tx_sr' = TxFrame(Head(c_tx_buffer))
  /\ c_tx_counter' = 0

TxRest ==
  /\ c_tx_state = "TX_IDLE" /\ c_tx_buffer = <<>>
  /\ UNCHANGED connectorTxVars

TxHold ==
  /\ c_tx_state = "TX_BIT" /\ c_tx_timer > 1
  /\ c_tx_timer' = c_tx_timer - 1
  /\ UNCHANGED <<p_uart_rx, c_tx_state, c_tx_sr, c_tx_counter>>

\* Mutant: the stop bit is not waited for.
TxBitNoStop ==
  /\ c_tx_state = "TX_BIT" /\ c_tx_timer = 1
  /\ c_tx_timer' = DIVISOR
  /\ c_tx_sr' = c_tx_sr \div 2
  /\ c_tx_counter' = c_tx_counter + 1
  /\ IF c_tx_counter' = 9 THEN p_uart_rx' = 1 /\ c_tx_state' = "TX_IDLE"
                          ELSE p_uart_rx' = c_tx_sr % 2 /\ UNCHANGED c_tx_state

TxBit ==
  /\ c_tx_state = "TX_BIT" /\ c_tx_timer = 1
  /\ c_tx_timer' = DIVISOR
  /\ c_tx_sr' = c_tx_sr \div 2
  /\ c_tx_counter' = c_tx_counter + 1
  /\ IF c_tx_counter' = 10 THEN p_uart_rx' = 1 /\ c_tx_state' = "TX_IDLE"
                           ELSE p_uart_rx' = c_tx_sr % 2 /\ UNCHANGED c_tx_state

ConnectorTx == TxStart \/ TxRest \/ TxHold \/ TxBit

\* The buffer after tick() has had its byte off it.
TxBufferLeft == IF TxStarts THEN Tail(c_tx_buffer) ELSE c_tx_buffer
-----------------------------------------------------------------------------
(* From the design; line is what it transmits. *)

RxIdleLine(line) ==
  /\ c_rx_state = "RX_IDLE" /\ line = 1
  /\ UNCHANGED connectorRxVars

\* Mutant: the bits are sampled where they change.
RxStartAtEdge(line) ==
  /\ c_rx_state = "RX_IDLE" /\ line = 0
  /\ c_rx_state' = "RX_BIT"
  /\ c_rx_timer' = DIVISOR
  /\ c_rx_sr' = 0 /\ c_rx_counter' = 0
  /\ UNCHANGED last_byte

RxStart(line) ==
  /\ c_rx_state = "RX_IDLE" /\ line = 0
  /\ c_rx_state' = "RX_BIT"
  /\ c_rx_timer' = DIVISOR \div 2
  /\ c_rx_sr' = 0 /\ c_rx_counter' = 0
  /\ UNCHANGED last_byte

RxHold ==
  /\ c_rx_state = "RX_BIT" /\ c_rx_timer > 1
  /\ c_rx_timer' = c_rx_timer - 1
  /\ UNCHANGED <<c_rx_state, c_rx_sr, c_rx_counter, last_byte>>

Samples == c_rx_state = "RX_BIT" /\ c_rx_timer = 1

RxShifted(line) == (2 * c_rx_sr + line) % 65536

\* The last bit is there, the first was a start bit and it is a stop bit; otherwise the
\* byte is dropped with a message.
Received(line) ==
  /\ Samples /\ c_rx_counter = 9
  /\ (RxShifted(line) \div 512) % 2 = 0 /\ line = 1

\* The eight bits in between came the lowest first.
ReversedByte(sr) ==
  LET bit(k) == (sr \div 2^(k + 1)) % 2
      at(k) == bit(k) * 2^(7 - k)
  IN at(0) + at(1) + at(2) + at(3) + at(4) + at(5) + at(6) + at(7)

RxSample(line) ==
  /\ Samples
  /\ c_rx_timer' = DIVISOR
  /\ c_rx_counter' = c_rx_counter + 1
  /\ c_rx_state' = IF c_rx_counter' = 10 THEN "RX_IDLE" ELSE "RX_BIT"
  /\ c_rx_sr' = IF Received(line) THEN ReversedByte(RxShifted(line)) ELSE RxShifted(line)
  /\ last_byte' = IF Received(line) THEN c_rx_sr' ELSE last_byte

ConnectorRx(line) == RxIdleLine(line) \/ RxStart(line) \/ RxHold \/ RxSample(line)
-----------------------------------------------------------------------------
(* The driver, after a tick. *)

DriverWaits(line) ==
  /\ ~Received(line)
  /\ c_tx_buffer' = TxBufferLeft
  /\ UNCHANGED driverVars

DriverCollects(line) ==
  /\ Received(line)
  /\ recvd' = Append(recvd, last_byte')
  /\ state = "RECV_QUERY" => recvd' # Query
  /\ done' = (state = "RECV_ANSWER" /\ recvd' = Answer)
  /\ c_tx_buffer' = TxBufferLeft
  /\ UNCHANGED state

\* Mutants: what was received stays; the first byte is taken for the query.
DriverRepliesUncleared(line) ==
  /\ Received(line) /\ state = "RECV_QUERY" /\ Append(recvd, last_byte') = Query
  /\ state' = "RECV_ANSWER"
  /\ recvd' = Append(recvd, last_byte')
  /\ c_tx_buffer' = Reply
  /\ UNCHANGED done

DriverRepliesEarly(line) ==
  /\ Received(line) /\ state = "RECV_QUERY"
  /\ state' = "RECV_ANSWER"
  /\ recvd' = <<>>
  /\ c_tx_buffer' = Reply
  /\ UNCHANGED done

DriverReplies(line) ==
  /\ Received(line) /\ state = "RECV_QUERY" /\ Append(recvd, last_byte') = Query
  /\ state' = "RECV_ANSWER"
  /\ recvd' = <<>>
  /\ c_tx_buffer' = Reply
  /\ UNCHANGED done

\* One round of the loop.
ConnectorTick(line) ==
  /\ ~done
  /\ ConnectorTx
  /\ ConnectorRx(line)
  /\ DriverWaits(line) \/ DriverCollects(line) \/ DriverReplies(line)
=============================================================================
