----------------------------- MODULE SerialLink -----------------------------
(***************************************************************************)
(* The simulation from end to end: a program reads and writes the UART     *)
(* over the bus, the UART's machines talk to AsyncSerial, and the driver   *)
(* to the line's other end (UartConnector).  The hart and the MMU between  *)
(* the program and the UART are the cycles that the program lets pass.     *)
(*                                                                         *)
(* The program is that of rv/shrimprw.c: it prints Query, then reads       *)
(* characters until one agrees or refuses, and prints what it makes of it. *)
(***************************************************************************)
EXTENDS UARTConnection, AsyncSerial, UartConnector

CONSTANTS FifoDepth, RxByte,
          Agrees, Refuses,     \* the characters that do
          Refusal              \* printed then

VARIABLES tx_state, tx_buf, serial_tx_data, rx_state, rx_buf, rx_w_en, rx_w_data,
          line_gap,            \* cycles in which the module UART expects no byte to end
          p_state, p_left      \* the program, and what is left of the text it prints

machineVars == <<tx_state, tx_buf, serial_tx_data, rx_state, rx_buf, rx_w_en, rx_w_data>>
linkVars == <<uartConnVars, asyncVars, connectorVars, machineVars, line_gap, p_state, p_left>>

\* The UART's machines, on this line.
Uart == INSTANCE UART WITH
  CharTime <- 10 * Divisor,
  serial_tx_busy <- AsyncTxLeft, serial_rx_rdy <- ar_rdy, serial_rx_data <- ar_data

LinkInit ==
  /\ UARTConnInit /\ AsyncInit /\ ConnectorInit /\ Uart!UartInit
  /\ p_state = "query" /\ p_left = Query
-----------------------------------------------------------------------------
(* The program.  acts says whether it gets to the bus at this edge. *)

Writes(acts) == acts /\ p_left # <<>>

Reads(acts) == acts /\ p_left = <<>> /\ p_state \in {"query", "asking"}

ProgramTick(acts) ==
  \/ /\ p_state # "reading" /\ ~Writes(acts) /\ ~Reads(acts)
     /\ UNCHANGED <<p_state, p_left>>
  \/ /\ Writes(acts)
     /\ p_left' = Tail(p_left) /\ UNCHANGED p_state
  \/ /\ Reads(acts)
     /\ p_state' = "reading" /\ UNCHANGED p_left
  \/ /\ p_state = "reading" /\ uc_payload \notin Agrees \cup Refuses
     /\ p_state' = "asking" /\ UNCHANGED p_left
  \/ /\ p_state = "reading" /\ uc_payload \in Agrees \cup Refuses
     /\ p_state' = "ended"
     /\ p_left' = IF uc_payload \in Agrees THEN Answer ELSE Refusal
-----------------------------------------------------------------------------
RdWire == IF rx_buf.rdy THEN rx_buf.data ELSE NoByte

UartMachines ==
  /\ Uart!TxTake \/ Uart!TxIdle \/ Uart!TxWait
  /\ tx_buf' = Uart!FifoAfter(tx_buf, uc_wrvalid, uc_wrpayload, tx_state = "wait")
  /\ Uart!RxIdle \/ Uart!RxRead
  /\ rx_buf' = Uart!FifoAfter(rx_buf, rx_w_en, rx_w_data, uc_rdready)

\* One round of the driver's loop: an edge of the design, at which it sees the line as
\* the last round has left it, and tick(), which sees what the edge has made of the
\* other.
LinkTick(acts) ==
  /\ ProgramTick(acts)
  /\ UARTConnTick([NoRead EXCEPT !.valid = Reads(acts)],
                  [NoWrite EXCEPT !.valid = Writes(acts),
                                  !.data = ByteAt(0, IF p_left = <<>> THEN 0 ELSE Head(p_left))],
                  RdWire)
  /\ UartMachines
  /\ AsyncTxTick(Uart!TxAck, serial_tx_data)
  /\ AsyncRxTick(Uart!RxAck, p_uart_rx)
  /\ line_gap' = IF AsyncRxDone THEN 10 * Divisor - 1 ELSE Uart!CountDown(line_gap)
  /\ ConnectorTick(at_o')

LinkNext == \E acts \in BOOLEAN : LinkTick(acts)

LinkSpec == LinkInit /\ [][LinkNext]_linkVars

\* The loop goes on, and the program with it: an access is never more than some cycles
\* after the one before it.
LinkFairSpec == LinkSpec /\ WF_linkVars(LinkTick(TRUE))
-----------------------------------------------------------------------------
\* The line is the one that module UART takes for granted: the transmitter is busy for
\* the time of a character from the ack on, no two bytes end within one, and the byte
\* that ends is there with rdy.
LineIsUarts ==
  [][\E ends \in BOOLEAN, byte \in RxByte :
       Uart!TxTick(uc_wrvalid, uc_wrpayload) /\ Uart!RxTick(uc_rdready, ends, byte)]_linkVars

\* The program looks at no ready of uart.wr, but nothing it prints is lost: its texts
\* are no longer than the FIFO, and it gets to the second when the first has gone.
NothingOverflows == uc_wrvalid => Uart!HasRoom(tx_buf)

\* The driver gets its answer, whatever the time the program takes.
Finishes == <>done
=============================================================================
