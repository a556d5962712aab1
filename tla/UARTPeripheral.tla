--------------------------- MODULE UARTPeripheral ---------------------------
(***************************************************************************)
(* The UART behind its connection to the memory bus, under a master that   *)
(* may read and write at any cycle, and a line on which a byte may end at  *)
(* any cycle that a character's time allows.                               *)
(***************************************************************************)
EXTENDS UARTConnection, UART

vars == <<uartConnVars, uartVars>>

TypeOK == UARTConnTypeOK /\ UartTypeOK

Init == UARTConnInit /\ UartInit

\* uart.rd as the connection sees it.
RdWire == IF rx_buf.rdy THEN rx_buf.data ELSE NoByte

\* One edge: the master reads or does not, and writes a byte or does not.
Tick(reads, writes, wbyte, ends, lbyte) ==
  /\ UARTConnTick([NoRead EXCEPT !.valid = reads],
                  [NoWrite EXCEPT !.valid = writes, !.data = ByteAt(0, wbyte)], RdWire)
  /\ TxTick(uc_wrvalid, uc_wrpayload)
  /\ RxTick(uc_rdready, ends, lbyte)

Next ==
  \E reads, writes, ends \in BOOLEAN, wbyte \in Byte, lbyte \in RxByte :
    Tick(reads, writes, wbyte, ends, lbyte)

Spec == Init /\ [][Next]_vars
-----------------------------------------------------------------------------
\* What the machine that sends takes off its FIFO is the byte it has put before the
\* serial line, which is still free: the FIFO is read twice, one cycle apart, and the
\* bus may write in between.
SendsWhatItTakes ==
  tx_state = "wait" => TxRdy /\ tx_buf.rdy /\ serial_tx_data = tx_buf.data

\* A byte that ends on the line while the receiver does not listen is lost.  It always
\* listens then.
NoOverrun == ~RxAck => line_gap # 0

\* What a load reads off the bus leaves the FIFO, and nothing else does: while ready is
\* set, the FIFO shows the byte that was registered for the bus.
PopsWhatItAnswered == uc_rdready => rx_buf.rdy /\ uc_payload = rx_buf.data
-----------------------------------------------------------------------------
\* The two FIFOs are the two queues that the rest of the system is checked with
\* (module UARTStreams).  A byte received is there when uart.rd shows it.
Streams == INSTANCE UARTStreams WITH
  rx_fifo <- IF rx_buf.rdy THEN Held(rx_buf) ELSE <<>>,
  tx_fifo <- Held(tx_buf)

\* Every edge is one of the queues': bytes are read in the order in which they arrive,
\* one arrives at a time, a write is lost only when the queue is full, and what leaves
\* for the line is the oldest.
ImplementsStreams ==
  Streams!StreamsInit /\ [][Streams!StreamsTick(uc_rdready, uc_wrvalid, uc_wrpayload)]_vars

\* The line does not stop, so a byte in the queue is sent, or one before it is.
Sends == Held(tx_buf) # <<>> ~> tx_state = "wait"
=============================================================================
