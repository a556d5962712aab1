---------------------------- MODULE UARTHistory -----------------------------
(***************************************************************************)
(* What the UART has done: UARTPeripheral with a record of the bytes that  *)
(* have passed each end of its two directions.  No action reads it.        *)
(***************************************************************************)
EXTENDS UARTPeripheral

VARIABLES ended,     \* the bytes that have ended on the line
          offered,   \* those put to the receiving FIFO
          written,   \* those the sending FIFO has taken
          sent       \* those the line has taken

historyVars == <<ended, offered, written, sent>>

HistoryInit == Init /\ ended = <<>> /\ offered = <<>> /\ written = <<>> /\ sent = <<>>

AppendIf(condition, seq, byte) == IF condition THEN Append(seq, byte) ELSE seq

Recorded(ends, lbyte) ==
  /\ ended' = AppendIf(ends, ended, lbyte)
  /\ offered' = AppendIf(rx_w_en, offered, rx_w_data)
  /\ written' = AppendIf(uc_wrvalid /\ HasRoom(tx_buf), written, uc_wrpayload)
  /\ sent' = AppendIf(TxAck /\ TxRdy, sent, serial_tx_data)

HistoryNext ==
  \E reads, writes, ends \in BOOLEAN, wbyte \in Byte, lbyte \in RxByte :
    Tick(reads, writes, wbyte, ends, lbyte) /\ Recorded(ends, lbyte)

HistorySpec == HistoryInit /\ [][HistoryNext]_<<vars, historyVars>>
-----------------------------------------------------------------------------
\* Every byte that ends on the line is put to the FIFO once, in the order of the line.
ReceivedOnce ==
  ended = offered \o (IF rx_w_en THEN <<rx_w_data>> ELSE <<>>)
                  \o (IF rx_state = "read" \/ serial_rx_rdy THEN <<serial_rx_data>> ELSE <<>>)

\* Every byte the FIFO has taken is sent once, in the order of the writes.
SentOnce == written = sent \o Held(tx_buf)
=============================================================================
