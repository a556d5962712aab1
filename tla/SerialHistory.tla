---------------------------- MODULE SerialHistory ---------------------------
(***************************************************************************)
(* The simulation with a record of the bytes that have begun and of those  *)
(* that have ended on each line.  No action reads it.                      *)
(***************************************************************************)
EXTENDS SerialLink

\* The clock and the line's rate are the same at both ends.  What the texts are does not
\* matter: each fits into the FIFO, and 0 is no character (shrimprw.c, inkey()).
ASSUME LinkAssumption ==
  /\ ByteSize = 256
  /\ DIVISOR = Divisor /\ Divisor >= 9
  /\ FifoDepth \in Nat /\ FifoDepth > 2
  /\ RxByte \subseteq Byte /\ RxByte # {}
  /\ Reply \in Seq(RxByte)
  /\ \A text \in {Query, Answer, Refusal} : text \in Seq(Byte) /\ Len(text) <= FifoDepth
  /\ 0 \notin Agrees \cup Refuses

VARIABLES said, heard,     \* by the design, by the driver
          told, ended      \* by the driver, by the design

heardVars == <<said, heard, told, ended>>
serialHistoryVars == <<linkVars, heardVars>>

SerialHistoryInit == LinkInit /\ said = <<>> /\ heard = <<>> /\ told = <<>> /\ ended = <<>>

AppendIf(condition, seq, byte) == IF condition THEN Append(seq, byte) ELSE seq

SerialHistoryTick(acts) ==
  /\ LinkTick(acts)
  /\ said' = AppendIf(Uart!TxAck, said, serial_tx_data)
  /\ heard' = AppendIf(Received(at_o'), heard, last_byte')
  /\ told' = AppendIf(TxStarts, told, Head(c_tx_buffer))
  /\ ended' = AppendIf(AsyncRxDone, ended, ar_data')

SerialHistoryNext == \E acts \in BOOLEAN : SerialHistoryTick(acts)

SerialHistorySpec == SerialHistoryInit /\ [][SerialHistoryNext]_serialHistoryVars

\* The loop goes on, and the program with it (LinkFairSpec).
SerialHistoryFairSpec == SerialHistorySpec /\ WF_serialHistoryVars(SerialHistoryTick(TRUE))
-----------------------------------------------------------------------------
\* seq, or seq and one byte more.
OneMoreThan(seq) == {seq} \cup {Append(seq, byte) : byte \in Byte}

\* What either end has heard is what the other has said, byte by byte and in order, but
\* for the one byte that is on the line.
BytesArrive == said \in OneMoreThan(heard) /\ told \in OneMoreThan(ended)
=============================================================================
