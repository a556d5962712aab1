---------------------------- MODULE UARTStreams ----------------------------
(***************************************************************************)
(* The UART as the memory bus sees it: two queues of bytes.                *)
(*                                                                         *)
(* rx_fifo holds the bytes the line has delivered and nobody has read, the *)
(* oldest first; a byte joins it when it becomes visible on uart.rd.       *)
(* tx_fifo holds the bytes written and not yet sent.  Both are bounded:    *)
(* uart.wr has a ready that nobody looks at, so a byte written while the   *)
(* queue is full is lost.  What the line does is outside of the program: a *)
(* byte may arrive, and a byte may leave, at any edge of the clock.        *)
(***************************************************************************)
EXTENDS Words, Sequences

CONSTANTS FifoDepth,   \* 32 in the code
          RxByte       \* the bytes the line may deliver

ASSUME FifoAssumption == FifoDepth \in Nat \ {0} /\ RxByte \subseteq Byte

VARIABLES rx_fifo, tx_fifo

streamVars == <<rx_fifo, tx_fifo>>

IsQueue(q) == q \in Seq(Byte) /\ Len(q) <= FifoDepth

StreamsTypeOK == IsQueue(rx_fifo) /\ IsQueue(tx_fifo)

StreamsInit == rx_fifo = <<>> /\ tx_fifo = <<>>

Push(q, byte) == IF Len(q) < FifoDepth THEN Append(q, byte) ELSE q

Pop(q) == IF q = <<>> THEN q ELSE Tail(q)

\* What may become of a queue that the line delivers into, or takes from.
Arrivals(q) == {q} \cup (IF Len(q) < FifoDepth THEN {Append(q, b) : b \in RxByte} ELSE {})

Departures(q) == {q, Pop(q)}
-----------------------------------------------------------------------------
(* The queues at an edge of the clock: pop is uart.rd.ready, push and byte *)
(* are uart.wr.valid and payload.  The room in a queue is what it is       *)
(* before the edge, so a byte does not arrive in the place of one popped.  *)

StreamsTick(pop, push, byte) ==
  /\ rx_fifo' \in LET left == IF pop THEN Pop(rx_fifo) ELSE rx_fifo IN
                    {left} \cup {Append(left, b) :
                                   b \in IF Len(rx_fifo) < FifoDepth THEN RxByte ELSE {}}
  /\ tx_fifo' \in Departures(IF push THEN Push(tx_fifo, byte) ELSE tx_fifo)
=============================================================================
