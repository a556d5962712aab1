------------------------------ MODULE ByteBus ------------------------------
(***************************************************************************)
(* What the MMU promises to the one master of its buses: a memory of bytes *)
(* and two streams of bytes.                                               *)
(*                                                                         *)
(* A write of memory changes the bytes it names, all at once, and a read   *)
(* is answered by the bytes the memory holds when it is made, whatever the *)
(* address's alignment; bytes past the end of memory read 0 and are not    *)
(* written, and addresses repeat every 2 * Span bytes.  A read of the UART *)
(* takes the oldest byte received, or is answered 0; a write appends one   *)
(* byte to those to be sent, or loses it when there is no room.  An access *)
(* to any other address is never answered.                                 *)
(***************************************************************************)
EXTENDS ByteMemory, UARTStreams

VARIABLES mem,       \* the bytes of memory
          req,       \* what the master asks
          answer     \* what is owed to the master

busVars == <<mem, req, answer, rx_fifo, tx_fifo>>

Request == [kind : {"none", "read", "write"}, addr : Word, width : AccessWidth, data : Lanes]

NoRequest == [kind |-> "none", addr |-> 0, width |-> BYTE, data |-> ZeroLanes]

Nothing == [kind |-> "nothing"]   \* no read has been made
Never   == [kind |-> "never"]     \* a read of an address where there is nothing
Owed(p) == [kind |-> "owed", bytes |-> p]

Init ==
  /\ mem \in [MemByte -> Byte]
  /\ req = NoRequest
  /\ answer = Nothing
  /\ StreamsInit

\* The line goes its own way in every step.
Line == rx_fifo' \in Arrivals(rx_fifo) /\ tx_fifo' \in Departures(tx_fifo)

\* Where a request has been served, another, or none, takes its place.
Asks == req' \in Request

Reads == answer = Nothing /\ req.kind = "read" /\ UNCHANGED mem /\ Asks

Writes == answer = Nothing /\ req.kind = "write" /\ UNCHANGED answer /\ Asks

ReadMemory ==
  /\ Reads /\ ToSysmem(req.addr)
  /\ answer' = Owed(ReadBytes(mem, req.addr, req.width))
  /\ Line

ReadUart ==
  /\ Reads /\ ToUart(req.addr)
  /\ answer' = Owed(ByteAt(0, IF rx_fifo = <<>> THEN 0 ELSE Head(rx_fifo)))
  /\ rx_fifo' \in Arrivals(Pop(rx_fifo))
  /\ tx_fifo' \in Departures(tx_fifo)

ReadNowhere ==
  /\ Reads /\ ~ToSysmem(req.addr) /\ ~ToUart(req.addr)
  /\ answer' = Never
  /\ Line

Answered ==
  /\ answer.kind = "owed"
  /\ answer' = Nothing
  /\ UNCHANGED mem
  /\ Line /\ Asks

WriteMemory ==
  /\ Writes /\ ToSysmem(req.addr)
  /\ mem' = WriteBytes(mem, req.addr, req.width, req.data)
  /\ Line

WriteUart ==
  /\ Writes /\ ToUart(req.addr)
  /\ UNCHANGED mem
  /\ rx_fifo' \in Arrivals(rx_fifo)
  /\ tx_fifo' \in {Push(q, req.data[0]) : q \in Departures(tx_fifo)}

\* The bus makes no progress; a request stands until it is served, and the next waits
\* for the answer.
Quiet ==
  /\ UNCHANGED <<mem, answer>>
  /\ (req = NoRequest /\ answer = Nothing /\ Asks) \/ UNCHANGED req
  /\ Line

Next ==
  \/ Quiet \/ Answered
  \/ ReadMemory \/ ReadUart \/ ReadNowhere
  \/ WriteMemory \/ WriteUart

Spec == Init /\ [][Next]_busVars
=============================================================================
