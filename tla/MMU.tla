-------------------------------- MODULE MMU --------------------------------
(***************************************************************************)
(* MMU: the bus the hart sees.  Every wire of the read bus goes to MMURead *)
(* when the address on the bus has its top bit clear, to the UART's        *)
(* connection when it is set and the low half of the address is the        *)
(* peripheral's id, and nowhere otherwise; the write bus likewise.  The    *)
(* route is combinational: it is the route of the address on the wires in  *)
(* this cycle, not of the request being answered.                          *)
(*                                                                         *)
(* MMUTick is one edge of the clock for the memory, the two machines and   *)
(* the peripheral; rreq and wreq are the wires of the two buses before it. *)
(***************************************************************************)
EXTENDS MMURead, MMUWrite, UARTConnection, UARTStreams

mmuVars == <<sysmemVars, mmuReadVars, mmuWriteVars, uartConnVars>>

MMUTypeOK ==
  /\ SysmemTypeOK
  /\ MMUReadTypeOK
  /\ MMUWriteTypeOK
  /\ UARTConnTypeOK

MMUInit ==
  /\ rport_data = ZeroCell
  /\ MMUReadInit
  /\ MMUWriteInit
  /\ UARTConnInit
-----------------------------------------------------------------------------
\* What a target of the bus sees: the bus, or wires nobody drives.
Routed(route, req, nothing) == IF route THEN req ELSE nothing

ReadReady(rreq) ==
  \/ ToSysmem(rreq.addr) /\ MMUReadReady
  \/ ToUart(rreq.addr) /\ UARTConnReady

ReadRespValid(rreq) ==
  \/ ToSysmem(rreq.addr) /\ MMUReadRespValid(rreq)
  \/ ToUart(rreq.addr) /\ uc_valid

ReadRespPayload(rreq) ==
  IF ToSysmem(rreq.addr) THEN mr_payload
  ELSE IF ToUart(rreq.addr) THEN ByteAt(0, uc_payload) ELSE ZeroLanes

WriteReady(wreq) ==
  \/ ToSysmem(wreq.addr) /\ mw_ready
  \/ ToUart(wreq.addr)

\* What uart.rd shows the peripheral: rd.valid and rd.payload.
RxWire == IF rx_fifo = <<>> THEN NoByte ELSE Head(rx_fifo)

MMUTick(rreq, wreq, rx) ==
  /\ SysmemTick(rport_addr, wport_addr, wport_data, wport_en)
  /\ MMUReadTick(Routed(ToSysmem(rreq.addr), rreq, NoRead))
  /\ MMUWriteTick(Routed(ToSysmem(wreq.addr), wreq, NoWrite))
  /\ UARTConnTick(Routed(ToUart(rreq.addr), rreq, NoRead),
                  Routed(ToUart(wreq.addr), wreq, NoWrite), rx)
-----------------------------------------------------------------------------
\* The memory after the rest of the write in progress.
Drained ==
  LET now  == Written(sysmem, wport_addr, wport_data, wport_en)
      next == NextWCell
      last == (wport_addr + 2) % Span
  IN CASE mw_state = "init" -> now
       [] mw_state = "half.unaligned" -> Written(now, next, wport_data, {0})
       [] mw_state = "word" -> Written(now, next, CellOf(mw_payload, 2, 3), {0, 1})
       [] mw_state = "word.unaligned" ->
            Written(Written(now, next, CellOf(mw_payload, 1, 2), {0, 1}),
                    last, CellOf(mw_payload, 3, 3), {0})
       [] mw_state = "word.unaligned.fish" ->
            Written(now, next, CellOf(mw_payload, 3, 3), {0})
=============================================================================
