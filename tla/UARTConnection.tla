-------------------------- MODULE UARTConnection ---------------------------
(***************************************************************************)
(* UARTConnection: the peripheral that puts the UART's two byte streams on *)
(* the memory bus.  A read pops one byte off the stream uart.rd, or gives  *)
(* 0 when there is none; a write pushes its low byte into uart.wr.         *)
(*                                                                         *)
(* An action is one edge of the clock; rreq and wreq are what the wires of *)
(* read.req and write.req carry before the edge, and rx what uart.rd shows *)
(* there: a byte (rd.valid and rd.payload), or NoByte.                     *)
(***************************************************************************)
EXTENDS Words

VARIABLES uc_state,      \* the FSM of the read side
          uc_rdready,    \* uart.rd.ready
          uc_valid,      \* read.resp.valid
          uc_payload,    \* read.resp.payload: the low byte, the others are 0
          uc_wrvalid,    \* uart.wr.valid
          uc_wrpayload   \* uart.wr.payload

uartConnVars ==
  <<uc_state, uc_rdready, uc_valid, uc_payload, uc_wrvalid, uc_wrpayload>>

UARTConnTypeOK ==
  /\ uc_state \in {"init", "deassert"}
  /\ uc_rdready \in BOOLEAN
  /\ uc_valid \in BOOLEAN
  /\ uc_payload \in Byte
  /\ uc_wrvalid \in BOOLEAN
  /\ uc_wrpayload \in Byte

UARTConnInit ==
  /\ uc_state = "init"
  /\ uc_rdready = FALSE
  /\ uc_valid = FALSE
  /\ uc_payload = 0
  /\ uc_wrvalid = FALSE
  /\ uc_wrpayload = 0
-----------------------------------------------------------------------------
\* uart.rd when its valid is clear.
NoByte == -1

\* read.req.ready; write.req.ready is always 1.
UARTConnReady == uc_state = "init"

uartReadVars == <<uc_state, uc_rdready, uc_valid, uc_payload>>

UCIdle(rreq) ==
  /\ uc_state = "init" /\ ~rreq.valid
  /\ UNCHANGED uartReadVars

Respond(byte) ==
  /\ uc_payload' = byte
  /\ uc_valid' = TRUE
  /\ uc_state' = "deassert"

UCPop(rreq, rx) ==
  /\ uc_state = "init" /\ rreq.valid /\ rx # NoByte
  /\ uc_rdready' = TRUE
  /\ Respond(rx)

\* Mutant: when there is nothing to read, no answer is given.
UCNothingSilent(rreq, rx) ==
  /\ uc_state = "init" /\ rreq.valid /\ rx = NoByte
  /\ UNCHANGED uartReadVars

\* Mutant: the payload is passed on whether it is valid or not.
UCNothingUnchecked(rreq, rx) ==
  /\ uc_state = "init" /\ rreq.valid /\ rx = NoByte
  /\ Respond(rx)
  /\ UNCHANGED uc_rdready

UCNothing(rreq, rx) ==
  /\ uc_state = "init" /\ rreq.valid /\ rx = NoByte
  /\ Respond(0)
  /\ UNCHANGED uc_rdready

\* Mutant: ready stays set.
UCDeassertHolds ==
  /\ uc_state = "deassert"
  /\ uc_state' = "init"
  /\ UNCHANGED <<uc_rdready, uc_valid, uc_payload>>

UCDeassert ==
  /\ uc_state = "deassert"
  /\ uc_rdready' = FALSE
  /\ uc_state' = "init"
  /\ UNCHANGED <<uc_valid, uc_payload>>

UARTReadTick(rreq, rx) ==
  \/ UCIdle(rreq)
  \/ UCPop(rreq, rx)
  \/ UCNothing(rreq, rx)
  \/ UCDeassert

\* wr.valid is a pulse of one cycle.
UARTWriteTick(wreq) ==
  /\ uc_wrvalid' = wreq.valid
  /\ uc_wrpayload' = IF wreq.valid THEN wreq.data[0] ELSE uc_wrpayload

UARTConnTick(rreq, wreq, rx) ==
  /\ UARTReadTick(rreq, rx)
  /\ UARTWriteTick(wreq)
=============================================================================
