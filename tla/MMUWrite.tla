----------------------------- MODULE MMUWrite ------------------------------
(***************************************************************************)
(* MMUWrite: the state machine that turns a write request of one, two or   *)
(* four bytes at any address into one to three writes of 16-bit cells with *)
(* byte enables.                                                           *)
(*                                                                         *)
(* An action is one edge of the clock in one state of the machine; req is  *)
(* what the wires of write.req carry before that edge, a record with       *)
(* fields valid, addr, width and data.  The machine accepts whatever is    *)
(* valid in its state "init": it does not look at its own ready, which is  *)
(* a register that tells the master of the bus when the machine is back.   *)
(***************************************************************************)
EXTENDS Sysmem

VARIABLES mw_state,     \* the FSM
          mw_ready,     \* write.req.ready
          mw_payload,   \* req_payload
          wport_addr,   \* port.addr
          wport_data,   \* port.data
          wport_en      \* port.en: the bytes of the cell that are written

mmuWriteVars == <<mw_state, mw_ready, mw_payload, wport_addr, wport_data, wport_en>>

MMUWriteState ==
  {"init", "half.unaligned", "word", "word.unaligned", "word.unaligned.fish"}

MMUWriteTypeOK ==
  /\ mw_state \in MMUWriteState
  /\ mw_ready \in BOOLEAN
  /\ mw_payload \in Lanes
  /\ wport_addr \in CellAddr
  /\ wport_data \in Cells
  /\ wport_en \in SUBSET {0, 1}

MMUWriteInit ==
  /\ mw_state = "init"
  /\ mw_ready = FALSE
  /\ mw_payload = ZeroLanes
  /\ wport_addr = 0
  /\ wport_data = ZeroCell
  /\ wport_en = {}
-----------------------------------------------------------------------------
\* Registers of the port for the next edge.
Port(addr, data, en) ==
  /\ wport_addr' = addr
  /\ wport_data' = data
  /\ wport_en' = en

\* Mutant: ready does not fall.
ContinueReady(req, state) ==
  /\ mw_state' = state
  /\ mw_ready' = TRUE
  /\ mw_payload' = req.data

\* The request needs another cell: the data is kept and ready falls.
Continue(req, state) ==
  /\ mw_state' = state
  /\ mw_ready' = FALSE
  /\ mw_payload' = req.data

Finish ==
  /\ mw_state' = "init"
  /\ mw_ready' = TRUE
  /\ UNCHANGED mw_payload

\* Nothing is asked, or a width that no Case of the Switch names.
MWIdle(req) ==
  /\ mw_state = "init" /\ (req.valid => req.width \notin {BYTE, HALF, WORD})
  /\ wport_en' = {}
  /\ Finish
  /\ UNCHANGED <<wport_addr, wport_data>>

Accepts(req, width) == mw_state = "init" /\ req.valid /\ req.width = width

MWByte(req) ==
  /\ Accepts(req, BYTE)
  /\ Port(CellOfAddr(req.addr), CellOf(req.data, 0, 0), {req.addr % 2})
  /\ Finish

MWHalf(req) ==
  /\ Accepts(req, HALF) /\ req.addr % 2 = 0
  /\ Port(CellOfAddr(req.addr), CellOf(req.data, 0, 1), {0, 1})
  /\ Finish

\* Mutant: the half's bytes are not swapped into the cell's order.
MWHalfUnalignedInOrder(req) ==
  /\ Accepts(req, HALF) /\ req.addr % 2 = 1
  /\ Port(CellOfAddr(req.addr), CellOf(req.data, 0, 1), {1})
  /\ Continue(req, "half.unaligned")

MWHalfUnaligned(req) ==
  /\ Accepts(req, HALF) /\ req.addr % 2 = 1
  /\ Port(CellOfAddr(req.addr), CellOf(req.data, 1, 0), {1})
  /\ Continue(req, "half.unaligned")

MWWord(req) ==
  /\ Accepts(req, WORD) /\ req.addr % 2 = 0
  /\ Port(CellOfAddr(req.addr), CellOf(req.data, 0, 1), {0, 1})
  /\ Continue(req, "word")

MWWordUnaligned(req) ==
  /\ Accepts(req, WORD) /\ req.addr % 2 = 1
  /\ Port(CellOfAddr(req.addr), [ZeroCell EXCEPT ![1] = req.data[0]], {1})
  /\ Continue(req, "word.unaligned")

NextWCell == (wport_addr + 1) % Span

MWHalfUnalignedRest ==
  /\ mw_state = "half.unaligned"
  /\ Port(NextWCell, wport_data, {0})
  /\ Finish

MWWordRest ==
  /\ mw_state = "word"
  /\ Port(NextWCell, CellOf(mw_payload, 2, 3), {0, 1})
  /\ Finish

MWWordUnalignedMiddle ==
  /\ mw_state = "word.unaligned"
  /\ Port(NextWCell, CellOf(mw_payload, 1, 2), {0, 1})
  /\ mw_state' = "word.unaligned.fish"
  /\ mw_ready' = FALSE
  /\ UNCHANGED mw_payload

\* req_payload[24:] is one byte: the port's upper byte is zero, and not enabled.
MWWordUnalignedFish ==
  /\ mw_state = "word.unaligned.fish"
  /\ Port(NextWCell, [ZeroCell EXCEPT ![0] = mw_payload[3]], {0})
  /\ Finish

MMUWriteTick(req) ==
  \/ MWIdle(req)
  \/ MWByte(req)
  \/ MWHalf(req)
  \/ MWHalfUnaligned(req)
  \/ MWWord(req)
  \/ MWWordUnaligned(req)
  \/ MWHalfUnalignedRest
  \/ MWWordRest
  \/ MWWordUnalignedMiddle
  \/ MWWordUnalignedFish
=============================================================================
