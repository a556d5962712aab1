------------------------------ MODULE MMURead ------------------------------
(***************************************************************************)
(* MMURead: the state machine that answers a read request of one, two or   *)
(* four bytes at any address from a memory of 16-bit cells.  It walks the  *)
(* read port over one to three consecutive cells and collects the bytes in *)
(* resp.payload.                                                           *)
(*                                                                         *)
(* An action is one edge of the clock in one state of the machine; req is  *)
(* what the wires of read.req carry before that edge, a record with fields *)
(* valid, addr and width.                                                  *)
(***************************************************************************)
EXTENDS Sysmem

VARIABLES mr_state,     \* the FSM
          mr_valid,     \* the register "valid"
          mr_addr,      \* req_addr
          mr_width,     \* req_width
          mr_payload,   \* read.resp.payload
          rport_addr    \* port.addr

mmuReadVars == <<mr_state, mr_valid, mr_addr, mr_width, mr_payload, rport_addr>>

MMUReadState == {"init", "pipe", "coll", "coll0", "coll1", "coll2"}

MMUReadTypeOK ==
  /\ mr_state \in MMUReadState
  /\ mr_valid \in BOOLEAN
  /\ mr_addr \in Word
  /\ mr_width \in AccessWidth
  /\ mr_payload \in Lanes
  /\ rport_addr \in CellAddr

MMUReadInit ==
  /\ mr_state = "init"
  /\ mr_valid = FALSE
  /\ mr_addr = 0
  /\ mr_width = BYTE
  /\ mr_payload = ZeroLanes
  /\ rport_addr = 0
-----------------------------------------------------------------------------
\* Mutant: ready waits for the last answer to be taken, and nothing takes it.
MMUReadReadyUnanswered == mr_state = "init" /\ ~mr_valid

\* read.req.ready and read.resp.valid.
MMUReadReady == mr_state = "init"

MMUReadRespValid(req) == mr_valid /\ ~req.valid

\* Mutant: the port's address does not wrap.
NextCellUnwrapped == rport_addr + 1

NextCell == (rport_addr + 1) % Span

MRIdle(req) ==
  /\ mr_state = "init" /\ ~req.valid
  /\ UNCHANGED mmuReadVars

\* Mutant: the last answer's valid is not cleared.
MRAcceptKeepsValid(req) ==
  /\ mr_state = "init" /\ req.valid
  /\ rport_addr' = CellOfAddr(req.addr)
  /\ mr_addr' = req.addr
  /\ mr_width' = req.width
  /\ mr_state' = "pipe"
  /\ UNCHANGED <<mr_payload, mr_valid>>

MRAccept(req) ==
  /\ mr_state = "init" /\ req.valid
  /\ mr_valid' = FALSE
  /\ rport_addr' = CellOfAddr(req.addr)
  /\ mr_addr' = req.addr
  /\ mr_width' = req.width
  /\ mr_state' = "pipe"
  /\ UNCHANGED mr_payload

MRPipe ==
  /\ mr_state = "pipe"
  /\ rport_addr' = NextCell
  /\ mr_state' = IF mr_width = WORD \/ (mr_width = HALF /\ mr_addr % 2 = 1)
                   THEN "coll0" ELSE "coll"
  /\ UNCHANGED <<mr_valid, mr_addr, mr_width, mr_payload>>

\* The answer is complete: payload is registered and valid rises.
Deliver(payload) ==
  /\ mr_payload' = payload
  /\ mr_valid' = TRUE
  /\ mr_state' = "init"
  /\ UNCHANGED <<mr_addr, mr_width, rport_addr>>

\* An aligned half, or a byte.
MRColl ==
  /\ mr_state = "coll"
  /\ Deliver(IF mr_width = HALF THEN CellAt(0, rport_data)
                                ELSE ByteAt(0, rport_data[mr_addr % 2]))

\* Mutant: valid rises with the first cell.
MRColl0Early ==
  /\ mr_state = "coll0"
  /\ rport_addr' = NextCell
  /\ mr_payload' = CellAt(0, rport_data)
  /\ mr_valid' = TRUE
  /\ mr_state' = "coll1"
  /\ UNCHANGED <<mr_addr, mr_width>>

\* The first cell of a word, or of an unaligned half.
MRColl0 ==
  /\ mr_state = "coll0"
  /\ rport_addr' = NextCell
  /\ mr_payload' = CellAt(0, rport_data)
  /\ mr_state' = "coll1"
  /\ UNCHANGED <<mr_valid, mr_addr, mr_width>>

MRColl1UnalignedHalf ==
  /\ mr_state = "coll1" /\ mr_width = HALF
  /\ Deliver(OrLanes(DropLow(mr_payload), ByteAt(1, rport_data[0])))

MRColl1AlignedWord ==
  /\ mr_state = "coll1" /\ mr_width # HALF /\ mr_addr % 2 = 0
  /\ Deliver(OrLanes(mr_payload, CellAt(2, rport_data)))

MRColl1UnalignedWord ==
  /\ mr_state = "coll1" /\ mr_width # HALF /\ mr_addr % 2 = 1
  /\ mr_payload' = OrLanes(DropLow(mr_payload), CellAt(1, rport_data))
  /\ mr_state' = "coll2"
  /\ UNCHANGED <<mr_valid, mr_addr, mr_width, rport_addr>>

MRColl2 ==
  /\ mr_state = "coll2"
  /\ Deliver(OrLanes(mr_payload, ByteAt(3, rport_data[0])))

MMUReadTick(req) ==
  \/ MRIdle(req)
  \/ MRAccept(req)
  \/ MRPipe
  \/ MRColl
  \/ MRColl0
  \/ MRColl1UnalignedHalf
  \/ MRColl1AlignedWord
  \/ MRColl1UnalignedWord
  \/ MRColl2
=============================================================================
