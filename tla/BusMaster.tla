----------------------------- MODULE BusMaster -----------------------------
(***************************************************************************)
(* The MMU with its buses in the hands of any master that keeps to the     *)
(* hart's manners, and the UART's two queues behind the peripheral.        *)
(*                                                                         *)
(* The manners, from the states of the hart that drive the buses:          *)
(*   - one access at a time, a read or a write;                            *)
(*   - a fetch drives its request until the bus is ready and then drives   *)
(*     address 0 (fetch.init, fetch.wait); it never asks the UART, whose   *)
(*     addresses no aligned pc can name;                                   *)
(*   - a load drives its request for one cycle without looking at ready,   *)
(*     and then its address alone (op.load, l.wait);                       *)
(*   - a store drives its request until the bus is ready, and then its     *)
(*     address alone until the bus is ready again (op.store, s.wait).      *)
(*                                                                         *)
(* The next access may follow in the next cycle, any access after any      *)
(* other: the hart is one such master (module Sae), the bench of the       *)
(* repository's tests/test_mmu.py another.                                 *)
(***************************************************************************)
EXTENDS MMU

CONSTANTS FirstImage,   \* the memory images the master starts with
          MasterAddr,   \* the addresses the master uses
          WriteData     \* the data the master writes

ASSUME BenchAssumption ==
  /\ FirstImage \subseteq [MemByte -> Byte]
  /\ MasterAddr \subseteq Word
  /\ WriteData \subseteq Lanes

VARIABLES m_state,   \* what the master does in this cycle
          m_addr, m_width, m_data

masterVars == <<m_state, m_addr, m_width, m_data>>

vars == <<mmuVars, streamVars, masterVars>>

MasterState == {"idle", "fetch", "fetching", "load", "loading", "store", "storing"}

TypeOK ==
  /\ MMUTypeOK
  /\ StreamsTypeOK
  /\ m_state \in MasterState
  /\ m_addr \in Word
  /\ m_width \in AccessWidth
  /\ m_data \in Lanes
-----------------------------------------------------------------------------
(* The wires of the two buses. *)

ReadWires ==
  CASE m_state \in {"fetch", "load"} ->
         [valid |-> TRUE, addr |-> m_addr, width |-> m_width]
    [] m_state = "loading" -> [NoRead EXCEPT !.addr = m_addr]
    [] OTHER -> NoRead

WriteWires ==
  CASE m_state = "store" ->
         [valid |-> TRUE, addr |-> m_addr, width |-> m_width, data |-> m_data]
    [] m_state = "storing" -> [NoWrite EXCEPT !.addr = m_addr]
    [] OTHER -> NoWrite
-----------------------------------------------------------------------------
(* The master.  Access chooses what it does next. *)

Access ==
  \/ m_state' = "idle" /\ m_addr' = 0 /\ m_width' = BYTE /\ m_data' = ZeroLanes
  \/ /\ m_state' = "fetch" /\ m_width' = WORD /\ m_data' = ZeroLanes
     /\ m_addr' \in {a \in MasterAddr : ~ToUart(a)}
  \/ /\ m_state' = "load" /\ m_width' \in AccessWidth /\ m_data' = ZeroLanes
     /\ m_addr' \in MasterAddr
  \/ /\ m_state' = "store" /\ m_width' \in {BYTE, HALF, WORD} /\ m_data' \in WriteData
     /\ m_addr' \in MasterAddr

Hold(state) == m_state' = state /\ UNCHANGED <<m_addr, m_width, m_data>>

MasterTick ==
  \/ /\ m_state = "idle"
     /\ Access
  \/ /\ m_state = "fetch"
     /\ Hold(IF ReadReady(ReadWires) THEN "fetching" ELSE "fetch")
  \/ /\ m_state = "load"
     /\ Hold("loading")
  \/ /\ m_state \in {"fetching", "loading"}
     /\ IF ReadRespValid(ReadWires) THEN Access ELSE UNCHANGED masterVars
  \/ /\ m_state = "store"
     /\ Hold(IF WriteReady(WriteWires) THEN "storing" ELSE "store")
  \/ /\ m_state = "storing"
     /\ IF WriteReady(WriteWires) THEN Access ELSE UNCHANGED masterVars

Init ==
  /\ sysmem \in FirstImage
  /\ MMUInit
  /\ StreamsInit
  /\ m_state = "idle" /\ m_addr = 0 /\ m_width = BYTE /\ m_data = ZeroLanes

Next ==
  /\ MasterTick
  /\ MMUTick(ReadWires, WriteWires, RxWire)
  /\ StreamsTick(uc_rdready, uc_wrvalid, uc_wrpayload)

Spec == Init /\ [][Next]_vars
-----------------------------------------------------------------------------
\* When the master is not storing, nothing is left of any write, so no access can
\* meet one half made; and a read leaves the machine ready for the next.
WriteFinished == m_state # "storing" => mw_state = "init" /\ wport_en = {}
-----------------------------------------------------------------------------
(* Refinement of ByteBus.  A write of memory takes effect when the master  *)
(* sees it accepted: the abstract memory is the concrete one once the port *)
(* has made the write it is set up for and the machine those it has left.  *)

\* The bytes the request that MMURead has registered asks for.
Wanted == ReadBytes(Drained, mr_addr, mr_width)

AbstractRequest ==
  IF m_state \in {"fetch", "load", "store"}
    THEN [kind |-> IF m_state = "store" THEN "write" ELSE "read",
          addr |-> m_addr, width |-> m_width, data |-> m_data]
    ELSE [kind |-> "none", addr |-> 0, width |-> BYTE, data |-> ZeroLanes]

AbstractAnswer ==
  IF m_state \notin {"fetching", "loading"} THEN [kind |-> "nothing"]
  ELSE IF ~ToSysmem(m_addr) /\ ~ToUart(m_addr) THEN [kind |-> "never"]
  ELSE [kind |-> "owed", bytes |->
          IF ToUart(m_addr) THEN ByteAt(0, uc_payload)
          ELSE IF mr_valid THEN mr_payload ELSE Wanted]

Bus == INSTANCE ByteBus WITH
  mem     <- Drained,
  req     <- AbstractRequest,
  answer  <- AbstractAnswer,
  rx_fifo <- IF uc_rdready THEN Pop(rx_fifo) ELSE rx_fifo,
  tx_fifo <- IF uc_wrvalid THEN Push(tx_fifo, uc_wrpayload) ELSE tx_fifo

\* The MMU is a memory of bytes and two streams (module ByteBus): no alignment,
\* width, back-to-back access or access of the UART between others makes a read
\* return other bytes than the last writes left, a write touch another byte or be
\* seen half done, or a byte of the streams be taken or sent twice.
ImplementsByteBus == Bus!Spec
=============================================================================
