-------------------------------- MODULE Sae --------------------------------
(***************************************************************************)
(* The system: the hart, the MMU with its memory, the UART's connection    *)
(* and the UART's two queues, all on one clock.  A step is one edge of     *)
(* that clock: every machine moves, each seeing what the others drove      *)
(* before the edge.                                                        *)
(***************************************************************************)
EXTENDS Hart, MMU

CONSTANT FirstImage   \* the memory images the hart is started with

ASSUME ImageAssumption == FirstImage \subseteq [MemByte -> Byte]

\* No multiple of four is an address of the UART, whose id is 1.
ASSUME CidAssumption == Cid % 4 # 0

vars == <<hartVars, mmuVars, streamVars>>

TypeOK ==
  /\ HartTypeOK
  /\ MMUTypeOK
  /\ StreamsTypeOK

Init ==
  /\ HartInit
  /\ sysmem \in FirstImage
  /\ MMUInit
  /\ StreamsInit

\* What the hart sees of the buses.
ReadWires ==
  [ready |-> ReadReady(HartRead), valid |-> ReadRespValid(HartRead),
   lanes |-> ReadRespPayload(HartRead)]

WriteWires == [ready |-> WriteReady(HartWrite)]

Next ==
  /\ HartTick(ReadWires, WriteWires)
  /\ MMUTick(HartRead, HartWrite, RxWire)
  /\ StreamsTick(uc_rdready, uc_wrvalid, uc_wrpayload)

Spec == Init /\ [][Next]_vars

\* The clock does not stop.
FairSpec == Spec /\ WF_vars(Next)
-----------------------------------------------------------------------------
(* Safety. *)

\* When the hart is not storing, nothing is left of any store: "we can count on the
\* write being finished by the next read" (hart.py, s.wait).  A store that faults
\* leaves its byte to be written after the hart has stopped.
WriteSettled ==
  h_state \notin {"s.wait", "faulted"} => mw_state = "init" /\ wport_en = {}

\* A request meets a bus that is free to take it.  op.load and s.wait's successor do
\* not look at ready: they count on it.
RequestsMeetIdleBus ==
  /\ HartRead.valid => mr_state = "init" /\ uc_state = "init"
  /\ HartWrite.valid => mw_state = "init" /\ mw_ready

\* Where an operand is used, the read port has registered the register as it is now:
\* no write to any register is still under way then.
OperandsFresh ==
  h_state \in {"op.load", "alu", "op.store", "op.branch", "op.jalr"} =>
    /\ ~xwr_en
    /\ xrd1_val = xmem[xrd1_reg] /\ xrd2_val = xmem[xrd2_reg]

\* No jump, branch or fall-through leaves pc between instructions, and so no fetch is
\* routed to the UART, whose answer fetch.wait would not wait for.
PcAligned == Aligned(pc)
-----------------------------------------------------------------------------
(* Liveness. *)

\* The hart waits on an address where there is nothing: for ever.
Nowhere(addr) == ~ToSysmem(addr) /\ ~ToUart(addr)

Stuck ==
  \/ h_state = "fetch.init" /\ ~ToSysmem(pc)
  \/ h_state \in {"l.wait", "op.store"} /\ Nowhere(Address)

\* An instruction once begun is completed, unless it stops the hart or accesses an
\* address where there is nothing: no handshake of the buses waits for one that does
\* not come.
InstructionsComplete ==
  (h_state # "fetch.init") ~> (h_state \in {"fetch.init", "faulted"} \/ Stuck)

\* and another is then begun.
InstructionsFollow ==
  (h_state = "fetch.init") ~> (h_state \in {"fetch.resolve", "faulted"} \/ Stuck)
-----------------------------------------------------------------------------
(* What comments and tests of the repository say of the hart, and it does  *)
(* not do: each is refuted by a run of its own.                            *)

\* "bne x0, x0, 2 ; doesn't fault since branch not taken" (tests/test_other.st): a
\* branch that is taken to such a target faults, as the jump that follows there does,
\* and the fault stops the hart.
FaultStops == fault_code # "UNSET" => h_state = "faulted"

\* "ensure we only use the lower 5 bits of rs2" (tests/test_integers.st, before SLL and
\* SRL with upper bits set): the other bits of rs2 do not change what SRL computes.
ShiftUsesLowBits ==
  [][h_state = "alu" /\ funct3 = SRI /\ funct7 = 0 =>
       xwr_val' = Shr(xrd1_val, xrd2_val % XLen)]_vars

\* "funct7[0] never set by OP_IMM or OP; use to signal IMM to ALU" (hart.py,
\* fetch.resolve): an OP computes with its two registers.
OnlyOpImmUsesImm ==
  h_state = "alu" /\ UsesImm(funct7) => Decode(insn).opcode = "OP_IMM"
-----------------------------------------------------------------------------
(* Refinement of Isa.  An instruction takes effect at one edge: the one    *)
(* that resolves it, for those that need no register; the one that leaves  *)
(* alu, op.branch or op.jalr; the one at which the bus accepts the request *)
(* of a load or of a store.  What the hart has still to write then, in a   *)
(* register or in memory, the abstract state has already.                  *)

\* A load that the bus has accepted.
LoadInFlight == h_state = "l.wait" /\ (ToSysmem(Address) \/ ToUart(Address))

InFlightValue ==
  LoadValue(funct3, IF ToUart(Address) THEN ByteAt(0, uc_payload)
                    ELSE ReadBytes(sysmem, Address, funct3 % 4))

AbstractRegs ==
  LET after(reg, value) == IF reg = 0 THEN xmem ELSE [xmem EXCEPT ![reg] = value] IN
  IF LoadInFlight THEN after(xwr_reg, InFlightValue)
  ELSE IF xwr_en THEN after(xwr_reg, xwr_val)
  ELSE xmem

\* The pc runs ahead of the instruction from fetch.resolve on, but for a branch.
Ahead ==
  \/ h_state \in {"op.load.wait", "op.load", "alu.wait", "alu", "op.store.wait",
                  "op.store", "op.jalr.wait", "op.jalr"}
  \/ h_state = "l.wait" /\ ~LoadInFlight

AbstractPc == IF Ahead THEN (pc - 4) % WordSize ELSE pc

IllegalInFlight == LoadInFlight /\ funct3 \notin LoadFunct

Program == INSTANCE Isa WITH
  pc         <- AbstractPc,
  regs       <- AbstractRegs,
  mem        <- Drained,
  stopped    <- h_state = "faulted" \/ IllegalInFlight,
  fault_code <- IF IllegalInFlight THEN "ILLEGAL_INSTRUCTION" ELSE fault_code,
  fault_insn <- IF IllegalInFlight THEN insn ELSE fault_insn,
  rx_fifo    <- IF uc_rdready THEN Pop(rx_fifo) ELSE rx_fifo,
  tx_fifo    <- IF uc_wrvalid THEN Push(tx_fifo, uc_wrpayload) ELSE tx_fifo

\* The hart executes its program (module Isa): the words it executes are those in
\* memory at pc, an instruction reads the registers and the memory its predecessors
\* left, it takes effect once, and a byte of the UART is taken or sent exactly once
\* per load or store.
ImplementsIsa == Program!Spec
=============================================================================
