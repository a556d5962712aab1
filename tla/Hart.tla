------------------------------- MODULE Hart --------------------------------
(***************************************************************************)
(* Hart: the processor's state machine.  It fetches a word, decodes it,    *)
(* and takes it through the states of its opcode back to fetch.init, or to *)
(* faulted.  The register file has a write port and two read ports that    *)
(* each take a cycle.                                                      *)
(*                                                                         *)
(* An action is one edge of the clock in one state of the machine.  The    *)
(* hart drives the two buses (HartRead, HartWrite) and sees of them        *)
(*   r   read.req.ready, read.resp.valid, and read.resp.payload as lanes   *)
(*   w   write.req.ready                                                   *)
(* as they are before the edge.                                            *)
(***************************************************************************)
EXTENDS RV32

CONSTANT FirstRegs    \* the register files the memory xmem may start with

ASSUME FirstRegsAssumption == FirstRegs \subseteq {f \in [Reg -> Word] : f[0] = 0}

VARIABLES h_state,                          \* the FSM
          pc, insn,
          imm, funct3, funct7,              \* the fields kept by fetch.resolve
          xmem,                             \* the registers
          xwr_en, xwr_reg, xwr_val,         \* the write port
          xrd1_reg, xrd2_reg,               \* the read ports' addresses
          xrd1_val, xrd2_val,               \* and the values they registered
          fault_code, fault_insn

fieldVars == <<imm, funct3, funct7>>
writePortVars == <<xwr_en, xwr_reg, xwr_val>>
readRegs == <<xrd1_reg, xrd2_reg>>
faultVars == <<fault_code, fault_insn>>
hartVars == <<h_state, pc, insn, fieldVars, xmem, writePortVars, readRegs,
              xrd1_val, xrd2_val, faultVars>>

HartState ==
  {"fetch.init", "fetch.wait", "fetch.resolve",
   "op.load.wait", "op.load", "alu.wait", "alu", "op.store.wait", "op.store",
   "op.branch.wait", "op.branch", "op.jalr.wait", "op.jalr", "l.wait", "s.wait",
   "faulted"}

HartTypeOK ==
  /\ h_state \in HartState
  /\ pc \in Word /\ insn \in Word
  /\ imm \in Word /\ funct3 \in 0 .. 7 /\ funct7 \in 0 .. 127
  /\ xmem \in [Reg -> Word]
  /\ xwr_en \in BOOLEAN /\ xwr_reg \in Reg /\ xwr_val \in Word
  /\ xrd1_reg \in Reg /\ xrd2_reg \in Reg
  /\ xrd1_val \in Word /\ xrd2_val \in Word
  /\ fault_code \in FaultCode /\ fault_insn \in Word

HartInit ==
  /\ h_state = "fetch.init"
  /\ pc = 0 /\ insn = 0
  /\ imm = 0 /\ funct3 = 0 /\ funct7 = 0
  /\ xmem \in FirstRegs
  /\ xwr_en = FALSE /\ xwr_reg = 0 /\ xwr_val = 0
  /\ xrd1_reg = 0 /\ xrd2_reg = 0
  /\ xrd1_val = 0 /\ xrd2_val = 0
  /\ fault_code = "UNSET" /\ fault_insn = 0
-----------------------------------------------------------------------------
(* What the hart drives on the buses. *)

\* The address of a load or of a store.
Address == Plus(xrd1_val, imm)

\* Mutant: the address is not kept on the bus while a load waits.
HartReadLetsGo ==
  CASE h_state = "fetch.init" -> [valid |-> TRUE, addr |-> pc, width |-> WORD]
    [] h_state = "op.load" -> [valid |-> TRUE, addr |-> Address, width |-> funct3 % 4]
    [] OTHER -> NoRead

HartRead ==
  CASE h_state = "fetch.init" -> [valid |-> TRUE, addr |-> pc, width |-> WORD]
    [] h_state = "op.load" -> [valid |-> TRUE, addr |-> Address, width |-> funct3 % 4]
    [] h_state = "l.wait" -> [NoRead EXCEPT !.addr = Address]
    [] OTHER -> NoRead

HartWrite ==
  CASE h_state = "op.store" -> [valid |-> TRUE, addr |-> Address,
                                width |-> StoreWidth(funct3), data |-> BytesOf(xrd2_val)]
    [] h_state = "s.wait" -> [NoWrite EXCEPT !.addr = Address]
    [] OTHER -> NoWrite
-----------------------------------------------------------------------------
(* Pieces of a step. *)

Goto(state) == h_state' = state

\* The write port for the next cycle.
NoRegWrite == xwr_en' = FALSE /\ UNCHANGED <<xwr_reg, xwr_val>>

WriteReg(rd, value) == xwr_en' = TRUE /\ xwr_reg' = rd /\ xwr_val' = value

\* The value of the instruction whose rd fetch.resolve has put in xwr_reg.
WriteValue(value) == WriteReg(xwr_reg, value)

NoFault == UNCHANGED faultVars

FaultIllegal(word) ==
  /\ fault_code' = "ILLEGAL_INSTRUCTION"
  /\ fault_insn' = word

FaultMisaligned ==
  /\ fault_code' = "PC_MISALIGNED"
  /\ UNCHANGED fault_insn

\* The read ports' addresses and the fields are set by fetch.resolve alone.
Decoded == UNCHANGED <<insn, fieldVars, readRegs>>

\* The three ports of the register file.  A read port registers what the register
\* holds before the edge, and x0 is never written.
RegisterFile ==
  /\ xmem' = IF xwr_en /\ xwr_reg # 0 THEN [xmem EXCEPT ![xwr_reg] = xwr_val] ELSE xmem
  /\ xrd1_val' = xmem[xrd1_reg]
  /\ xrd2_val' = xmem[xrd2_reg]
-----------------------------------------------------------------------------
(* Fetch. *)

FetchInit(r) ==
  /\ h_state = "fetch.init"
  /\ Goto(IF r.ready THEN "fetch.wait" ELSE "fetch.init")
  /\ Decoded /\ NoRegWrite /\ NoFault /\ UNCHANGED pc

FetchWait(r) ==
  /\ h_state = "fetch.wait" /\ ~r.valid
  /\ Decoded /\ NoRegWrite /\ NoFault /\ UNCHANGED <<h_state, pc>>

FetchLegal(r) ==
  /\ h_state = "fetch.wait" /\ r.valid /\ ~IllegalWord(NumOf(r.lanes))
  /\ insn' = NumOf(r.lanes)
  /\ Goto("fetch.resolve")
  /\ NoRegWrite /\ NoFault /\ UNCHANGED <<pc, fieldVars, readRegs>>

FetchIllegal(r) ==
  /\ h_state = "fetch.wait" /\ r.valid /\ IllegalWord(NumOf(r.lanes))
  /\ insn' = NumOf(r.lanes)
  /\ FaultIllegal(NumOf(r.lanes))
  /\ Goto("faulted")
  /\ NoRegWrite /\ UNCHANGED <<pc, fieldVars, readRegs>>
-----------------------------------------------------------------------------
(* Resolve: the switch on the opcode.  d is the decoded instruction.       *)

Resolving(opcode) == h_state = "fetch.resolve" /\ Decode(insn).opcode = opcode

NextPc == pc' = Plus(pc, 4)

\* The opcode goes on in another state, which has set the fields it needs.
Dispatch(state, f7) ==
  LET d == Decode(insn) IN
  /\ imm' = d.imm /\ funct3' = d.funct3 /\ funct7' = f7
  /\ Goto(state)
  /\ NoFault /\ UNCHANGED insn

\* The instruction ends here.
Retire == Goto("fetch.init") /\ Decoded /\ NoFault

KeepsRd(d) == xwr_en' = FALSE /\ xwr_reg' = d.rd /\ UNCHANGED xwr_val

ResolveLoad ==
  /\ Resolving("LOAD")
  /\ Dispatch("op.load.wait", funct7)
  /\ xrd1_reg' = Decode(insn).rs1 /\ UNCHANGED xrd2_reg
  /\ KeepsRd(Decode(insn)) /\ NextPc

ResolveFence ==
  /\ Resolving("MISC_MEM") /\ Decode(insn).funct3 = 0
  /\ Retire /\ NoRegWrite /\ NextPc

ResolveOpImm ==
  /\ Resolving("OP_IMM")
  /\ Dispatch("alu.wait", 1)
  /\ xrd1_reg' = Decode(insn).rs1 /\ UNCHANGED xrd2_reg
  /\ KeepsRd(Decode(insn)) /\ NextPc

\* Mutant: the cycle of the read ports is not waited for.
ResolveOpAtOnce ==
  LET d == Decode(insn) IN
  /\ Resolving("OP")
  /\ funct3' = d.funct3 /\ funct7' = d.funct7 /\ UNCHANGED imm
  /\ xrd1_reg' = d.rs1 /\ xrd2_reg' = d.rs2
  /\ Goto("alu")
  /\ KeepsRd(d) /\ NextPc /\ NoFault /\ UNCHANGED insn

\* imm keeps what an earlier instruction left in it.
ResolveOp ==
  LET d == Decode(insn) IN
  /\ Resolving("OP")
  /\ funct3' = d.funct3 /\ funct7' = d.funct7 /\ UNCHANGED imm
  /\ xrd1_reg' = d.rs1 /\ xrd2_reg' = d.rs2
  /\ Goto("alu.wait")
  /\ KeepsRd(d) /\ NextPc /\ NoFault /\ UNCHANGED insn

ResolveLui ==
  /\ Resolving("LUI")
  /\ WriteReg(Decode(insn).rd, Decode(insn).imm)
  /\ Retire /\ NextPc

ResolveAuipc ==
  /\ Resolving("AUIPC")
  /\ WriteReg(Decode(insn).rd, Plus(pc, Decode(insn).imm))
  /\ Retire /\ NextPc

ResolveStore ==
  /\ Resolving("STORE")
  /\ Dispatch("op.store.wait", funct7)
  /\ xrd1_reg' = Decode(insn).rs1 /\ xrd2_reg' = Decode(insn).rs2
  /\ NoRegWrite /\ NextPc

ResolveBranch ==
  /\ Resolving("BRANCH")
  /\ Dispatch("op.branch.wait", funct7)
  /\ xrd1_reg' = Decode(insn).rs1 /\ xrd2_reg' = Decode(insn).rs2
  /\ NoRegWrite /\ UNCHANGED pc

\* funct3 is not kept.
ResolveJalr ==
  /\ Resolving("JALR")
  /\ imm' = Decode(insn).imm /\ UNCHANGED <<funct3, funct7, insn>>
  /\ xrd1_reg' = Decode(insn).rs1 /\ UNCHANGED xrd2_reg
  /\ Goto("op.jalr.wait")
  /\ KeepsRd(Decode(insn)) /\ NextPc /\ NoFault

ResolveJal ==
  LET target == Plus(pc, Decode(insn).imm) IN
  /\ Resolving("JAL") /\ Aligned(target)
  /\ pc' = target
  /\ WriteReg(Decode(insn).rd, Plus(pc, 4))
  /\ Retire

\* The pc has moved past the jump when the hart stops.
ResolveJalMisaligned ==
  /\ Resolving("JAL") /\ ~Aligned(Plus(pc, Decode(insn).imm))
  /\ FaultMisaligned
  /\ Goto("faulted")
  /\ NextPc /\ NoRegWrite /\ Decoded

IsSystemCall(d) == d.funct3 = 0 /\ d.imm \in {0, 1}

ResolveSystem ==
  /\ Resolving("SYSTEM") /\ IsSystemCall(Decode(insn))
  /\ WriteReg(1, SystemMark(Decode(insn).imm))
  /\ Retire /\ NextPc

ResolveIllegal ==
  /\ \/ Resolving("MISC_MEM") /\ Decode(insn).funct3 # 0
     \/ Resolving("SYSTEM") /\ ~IsSystemCall(Decode(insn))
     \/ Resolving("other")
  /\ FaultIllegal(insn)
  /\ Goto("faulted")
  /\ NextPc /\ NoRegWrite /\ Decoded
-----------------------------------------------------------------------------
(* The states of the opcodes that read registers.  The first one of each   *)
(* waits for the read ports.                                               *)

AfterWait == [s \in {"op.load.wait", "alu.wait", "op.store.wait", "op.branch.wait",
                     "op.jalr.wait"} |->
                CASE s = "op.load.wait" -> "op.load"
                  [] s = "alu.wait" -> "alu"
                  [] s = "op.store.wait" -> "op.store"
                  [] s = "op.branch.wait" -> "op.branch"
                  [] OTHER -> "op.jalr"]

WaitForRegs ==
  /\ h_state \in DOMAIN AfterWait
  /\ Goto(AfterWait[h_state])
  /\ Decoded /\ NoRegWrite /\ NoFault /\ UNCHANGED pc

OpLoad ==
  /\ h_state = "op.load"
  /\ Goto("l.wait")
  /\ Decoded /\ NoRegWrite /\ NoFault /\ UNCHANGED pc

LoadWait(r) ==
  /\ h_state = "l.wait" /\ ~r.valid
  /\ Decoded /\ NoRegWrite /\ NoFault /\ UNCHANGED <<h_state, pc>>

\* The value is written whatever funct3 is.
LoadDone(r) ==
  /\ h_state = "l.wait" /\ r.valid
  /\ WriteValue(LoadValue(funct3, r.lanes))
  /\ IF funct3 \in LoadFunct
       THEN Goto("fetch.init") /\ NoFault
       ELSE Goto("faulted") /\ FaultIllegal(insn)
  /\ Decoded /\ UNCHANGED pc

Alu ==
  /\ h_state = "alu"
  /\ WriteValue(AluOut(funct3, xrd1_val, OperandB(funct3, funct7, xrd2_val, imm)))
  /\ Retire /\ UNCHANGED pc

\* The request is on the bus whatever funct3 is.
OpStore(w) ==
  /\ h_state = "op.store"
  /\ IF funct3 \notin StoreFunct THEN Goto("faulted") /\ FaultIllegal(insn)
     ELSE Goto(IF w.ready THEN "s.wait" ELSE "op.store") /\ NoFault
  /\ Decoded /\ NoRegWrite /\ UNCHANGED pc

\* Mutant: the machine's ready is not waited for.
StoreWaitOneCycle(w) ==
  /\ h_state = "s.wait"
  /\ Goto("fetch.init")
  /\ Decoded /\ NoRegWrite /\ NoFault /\ UNCHANGED pc

StoreWait(w) ==
  /\ h_state = "s.wait"
  /\ Goto(IF w.ready THEN "fetch.init" ELSE "s.wait")
  /\ Decoded /\ NoRegWrite /\ NoFault /\ UNCHANGED pc

BranchNotTaken ==
  /\ h_state = "op.branch" /\ funct3 \in BranchFunct
  /\ ~Taken(funct3, xrd1_val, xrd2_val)
  /\ Retire /\ NextPc /\ NoRegWrite

\* Mutant: the target's alignment is not checked.
BranchTakenAnywhere ==
  /\ h_state = "op.branch" /\ Taken(funct3, xrd1_val, xrd2_val)
  /\ pc' = Plus(pc, imm)
  /\ Retire /\ NoRegWrite

BranchTaken ==
  /\ h_state = "op.branch" /\ Taken(funct3, xrd1_val, xrd2_val)
  /\ Aligned(Plus(pc, imm))
  /\ pc' = Plus(pc, imm)
  /\ Retire /\ NoRegWrite

\* The fault is recorded, but the next state is then set to fetch.init: the hart
\* fetches the branch again.
BranchMisaligned ==
  /\ h_state = "op.branch" /\ Taken(funct3, xrd1_val, xrd2_val)
  /\ ~Aligned(Plus(pc, imm))
  /\ FaultMisaligned
  /\ Goto("fetch.init")
  /\ Decoded /\ NoRegWrite /\ UNCHANGED pc

BranchIllegal ==
  /\ h_state = "op.branch" /\ funct3 \notin BranchFunct
  /\ FaultIllegal(insn)
  /\ Goto("faulted")
  /\ Decoded /\ NoRegWrite /\ NextPc

JalrTarget == LET sum == Plus(xrd1_val, imm) IN sum - (sum % 2)

OpJalr ==
  /\ h_state = "op.jalr" /\ Aligned(JalrTarget)
  /\ pc' = JalrTarget
  /\ WriteValue(pc)
  /\ Retire

OpJalrMisaligned ==
  /\ h_state = "op.jalr" /\ ~Aligned(JalrTarget)
  /\ FaultMisaligned
  /\ Goto("faulted")
  /\ Decoded /\ NoRegWrite /\ UNCHANGED pc

Faulted ==
  /\ h_state = "faulted"
  /\ Decoded /\ NoRegWrite /\ NoFault /\ UNCHANGED <<h_state, pc>>
-----------------------------------------------------------------------------
Fetch(r) == FetchInit(r) \/ FetchWait(r) \/ FetchLegal(r) \/ FetchIllegal(r)

Resolve ==
  \/ ResolveLoad \/ ResolveFence \/ ResolveOpImm \/ ResolveOp \/ ResolveLui
  \/ ResolveAuipc \/ ResolveStore \/ ResolveBranch \/ ResolveJalr \/ ResolveJal
  \/ ResolveJalMisaligned \/ ResolveSystem \/ ResolveIllegal

Execute(r, w) ==
  \/ WaitForRegs \/ OpLoad \/ LoadWait(r) \/ LoadDone(r) \/ Alu
  \/ OpStore(w) \/ StoreWait(w)
  \/ BranchNotTaken \/ BranchTaken \/ BranchMisaligned \/ BranchIllegal
  \/ OpJalr \/ OpJalrMisaligned

HartTick(r, w) ==
  /\ RegisterFile
  /\ Fetch(r) \/ Resolve \/ Execute(r, w) \/ Faulted
=============================================================================
