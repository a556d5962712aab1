-------------------------------- MODULE Isa --------------------------------
(***************************************************************************)
(* What the hart promises to a program: the machine that executes one      *)
(* instruction per step, atomically, on registers, byte memory and the     *)
(* UART's two queues.  It has no buses, no ports and no waiting.           *)
(*                                                                         *)
(* It is the machine this hart implements, its peculiarities included:     *)
(*   - a taken branch to a misaligned target records the fault and does    *)
(*     not stop: the branch is executed again;                             *)
(*   - a load or store with a funct3 that is no load or store stops the    *)
(*     machine, and also clears rd, or writes a byte;                      *)
(*   - an OP with bit 0 of funct7 set (a multiplication) is not refused:   *)
(*     its second operand is a leftover;                                   *)
(*   - an access to an address where there is nothing is never completed.  *)
(***************************************************************************)
EXTENDS ByteMemory, UARTStreams, RV32

VARIABLES pc, regs, mem, stopped, fault_code, fault_insn

isaVars == <<pc, regs, mem, stopped, fault_code, fault_insn, rx_fifo, tx_fifo>>

Init ==
  /\ pc = 0
  /\ regs \in [Reg -> Word] /\ regs[0] = 0
  /\ mem \in [MemByte -> Byte]
  /\ stopped = FALSE /\ fault_code = "UNSET" /\ fault_insn = 0
  /\ StreamsInit
-----------------------------------------------------------------------------
\* The word at pc, and its fields.
Fetched == NumOf(ReadBytes(mem, pc, WORD))

d == Decode(Fetched)

R1 == regs[d.rs1]
R2 == regs[d.rs2]

Put(rd, value) == regs' = IF rd = 0 THEN regs ELSE [regs EXCEPT ![rd] = value]

Goto(target) == pc' = target

Next4 == Plus(pc, 4)

Fault(code) == fault_code' = code

Stop(code, word) == stopped' = TRUE /\ Fault(code) /\ fault_insn' = word

StopMisaligned == Stop("PC_MISALIGNED", fault_insn)

Continue == UNCHANGED <<stopped, fault_code, fault_insn>>

\* The line goes its own way in every step.
RxLine(q) == rx_fifo' \in Arrivals(q)
TxLine == tx_fifo' \in Departures(tx_fifo)
Lines == RxLine(rx_fifo) /\ TxLine

NoIO == UNCHANGED mem /\ Lines
-----------------------------------------------------------------------------
(* One action per instruction.  Executing says which one is at pc.         *)

Fetching == ~stopped /\ ToSysmem(pc)

Executing(opcode) == Fetching /\ ~IllegalWord(Fetched) /\ d.opcode = opcode

IllegalFetch ==
  /\ Fetching /\ IllegalWord(Fetched)
  /\ Stop("ILLEGAL_INSTRUCTION", Fetched)
  /\ UNCHANGED <<pc, regs>> /\ NoIO

EffectiveAddress == Plus(R1, d.imm)

\* What a load does with the word the bus gives it.
LoadWith(lanes) ==
  /\ Put(d.rd, LoadValue(d.funct3, lanes))
  /\ Goto(Next4)
  /\ IF d.funct3 \in LoadFunct THEN Continue ELSE Stop("ILLEGAL_INSTRUCTION", Fetched)
  /\ UNCHANGED mem

LoadMemory ==
  /\ Executing("LOAD") /\ ToSysmem(EffectiveAddress)
  /\ LoadWith(ReadBytes(mem, EffectiveAddress, d.funct3 % 4))
  /\ Lines

LoadUart ==
  /\ Executing("LOAD") /\ ToUart(EffectiveAddress)
  /\ LoadWith(ByteAt(0, IF rx_fifo = <<>> THEN 0 ELSE Head(rx_fifo)))
  /\ RxLine(Pop(rx_fifo)) /\ TxLine

AfterStore ==
  /\ Goto(Next4)
  /\ IF d.funct3 \in StoreFunct THEN Continue ELSE Stop("ILLEGAL_INSTRUCTION", Fetched)
  /\ UNCHANGED regs

StoreMemory ==
  /\ Executing("STORE") /\ ToSysmem(EffectiveAddress)
  /\ mem' = WriteBytes(mem, EffectiveAddress, StoreWidth(d.funct3), BytesOf(R2))
  /\ AfterStore
  /\ Lines

StoreUart ==
  /\ Executing("STORE") /\ ToUart(EffectiveAddress)
  /\ RxLine(rx_fifo)
  /\ tx_fifo' \in {Push(q, R2 % ByteSize) : q \in Departures(tx_fifo)}
  /\ AfterStore
  /\ UNCHANGED mem

\* A store to an address where there is nothing, with a funct3 that is no store.
StoreIllegalNowhere ==
  /\ Executing("STORE") /\ d.funct3 \notin StoreFunct
  /\ ~ToSysmem(EffectiveAddress) /\ ~ToUart(EffectiveAddress)
  /\ AfterStore
  /\ NoIO

Arithmetic ==
  /\ \/ /\ Executing("OP_IMM")
        /\ Put(d.rd, AluOut(d.funct3, R1, d.imm))
     \/ /\ Executing("OP")
        /\ \E leftover \in IF UsesImm(d.funct7) THEN Word ELSE {0} :
             Put(d.rd, AluOut(d.funct3, R1, OperandB(d.funct3, d.funct7, R2, leftover)))
     \/ Executing("LUI") /\ Put(d.rd, d.imm)
     \/ Executing("AUIPC") /\ Put(d.rd, Plus(pc, d.imm))
  /\ Goto(Next4) /\ Continue /\ NoIO

Fence ==
  /\ Executing("MISC_MEM") /\ d.funct3 = 0
  /\ Goto(Next4) /\ Continue /\ UNCHANGED regs /\ NoIO

System ==
  /\ Executing("SYSTEM") /\ d.funct3 = 0 /\ d.imm \in {0, 1}
  /\ Put(1, SystemMark(d.imm))
  /\ Goto(Next4) /\ Continue /\ NoIO

Branch ==
  /\ Executing("BRANCH") /\ d.funct3 \in BranchFunct
  /\ \/ ~Taken(d.funct3, R1, R2) /\ Goto(Next4) /\ Continue
     \/ /\ Taken(d.funct3, R1, R2) /\ Aligned(Plus(pc, d.imm))
        /\ Goto(Plus(pc, d.imm)) /\ Continue
     \/ /\ Taken(d.funct3, R1, R2) /\ ~Aligned(Plus(pc, d.imm))
        /\ Fault("PC_MISALIGNED") /\ UNCHANGED <<pc, stopped, fault_insn>>
  /\ UNCHANGED regs /\ NoIO

\* A jump that lands on a multiple of four links; another stops the machine, past it.
JumpTo(target) ==
  IF Aligned(target)
    THEN Goto(target) /\ Put(d.rd, Next4) /\ Continue
    ELSE Goto(Next4) /\ UNCHANGED regs /\ StopMisaligned

Jump ==
  /\ \/ Executing("JAL") /\ JumpTo(Plus(pc, d.imm))
     \/ Executing("JALR") /\ JumpTo(LET sum == EffectiveAddress IN sum - (sum % 2))
  /\ NoIO

\* An opcode, or a function of one that does no input or output, that is not known.
Illegal ==
  /\ \/ Executing("other")
     \/ Executing("MISC_MEM") /\ d.funct3 # 0
     \/ Executing("SYSTEM") /\ ~(d.funct3 = 0 /\ d.imm \in {0, 1})
     \/ Executing("BRANCH") /\ d.funct3 \notin BranchFunct
  /\ Stop("ILLEGAL_INSTRUCTION", Fetched)
  /\ Goto(Next4)
  /\ UNCHANGED regs /\ NoIO

\* Only the line moves.
Quiet ==
  /\ UNCHANGED <<pc, regs, stopped, fault_code, fault_insn>>
  /\ NoIO

Next ==
  \/ Quiet
  \/ IllegalFetch
  \/ LoadMemory \/ LoadUart \/ StoreMemory \/ StoreUart \/ StoreIllegalNowhere
  \/ Arithmetic \/ Fence \/ System \/ Branch \/ Jump \/ Illegal

Spec == Init /\ [][Next]_isaVars
-----------------------------------------------------------------------------
\* A restart: the program begins again with the registers and the memory it has.  The
\* instruction it was in may have taken effect already and lose it: a load its
\* register, a store some of its bytes.
Restart ==
  /\ pc' = 0
  /\ stopped' = FALSE /\ fault_code' = "UNSET" /\ fault_insn' = 0
  /\ rx_fifo' = <<>> /\ tx_fifo' = <<>>
  /\ regs' \in [Reg -> Word]
  /\ \E rd \in Reg : \A r \in Reg \ {rd} : regs'[r] = regs[r]
  /\ mem' \in [MemByte -> Byte]
  /\ \E addr \in Word : \A i \in MemByte : LaneOf(addr, i) >= Size(WORD) => mem'[i] = mem[i]

RestartSpec == Init /\ [][Next \/ Restart]_isaVars
=============================================================================
