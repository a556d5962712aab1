----------------------------- MODULE SaeProofs -----------------------------
(***************************************************************************)
(* The safety of the whole system, for every program, memory, register     *)
(* file and size of a byte, that it executes Isa, and that it does so      *)
(* again after every reset.                                                *)
(*                                                                         *)
(* The two machines of the MMU and the peripheral do not know what state   *)
(* the hart is in, nor the hart theirs: each waits for wires that say that *)
(* the other is done, and two states of the hart do not even look at       *)
(* ready.  The invariant IInv ties them together.  HInv adds what the      *)
(* refinement needs: that the fields kept of an instruction are the ones   *)
(* it has, that its word is the one in memory, and that an answer on its   *)
(* way is the one the load or the fetch is owed.                           *)
(***************************************************************************)
EXTENDS TopHistory, MMUProofs

\* The states in which the operands of an instruction are used, and those that hold
\* an access's address on the bus.
Operating == {"op.load", "alu", "op.store", "op.branch", "op.jalr"}
Accessing == {"l.wait", "s.wait"}

\* A write of a register is over by the time the next instruction may read it, so
\* the read ports show the registers, and an access's address stands still.
OperandsInv ==
  /\ xwr_en => h_state \in {"fetch.init", "faulted"}
  /\ h_state \in Operating \cup Accessing =>
       xrd1_val = xmem[xrd1_reg] /\ xrd2_val = xmem[xrd2_reg]

\* MMURead works only while the hart waits for its answer: a valid of an earlier
\* answer is gone by then.
ReadInv ==
  /\ mr_valid => mr_state = "init"
  /\ h_state \notin {"fetch.wait", "l.wait"} => mr_state = "init"
  /\ h_state = "l.wait" /\ ~ToSysmem(Address) => mr_state = "init"
  /\ uc_state # "init" => h_state = "l.wait"

\* MMUWrite works only while the hart waits for ready, which is its state "init" (but
\* for the first cycle after reset).
WriteInv ==
  /\ h_state # "fetch.init" => (mw_ready <=> mw_state = "init")
  /\ h_state \notin {"s.wait", "faulted"} => mw_state = "init" /\ wport_en = {}
  /\ h_state = "s.wait" /\ ~ToSysmem(Address) => mw_state = "init" /\ wport_en = {}

IInv ==
  /\ TypeOK
  /\ PcAligned
  /\ OperandsInv
  /\ ReadInv
  /\ WriteInv
-----------------------------------------------------------------------------
(* One edge of the clock in the hart, whatever is on its buses: types. *)

LEMMA RV32Constants ==
  /\ 0 \in Reg /\ 1 \in Reg /\ 0 \in Word /\ 1 \in Word
  /\ \A w \in Word :
       LET d == Decode(w) IN
         /\ d.rd \in Reg /\ d.rs1 \in Reg /\ d.rs2 \in Reg /\ d.imm \in Word
         /\ d.funct3 \in 0 .. 7 /\ d.funct7 \in 0 .. 127
         /\ d.opcode \in Opcode
<1>1. 0 \in Reg /\ 1 \in Reg /\ 0 \in Word /\ 1 \in Word
  BY Sizes, RegAssumption DEF Reg, Word
<1>2. \A w \in Word : Decode(w) \in Insn
  BY DecodeAssumption
<1> QED BY <1>1, <1>2 DEF Insn

LEMMA PlusType == \A a, b \in Int : Plus(a, b) \in Word
BY Sizes DEF Plus, Word

LEMMA OperandBType ==
  ASSUME NEW f3 \in 0 .. 7, NEW f7 \in 0 .. 127, NEW rs2 \in Word, NEW immediate \in Word
  PROVE  OperandB(f3, f7, rs2, immediate) \in Word
<1>1. rs2 \in Int
  BY DEF Word
<1>2. (-rs2) % WordSize \in Word
  BY <1>1, Sizes DEF Word
<1>3. (rs2 % XLen) + SraBit \in Word
  BY <1>1, ShiftAssumption, Sizes DEF Word
<1> QED BY <1>2, <1>3 DEF OperandB

LEMMA AluOutType ==
  ASSUME NEW f3 \in 0 .. 7, NEW a \in Word, NEW b \in Word
  PROVE  AluOut(f3, a, b) \in Word
<1>1. a \in Int /\ b \in Int /\ b % XLen \in 0 .. XLen - 1
  BY ShiftAssumption DEF Word
<1>2. Plus(a, b) \in Word
  BY <1>1, PlusType
<1>3. Flag(Signed(a) < Signed(b)) \in Word /\ Flag(a < b) \in Word
  BY RV32Constants DEF Flag
<1>4. BitAnd(a, b) \in Word /\ BitOr(a, b) \in Word /\ BitXor(a, b) \in Word
  BY LogicAssumption
<1>5. Shl(a, b % XLen) \in Word /\ Shr(a, b % XLen) \in Word
  BY <1>1, ShiftAssumption
<1>6. Sar(a, b % XLen) \in Word
  <2>1. WordSize - 1 - a \in Word
    BY Sizes DEF Word
  <2>2. Shr(WordSize - 1 - a, b % XLen) \in Word
    BY <1>1, <2>1, ShiftAssumption
  <2>3. WordSize - 1 - Shr(WordSize - 1 - a, b % XLen) \in Word
    BY <2>2, Sizes DEF Word
  <2> QED BY <1>5, <2>3 DEF Sar
<1> QED BY <1>2, <1>3, <1>4, <1>5, <1>6 DEF AluOut

LEMMA LoadValueType ==
  ASSUME NEW f3 \in 0 .. 7, NEW p \in Lanes
  PROVE  LoadValue(f3, p) \in Word
<1>1. p[0] \in Byte /\ p[1] \in Byte
  BY DEF Lanes, Lane
<1>2. p[0] + ByteSize * p[1] \in 0 .. HalfSize - 1
  BY <1>1, Sizes, TwoDigits DEF HalfSize, Byte
<1>3. HalfSize <= WordSize /\ ByteSize <= WordSize
  <2>1. HalfSize * 1 <= HalfSize * HalfSize /\ ByteSize * 1 <= ByteSize * ByteSize
    BY Sizes
  <2> QED BY <2>1, Sizes DEF WordSize, HalfSize
<1>4. p[0] \in Word /\ p[0] + ByteSize * p[1] \in Word
  BY <1>1, <1>2, <1>3, Sizes DEF Byte, Word
<1>5. SignExtend(HalfSize, p[0] + ByteSize * p[1]) \in Word /\ SignExtend(ByteSize, p[0]) \in Word
  BY <1>1, <1>2, Sizes, SignExtendType DEF Byte
<1> QED BY <1>4, <1>5, NumOfType, RV32Constants DEF LoadValue
-----------------------------------------------------------------------------
(* What the hart drives, and what it does with what it sees. *)

BusReadIn == [ready : BOOLEAN, valid : BOOLEAN, lanes : Lanes]

BusWriteIn == [ready : BOOLEAN]

LEMMA AddressType == HartTypeOK => Address \in Word
BY PlusType DEF HartTypeOK, Address, Word

LEMMA HartWiresType ==
  ASSUME HartTypeOK
  PROVE  /\ HartRead \in [valid : BOOLEAN, addr : Word, width : AccessWidth]
         /\ HartWrite \in [valid : BOOLEAN, addr : Word, width : AccessWidth, data : Lanes]
<1>1. Address \in Word /\ pc \in Word /\ 0 \in Word
  BY AddressType, RV32Constants DEF HartTypeOK
<1>2. funct3 % 4 \in AccessWidth /\ StoreWidth(funct3) \in AccessWidth
      /\ BYTE \in AccessWidth /\ WORD \in AccessWidth
  BY DEF HartTypeOK, AccessWidth, StoreWidth, StoreFunct, BYTE, WORD
<1>3. BytesOf(xrd2_val) \in Lanes
  BY BytesOfType DEF HartTypeOK
<1>4. ZeroLanes \in Lanes
  BY Sizes DEF ZeroLanes, Lanes, Byte
<1>5. HartRead \in [valid : BOOLEAN, addr : Word, width : AccessWidth]
  BY <1>1, <1>2 DEF HartRead, NoRead
<1>6. HartWrite \in [valid : BOOLEAN, addr : Word, width : AccessWidth, data : Lanes]
  BY <1>1, <1>2, <1>3, <1>4 DEF HartWrite, NoWrite
<1> QED BY <1>5, <1>6

\* The parts of HartTypeOK that the pieces of a step deal with.
PartsOK ==
  /\ h_state \in HartState
  /\ pc \in Word
  /\ insn \in Word
  /\ imm \in Word /\ funct3 \in 0 .. 7 /\ funct7 \in 0 .. 127
  /\ xwr_en \in BOOLEAN /\ xwr_reg \in Reg /\ xwr_val \in Word
  /\ xrd1_reg \in Reg /\ xrd2_reg \in Reg
  /\ fault_code \in FaultCode /\ fault_insn \in Word

LEMMA Pieces ==
  ASSUME PartsOK
  PROVE  /\ Decoded => /\ insn' \in Word
                       /\ imm' \in Word /\ funct3' \in 0 .. 7 /\ funct7' \in 0 .. 127
                       /\ xrd1_reg' \in Reg /\ xrd2_reg' \in Reg
         /\ NoRegWrite => xwr_en' \in BOOLEAN /\ xwr_reg' \in Reg /\ xwr_val' \in Word
         /\ \A rd \in Reg, v \in Word :
              WriteReg(rd, v) => xwr_en' \in BOOLEAN /\ xwr_reg' \in Reg /\ xwr_val' \in Word
         /\ NoFault => fault_code' \in FaultCode /\ fault_insn' \in Word
         /\ \A w \in Word : FaultIllegal(w) => fault_code' \in FaultCode /\ fault_insn' \in Word
         /\ FaultMisaligned => fault_code' \in FaultCode /\ fault_insn' \in Word
         /\ NextPc => pc' \in Word
         /\ \A s \in HartState : Goto(s) => h_state' \in HartState
<1> USE DEF PartsOK
<1>1. NextPc => pc' \in Word
  BY PlusType DEF NextPc, Word
<1> QED
  BY <1>1 DEF Decoded, fieldVars, readRegs, NoRegWrite, WriteReg, NoFault, faultVars,
              FaultIllegal, FaultMisaligned, FaultCode, Goto

LEMMA FetchType ==
  ASSUME PartsOK, NEW r \in BusReadIn, Fetch(r)
  PROVE  PartsOK'
<1>1. r.lanes \in Lanes
  BY DEF BusReadIn
<1>2. NumOf(r.lanes) \in Word
  BY <1>1, NumOfType
<1>3. /\ "fetch.init" \in HartState /\ "fetch.wait" \in HartState
      /\ "fetch.resolve" \in HartState /\ "faulted" \in HartState
  BY DEF HartState
<1>4. CASE FetchInit(r)
  BY <1>3, <1>4, Pieces DEF FetchInit, PartsOK
<1>5. CASE FetchWait(r)
  BY <1>5, Pieces DEF FetchWait, PartsOK
<1>6. CASE FetchLegal(r)
  BY <1>2, <1>3, <1>6, Pieces DEF FetchLegal, PartsOK, fieldVars, readRegs
<1>7. CASE FetchIllegal(r)
  BY <1>2, <1>3, <1>7, Pieces DEF FetchIllegal, PartsOK, fieldVars, readRegs
<1> QED BY <1>4, <1>5, <1>6, <1>7 DEF Fetch

LEMMA ResolveType ==
  ASSUME PartsOK, Resolve
  PROVE  PartsOK'
<1> DEFINE i == Decode(insn)
<1>1. /\ i.rd \in Reg /\ i.rs1 \in Reg /\ i.rs2 \in Reg /\ i.imm \in Word
      /\ i.funct3 \in 0 .. 7 /\ i.funct7 \in 0 .. 127 /\ pc \in Word /\ 1 \in Reg
  BY RV32Constants DEF PartsOK
<1>2. Plus(pc, i.imm) \in Word /\ Plus(pc, 4) \in Word
  <2>1. pc \in Int /\ i.imm \in Int
    BY <1>1 DEF Word
  <2> QED BY <2>1, PlusType
<1>3. /\ "fetch.init" \in HartState /\ "op.load.wait" \in HartState
      /\ "alu.wait" \in HartState /\ "op.store.wait" \in HartState
      /\ "op.branch.wait" \in HartState /\ "op.jalr.wait" \in HartState
      /\ "faulted" \in HartState
  BY DEF HartState
<1>4. ASSUME NEW state \in HartState, NEW f7 \in 0 .. 127, Dispatch(state, f7)
      PROVE  /\ imm' \in Word /\ funct3' \in 0 .. 7 /\ funct7' \in 0 .. 127
             /\ h_state' \in HartState /\ insn' \in Word
             /\ fault_code' \in FaultCode /\ fault_insn' \in Word
  BY <1>1, <1>4, Pieces DEF Dispatch, PartsOK, Goto
<1>5. KeepsRd(i) => xwr_en' \in BOOLEAN /\ xwr_reg' \in Reg /\ xwr_val' \in Word
  BY <1>1 DEF KeepsRd, PartsOK
<1>6. Retire => /\ h_state' \in HartState
                /\ insn' \in Word /\ imm' \in Word /\ funct3' \in 0 .. 7
                /\ funct7' \in 0 .. 127 /\ xrd1_reg' \in Reg /\ xrd2_reg' \in Reg
                /\ fault_code' \in FaultCode /\ fault_insn' \in Word
  BY <1>3, Pieces DEF Retire
<1>7. 1 \in 0 .. 127 /\ funct7 \in 0 .. 127 /\ insn \in Word /\ xrd2_reg \in Reg
  BY DEF PartsOK
<1>8. \A m \in Int : SystemMark(m) \in Word
  BY Sizes DEF SystemMark, Word
<1>9. i.imm \in Int
  BY <1>1 DEF Word
<1>10. CASE ResolveLoad
  BY <1>1, <1>3, <1>4, <1>5, <1>7, <1>10, Pieces DEF ResolveLoad, PartsOK
<1>11. CASE ResolveFence
  BY <1>6, <1>11, Pieces DEF ResolveFence, PartsOK
<1>12. CASE ResolveOpImm
  BY <1>1, <1>3, <1>4, <1>5, <1>7, <1>12, Pieces DEF ResolveOpImm, PartsOK
<1>13. CASE ResolveOp
  BY <1>1, <1>3, <1>5, <1>13, Pieces DEF ResolveOp, PartsOK, Goto
<1>14. CASE ResolveLui
  BY <1>1, <1>6, <1>14, Pieces DEF ResolveLui, PartsOK
<1>15. CASE ResolveAuipc
  BY <1>1, <1>2, <1>6, <1>15, Pieces DEF ResolveAuipc, PartsOK
<1>16. CASE ResolveStore
  BY <1>1, <1>3, <1>4, <1>7, <1>16, Pieces DEF ResolveStore, PartsOK
<1>17. CASE ResolveBranch
  BY <1>1, <1>3, <1>4, <1>7, <1>17, Pieces DEF ResolveBranch, PartsOK
<1>18. CASE ResolveJalr
  BY <1>1, <1>3, <1>5, <1>18, Pieces DEF ResolveJalr, PartsOK, Goto
<1>19. CASE ResolveJal
  BY <1>1, <1>2, <1>6, <1>19, Pieces DEF ResolveJal, PartsOK
<1>20. CASE ResolveJalMisaligned
  BY <1>3, <1>20, Pieces DEF ResolveJalMisaligned, PartsOK
<1>21. CASE ResolveSystem
  BY <1>1, <1>6, <1>8, <1>9, <1>21, Pieces DEF ResolveSystem, PartsOK
<1>22. CASE ResolveIllegal
  BY <1>3, <1>7, <1>22, Pieces DEF ResolveIllegal, PartsOK
<1> QED
  BY <1>10, <1>11, <1>12, <1>13, <1>14, <1>15, <1>16, <1>17, <1>18, <1>19, <1>20, <1>21,
     <1>22 DEF Resolve

LEMMA ExecuteType ==
  ASSUME HartTypeOK, PartsOK, NEW r \in BusReadIn, NEW w \in BusWriteIn, Execute(r, w)
  PROVE  PartsOK'
<1>1. /\ "fetch.init" \in HartState /\ "l.wait" \in HartState /\ "s.wait" \in HartState
      /\ "op.store" \in HartState /\ "faulted" \in HartState
      /\ \A s \in DOMAIN AfterWait : AfterWait[s] \in HartState
  BY DEF HartState, AfterWait
<1>2. pc \in Word /\ insn \in Word /\ xwr_reg \in Reg /\ funct3 \in 0 .. 7
  BY DEF PartsOK
<1>3. ASSUME NEW v \in Word, WriteValue(v)
      PROVE  xwr_en' \in BOOLEAN /\ xwr_reg' \in Reg /\ xwr_val' \in Word
  BY <1>2, <1>3, Pieces DEF WriteValue
<1>4. Retire => /\ h_state' \in HartState
                /\ insn' \in Word /\ imm' \in Word /\ funct3' \in 0 .. 7
                /\ funct7' \in 0 .. 127 /\ xrd1_reg' \in Reg /\ xrd2_reg' \in Reg
                /\ fault_code' \in FaultCode /\ fault_insn' \in Word
  BY <1>1, Pieces DEF Retire
<1>5. Plus(pc, imm) \in Word /\ JalrTarget \in Word
  <2>1. pc \in Int /\ imm \in Int /\ xrd1_val \in Int
    BY DEF HartTypeOK, Word
  <2>2. Plus(pc, imm) \in Word /\ Plus(xrd1_val, imm) \in Word
    BY <2>1, PlusType
  <2>3. \A sum \in Word : sum - (sum % 2) \in Word
    BY Sizes DEF Word
  <2> QED BY <2>2, <2>3 DEF JalrTarget
<1>6. CASE WaitForRegs
  BY <1>1, <1>6, Pieces DEF WaitForRegs, PartsOK
<1>7. CASE OpLoad
  BY <1>1, <1>7, Pieces DEF OpLoad, PartsOK
<1>8. CASE LoadWait(r)
  BY <1>8, Pieces DEF LoadWait, PartsOK
<1>9. CASE LoadDone(r)
  <2>1. LoadValue(funct3, r.lanes) \in Word
    BY <1>2, LoadValueType DEF BusReadIn
  <2> QED BY <1>1, <1>2, <1>3, <1>9, <2>1, Pieces DEF LoadDone, PartsOK
<1>10. CASE Alu
  <2>1. AluOut(funct3, xrd1_val, OperandB(funct3, funct7, xrd2_val, imm)) \in Word
    BY AluOutType, OperandBType DEF HartTypeOK
  <2> QED BY <1>2, <1>3, <1>4, <1>10, <2>1, Pieces DEF Alu, PartsOK
<1>11. CASE OpStore(w)
  BY <1>1, <1>2, <1>11, Pieces DEF OpStore, PartsOK
<1>12. CASE StoreWait(w)
  BY <1>1, <1>12, Pieces DEF StoreWait, PartsOK
<1>13. CASE BranchNotTaken
  BY <1>4, <1>13, Pieces DEF BranchNotTaken, PartsOK
<1>14. CASE BranchTaken
  BY <1>4, <1>5, <1>14, Pieces DEF BranchTaken, PartsOK
<1>15. CASE BranchMisaligned
  BY <1>1, <1>15, Pieces DEF BranchMisaligned, PartsOK
<1>16. CASE BranchIllegal
  BY <1>1, <1>2, <1>16, Pieces DEF BranchIllegal, PartsOK
<1>17. CASE OpJalr
  BY <1>2, <1>3, <1>4, <1>5, <1>17, Pieces DEF OpJalr, PartsOK
<1>18. CASE OpJalrMisaligned
  BY <1>1, <1>18, Pieces DEF OpJalrMisaligned, PartsOK
<1> QED
  BY <1>6, <1>7, <1>8, <1>9, <1>10, <1>11, <1>12, <1>13, <1>14, <1>15, <1>16, <1>17, <1>18
  DEF Execute

LEMMA HartInitType == HartInit => HartTypeOK
<1> SUFFICES ASSUME HartInit PROVE HartTypeOK
  OBVIOUS
<1>1. xmem \in [Reg -> Word]
  BY FirstRegsAssumption DEF HartInit
<1>2. h_state \in HartState /\ fault_code \in FaultCode
  BY DEF HartInit, HartState, FaultCode
<1>3. /\ pc \in Word /\ insn \in Word /\ imm \in Word /\ fault_insn \in Word
      /\ xrd1_val \in Word /\ xrd2_val \in Word /\ xwr_val \in Word
      /\ xwr_reg \in Reg /\ xrd1_reg \in Reg /\ xrd2_reg \in Reg
  BY RV32Constants DEF HartInit
<1>4. xwr_en \in BOOLEAN
  BY DEF HartInit
<1>5. funct3 \in 0 .. 7 /\ funct7 \in 0 .. 127
  BY DEF HartInit
<1> QED BY <1>1, <1>2, <1>3, <1>4, <1>5 DEF HartTypeOK

\* The types of the hart survive an edge of the clock, whatever the buses answer.
LEMMA HartTickType ==
  ASSUME HartTypeOK, NEW r \in BusReadIn, NEW w \in BusWriteIn, HartTick(r, w)
  PROVE  HartTypeOK'
<1>1. PartsOK
  BY DEF HartTypeOK, PartsOK
<1>2. xmem' \in [Reg -> Word] /\ xrd1_val' \in Word /\ xrd2_val' \in Word
  BY DEF HartTick, RegisterFile, HartTypeOK
<1>3. PartsOK'
  <2>1. CASE Faulted
    <3>1. h_state' \in HartState /\ pc' \in Word
      BY <1>1, <2>1 DEF Faulted, PartsOK
    <3> QED BY <1>1, <2>1, <3>1, Pieces DEF Faulted, PartsOK
  <2>2. CASE Fetch(r)
    BY <1>1, <2>2, FetchType
  <2>3. CASE Resolve
    BY <1>1, <2>3, ResolveType
  <2>4. CASE Execute(r, w)
    BY <1>1, <2>4, ExecuteType
  <2> QED BY <2>1, <2>2, <2>3, <2>4 DEF HartTick
<1> QED BY <1>2, <1>3 DEF HartTypeOK, PartsOK
-----------------------------------------------------------------------------
(* How the hart moves.  The actions are sorted by the state they leave:    *)
(* a lemma for each fact the invariant needs about all of them.            *)

LEMMA WaitNext == h_state \in DOMAIN AfterWait => AfterWait[h_state] \in Operating
BY DEF AfterWait, Operating

Waits == {"op.load.wait", "alu.wait", "op.store.wait", "op.branch.wait", "op.jalr.wait"}

LEMMA WaitDomain == DOMAIN AfterWait = Waits
BY DEF AfterWait, Waits

\* Fetch and resolve, in which nothing is on the write bus and no operand is read.
LEMMA FetchMoves ==
  ASSUME NEW r, Fetch(r)
  PROVE  /\ h_state \in {"fetch.init", "fetch.wait"}
         /\ h_state' \in {"fetch.init", "fetch.wait", "fetch.resolve", "faulted"}
         /\ h_state = "fetch.init" /\ r.ready => h_state' = "fetch.wait"
         /\ h_state = "fetch.wait" /\ ~r.valid => h_state' = "fetch.wait"
         /\ h_state = "fetch.wait" => h_state' # "fetch.init"
         /\ ~xwr_en'
BY DEF Fetch, FetchInit, FetchWait, FetchLegal, FetchIllegal, Goto, NoRegWrite

LEMMA ResolveMoves ==
  ASSUME Resolve
  PROVE  /\ h_state = "fetch.resolve"
         /\ h_state' \in Waits \cup {"fetch.init", "faulted"}
         /\ xwr_en' => h_state' \in {"fetch.init", "faulted"}
<1> USE DEF Resolving, Waits, Goto
<1>1. ASSUME NEW s, NEW f, Dispatch(s, f) PROVE h_state' = s
  BY <1>1 DEF Dispatch
<1>2. Retire => h_state' = "fetch.init"
  BY DEF Retire
<1>3. NoRegWrite => ~xwr_en'
  BY DEF NoRegWrite
<1>4. KeepsRd(Decode(insn)) => ~xwr_en'
  BY DEF KeepsRd
<1>5. CASE ResolveLoad \/ ResolveOpImm \/ ResolveOp \/ ResolveJalr
  BY <1>1, <1>4, <1>5 DEF ResolveLoad, ResolveOpImm, ResolveOp, ResolveJalr
<1>6. CASE ResolveStore \/ ResolveBranch
  BY <1>1, <1>3, <1>6 DEF ResolveStore, ResolveBranch
<1>7. CASE ResolveFence \/ ResolveLui \/ ResolveAuipc \/ ResolveJal \/ ResolveSystem
  BY <1>2, <1>7 DEF ResolveFence, ResolveLui, ResolveAuipc, ResolveJal, ResolveSystem
<1>8. CASE ResolveJalMisaligned \/ ResolveIllegal
  BY <1>3, <1>8 DEF ResolveJalMisaligned, ResolveIllegal
<1> QED BY <1>5, <1>6, <1>7, <1>8 DEF Resolve

LEMMA ExecuteMoves ==
  ASSUME NEW r, NEW w, Execute(r, w)
  PROVE  /\ h_state \in Waits \cup Operating \cup Accessing
         /\ h_state \in Waits => h_state' \in Operating
         /\ h_state = "op.load" => h_state' = "l.wait"
         /\ h_state = "l.wait" /\ ~r.valid => h_state' = "l.wait"
         /\ h_state = "op.store" => h_state' \in {"op.store", "s.wait", "faulted"}
         /\ h_state = "op.store" /\ h_state' = "op.store" => ~w.ready
         /\ h_state = "s.wait" =>
              h_state' = IF w.ready THEN "fetch.init" ELSE "s.wait"
         /\ h_state' \in Operating => h_state \in Waits \/ h_state = "op.store"
         /\ h_state' = "l.wait" => h_state \in {"op.load", "l.wait"}
         /\ h_state' = "s.wait" => h_state \in {"op.store", "s.wait"}
         /\ h_state \in Operating =>
              h_state' \in {"l.wait", "s.wait", "op.store", "fetch.init", "faulted"}
         /\ h_state \in Accessing => h_state' \in {h_state, "fetch.init", "faulted"}
         /\ xwr_en' => h_state' \in {"fetch.init", "faulted"}
         /\ h_state' \notin {"fetch.init", "faulted"} =>
              UNCHANGED <<pc, insn, fieldVars, readRegs, xwr_reg>>
<1> USE DEF Waits, Operating, Accessing, Goto, NoRegWrite, Retire,
            Decoded, fieldVars, readRegs
<1>1. CASE WaitForRegs
  BY <1>1, WaitNext, WaitDomain DEF WaitForRegs
<1>2. CASE OpLoad \/ LoadWait(r)
  BY <1>2 DEF OpLoad, LoadWait
<1>3. CASE LoadDone(r) \/ Alu
  BY <1>3 DEF LoadDone, Alu
<1>4. CASE OpStore(w)
  BY <1>4 DEF OpStore
<1>5. CASE StoreWait(w)
  BY <1>5 DEF StoreWait
<1>6. CASE BranchNotTaken \/ BranchTaken \/ BranchMisaligned \/ BranchIllegal
  BY <1>6 DEF BranchNotTaken, BranchTaken, BranchMisaligned, BranchIllegal
<1>7. CASE OpJalr \/ OpJalrMisaligned
  BY <1>7 DEF OpJalr, OpJalrMisaligned
<1> QED BY <1>1, <1>2, <1>3, <1>4, <1>5, <1>6, <1>7 DEF Execute
-----------------------------------------------------------------------------
(* Types. *)

LEMMA WiresType ==
  ASSUME TypeOK
  PROVE  /\ HartRead \in ReadReq /\ HartWrite \in WriteReq
         /\ ReadWires \in BusReadIn /\ WriteWires \in BusWriteIn
<1>1. HartRead \in ReadReq /\ HartWrite \in WriteReq
  BY HartWiresType DEF TypeOK, ReadReq, WriteReq
<1>2. ReadReady(HartRead) \in BOOLEAN /\ WriteReady(HartWrite) \in BOOLEAN
  BY DEF ReadReady, WriteReady
<1>3. ReadRespValid(HartRead) \in BOOLEAN
  BY DEF ReadRespValid
<1>4. ReadRespPayload(HartRead) \in Lanes
  BY Constants, LaneTypes
  DEF ReadRespPayload, TypeOK, MMUTypeOK, MMUReadTypeOK, UARTConnTypeOK
<1> QED BY <1>1, <1>2, <1>3, <1>4 DEF ReadWires, WriteWires, BusReadIn, BusWriteIn

LEMMA TypeInit == Init => TypeOK
BY HartInitType, MMUInitType, StreamsInitType, ImageAssumption DEF Init, TypeOK

LEMMA TypeStep ==
  ASSUME TypeOK, Next
  PROVE  TypeOK'
<1>1. HartTypeOK'
  BY WiresType, HartTickType DEF TypeOK, Next
<1>2. MMUTypeOK'
  BY WiresType, MMUTickType DEF TypeOK, Next
<1>3. StreamsTypeOK'
  BY StreamsTickType DEF TypeOK, MMUTypeOK, UARTConnTypeOK, Next
<1> QED BY <1>1, <1>2, <1>3 DEF TypeOK
-----------------------------------------------------------------------------
(* The operands. *)

LEMMA OperandsStep ==
  ASSUME OperandsInv, NEW r, NEW w, HartTick(r, w)
  PROVE  OperandsInv'
<1> USE DEF OperandsInv
<1>1. RegisterFile
  BY DEF HartTick
<1>2. CASE Fetch(r)
  BY <1>2, FetchMoves DEF Operating, Accessing
<1>3. CASE Resolve
  BY <1>3, ResolveMoves DEF Waits, Operating, Accessing
<1>4. CASE Execute(r, w)
  <2>1. xwr_en' => h_state' \in {"fetch.init", "faulted"}
    BY <1>4, ExecuteMoves
  <2>2. ~xwr_en
    BY <1>4, ExecuteMoves DEF Waits, Operating, Accessing
  <2>3. xmem' = xmem /\ xrd1_val' = xmem[xrd1_reg] /\ xrd2_val' = xmem[xrd2_reg]
    BY <1>1, <2>2 DEF RegisterFile
  <2>4. h_state' \in Operating \cup Accessing => UNCHANGED readRegs
    BY <1>4, ExecuteMoves DEF Operating, Accessing
  <2> QED BY <2>1, <2>3, <2>4 DEF readRegs
<1>5. CASE Faulted
  BY <1>5 DEF Faulted, NoRegWrite, Operating, Accessing
<1> QED BY <1>2, <1>3, <1>4, <1>5 DEF HartTick

\* The address of an access stands still on the bus.
LEMMA AddressHolds ==
  ASSUME OperandsInv, NEW r, NEW w, HartTick(r, w),
         h_state \in Operating \cup Accessing, h_state' \in Operating \cup Accessing
  PROVE  Address' = Address
<1>1. Execute(r, w)
  <2>1. ~Fetch(r) /\ ~Resolve /\ ~Faulted
    BY FetchMoves, ResolveMoves DEF Operating, Accessing, Faulted
  <2> QED BY <2>1 DEF HartTick
<1>2. UNCHANGED <<imm, xrd1_reg, xrd2_reg>>
  BY <1>1, ExecuteMoves DEF Operating, Accessing, fieldVars, readRegs
<1>3. xrd1_val' = xrd1_val
  BY DEF OperandsInv, HartTick, RegisterFile
<1> QED BY <1>2, <1>3 DEF Address
-----------------------------------------------------------------------------
(* The pc. *)

LEMMA NextPcAligned ==
  ASSUME pc \in Word, PcAligned, NextPc
  PROVE  PcAligned'
<1>1. pc + 4 \in Nat /\ (pc + 4) % 4 = 0
  BY Sizes DEF Word, PcAligned, Aligned
<1> QED BY <1>1, WrapKeepsAlignment DEF NextPc, Plus, PcAligned, Aligned

LEMMA PcAlignedStep ==
  ASSUME pc \in Word, PcAligned, NEW r, NEW w, HartTick(r, w)
  PROVE  PcAligned'
<1>1. UNCHANGED pc => PcAligned'
  BY DEF PcAligned
<1>2. NextPc => PcAligned'
  BY NextPcAligned
<1>3. ASSUME NEW target, Aligned(target), pc' = target PROVE PcAligned'
  BY <1>3 DEF PcAligned
<1>4. CASE Fetch(r) \/ Faulted
  BY <1>1, <1>4 DEF Fetch, FetchInit, FetchWait, FetchLegal, FetchIllegal, Faulted
<1>5. CASE Resolve
  BY <1>1, <1>2, <1>3, <1>5
  DEF Resolve, ResolveLoad, ResolveFence, ResolveOpImm, ResolveOp, ResolveLui, ResolveAuipc,
      ResolveStore, ResolveBranch, ResolveJalr, ResolveJal, ResolveJalMisaligned,
      ResolveSystem, ResolveIllegal
<1>6. CASE Execute(r, w)
  BY <1>1, <1>2, <1>3, <1>6
  DEF Execute, WaitForRegs, OpLoad, LoadWait, LoadDone, Alu, OpStore, StoreWait,
      BranchNotTaken, BranchTaken, BranchMisaligned, BranchIllegal, OpJalr, OpJalrMisaligned
<1> QED BY <1>4, <1>5, <1>6 DEF HartTick

\* An aligned pc is no address of the UART.
LEMMA PcNotUart ==
  ASSUME pc \in Word, PcAligned
  PROVE  ~ToUart(pc)
<1> SUFFICES ASSUME pc % HalfSize = Cid PROVE FALSE
  BY DEF ToUart
<1>1. PICK k \in Nat : HalfSize = 4 * k /\ k > 0
  <2>1. HalfSize = 4 * (HalfSize \div 4) /\ HalfSize \div 4 \in Nat /\ HalfSize \div 4 > 0
    BY Sizes
  <2> QED BY <2>1
<1>2. PICK j \in Nat : pc = 4 * j
  <2>1. pc = 4 * (pc \div 4) /\ pc \div 4 \in Nat
    BY DEF Word, PcAligned, Aligned
  <2> QED BY <2>1
<1>3. pc = HalfSize * (pc \div HalfSize) + Cid /\ pc \div HalfSize \in Int /\ Cid \in Int
  BY Sizes, AddressAssumption DEF Word
<1>4. \A q \in Int : HalfSize * q = 4 * (k * q) /\ k * q \in Int
  BY <1>1
<1>5. \A q, x \in Int : (4 * q) + x = 4 * j => x % 4 = 0
  BY <1>2
<1> QED BY <1>2, <1>3, <1>4, <1>5, CidAssumption
-----------------------------------------------------------------------------
(* The two buses. *)

LEMMA HartReadFacts ==
  /\ HartRead.valid => h_state \in {"fetch.init", "op.load"}
  /\ h_state = "fetch.init" => HartRead.addr = pc
  /\ h_state = "fetch.wait" => HartRead.addr = 0
  /\ h_state \in {"op.load", "l.wait"} => HartRead.addr = Address
BY DEF HartRead, NoRead

LEMMA HartWriteFacts ==
  /\ HartWrite.valid => h_state = "op.store"
  /\ h_state \in {"op.store", "s.wait"} => HartWrite.addr = Address
BY DEF HartWrite, NoWrite

LEMMA ZeroToSysmem == ToSysmem(0) /\ \A addr : ToUart(addr) => ~ToSysmem(addr)
BY Sizes DEF ToSysmem, ToUart

LEMMA RouteValid ==
  /\ \A route, req : Routed(route, req, NoRead).valid => route /\ req.valid
  /\ \A route, req : Routed(route, req, NoWrite).valid => route /\ req.valid
BY DEF Routed, NoRead, NoWrite

\* Where the hart can be when it asks or waits, and what it does next.
LEMMA HartWaits ==
  ASSUME NEW r, NEW w, HartTick(r, w)
  PROVE  /\ h_state = "fetch.init" /\ r.ready => h_state' = "fetch.wait"
         /\ h_state = "fetch.wait" /\ ~r.valid => h_state' = "fetch.wait"
         /\ h_state = "op.load" => h_state' = "l.wait"
         /\ h_state = "l.wait" /\ ~r.valid => h_state' = "l.wait"
         /\ h_state' = "l.wait" => h_state \in {"op.load", "l.wait"}
         /\ h_state = "op.store" => h_state' \in {"op.store", "s.wait", "faulted"}
         /\ h_state = "op.store" /\ h_state' = "op.store" => ~w.ready
         /\ h_state = "s.wait" =>
              h_state' = IF w.ready THEN "fetch.init" ELSE "s.wait"
         /\ h_state' = "s.wait" => h_state \in {"op.store", "s.wait"}
         /\ h_state = "faulted" => h_state' = "faulted"
<1>1. CASE Fetch(r)
  BY <1>1, FetchMoves
<1>2. CASE Resolve
  BY <1>2, ResolveMoves DEF Waits
<1>3. CASE Execute(r, w)
  BY <1>3, ExecuteMoves DEF Waits, Operating, Accessing
<1>4. CASE Faulted
  BY <1>4 DEF Faulted
<1> QED BY <1>1, <1>2, <1>3, <1>4 DEF HartTick

LEMMA ReadStep ==
  ASSUME IInv, Next
  PROVE  ReadInv'
<1> DEFINE rreq == Routed(ToSysmem(HartRead.addr), HartRead, NoRead)
<1>1. HartTick(ReadWires, WriteWires) /\ MMUReadTick(rreq)
  BY DEF Next, MMUTick
<1>2. TypeOK /\ PcAligned /\ OperandsInv /\ ReadInv
  BY DEF IInv
<1>3. mr_valid' => mr_state' = "init"
  BY <1>1, <1>2, ReadValid DEF ReadInv
<1>4. rreq.valid => HartRead.valid /\ ToSysmem(HartRead.addr)
  BY RouteValid
<1>5. mr_state = "init" /\ ~rreq.valid => mr_state' = "init"
  BY <1>1, ReadQuiet DEF mmuReadVars
<1> HIDE DEF rreq
<1>6. h_state' \notin {"fetch.wait", "l.wait"} => mr_state' = "init"
  <2> SUFFICES ASSUME h_state' \notin {"fetch.wait", "l.wait"} PROVE mr_state' = "init"
    OBVIOUS
  \* What the hart waited for has come.
  <2>1. mr_state = "init"
    <3>1. CASE h_state = "fetch.wait"
      <4>1. ReadRespValid(HartRead)
        BY <1>1, <3>1, HartWaits DEF ReadWires
      <4>2. mr_valid
        BY <3>1, <4>1, HartReadFacts, ZeroToSysmem DEF ReadRespValid, MMUReadRespValid
      <4> QED BY <1>2, <4>2 DEF ReadInv
    <3>2. CASE h_state = "l.wait"
      <4>1. ReadRespValid(HartRead)
        BY <1>1, <3>2, HartWaits DEF ReadWires
      <4>2. ToSysmem(Address) => mr_valid
        BY <3>2, <4>1, HartReadFacts, ZeroToSysmem DEF ReadRespValid, MMUReadRespValid
      <4> QED BY <1>2, <3>2, <4>2 DEF ReadInv
    <3> QED BY <1>2, <3>1, <3>2 DEF ReadInv
  \* It asks for nothing: a request that meets an idle machine sends it to wait.
  <2>2. ~rreq.valid
    <3> SUFFICES ASSUME rreq.valid PROVE FALSE
      OBVIOUS
    <3>1. HartRead.valid /\ ToSysmem(HartRead.addr)
      BY <1>4
    <3>2. ReadReady(HartRead)
      BY <2>1, <3>1 DEF ReadReady, MMUReadReady
    <3> QED BY <1>1, <3>1, <3>2, HartReadFacts, HartWaits DEF ReadWires
  <2> QED BY <1>5, <2>1, <2>2
<1>7. h_state' = "l.wait" /\ ~ToSysmem(Address') => mr_state' = "init"
  <2> SUFFICES ASSUME h_state' = "l.wait", ~ToSysmem(Address') PROVE mr_state' = "init"
    OBVIOUS
  <2>1. h_state \in {"op.load", "l.wait"}
    BY <1>1, HartWaits
  <2>2. Address' = Address
    BY <1>1, <1>2, <2>1, AddressHolds DEF Operating, Accessing
  <2>3. mr_state = "init" /\ ~ToSysmem(HartRead.addr)
    BY <1>2, <2>1, <2>2, HartReadFacts DEF ReadInv
  <2> QED BY <1>4, <1>5, <2>3
<1>8. uc_state' # "init" => h_state' = "l.wait"
  <2> SUFFICES ASSUME uc_state' # "init" PROVE h_state' = "l.wait"
    OBVIOUS
  <2>1. Routed(ToUart(HartRead.addr), HartRead, NoRead).valid
    BY UARTLeavesInit DEF Next, MMUTick
  <2>2. HartRead.valid /\ ToUart(HartRead.addr)
    BY <2>1, RouteValid
  <2>3. pc \in Word
    BY <1>2 DEF TypeOK, HartTypeOK
  <2>4. h_state = "op.load"
    BY <1>2, <2>2, <2>3, HartReadFacts, PcNotUart
  <2> QED BY <1>1, <2>4, HartWaits
<1> QED BY <1>3, <1>6, <1>7, <1>8 DEF ReadInv

LEMMA WriteStep ==
  ASSUME IInv, Next
  PROVE  WriteInv'
<1> DEFINE wreq == Routed(ToSysmem(HartWrite.addr), HartWrite, NoWrite)
<1>1. HartTick(ReadWires, WriteWires) /\ MMUWriteTick(wreq)
  BY DEF Next, MMUTick
<1>2. OperandsInv /\ WriteInv
  BY DEF IInv
<1>3. mw_ready' <=> mw_state' = "init"
  BY <1>1, WriteReadyTracks
<1>4. wreq.valid => h_state = "op.store" /\ ToSysmem(Address)
  BY RouteValid, HartWriteFacts
<1>5. mw_state = "init" /\ ~wreq.valid => mw_state' = "init" /\ wport_en' = {}
  BY <1>1, WriteQuiet
<1> HIDE DEF wreq
<1>6. h_state' \notin {"s.wait", "faulted"} => mw_state' = "init" /\ wport_en' = {}
  <2> SUFFICES ASSUME h_state' \notin {"s.wait", "faulted"}
               PROVE  mw_state' = "init" /\ wport_en' = {}
    OBVIOUS
  <2>1. CASE h_state = "op.store"
    <3>1. h_state' = "op.store" /\ ~WriteReady(HartWrite)
      BY <1>1, <2>1, HartWaits DEF WriteWires
    <3>2. mw_state = "init" /\ mw_ready
      BY <1>2, <2>1 DEF WriteInv
    <3>3. ~ToSysmem(Address)
      BY <2>1, <3>1, <3>2, HartWriteFacts DEF WriteReady
    <3> QED BY <1>4, <1>5, <3>2, <3>3
  <2>2. CASE h_state = "s.wait"
    <3>1. WriteReady(HartWrite)
      BY <1>1, <2>2, HartWaits DEF WriteWires
    <3>2. mw_state = "init"
      BY <1>2, <2>2, <3>1, HartWriteFacts, ZeroToSysmem DEF WriteReady, WriteInv
    <3> QED BY <1>4, <1>5, <2>2, <3>2
  <2>3. CASE h_state \notin {"op.store", "s.wait"}
    <3>1. h_state # "faulted"
      BY <1>1, HartWaits
    <3>2. mw_state = "init"
      BY <1>2, <2>3, <3>1 DEF WriteInv
    <3> QED BY <1>4, <1>5, <2>3, <3>2
  <2> QED BY <2>1, <2>2, <2>3
<1>7. h_state' = "s.wait" /\ ~ToSysmem(Address') => mw_state' = "init" /\ wport_en' = {}
  <2> SUFFICES ASSUME h_state' = "s.wait", ~ToSysmem(Address')
               PROVE  mw_state' = "init" /\ wport_en' = {}
    OBVIOUS
  <2>1. h_state \in {"op.store", "s.wait"}
    BY <1>1, HartWaits
  <2>2. Address' = Address
    BY <1>1, <1>2, <2>1, AddressHolds DEF Operating, Accessing
  <2>3. mw_state = "init"
    BY <1>2, <2>1, <2>2 DEF WriteInv
  <2> QED BY <1>4, <1>5, <2>2, <2>3
<1> QED BY <1>3, <1>6, <1>7 DEF WriteInv
-----------------------------------------------------------------------------
LEMMA IInvInit == Init => IInv
<1> SUFFICES ASSUME Init PROVE IInv
  OBVIOUS
<1>1. TypeOK
  BY TypeInit
<1>2. h_state = "fetch.init" /\ pc = 0 /\ ~xwr_en
  BY DEF Init, HartInit
<1>3. /\ mr_state = "init" /\ uc_state = "init" /\ mw_state = "init" /\ wport_en = {}
  BY DEF Init, MMUInit, MMUReadInit, MMUWriteInit, UARTConnInit
<1>4. PcAligned
  BY <1>2 DEF PcAligned, Aligned
<1>5. OperandsInv
  BY <1>2 DEF OperandsInv, Operating, Accessing
<1> QED BY <1>1, <1>2, <1>3, <1>4, <1>5 DEF IInv, ReadInv, WriteInv

LEMMA IInvStep == IInv /\ [Next]_vars => IInv'
<1> SUFFICES ASSUME IInv, [Next]_vars PROVE IInv'
  OBVIOUS
<1>1. CASE Next
  <2>1. TypeOK'
    BY <1>1, TypeStep DEF IInv
  <2>2. PcAligned'
    BY <1>1, PcAlignedStep DEF IInv, TypeOK, HartTypeOK, Next
  <2>3. OperandsInv'
    BY <1>1, OperandsStep DEF IInv, Next
  <2> QED BY <1>1, <2>1, <2>2, <2>3, ReadStep, WriteStep DEF IInv
<1>2. CASE UNCHANGED vars
  BY <1>2
  DEF vars, hartVars, fieldVars, writePortVars, readRegs, faultVars, mmuVars, sysmemVars,
      mmuReadVars, mmuWriteVars, uartConnVars, streamVars,
      IInv, TypeOK, HartTypeOK, MMUTypeOK, SysmemTypeOK, MMUReadTypeOK, MMUWriteTypeOK,
      UARTConnTypeOK, StreamsTypeOK, PcAligned, OperandsInv, ReadInv, WriteInv, Address
<1> QED BY <1>1, <1>2

LEMMA Invariance == Spec => []IInv
BY IInvInit, IInvStep, PTL DEF Spec

\* Every variable keeps the values its register has room for, and the queues stay
\* within their depth.
THEOREM TypeCorrect == Spec => []TypeOK
<1>1. IInv => TypeOK
  BY DEF IInv
<1> QED BY <1>1, Invariance, PTL

\* pc is a multiple of four whatever jumps and branches the program makes.
THEOREM PcStaysAligned == Spec => []PcAligned
<1>1. IInv => PcAligned
  BY DEF IInv
<1> QED BY <1>1, Invariance, PTL

\* Instructions use the registers as the instructions before them left them: the
\* cycles that fetch.init and the wait states leave are enough for the ports.
THEOREM OperandsAreFresh == Spec => []OperandsFresh
<1>1. IInv => OperandsFresh
  BY DEF IInv, OperandsInv, OperandsFresh, Operating
<1> QED BY <1>1, Invariance, PTL

\* A store is over when the hart goes on: no fetch or load can meet one half made.
THEOREM WritesAreSettled == Spec => []WriteSettled
<1>1. IInv => WriteSettled
  BY DEF IInv, WriteInv, WriteSettled
<1> QED BY <1>1, Invariance, PTL

\* The hart never asks a machine that is busy, though it does not look at ready when
\* it loads: no request is lost.
THEOREM NoRequestIsLost == Spec => []RequestsMeetIdleBus
<1>1. IInv => RequestsMeetIdleBus
  BY HartReadFacts, HartWriteFacts DEF IInv, ReadInv, WriteInv, RequestsMeetIdleBus
<1> QED BY <1>1, Invariance, PTL
-----------------------------------------------------------------------------
(* The refinement of Isa.  First, what the mapping needs to be known of    *)
(* the states between the edges at which instructions take effect.         *)

\* The states of an instruction that has been fetched, until it takes effect.
Begun == {"fetch.resolve"} \cup Waits \cup Operating

\* What fetch.resolve has kept of the instruction is what it is until it takes effect.
FieldsInv ==
  LET i == Decode(insn) IN
  /\ h_state \in {"op.load.wait", "op.load", "l.wait"} =>
       /\ i.opcode = "LOAD" /\ imm = i.imm /\ funct3 = i.funct3
       /\ xrd1_reg = i.rs1 /\ xwr_reg = i.rd
  /\ h_state \in {"alu.wait", "alu"} =>
       /\ funct3 = i.funct3 /\ xrd1_reg = i.rs1 /\ xwr_reg = i.rd
       /\ \/ i.opcode = "OP_IMM" /\ imm = i.imm /\ funct7 = 1
          \/ i.opcode = "OP" /\ funct7 = i.funct7 /\ xrd2_reg = i.rs2
  /\ h_state \in {"op.store.wait", "op.store"} =>
       /\ i.opcode = "STORE" /\ imm = i.imm /\ funct3 = i.funct3
       /\ xrd1_reg = i.rs1 /\ xrd2_reg = i.rs2
  /\ h_state \in {"op.branch.wait", "op.branch"} =>
       /\ i.opcode = "BRANCH" /\ imm = i.imm /\ funct3 = i.funct3
       /\ xrd1_reg = i.rs1 /\ xrd2_reg = i.rs2
  /\ h_state \in {"op.jalr.wait", "op.jalr"} =>
       i.opcode = "JALR" /\ imm = i.imm /\ xrd1_reg = i.rs1 /\ xwr_reg = i.rd

LEMMA FieldsStep ==
  ASSUME FieldsInv, NEW r, NEW w, HartTick(r, w)
  PROVE  FieldsInv'
<1> USE DEF FieldsInv, Goto
<1>1. CASE Fetch(r)
  BY <1>1, FetchMoves
<1>2. CASE Resolve
  <2> USE DEF Resolving, Dispatch, KeepsRd
  <2>1. CASE ResolveLoad
    BY <2>1 DEF ResolveLoad
  <2>2. CASE ResolveOpImm
    BY <2>2 DEF ResolveOpImm
  <2>3. CASE ResolveOp
    BY <2>3 DEF ResolveOp
  <2>4. CASE ResolveStore
    BY <2>4 DEF ResolveStore
  <2>5. CASE ResolveBranch
    BY <2>5 DEF ResolveBranch
  <2>6. CASE ResolveJalr
    BY <2>6 DEF ResolveJalr
  <2>7. CASE ResolveFence \/ ResolveLui \/ ResolveAuipc \/ ResolveJal \/ ResolveSystem
    BY <2>7
    DEF ResolveFence, ResolveLui, ResolveAuipc, ResolveJal, ResolveSystem, Retire
  <2>8. CASE ResolveJalMisaligned \/ ResolveIllegal
    BY <2>8 DEF ResolveJalMisaligned, ResolveIllegal
  <2> QED BY <1>2, <2>1, <2>2, <2>3, <2>4, <2>5, <2>6, <2>7, <2>8 DEF Resolve
<1>3. CASE Execute(r, w)
  <2> USE DEF Decoded, fieldVars, readRegs
  <2>1. CASE WaitForRegs
    BY <2>1 DEF WaitForRegs, NoRegWrite, AfterWait
  <2>2. CASE OpLoad \/ LoadWait(r)
    BY <2>2 DEF OpLoad, LoadWait, NoRegWrite
  <2>3. CASE LoadDone(r) \/ Alu
    BY <2>3 DEF LoadDone, Alu, Retire
  <2>4. CASE OpStore(w) \/ StoreWait(w)
    BY <2>4 DEF OpStore, StoreWait
  <2>5. CASE BranchNotTaken \/ BranchTaken \/ BranchMisaligned \/ BranchIllegal
    BY <2>5 DEF BranchNotTaken, BranchTaken, BranchMisaligned, BranchIllegal, Retire
  <2>6. CASE OpJalr \/ OpJalrMisaligned
    BY <2>6 DEF OpJalr, OpJalrMisaligned, Retire
  <2> QED BY <1>3, <2>1, <2>2, <2>3, <2>4, <2>5, <2>6 DEF Execute
<1>4. CASE Faulted
  BY <1>4 DEF Faulted
<1> QED BY <1>1, <1>2, <1>3, <1>4 DEF HartTick
-----------------------------------------------------------------------------
\* The word the hart has is the one in memory at the pc of the instruction.
FetchedInv ==
  h_state \in Begun =>
    /\ ToSysmem(AbstractPc) /\ ~IllegalWord(insn)
    /\ insn = NumOf(ReadBytes(sysmem, AbstractPc, WORD))

\* MMURead has of its answer what it is to have, and the UART's connection has its own.
AnswerInv ==
  /\ h_state = "fetch.wait" =>
       ToSysmem(pc) /\ Collected /\ mr_addr = pc /\ mr_width = WORD
  /\ h_state = "l.wait" /\ ToSysmem(Address) =>
       Collected /\ mr_addr = Address /\ mr_width = funct3 % 4
  /\ h_state = "l.wait" /\ ToUart(Address) => uc_valid
  /\ uc_rdready => uc_state = "deassert"

HInv ==
  /\ IInv
  /\ FieldsInv
  /\ FetchedInv
  /\ AnswerInv

LEMMA PcBack ==
  ASSUME NEW p \in Word
  PROVE  /\ (Plus(p, 4) - 4) % WordSize = p
         /\ Plus((p - 4) % WordSize, 4) = p
         /\ (p - 4) % WordSize \in Word
<1>1. p \in Int /\ 0 <= p /\ p < WordSize /\ WordSize >= 16 /\ WordSize \in Int
  BY Sizes DEF Word
<1> DEFINE n == WordSize
<1> HIDE DEF n
<1>2. n = WordSize
  BY DEF n
<1>3. (((p + 4) % n) - 4) % n = p /\ (((p - 4) % n) + 4) % n = p /\ (p - 4) % n \in 0 .. n - 1
  BY <1>1, <1>2, Z3
<1> QED BY <1>2, <1>3 DEF Plus, Word

\* Where the pc of the instruction is.
LEMMA PcFacts ==
  /\ h_state \in {"fetch.init", "fetch.wait", "fetch.resolve", "op.branch.wait", "op.branch",
                  "s.wait", "faulted"} => AbstractPc = pc
  /\ h_state \in {"op.load.wait", "op.load", "alu.wait", "alu", "op.store.wait",
                  "op.store", "op.jalr.wait", "op.jalr"} => AbstractPc = (pc - 4) % WordSize
  /\ h_state = "l.wait" => AbstractPc = IF LoadInFlight THEN pc ELSE (pc - 4) % WordSize
BY DEF AbstractPc, Ahead, LoadInFlight

\* An instruction that is begun stays what it is until it takes effect.
LEMMA BegunStays ==
  ASSUME TypeOK, NEW r, NEW w, HartTick(r, w), h_state' \in Begun
  PROVE  \/ h_state = "fetch.wait" /\ FetchLegal(r)
         \/ h_state \in Begun /\ insn' = insn /\ AbstractPc' = AbstractPc
<1> USE DEF Begun, Waits, Operating
<1>1. CASE Fetch(r)
  BY <1>1 DEF Fetch, FetchInit, FetchWait, FetchLegal, FetchIllegal, Goto
<1>2. CASE Resolve
  <2>1. pc \in Word
    BY DEF TypeOK, HartTypeOK
  <2>2. (Plus(pc, 4) - 4) % WordSize = pc
    BY <2>1, PcBack
  <2>3. h_state = "fetch.resolve" /\ AbstractPc = pc
    BY <1>2, ResolveMoves, PcFacts
  <2>4. CASE ResolveLoad \/ ResolveOpImm \/ ResolveOp \/ ResolveStore \/ ResolveJalr
    <3>1. /\ pc' = Plus(pc, 4) /\ insn' = insn
          /\ h_state' \in {"op.load.wait", "alu.wait", "op.store.wait", "op.jalr.wait"}
      BY <2>4 DEF ResolveLoad, ResolveOpImm, ResolveOp, ResolveStore, ResolveJalr, Dispatch,
                  Goto, NextPc
    <3>2. AbstractPc' = (pc' - 4) % WordSize
      BY <3>1 DEF AbstractPc, Ahead
    <3> QED BY <2>2, <2>3, <3>1, <3>2
  <2>5. CASE ResolveBranch
    <3>1. pc' = pc /\ insn' = insn /\ h_state' = "op.branch.wait"
      BY <2>5 DEF ResolveBranch, Dispatch, Goto
    <3> QED BY <2>3, <3>1 DEF AbstractPc, Ahead
  <2>6. ~(ResolveFence \/ ResolveLui \/ ResolveAuipc \/ ResolveJal \/ ResolveSystem)
    BY DEF ResolveFence, ResolveLui, ResolveAuipc, ResolveJal, ResolveSystem, Retire, Goto
  <2>7. ~(ResolveJalMisaligned \/ ResolveIllegal)
    BY DEF ResolveJalMisaligned, ResolveIllegal, Goto
  <2> QED BY <1>2, <2>4, <2>5, <2>6, <2>7 DEF Resolve
<1>3. CASE Execute(r, w)
  <2>1. UNCHANGED <<pc, insn>> /\ h_state \in Begun /\ h_state # "fetch.resolve"
    BY <1>3, ExecuteMoves DEF Accessing
  <2>2. h_state' = h_state \/ WaitForRegs
    BY <1>3, ExecuteMoves
    DEF Execute, OpLoad, LoadWait, LoadDone, Alu, OpStore, StoreWait, BranchNotTaken,
        BranchTaken, BranchMisaligned, BranchIllegal, OpJalr, OpJalrMisaligned, Retire, Goto,
        Accessing
  <2>3. CASE h_state' = h_state
    BY <2>1, <2>3 DEF AbstractPc, Ahead, LoadInFlight
  <2>4. CASE WaitForRegs
    BY <2>1, <2>4 DEF WaitForRegs, Goto, AfterWait, AbstractPc, Ahead, LoadInFlight
  <2> QED BY <2>2, <2>3, <2>4
<1>4. CASE Faulted
  BY <1>4 DEF Faulted
<1> QED BY <1>1, <1>2, <1>3, <1>4 DEF HartTick
-----------------------------------------------------------------------------
\* What is on the wires of the targets of the two buses.
LEMMA ReadRoutes ==
  LET mreq == Routed(ToSysmem(HartRead.addr), HartRead, NoRead)
      ureq == Routed(ToUart(HartRead.addr), HartRead, NoRead)
  IN /\ mreq.valid <=> \/ h_state = "fetch.init" /\ ToSysmem(pc)
                       \/ h_state = "op.load" /\ ToSysmem(Address)
     /\ h_state = "fetch.init" /\ mreq.valid => mreq.addr = pc /\ mreq.width = WORD
     /\ h_state = "op.load" /\ mreq.valid => mreq.addr = Address /\ mreq.width = funct3 % 4
     /\ ureq.valid <=> \/ h_state = "fetch.init" /\ ToUart(pc)
                       \/ h_state = "op.load" /\ ToUart(Address)
BY DEF HartRead, Routed, NoRead

LEMMA WriteRoutes ==
  LET mreq == Routed(ToSysmem(HartWrite.addr), HartWrite, NoWrite)
      ureq == Routed(ToUart(HartWrite.addr), HartWrite, NoWrite)
  IN /\ mreq.valid <=> h_state = "op.store" /\ ToSysmem(Address)
     /\ mreq.valid => /\ mreq.addr = Address /\ mreq.width = StoreWidth(funct3)
                      /\ mreq.data = BytesOf(xrd2_val)
     /\ ureq.valid <=> h_state = "op.store" /\ ToUart(Address)
     /\ ureq.valid => ureq.data = BytesOf(xrd2_val)
BY DEF HartWrite, Routed, NoWrite

LEMMA RoutesType ==
  ASSUME TypeOK
  PROVE  /\ \A route \in BOOLEAN : Routed(route, HartRead, NoRead) \in ReadReq
         /\ \A route \in BOOLEAN : Routed(route, HartWrite, NoWrite) \in WriteReq
BY WiresType, Constants DEF Routed

\* The wires that the hart waits for.
LEMMA HartSees ==
  ASSUME IInv, AnswerInv
  PROVE  /\ h_state = "fetch.init" => (ReadWires.ready <=> ToSysmem(pc))
         /\ h_state = "fetch.wait" =>
              /\ ReadWires.valid <=> mr_valid
              /\ ReadWires.valid => ReadWires.lanes = ReadBytes(sysmem, pc, WORD)
         /\ h_state = "l.wait" /\ ToSysmem(Address) =>
              /\ ReadWires.valid <=> mr_valid
              /\ ReadWires.valid => ReadWires.lanes = ReadBytes(sysmem, Address, funct3 % 4)
         /\ h_state = "l.wait" /\ ToUart(Address) =>
              ReadWires.valid /\ ReadWires.lanes = ByteAt(0, uc_payload)
         /\ h_state = "l.wait" /\ Nowhere(Address) => ~ReadWires.valid
         /\ h_state = "op.store" => (WriteWires.ready <=> ToSysmem(Address) \/ ToUart(Address))
<1>1. /\ ReadWires.ready = ReadReady(HartRead) /\ ReadWires.valid = ReadRespValid(HartRead)
      /\ ReadWires.lanes = ReadRespPayload(HartRead) /\ WriteWires.ready = WriteReady(HartWrite)
  BY DEF ReadWires, WriteWires
<1>2. /\ h_state = "fetch.init" => mr_state = "init" /\ ~ToUart(pc)
      /\ h_state = "op.store" => mw_ready
  BY PcNotUart DEF IInv, TypeOK, HartTypeOK, ReadInv, WriteInv
<1>3. CASE h_state = "fetch.init"
  BY <1>1, <1>2, <1>3, HartReadFacts DEF ReadReady, MMUReadReady
<1>4. CASE h_state \in {"fetch.wait", "l.wait"}
  <2>1. ~HartRead.valid
    BY <1>4, HartReadFacts
  <2>2. mr_valid /\ Collected => mr_payload = ReadBytes(sysmem, mr_addr, mr_width)
    BY DEF Collected
  <2>3. CASE h_state = "fetch.wait"
    BY <1>1, <2>1, <2>2, <2>3, HartReadFacts, ZeroToSysmem
    DEF AnswerInv, ReadRespValid, MMUReadRespValid, ReadRespPayload
  <2>4. CASE h_state = "l.wait"
    BY <1>1, <2>1, <2>2, <2>4, HartReadFacts, ZeroToSysmem
    DEF AnswerInv, ReadRespValid, MMUReadRespValid, ReadRespPayload, Nowhere
  <2> QED BY <1>4, <2>3, <2>4
<1>5. CASE h_state = "op.store"
  BY <1>1, <1>2, <1>5, HartWriteFacts DEF WriteReady
<1> QED BY <1>3, <1>4, <1>5

LEMMA MemoryStandsStill ==
  ASSUME IInv, Next, h_state \notin {"s.wait", "faulted"}
  PROVE  sysmem' = sysmem
<1>1. wport_en = {} /\ SysmemTypeOK
  BY DEF IInv, WriteInv, TypeOK, MMUTypeOK
<1> QED BY <1>1, WritesNothing DEF SysmemTypeOK, Next, MMUTick, SysmemTick

LEMMA FetchedStep ==
  ASSUME HInv, Next
  PROVE  FetchedInv'
<1> SUFFICES ASSUME h_state' \in Begun
             PROVE  /\ ToSysmem(AbstractPc') /\ ~IllegalWord(insn')
                    /\ insn' = NumOf(ReadBytes(sysmem', AbstractPc', WORD))
  BY DEF FetchedInv, ToSysmem, IllegalWord, NumOf, ReadBytes
<1>1. TypeOK /\ HartTick(ReadWires, WriteWires)
  BY DEF HInv, IInv, Next
<1>2. CASE h_state = "fetch.wait" /\ FetchLegal(ReadWires)
  <2>1. sysmem' = sysmem
    BY <1>2, MemoryStandsStill DEF HInv
  <2>2. ReadWires.lanes = ReadBytes(sysmem, pc, WORD) /\ ToSysmem(pc)
    BY <1>2, HartSees DEF HInv, AnswerInv, FetchLegal
  <2>3. AbstractPc' = pc /\ insn' = NumOf(ReadWires.lanes) /\ ~IllegalWord(insn')
    BY <1>2 DEF FetchLegal, Goto, AbstractPc, Ahead
  <2> QED BY <2>1, <2>2, <2>3
<1>3. CASE h_state \in Begun /\ insn' = insn /\ AbstractPc' = AbstractPc
  <2>1. sysmem' = sysmem
    BY <1>3, MemoryStandsStill DEF HInv, Begun, Waits, Operating
  <2> QED BY <1>3, <2>1 DEF HInv, FetchedInv
<1> QED BY <1>1, <1>2, <1>3, BegunStays

LEMMA AnswerStep ==
  ASSUME HInv, Next
  PROVE  AnswerInv'
<1> DEFINE mreq == Routed(ToSysmem(HartRead.addr), HartRead, NoRead)
           ureq == Routed(ToUart(HartRead.addr), HartRead, NoRead)
           wreq == Routed(ToUart(HartWrite.addr), HartWrite, NoWrite)
<1>1. /\ HartTick(ReadWires, WriteWires) /\ MMUReadTick(mreq) /\ UARTConnTick(ureq, wreq, RxWire)
      /\ StreamsTick(uc_rdready, uc_wrvalid, uc_wrpayload)
      /\ rport_data' = CellIn(sysmem, rport_addr)
  BY DEF Next, MMUTick, SysmemTick
<1>2. /\ TypeOK /\ SysmemTypeOK /\ MMUReadTypeOK /\ UARTConnTypeOK /\ StreamsTypeOK
      /\ ReadInv /\ OperandsInv /\ IInv /\ AnswerInv
  BY DEF HInv, IInv, TypeOK, MMUTypeOK
<1>3. mreq \in ReadReq /\ ureq \in ReadReq /\ wreq \in WriteReq
  <2>1. ToSysmem(HartRead.addr) \in BOOLEAN /\ ToUart(HartRead.addr) \in BOOLEAN
        /\ ToUart(HartWrite.addr) \in BOOLEAN
    BY DEF ToSysmem, ToUart
  <2> QED BY <1>2, <2>1, RoutesType
<1>4. /\ mreq.valid <=> \/ h_state = "fetch.init" /\ ToSysmem(pc)
                        \/ h_state = "op.load" /\ ToSysmem(Address)
      /\ h_state = "fetch.init" /\ mreq.valid => mreq.addr = pc /\ mreq.width = WORD
      /\ h_state = "op.load" /\ mreq.valid => mreq.addr = Address /\ mreq.width = funct3 % 4
      /\ ureq.valid <=> \/ h_state = "fetch.init" /\ ToUart(pc)
                        \/ h_state = "op.load" /\ ToUart(Address)
  BY ReadRoutes
<1> HIDE DEF mreq, ureq, wreq
<1>5. sysmem' = sysmem /\ ((mr_state = "init" /\ mreq.valid) \/ Collected) =>
        /\ Collected'
        /\ mr_state = "init" /\ mreq.valid => mr_addr' = mreq.addr /\ mr_width' = mreq.width
        /\ ~(mr_state = "init" /\ mreq.valid) => mr_addr' = mr_addr /\ mr_width' = mr_width
  BY <1>1, <1>2, <1>3, ReadCollects
<1>6. /\ uc_rdready' => uc_state' = "deassert"
      /\ uc_state = "init" /\ ureq.valid => uc_valid'
      /\ ~(uc_state = "init" /\ ureq.valid) => uc_valid' = uc_valid
  BY <1>1, <1>2, <1>3, UARTMoves DEF AnswerInv
<1>7. CASE h_state' \notin {"fetch.wait", "l.wait"}
  BY <1>6, <1>7 DEF AnswerInv
<1>8. CASE h_state' = "fetch.wait"
  <2>1. Fetch(ReadWires)
    BY <1>1, <1>8, ResolveMoves, ExecuteMoves DEF HartTick, Waits, Operating, Accessing, Faulted
  <2>2. pc' = pc /\ h_state \in {"fetch.init", "fetch.wait"}
    BY <1>8, <2>1 DEF Fetch, FetchInit, FetchWait, FetchLegal, FetchIllegal, Goto
  <2>3. sysmem' = sysmem
    BY <1>2, <2>2, MemoryStandsStill
  <2>4. Collected' /\ mr_addr' = pc /\ mr_width' = WORD /\ ToSysmem(pc)
    <3>1. CASE h_state = "fetch.init"
      <4>1. ToSysmem(pc)
        BY <1>2, <1>8, <2>1, <3>1, HartSees DEF Fetch, FetchInit, FetchWait, FetchLegal, FetchIllegal, Goto
      <4>2. mr_state = "init"
        BY <1>2, <3>1 DEF ReadInv
      <4> QED BY <1>4, <1>5, <2>3, <3>1, <4>1, <4>2
    <3>2. CASE h_state = "fetch.wait"
      BY <1>2, <1>4, <1>5, <2>3, <3>2 DEF AnswerInv
    <3> QED BY <2>2, <3>1, <3>2
  <2> QED BY <1>6, <1>8, <2>2, <2>4 DEF AnswerInv, ToSysmem
<1>9. CASE h_state' = "l.wait"
  <2>1. Execute(ReadWires, WriteWires) /\ h_state \in {"op.load", "l.wait"}
    <3>1. h_state \in {"op.load", "l.wait"}
      BY <1>1, <1>9, HartWaits
    <3> QED BY <1>1, <3>1, FetchMoves, ResolveMoves DEF HartTick, Faulted
  <2>2. funct3' = funct3 /\ Address' = Address /\ sysmem' = sysmem
    <3>1. funct3' = funct3
      BY <1>9, <2>1, ExecuteMoves DEF fieldVars
    <3>2. Address' = Address
      BY <1>1, <1>2, <1>9, <2>1, AddressHolds DEF Operating, Accessing
    <3>3. sysmem' = sysmem
      BY <1>2, <2>1, MemoryStandsStill
    <3> QED BY <3>1, <3>2, <3>3
  <2>3. ToSysmem(Address) => Collected' /\ mr_addr' = Address /\ mr_width' = funct3 % 4
    <3>1. CASE h_state = "op.load"
      <4>1. mr_state = "init"
        BY <1>2, <3>1 DEF ReadInv
      <4> QED BY <1>4, <1>5, <2>2, <3>1, <4>1
    <3>2. CASE h_state = "l.wait"
      BY <1>2, <1>4, <1>5, <2>2, <3>2 DEF AnswerInv
    <3> QED BY <2>1, <3>1, <3>2
  <2>4. ToUart(Address) => uc_valid'
    <3>1. CASE h_state = "op.load"
      <4>1. uc_state = "init"
        BY <1>2, <3>1 DEF ReadInv
      <4> QED BY <1>4, <1>6, <3>1, <4>1
    <3>2. CASE h_state = "l.wait"
      <4>1. uc_valid' = uc_valid
        BY <1>4, <1>6, <3>2
      <4>2. ToUart(Address) => uc_valid
        BY <1>2, <3>2 DEF AnswerInv
      <4> QED BY <4>1, <4>2
    <3> QED BY <2>1, <3>1, <3>2
  <2>5. ToSysmem(Address') => ToSysmem(Address)
    BY <2>2
  <2>6. ToUart(Address') => ToUart(Address)
    BY <2>2
  <2> QED BY <1>6, <1>9, <2>2, <2>3, <2>4, <2>5, <2>6 DEF AnswerInv, ToSysmem, ToUart
<1> QED BY <1>7, <1>8, <1>9

LEMMA HInvInit == Init => HInv
<1> SUFFICES ASSUME Init PROVE HInv
  OBVIOUS
<1>1. h_state = "fetch.init" /\ uc_rdready = FALSE
  BY DEF Init, HartInit, MMUInit, UARTConnInit
<1> QED BY <1>1, IInvInit
        DEF HInv, FieldsInv, FetchedInv, AnswerInv, Begun, Waits, Operating

LEMMA HInvStep == HInv /\ [Next]_vars => HInv'
<1> SUFFICES ASSUME HInv, [Next]_vars PROVE HInv'
  OBVIOUS
<1>1. IInv'
  BY IInvStep DEF HInv
<1>2. CASE Next
  <2>1. FieldsInv'
    BY <1>2, FieldsStep DEF HInv, Next
  <2> QED BY <1>1, <1>2, <2>1, FetchedStep, AnswerStep DEF HInv
<1>3. CASE UNCHANGED vars
  <2> USE <1>3 DEF vars, hartVars, fieldVars, writePortVars, readRegs, HInv
  <2>1. FieldsInv'
    BY DEF FieldsInv
  <2>2. FetchedInv'
    BY DEF FetchedInv, mmuVars, sysmemVars, AbstractPc, Ahead, LoadInFlight, Address
  <2>3. AnswerInv'
    BY DEF AnswerInv, mmuVars, sysmemVars, mmuReadVars, uartConnVars, Address, Collected,
           CellAhead
  <2> QED BY <1>1, <2>1, <2>2, <2>3
<1> QED BY <1>2, <1>3
-----------------------------------------------------------------------------
(* The operators of Isa on data are those of the modules it extends. *)

LEMMA ProgramSets ==
  /\ Program!BYTE = BYTE /\ Program!WORD = WORD /\ Program!HALF = HALF
  /\ Program!HalfSize = HalfSize /\ Program!WordSize = WordSize /\ Program!Word = Word
  /\ Program!Byte = Byte /\ Program!Lane = Lane /\ Program!MemByte = MemByte
  /\ Program!Reg = Reg
  /\ Program!LoadFunct = LoadFunct /\ Program!StoreFunct = StoreFunct
  /\ Program!BranchFunct = BranchFunct
<1>1. Program!HalfSize = HalfSize /\ Program!WordSize = WordSize /\ Program!Word = Word
  BY DEF Program!HalfSize, HalfSize, Program!WordSize, WordSize, Program!Word, Word
<1>2. Program!Byte = Byte /\ Program!Lane = Lane /\ Program!Reg = Reg /\ Program!MemByte = MemByte
  BY DEF Program!Byte, Byte, Program!Lane, Lane, Program!Reg, Reg, Program!MemByte, MemByte
<1> QED BY <1>1, <1>2
        DEF Program!BYTE, BYTE, Program!WORD, WORD, Program!HALF, HALF, Program!LoadFunct,
            LoadFunct, Program!StoreFunct, StoreFunct, Program!BranchFunct, BranchFunct

LEMMA ProgramMemory ==
  /\ \A addr : Program!ToSysmem(addr) = ToSysmem(addr) /\ Program!ToUart(addr) = ToUart(addr)
  /\ \A m, addr, width : Program!ReadBytes(m, addr, width) = ReadBytes(m, addr, width)
  /\ \A m, addr, width, data :
       Program!WriteBytes(m, addr, width, data) = WriteBytes(m, addr, width, data)
  /\ \A k, byte : Program!ByteAt(k, byte) = ByteAt(k, byte)
  /\ \A v : Program!BytesOf(v) = BytesOf(v)
  /\ \A p : Program!NumOf(p) = NumOf(p)
  /\ \A p : Program!IllegalWord(p) = IllegalWord(p)
<1>1. \A addr : Program!ToSysmem(addr) = ToSysmem(addr) /\ Program!ToUart(addr) = ToUart(addr)
  BY ProgramSets DEF Program!ToSysmem, ToSysmem, Program!ToUart, ToUart
<1>2. \A width : Program!Size(width) = Size(width)
  BY ProgramSets DEF Program!Size, Size
<1>3. \A m, addr, k :
        Program!ByteOf(m, Program!ByteIndex(addr, k)) = ByteOf(m, ByteIndex(addr, k))
  BY ProgramSets DEF Program!ByteOf, ByteOf, Program!ByteIndex, ByteIndex
<1>4. \A addr, i : Program!LaneOf(addr, i) = LaneOf(addr, i)
  BY DEF Program!LaneOf, LaneOf
<1>5. \A m, addr, width : Program!ReadBytes(m, addr, width) = ReadBytes(m, addr, width)
  BY <1>2, <1>3, ProgramSets DEF Program!ReadBytes, ReadBytes
<1>6. \A m, addr, width, data :
        Program!WriteBytes(m, addr, width, data) = WriteBytes(m, addr, width, data)
  BY <1>2, <1>4, ProgramSets DEF Program!WriteBytes, WriteBytes
<1>7. \A k, byte : Program!ByteAt(k, byte) = ByteAt(k, byte)
  BY ProgramSets DEF Program!ByteAt, ByteAt
<1>8. \A v : Program!BytesOf(v) = BytesOf(v)
  BY ProgramSets DEF Program!BytesOf, BytesOf
<1>9. \A p : Program!NumOf(p) = NumOf(p)
  BY ProgramSets DEF Program!NumOf, NumOf
<1>10. \A p : Program!IllegalWord(p) = IllegalWord(p)
  BY ProgramSets DEF Program!IllegalWord, IllegalWord
<1> QED BY <1>1, <1>5, <1>6, <1>7, <1>8, <1>9, <1>10

LEMMA ProgramQueues ==
  /\ \A q : /\ Program!Pop(q) = Pop(q) /\ Program!Arrivals(q) = Arrivals(q)
            /\ Program!Departures(q) = Departures(q)
  /\ \A q, byte : Program!Push(q, byte) = Push(q, byte)
BY DEF Program!Pop, Pop, Program!Arrivals, Arrivals, Program!Departures, Departures,
       Program!Push, Push

LEMMA ProgramArithmetic ==
  /\ \A a, b : Program!Plus(a, b) = Plus(a, b)
  /\ \A a : Program!Aligned(a) = Aligned(a)
  /\ \A f, a, b : Program!AluOut(f, a, b) = AluOut(f, a, b)
  /\ \A f, seven, b, i : Program!OperandB(f, seven, b, i) = OperandB(f, seven, b, i)
  /\ \A seven : Program!UsesImm(seven) = UsesImm(seven)
  /\ \A f, a, b : Program!Taken(f, a, b) = Taken(f, a, b)
  /\ \A f, p : Program!LoadValue(f, p) = LoadValue(f, p)
  /\ \A f : Program!StoreWidth(f) = StoreWidth(f)
  /\ \A i : Program!SystemMark(i) = SystemMark(i)
<1>1. \A a, b : Program!Plus(a, b) = Plus(a, b)
  BY ProgramSets DEF Program!Plus, Plus
<1>2. \A a : Program!Aligned(a) = Aligned(a)
  BY DEF Program!Aligned, Aligned
<1>3. \A a : Program!Signed(a) = Signed(a)
  BY ProgramSets DEF Program!Signed, Signed, Program!SignedIn, SignedIn
<1>4. \A p : Program!Flag(p) = Flag(p)
  BY DEF Program!Flag, Flag
<1>5. \A a, s : Program!Sar(a, s) = Sar(a, s)
  BY <1>3, ProgramSets DEF Program!Sar, Sar
<1>6. \A a, b : Program!BitOr(a, b) = BitOr(a, b) /\ Program!BitXor(a, b) = BitXor(a, b)
  BY DEF Program!BitOr, BitOr, Program!BitXor, BitXor
<1>7. \A f, a, b : Program!AluOut(f, a, b) = AluOut(f, a, b)
  BY <1>1, <1>3, <1>4, <1>5, <1>6
  DEF Program!AluOut, AluOut, Program!ADDI, ADDI, Program!SLTI, SLTI, Program!SLTIU, SLTIU,
      Program!ANDI, ANDI, Program!ORI, ORI, Program!XORI, XORI, Program!SLLI, SLLI
<1>8. \A seven : /\ Program!UsesImm(seven) = UsesImm(seven)
                 /\ Program!Negates(seven) = Negates(seven)
  BY DEF Program!UsesImm, UsesImm, Program!Negates, Negates
<1>9. \A f, seven, b, i : Program!OperandB(f, seven, b, i) = OperandB(f, seven, b, i)
  BY <1>8, ProgramSets DEF Program!OperandB, OperandB, Program!ADDI, ADDI, Program!SRI, SRI
<1>10. \A f, a, b : Program!Taken(f, a, b) = Taken(f, a, b)
  BY <1>3 DEF Program!Taken, Taken
<1>11. \A size, v : Program!SignExtend(size, v) = SignExtend(size, v)
  BY ProgramSets DEF Program!SignExtend, SignExtend, Program!SignedIn, SignedIn
<1>12. \A f, p : Program!LoadValue(f, p) = LoadValue(f, p)
  BY <1>11, ProgramMemory, ProgramSets DEF Program!LoadValue, LoadValue
<1>13. \A f : Program!StoreWidth(f) = StoreWidth(f)
  BY ProgramSets DEF Program!StoreWidth, StoreWidth
<1>14. \A i : Program!SystemMark(i) = SystemMark(i)
  BY ProgramSets DEF Program!SystemMark, SystemMark
<1> QED BY <1>1, <1>2, <1>7, <1>8, <1>9, <1>10, <1>12, <1>13, <1>14
-----------------------------------------------------------------------------
(* What an edge does to what the mapping is made of. *)

\* Of all edges, those at which the bus accepts a store or a load of the UART do more to
\* the memory and the queues than the line does.
LEMMA IOMoves ==
  ASSUME HInv, Next
  PROVE  /\ h_state = "op.store" /\ ToSysmem(Address) =>
              Drained' = WriteBytes(Drained, Address, StoreWidth(funct3), BytesOf(xrd2_val))
         /\ ~(h_state = "op.store" /\ ToSysmem(Address)) => Drained' = Drained
         /\ h_state = "op.load" /\ ToUart(Address) =>
              /\ uc_payload' = IF RxLeft = <<>> THEN 0 ELSE Head(RxLeft)
              /\ RxLeft' \in Arrivals(Pop(RxLeft))
         /\ ~(h_state = "op.load" /\ ToUart(Address)) => RxLeft' \in Arrivals(RxLeft)
         /\ h_state = "op.store" /\ ToUart(Address) =>
              TxAll' \in {Push(q, xrd2_val % ByteSize) : q \in Departures(TxAll)}
         /\ ~(h_state = "op.store" /\ ToUart(Address)) => TxAll' \in Departures(TxAll)
<1> DEFINE wmem == Routed(ToSysmem(HartWrite.addr), HartWrite, NoWrite)
           rreq == Routed(ToUart(HartRead.addr), HartRead, NoRead)
           wreq == Routed(ToUart(HartWrite.addr), HartWrite, NoWrite)
<1>1. /\ MMUWriteTick(wmem) /\ UARTConnTick(rreq, wreq, RxWire)
      /\ StreamsTick(uc_rdready, uc_wrvalid, uc_wrpayload)
      /\ sysmem' = Written(sysmem, wport_addr, wport_data, wport_en)
  BY DEF Next, MMUTick, SysmemTick
<1>2. /\ SysmemTypeOK /\ MMUWriteTypeOK /\ UARTConnTypeOK /\ StreamsTypeOK
      /\ AnswerInv /\ ReadInv /\ WriteInv /\ TypeOK
  BY DEF HInv, IInv, TypeOK, MMUTypeOK
<1>3. wmem \in WriteReq /\ rreq \in ReadReq /\ wreq \in WriteReq
  <2>1. ToSysmem(HartWrite.addr) \in BOOLEAN /\ ToUart(HartRead.addr) \in BOOLEAN
        /\ ToUart(HartWrite.addr) \in BOOLEAN
    BY DEF ToSysmem, ToUart
  <2> QED BY <1>2, <2>1, RoutesType
<1>4. /\ wmem.valid <=> h_state = "op.store" /\ ToSysmem(Address)
      /\ wmem.valid => /\ wmem.addr = Address /\ wmem.width = StoreWidth(funct3)
                       /\ wmem.data = BytesOf(xrd2_val)
      /\ wreq.valid <=> h_state = "op.store" /\ ToUart(Address)
      /\ wreq.valid => wreq.data = BytesOf(xrd2_val)
      /\ rreq.valid <=> h_state = "op.load" /\ ToUart(Address)
  <2>1. h_state = "fetch.init" => ~ToUart(pc)
    BY PcNotUart DEF HInv, IInv, TypeOK, HartTypeOK
  <2> QED BY <2>1, WriteRoutes, ReadRoutes
<1> HIDE DEF wmem, rreq, wreq
<1>5. Drained' = IF mw_state = "init" /\ wmem.valid
                   THEN WriteBytes(Drained, wmem.addr, wmem.width, wmem.data) ELSE Drained
  BY <1>1, <1>2, <1>3, WriteDrains
<1>6. h_state = "op.store" => mw_state = "init"
  BY <1>2 DEF WriteInv
<1>7. h_state = "op.load" => uc_state = "init"
  BY <1>2 DEF ReadInv
<1>8. /\ uc_state = "init" /\ rreq.valid =>
           /\ uc_payload' = IF RxLeft = <<>> THEN 0 ELSE Head(RxLeft)
           /\ RxLeft' \in Arrivals(Pop(RxLeft))
      /\ ~(uc_state = "init" /\ rreq.valid) => RxLeft' \in Arrivals(RxLeft)
      /\ wreq.valid => TxAll' \in {Push(q, wreq.data[0]) : q \in Departures(TxAll)}
      /\ ~wreq.valid => TxAll' \in Departures(TxAll)
  BY <1>1, <1>2, <1>3, UARTMoves DEF AnswerInv
<1>9. BytesOf(xrd2_val)[0] = xrd2_val % ByteSize
  BY DEF BytesOf, Lane
<1> QED BY <1>4, <1>5, <1>6, <1>7, <1>8, <1>9

\* What Isa says of an edge that does nothing but move the line, or that only takes from
\* the one queue or puts into the other.
LEMMA ProgramLines ==
  /\ RxLeft' \in Arrivals(RxLeft) => Program!RxLine(RxLeft)
  /\ RxLeft' \in Arrivals(Pop(RxLeft)) => Program!RxLine(Program!Pop(RxLeft))
  /\ TxAll' \in Departures(TxAll) => Program!TxLine
BY ProgramQueues DEF Program!RxLine, Program!TxLine, RxLeft, TxAll

LEMMA NoIOMoves ==
  ASSUME HInv, Next,
         h_state = "op.store" => Nowhere(Address),
         h_state = "op.load" => ~ToUart(Address)
  PROVE  Program!NoIO
<1>1. Drained' = Drained /\ RxLeft' \in Arrivals(RxLeft) /\ TxAll' \in Departures(TxAll)
  BY IOMoves DEF Nowhere
<1> QED BY <1>1, ProgramLines DEF Program!NoIO, Program!Lines, RxLeft

\* No load is in flight outside l.wait.
LEMMA NotInFlight == h_state # "l.wait" => ~LoadInFlight /\ ~IllegalInFlight
BY DEF LoadInFlight, IllegalInFlight

LEMMA NotInFlightNext == h_state' # "l.wait" => ~LoadInFlight' /\ ~IllegalInFlight'
BY DEF LoadInFlight, IllegalInFlight

\* What the hart leaves in the write port is what the abstract registers have already.
LEMMA RegsMove ==
  ASSUME HInv, Next, h_state # "l.wait", h_state' # "l.wait"
  PROVE  /\ ~xwr_en' => AbstractRegs' = AbstractRegs
         /\ xwr_en' => Program!Put(xwr_reg', xwr_val')
<1>1. ~LoadInFlight /\ ~LoadInFlight'
  BY NotInFlight, NotInFlightNext
<1>2. RegisterFile /\ xwr_en \in BOOLEAN
  BY DEF Next, HartTick, HInv, IInv, TypeOK, HartTypeOK
<1>3. xmem' = AbstractRegs
  BY <1>1, <1>2 DEF RegisterFile, AbstractRegs
<1>4. AbstractRegs' = IF ~xwr_en' THEN xmem'
                      ELSE IF xwr_reg' = 0 THEN xmem' ELSE [xmem' EXCEPT ![xwr_reg'] = xwr_val']
  BY <1>1 DEF AbstractRegs
<1> QED BY <1>3, <1>4 DEF Program!Put

\* The instruction that Isa would execute is the one the hart has begun.
LEMMA ProgramFacts ==
  ASSUME HInv, h_state \in Begun
  PROVE  /\ Program!Fetched = insn
         /\ Program!d = Decode(insn)
         /\ \A opcode : Program!Executing(opcode) <=> Decode(insn).opcode = opcode
         /\ AbstractRegs = xmem
         /\ Program!R1 = xmem[Decode(insn).rs1] /\ Program!R2 = xmem[Decode(insn).rs2]
         /\ Program!EffectiveAddress = Plus(xmem[Decode(insn).rs1], Decode(insn).imm)
         /\ Drained = sysmem
<1>1. Drained = sysmem
  <2>1. mw_state = "init" /\ wport_en = {} /\ SysmemTypeOK
    BY DEF HInv, IInv, WriteInv, TypeOK, MMUTypeOK, Begun, Waits, Operating
  <2> QED BY <2>1, WritesNothing DEF Drained, SysmemTypeOK
<1>2. h_state # "faulted" /\ ~IllegalInFlight /\ ~LoadInFlight /\ ~xwr_en
  BY NotInFlight DEF HInv, IInv, OperandsInv, Begun, Waits, Operating
<1>3. ToSysmem(AbstractPc) /\ ~IllegalWord(insn) /\ insn = NumOf(ReadBytes(sysmem, AbstractPc, WORD))
  BY DEF HInv, FetchedInv
<1>4. Program!Fetched = insn
  BY <1>1, <1>3, ProgramMemory, ProgramSets DEF Program!Fetched
<1>5. Program!d = Decode(insn)
  BY <1>4 DEF Program!d
<1>6. Program!Fetching
  BY <1>2, <1>3, ProgramMemory DEF Program!Fetching
<1>7. \A opcode : Program!Executing(opcode) <=> Decode(insn).opcode = opcode
  BY <1>3, <1>4, <1>5, <1>6, ProgramMemory DEF Program!Executing
<1>8. AbstractRegs = xmem
  BY <1>2 DEF AbstractRegs
<1>9. Program!R1 = xmem[Decode(insn).rs1] /\ Program!R2 = xmem[Decode(insn).rs2]
  BY <1>5, <1>8 DEF Program!R1, Program!R2
<1>10. Program!EffectiveAddress = Plus(xmem[Decode(insn).rs1], Decode(insn).imm)
  BY <1>5, <1>9, ProgramArithmetic DEF Program!EffectiveAddress
<1> QED BY <1>1, <1>4, <1>5, <1>7, <1>8, <1>9, <1>10
-----------------------------------------------------------------------------
\* What Isa says of the faults.
LEMMA ProgramFaults ==
  ASSUME h_state # "l.wait", h_state' # "l.wait"
  PROVE  /\ NoFault /\ (h_state' = "faulted" <=> h_state = "faulted") => Program!Continue
         /\ \A word : FaultIllegal(word) /\ h_state' = "faulted" =>
              Program!Stop("ILLEGAL_INSTRUCTION", word)
         /\ FaultMisaligned /\ h_state' = "faulted" => Program!StopMisaligned
<1>1. ~IllegalInFlight /\ ~IllegalInFlight'
  BY NotInFlight, NotInFlightNext
<1>2. NoFault /\ (h_state' = "faulted" <=> h_state = "faulted") => Program!Continue
  BY <1>1 DEF NoFault, faultVars, Program!Continue
<1>3. ASSUME NEW word, FaultIllegal(word), h_state' = "faulted"
      PROVE  Program!Stop("ILLEGAL_INSTRUCTION", word)
  BY <1>1, <1>3 DEF FaultIllegal, Program!Stop, Program!Fault
<1>4. FaultMisaligned /\ h_state' = "faulted" => Program!StopMisaligned
  BY <1>1 DEF FaultMisaligned, Program!StopMisaligned, Program!Stop, Program!Fault
<1> QED BY <1>2, <1>3, <1>4

\* The edges at which no instruction takes effect.
LEMMA QuietStep ==
  ASSUME HInv, Next, h_state # "l.wait", h_state' # "l.wait",
         h_state = "op.store" => Nowhere(Address), h_state # "op.load",
         AbstractPc' = AbstractPc, ~xwr_en',
         NoFault, h_state' = "faulted" <=> h_state = "faulted"
  PROVE  Program!Quiet
<1>1. Program!NoIO
  BY NoIOMoves
<1>2. AbstractRegs' = AbstractRegs
  BY RegsMove
<1>3. Program!Continue
  BY ProgramFaults
<1> QED BY <1>1, <1>2, <1>3 DEF Program!Quiet, Program!Continue

LEMMA FetchImplements ==
  ASSUME HInv, Next, Fetch(ReadWires)
  PROVE  Program!Quiet \/ Program!IllegalFetch
<1>1. /\ h_state \in {"fetch.init", "fetch.wait"} /\ ~xwr_en'
      /\ h_state' \in {"fetch.init", "fetch.wait", "fetch.resolve", "faulted"}
  BY FetchMoves
<1>2. pc' = pc /\ AbstractPc = pc /\ AbstractPc' = pc
  <2>1. pc' = pc
    BY DEF Fetch, FetchInit, FetchWait, FetchLegal, FetchIllegal
  <2> QED BY <1>1, <2>1 DEF AbstractPc, Ahead
<1>3. CASE FetchInit(ReadWires) \/ FetchWait(ReadWires) \/ FetchLegal(ReadWires)
  <2>1. NoFault /\ h_state' # "faulted"
    BY <1>3 DEF FetchInit, FetchWait, FetchLegal, Goto
  <2> QED BY <1>1, <1>2, <2>1, QuietStep
<1>4. CASE FetchIllegal(ReadWires)
  <2> DEFINE word == NumOf(ReadWires.lanes)
  <2>1. h_state = "fetch.wait" /\ IllegalWord(word) /\ FaultIllegal(word) /\ h_state' = "faulted"
    BY <1>4 DEF FetchIllegal, Goto
  <2>2. word = NumOf(ReadBytes(sysmem, pc, WORD)) /\ ToSysmem(pc)
    BY <1>4, HartSees DEF HInv, AnswerInv, FetchIllegal
  <2>3. Drained = sysmem
    <3>1. mw_state = "init" /\ wport_en = {} /\ SysmemTypeOK
      BY <2>1 DEF HInv, IInv, WriteInv, TypeOK, MMUTypeOK
    <3> QED BY <3>1, WritesNothing DEF Drained, SysmemTypeOK
  <2>4. Program!Fetched = word
    BY <1>2, <2>2, <2>3, ProgramMemory, ProgramSets DEF Program!Fetched
  <2> HIDE DEF word
  <2>5. Program!Fetching
    BY <1>2, <2>1, <2>2, NotInFlight, ProgramMemory DEF Program!Fetching
  <2>6. Program!Stop("ILLEGAL_INSTRUCTION", word)
    BY <2>1, ProgramFaults
  <2>7. AbstractRegs' = AbstractRegs
    BY <1>1, <2>1, RegsMove
  <2>8. Program!NoIO
    BY <2>1, NoIOMoves
  <2> QED BY <1>2, <2>1, <2>4, <2>5, <2>6, <2>7, <2>8, ProgramMemory DEF Program!IllegalFetch
<1> QED BY <1>3, <1>4 DEF Fetch

\* The instructions that fetch.resolve completes.
LEMMA ResolveImplements ==
  ASSUME HInv, Next, Resolve
  PROVE  Program!Next
<1> DEFINE i == Decode(insn)
<1>1. h_state = "fetch.resolve" /\ h_state' # "l.wait"
  BY ResolveMoves DEF Waits
<1>2. /\ Program!Fetched = insn /\ Program!d = i
      /\ \A opcode : Program!Executing(opcode) <=> i.opcode = opcode
  BY <1>1, ProgramFacts DEF Begun
<1>3. AbstractPc = pc /\ Program!NoIO
  BY <1>1, PcFacts, NoIOMoves
<1>4. Program!Next4 = Plus(pc, 4)
  BY <1>3, ProgramArithmetic DEF Program!Next4
<1>5. \A target : h_state' \in {"fetch.init", "faulted"} /\ pc' = target => Program!Goto(target)
  BY DEF Program!Goto, AbstractPc, Ahead, LoadInFlight
<1>6. /\ ~xwr_en' => AbstractRegs' = AbstractRegs
      /\ xwr_en' => Program!Put(xwr_reg', xwr_val')
  BY <1>1, RegsMove
<1>7. /\ NoFault /\ h_state' # "faulted" => Program!Continue
      /\ \A word : FaultIllegal(word) /\ h_state' = "faulted" =>
           Program!Stop("ILLEGAL_INSTRUCTION", word)
      /\ FaultMisaligned /\ h_state' = "faulted" => Program!StopMisaligned
  BY <1>1, ProgramFaults
<1>8. Retire /\ NextPc => h_state' = "fetch.init" /\ Program!Goto(Program!Next4) /\ Program!Continue
  BY <1>4, <1>5, <1>7 DEF Retire, Goto, NextPc
<1>9. \A rd, v : WriteReg(rd, v) => Program!Put(rd, v)
  BY <1>6 DEF WriteReg
<1> HIDE DEF i
<1>10. CASE ResolveLoad \/ ResolveOpImm \/ ResolveOp \/ ResolveStore \/ ResolveBranch \/ ResolveJalr
  <2>1. NoFault /\ ~xwr_en' /\ h_state' \in Waits
    BY <1>10
    DEF ResolveLoad, ResolveOpImm, ResolveOp, ResolveStore, ResolveBranch, ResolveJalr,
        Dispatch, Goto, KeepsRd, NoRegWrite, Waits
  <2>2. AbstractPc' = AbstractPc
    <3>1. TypeOK /\ HartTick(ReadWires, WriteWires)
      BY DEF HInv, IInv, Next
    <3> QED BY <1>1, <2>1, <3>1, BegunStays DEF Begun
  <2>3. Program!Quiet
    BY <1>1, <2>1, <2>2, QuietStep DEF Waits
  <2> QED BY <2>3 DEF Program!Next
<1>11. CASE ResolveFence
  <2>1. i.opcode = "MISC_MEM" /\ i.funct3 = 0 /\ Retire /\ NextPc /\ ~xwr_en'
    BY <1>11 DEF ResolveFence, Resolving, NoRegWrite, i
  <2>2. Program!Fence
    BY <1>2, <1>3, <1>6, <1>8, <2>1 DEF Program!Fence
  <2> QED BY <2>2 DEF Program!Next
<1>12. CASE ResolveLui
  <2>1. i.opcode = "LUI" /\ WriteReg(i.rd, i.imm) /\ Retire /\ NextPc
    BY <1>12 DEF ResolveLui, Resolving, i
  <2>2. Program!Arithmetic
    BY <1>2, <1>3, <1>8, <1>9, <2>1 DEF Program!Arithmetic
  <2> QED BY <2>2 DEF Program!Next
<1>13. CASE ResolveAuipc
  <2>1. i.opcode = "AUIPC" /\ WriteReg(i.rd, Plus(pc, i.imm)) /\ Retire /\ NextPc
    BY <1>13 DEF ResolveAuipc, Resolving, i
  <2>2. Program!Arithmetic
    BY <1>2, <1>3, <1>8, <1>9, <2>1, ProgramArithmetic DEF Program!Arithmetic
  <2> QED BY <2>2 DEF Program!Next
<1>14. CASE ResolveJal
  <2>1. /\ i.opcode = "JAL" /\ Aligned(Plus(pc, i.imm)) /\ pc' = Plus(pc, i.imm)
        /\ WriteReg(i.rd, Plus(pc, 4)) /\ h_state' = "fetch.init" /\ NoFault
    BY <1>14 DEF ResolveJal, Resolving, Retire, Goto, i
  <2>2. Program!JumpTo(Plus(pc, i.imm))
    BY <1>2, <1>4, <1>5, <1>7, <1>9, <2>1, ProgramArithmetic DEF Program!JumpTo
  <2>3. Program!Jump
    BY <1>2, <1>3, <2>1, <2>2, ProgramArithmetic DEF Program!Jump
  <2> QED BY <2>3 DEF Program!Next
<1>15. CASE ResolveJalMisaligned
  <2>1. /\ i.opcode = "JAL" /\ ~Aligned(Plus(pc, i.imm)) /\ pc' = Plus(pc, 4)
        /\ ~xwr_en' /\ h_state' = "faulted" /\ FaultMisaligned
    BY <1>15 DEF ResolveJalMisaligned, Resolving, NextPc, NoRegWrite, Goto, i
  <2>2. Program!JumpTo(Plus(pc, i.imm))
    BY <1>4, <1>5, <1>6, <1>7, <2>1, ProgramArithmetic DEF Program!JumpTo
  <2>3. Program!Jump
    BY <1>2, <1>3, <2>1, <2>2, ProgramArithmetic DEF Program!Jump
  <2> QED BY <2>3 DEF Program!Next
<1>16. CASE ResolveSystem
  <2>1. /\ i.opcode = "SYSTEM" /\ i.funct3 = 0 /\ i.imm \in {0, 1}
        /\ WriteReg(1, SystemMark(i.imm)) /\ Retire /\ NextPc
    BY <1>16 DEF ResolveSystem, IsSystemCall, Resolving, i
  <2>2. Program!System
    BY <1>2, <1>3, <1>8, <1>9, <2>1, ProgramArithmetic DEF Program!System
  <2> QED BY <2>2 DEF Program!Next
<1>17. CASE ResolveIllegal
  <2>1. /\ \/ i.opcode = "MISC_MEM" /\ i.funct3 # 0
           \/ i.opcode = "SYSTEM" /\ ~(i.funct3 = 0 /\ i.imm \in {0, 1})
           \/ i.opcode = "other"
        /\ FaultIllegal(insn) /\ h_state' = "faulted" /\ pc' = Plus(pc, 4) /\ ~xwr_en'
    BY <1>17 DEF ResolveIllegal, IsSystemCall, Resolving, NextPc, NoRegWrite, Goto, i
  <2>2. /\ Program!Stop("ILLEGAL_INSTRUCTION", Program!Fetched)
        /\ Program!Goto(Program!Next4) /\ AbstractRegs' = AbstractRegs
    BY <1>2, <1>4, <1>5, <1>6, <1>7, <2>1
  <2>3. Program!Illegal
    BY <1>2, <1>3, <2>1, <2>2 DEF Program!Illegal
  <2> QED BY <2>3 DEF Program!Next
<1> QED BY <1>10, <1>11, <1>12, <1>13, <1>14, <1>15, <1>16, <1>17 DEF Resolve
-----------------------------------------------------------------------------
\* The edges that leave the states of an instruction that reads registers.  Its operands
\* are Isa's, and the pc has moved on but for a branch.
LEMMA OperandFacts ==
  ASSUME HInv, h_state \in Operating
  PROVE  /\ Program!Fetched = insn /\ Program!d = Decode(insn)
         /\ \A opcode : Program!Executing(opcode) <=> Decode(insn).opcode = opcode
         /\ xrd1_reg = Decode(insn).rs1 =>
              /\ Program!R1 = xrd1_val
              /\ imm = Decode(insn).imm => Program!EffectiveAddress = Address
         /\ xrd2_reg = Decode(insn).rs2 => Program!R2 = xrd2_val
         /\ h_state # "op.branch" => Program!Next4 = pc
         /\ h_state = "op.branch" => AbstractPc = pc /\ Program!Next4 = Plus(pc, 4)
<1>1. h_state \in Begun
  BY DEF Begun
<1>2. xrd1_val = xmem[xrd1_reg] /\ xrd2_val = xmem[xrd2_reg]
  BY DEF HInv, IInv, OperandsInv
<1>3. Program!Next4 = Plus(AbstractPc, 4)
  BY ProgramArithmetic DEF Program!Next4
<1>4. pc \in Word
  BY DEF HInv, IInv, TypeOK, HartTypeOK
<1>5. h_state # "op.branch" => Plus(AbstractPc, 4) = pc
  BY <1>4, PcFacts, PcBack DEF Operating
<1>6. h_state = "op.branch" => AbstractPc = pc
  BY PcFacts
<1> QED BY <1>1, <1>2, <1>3, <1>5, <1>6, ProgramFacts DEF Address

\* An instruction that ends here.
LEMMA EndFacts ==
  ASSUME HInv, Next, h_state \in Operating, h_state' \in {"fetch.init", "s.wait", "faulted"}
  PROVE  /\ \A target : pc' = target => Program!Goto(target)
         /\ ~xwr_en' => AbstractRegs' = AbstractRegs
         /\ \A value : WriteValue(value) => Program!Put(xwr_reg, value)
         /\ NoFault /\ h_state' # "faulted" => Program!Continue
         /\ \A word : FaultIllegal(word) /\ h_state' = "faulted" =>
              Program!Stop("ILLEGAL_INSTRUCTION", word)
         /\ FaultMisaligned /\ h_state' = "faulted" => Program!StopMisaligned
         /\ h_state \notin {"op.load", "op.store"} => Program!NoIO
<1>1. h_state # "l.wait" /\ h_state' # "l.wait" /\ h_state # "faulted"
  BY DEF Operating
<1>2. \A target : pc' = target => Program!Goto(target)
  BY DEF Program!Goto, AbstractPc, Ahead, LoadInFlight
<1>3. \A value : WriteValue(value) => Program!Put(xwr_reg, value)
  <2>1. \A value : WriteValue(value) => xwr_en' /\ xwr_reg' = xwr_reg /\ xwr_val' = value
    BY DEF WriteValue, WriteReg
  <2> QED BY <1>1, <2>1, RegsMove
<1> QED BY <1>1, <1>2, <1>3, RegsMove, ProgramFaults, NoIOMoves

LEMMA AluImplements ==
  ASSUME HInv, Next, Alu
  PROVE  Program!Arithmetic
<1> DEFINE i == Decode(insn)
<1>1. /\ h_state = "alu" /\ h_state' = "fetch.init" /\ NoFault /\ pc' = pc
      /\ WriteValue(AluOut(funct3, xrd1_val, OperandB(funct3, funct7, xrd2_val, imm)))
  BY DEF Alu, Retire, Goto
<1>2. /\ funct3 = i.funct3 /\ xrd1_reg = i.rs1 /\ xwr_reg = i.rd
      /\ \/ i.opcode = "OP_IMM" /\ imm = i.imm /\ funct7 = 1
         \/ i.opcode = "OP" /\ funct7 = i.funct7 /\ xrd2_reg = i.rs2
  BY <1>1 DEF HInv, FieldsInv
<1>3. /\ Program!d = i /\ Program!R1 = xrd1_val /\ Program!Next4 = pc
      /\ xrd2_reg = i.rs2 => Program!R2 = xrd2_val
      /\ \A opcode : Program!Executing(opcode) <=> i.opcode = opcode
  BY <1>1, <1>2, OperandFacts DEF Operating
<1>4. /\ Program!Goto(Program!Next4) /\ Program!Continue /\ Program!NoIO
      /\ Program!Put(i.rd, AluOut(funct3, xrd1_val, OperandB(funct3, funct7, xrd2_val, imm)))
  BY <1>1, <1>2, <1>3, EndFacts DEF Operating
<1> HIDE DEF i
<1>5. CASE i.opcode = "OP_IMM" /\ imm = i.imm /\ funct7 = 1
  <2>1. OperandB(funct3, funct7, xrd2_val, imm) = i.imm
    BY <1>5 DEF OperandB, Negates, UsesImm
  <2> QED BY <1>2, <1>3, <1>4, <1>5, <2>1, ProgramArithmetic DEF Program!Arithmetic
<1>6. CASE i.opcode = "OP" /\ funct7 = i.funct7 /\ xrd2_reg = i.rs2
  <2>1. imm \in Word
    BY DEF HInv, IInv, TypeOK, HartTypeOK
  \* What is left in imm shows only when the second operand is taken from it.
  <2>2. PICK leftover \in IF UsesImm(funct7) THEN Word ELSE {0} :
          OperandB(funct3, funct7, xrd2_val, imm) = OperandB(funct3, funct7, xrd2_val, leftover)
    <3>1. ~UsesImm(funct7) =>
            OperandB(funct3, funct7, xrd2_val, imm) = OperandB(funct3, funct7, xrd2_val, 0)
      BY DEF OperandB
    <3> QED BY <2>1, <3>1
  <2>3. Program!Put(i.rd, Program!AluOut(i.funct3, Program!R1,
                     Program!OperandB(i.funct3, i.funct7, Program!R2, leftover)))
    BY <1>2, <1>3, <1>4, <1>6, <2>2, ProgramArithmetic
  <2>4. leftover \in IF Program!UsesImm(i.funct7) THEN Program!Word ELSE {0}
    BY <1>6, ProgramArithmetic, ProgramSets
  <2> QED BY <1>3, <1>4, <1>6, <2>3, <2>4 DEF Program!Arithmetic
<1> QED BY <1>2, <1>5, <1>6

LEMMA BranchImplements ==
  ASSUME HInv, Next, BranchNotTaken \/ BranchTaken \/ BranchMisaligned \/ BranchIllegal
  PROVE  Program!Branch \/ Program!Illegal
<1> DEFINE i == Decode(insn)
<1>1. h_state = "op.branch" /\ ~xwr_en' /\ h_state' \in {"fetch.init", "faulted"}
  BY DEF BranchNotTaken, BranchTaken, BranchMisaligned, BranchIllegal, NoRegWrite, Retire, Goto
<1>2. /\ i.opcode = "BRANCH" /\ imm = i.imm /\ funct3 = i.funct3
      /\ xrd1_reg = i.rs1 /\ xrd2_reg = i.rs2
  BY <1>1 DEF HInv, FieldsInv
<1>3. /\ Program!Fetched = insn /\ Program!d = i /\ Program!R1 = xrd1_val /\ Program!R2 = xrd2_val
      /\ Program!Next4 = Plus(pc, 4) /\ AbstractPc = pc
      /\ Program!Executing("BRANCH")
  BY <1>1, <1>2, OperandFacts DEF Operating
<1>4. /\ \A target : pc' = target => Program!Goto(target)
      /\ AbstractRegs' = AbstractRegs /\ Program!NoIO
      /\ NoFault /\ h_state' # "faulted" => Program!Continue
      /\ \A word : FaultIllegal(word) /\ h_state' = "faulted" =>
           Program!Stop("ILLEGAL_INSTRUCTION", word)
  BY <1>1, EndFacts DEF Operating
<1>5. Taken(funct3, xrd1_val, xrd2_val) => funct3 \in BranchFunct
  BY DEF Taken, BranchFunct
<1> HIDE DEF i
<1> USE DEF Goto
<1>6. CASE BranchNotTaken
  <2>1. funct3 \in BranchFunct /\ ~Taken(funct3, xrd1_val, xrd2_val) /\ NoFault
        /\ h_state' = "fetch.init" /\ pc' = Plus(pc, 4)
    BY <1>6 DEF BranchNotTaken, Retire, NextPc
  <2> QED BY <1>2, <1>3, <1>4, <2>1, ProgramSets, ProgramArithmetic DEF Program!Branch
<1>7. CASE BranchTaken
  <2>1. /\ Taken(funct3, xrd1_val, xrd2_val) /\ Aligned(Plus(pc, imm)) /\ NoFault
        /\ h_state' = "fetch.init" /\ pc' = Plus(pc, imm)
    BY <1>7 DEF BranchTaken, Retire
  <2> QED BY <1>2, <1>3, <1>4, <1>5, <2>1, ProgramSets, ProgramArithmetic DEF Program!Branch
<1>8. CASE BranchMisaligned
  <2>1. /\ Taken(funct3, xrd1_val, xrd2_val) /\ ~Aligned(Plus(pc, imm)) /\ FaultMisaligned
        /\ h_state' = "fetch.init" /\ pc' = pc
    BY <1>8 DEF BranchMisaligned
  <2>2. ~IllegalInFlight /\ ~IllegalInFlight'
    BY <1>1, <2>1, NotInFlight, NotInFlightNext
  <2>3. AbstractPc' = AbstractPc
    BY <1>3, <2>1 DEF AbstractPc, Ahead
  <2> QED BY <1>1, <1>2, <1>3, <1>4, <1>5, <2>1, <2>2, <2>3, ProgramSets, ProgramArithmetic
          DEF Program!Branch, Program!Fault, FaultMisaligned
<1>9. CASE BranchIllegal
  <2>1. funct3 \notin BranchFunct /\ FaultIllegal(insn) /\ h_state' = "faulted" /\ pc' = Plus(pc, 4)
    BY <1>9 DEF BranchIllegal, NextPc
  <2> QED BY <1>2, <1>3, <1>4, <2>1, ProgramSets DEF Program!Illegal
<1> QED BY <1>6, <1>7, <1>8, <1>9

LEMMA JalrImplements ==
  ASSUME HInv, Next, OpJalr \/ OpJalrMisaligned
  PROVE  Program!Jump
<1> DEFINE i == Decode(insn)
           target == Address - (Address % 2)
<1>1. h_state = "op.jalr" /\ h_state' \in {"fetch.init", "faulted"}
  BY DEF OpJalr, OpJalrMisaligned, Retire, Goto
<1>2. i.opcode = "JALR" /\ imm = i.imm /\ xrd1_reg = i.rs1 /\ xwr_reg = i.rd
  BY <1>1 DEF HInv, FieldsInv
<1>3. /\ Program!d = i /\ Program!EffectiveAddress = Address /\ Program!Next4 = pc
      /\ Program!Executing("JALR")
  BY <1>1, <1>2, OperandFacts DEF Operating
<1>4. JalrTarget = target
  BY DEF JalrTarget, Address
<1>5. Program!NoIO
  BY <1>1, EndFacts DEF Operating
<1> HIDE DEF i, target
<1>6. CASE OpJalr
  <2>1. /\ Aligned(target) /\ pc' = target /\ WriteValue(pc) /\ NoFault
        /\ h_state' = "fetch.init"
    BY <1>4, <1>6 DEF OpJalr, Retire, Goto
  <2>2. Program!Goto(target) /\ Program!Put(i.rd, Program!Next4) /\ Program!Continue
    BY <1>1, <1>2, <1>3, <2>1, EndFacts DEF Operating
  <2>3. Program!JumpTo(target)
    BY <1>3, <2>1, <2>2, ProgramArithmetic DEF Program!JumpTo
  <2> QED BY <1>3, <1>5, <2>3 DEF Program!Jump, target
<1>7. CASE OpJalrMisaligned
  <2>1. ~Aligned(target) /\ FaultMisaligned /\ h_state' = "faulted" /\ ~xwr_en' /\ pc' = pc
    BY <1>4, <1>7 DEF OpJalrMisaligned, NoRegWrite, Goto
  <2>2. Program!Goto(Program!Next4) /\ AbstractRegs' = AbstractRegs /\ Program!StopMisaligned
    BY <1>1, <1>3, <2>1, EndFacts DEF Operating
  <2>3. Program!JumpTo(target)
    BY <2>1, <2>2, ProgramArithmetic DEF Program!JumpTo
  <2> QED BY <1>3, <1>5, <2>3 DEF Program!Jump, target
<1> QED BY <1>6, <1>7
-----------------------------------------------------------------------------
LEMMA StoreImplements ==
  ASSUME HInv, Next, OpStore(WriteWires)
  PROVE  Program!Quiet \/ Program!StoreMemory \/ Program!StoreUart \/ Program!StoreIllegalNowhere
<1> DEFINE i == Decode(insn)
<1>1. /\ h_state = "op.store" /\ ~xwr_en' /\ pc' = pc
      /\ funct3 \notin StoreFunct => h_state' = "faulted" /\ FaultIllegal(insn)
      /\ funct3 \in StoreFunct =>
           /\ h_state' = IF WriteWires.ready THEN "s.wait" ELSE "op.store"
           /\ NoFault
  BY DEF OpStore, NoRegWrite, Goto
<1>2. WriteWires.ready <=> ToSysmem(Address) \/ ToUart(Address)
  BY <1>1, HartSees DEF HInv
<1>3. CASE funct3 \in StoreFunct /\ Nowhere(Address)
  <2>1. h_state' = "op.store" /\ NoFault
    BY <1>1, <1>2, <1>3 DEF Nowhere
  <2>2. AbstractPc' = AbstractPc
    BY <1>1, <2>1 DEF AbstractPc, Ahead
  <2> QED BY <1>1, <1>3, <2>1, <2>2, QuietStep
<1>4. CASE funct3 \notin StoreFunct \/ ~Nowhere(Address)
  <2>1. /\ i.opcode = "STORE" /\ imm = i.imm /\ funct3 = i.funct3
        /\ xrd1_reg = i.rs1 /\ xrd2_reg = i.rs2
    BY <1>1 DEF HInv, FieldsInv
  <2>2. /\ Program!Fetched = insn /\ Program!d = i
        /\ Program!EffectiveAddress = Address /\ Program!R2 = xrd2_val
        /\ Program!Next4 = pc /\ Program!Executing("STORE")
    BY <1>1, <2>1, OperandFacts DEF Operating
  <2> HIDE DEF i
  <2>3. h_state' \in {"s.wait", "faulted"} /\ (h_state' = "faulted" <=> funct3 \notin StoreFunct)
    BY <1>1, <1>2, <1>4 DEF Nowhere
  <2>4. Program!AfterStore
    <3>1. Program!Goto(Program!Next4) /\ AbstractRegs' = AbstractRegs
      BY <1>1, <2>2, <2>3, EndFacts DEF Operating
    <3>2. funct3 \in StoreFunct => Program!Continue
      BY <1>1, <2>3, EndFacts DEF Operating
    <3>3. funct3 \notin StoreFunct => Program!Stop("ILLEGAL_INSTRUCTION", insn)
      BY <1>1, <2>3, EndFacts DEF Operating
    <3> QED BY <2>1, <2>2, <3>1, <3>2, <3>3, ProgramSets DEF Program!AfterStore
  <2>5. CASE ToSysmem(Address)
    <3>1. ~ToUart(Address)
      BY <2>5, ZeroToSysmem
    <3>2. /\ Drained' = WriteBytes(Drained, Address, StoreWidth(funct3), BytesOf(xrd2_val))
          /\ Program!Lines
      BY <1>1, <2>5, <3>1, IOMoves, ProgramLines DEF Program!Lines, RxLeft
    <3> QED BY <2>1, <2>2, <2>4, <2>5, <3>2, ProgramMemory, ProgramArithmetic
            DEF Program!StoreMemory
  <2>6. CASE ToUart(Address)
    <3>1. ~ToSysmem(Address)
      BY <2>6, ZeroToSysmem
    <3>2. /\ Drained' = Drained /\ Program!RxLine(RxLeft)
          /\ TxAll' \in {Push(q, xrd2_val % ByteSize) : q \in Departures(TxAll)}
      BY <1>1, <2>6, <3>1, IOMoves, ProgramLines
    <3> QED BY <2>2, <2>4, <2>6, <3>2, ProgramMemory, ProgramQueues
            DEF Program!StoreUart, RxLeft, TxAll
  <2>7. CASE Nowhere(Address)
    <3>1. Program!NoIO /\ ~ToSysmem(Address) /\ ~ToUart(Address)
      BY <1>1, <2>7, NoIOMoves DEF Nowhere
    <3>2. Program!d.funct3 \notin Program!StoreFunct
      BY <1>4, <2>1, <2>2, <2>7, ProgramSets
    <3> QED BY <2>2, <2>4, <3>1, <3>2, ProgramMemory DEF Program!StoreIllegalNowhere
  <2> QED BY <2>5, <2>6, <2>7 DEF Nowhere
<1> QED BY <1>3, <1>4

\* A load takes effect when the bus accepts it: what it will write is known then, and
\* shows in the abstract registers at once.
LEMMA LoadImplements ==
  ASSUME HInv, Next, OpLoad
  PROVE  Program!Quiet \/ Program!LoadMemory \/ Program!LoadUart
<1> DEFINE i == Decode(insn)
<1>1. /\ h_state = "op.load" /\ h_state' = "l.wait" /\ ~xwr_en' /\ NoFault
      /\ UNCHANGED <<pc, insn, funct3, xwr_reg>>
  BY DEF OpLoad, NoRegWrite, Goto, Decoded, fieldVars
<1>2. Address' = Address
  BY <1>1, AddressHolds DEF HInv, IInv, Next, Operating, Accessing
<1>3. xmem' = xmem /\ AbstractRegs = xmem
  <2>1. ~xwr_en /\ RegisterFile
    BY <1>1 DEF HInv, IInv, OperandsInv, Next, HartTick
  <2> QED BY <1>1, <2>1 DEF RegisterFile, AbstractRegs, LoadInFlight
<1>4. sysmem' = sysmem /\ Drained = sysmem /\ Drained' = Drained /\ TxAll' \in Departures(TxAll)
  <2>1. sysmem' = sysmem
    BY <1>1, MemoryStandsStill DEF HInv
  <2> QED BY <1>1, <2>1, ProgramFacts, IOMoves DEF Begun, Operating
<1>5. CASE Nowhere(Address)
  <2>1. ~LoadInFlight' /\ ~IllegalInFlight'
    BY <1>2, <1>5 DEF LoadInFlight, IllegalInFlight, Nowhere, ToSysmem, ToUart
  <2>2. AbstractPc' = AbstractPc
    BY <1>1, <2>1, PcFacts DEF AbstractPc, Ahead
  <2>3. AbstractRegs' = AbstractRegs
    BY <1>1, <1>3, <2>1 DEF AbstractRegs
  <2>4. Program!NoIO
    BY <1>1, <1>5, NoIOMoves DEF Nowhere
  <2>5. ~IllegalInFlight
    BY <1>1, NotInFlight
  <2> QED BY <1>1, <2>1, <2>2, <2>3, <2>4, <2>5 DEF Program!Quiet, NoFault, faultVars
<1>6. CASE ~Nowhere(Address)
  <2>1. i.opcode = "LOAD" /\ imm = i.imm /\ funct3 = i.funct3 /\ xrd1_reg = i.rs1 /\ xwr_reg = i.rd
    BY <1>1 DEF HInv, FieldsInv
  <2>2. /\ Program!Fetched = insn /\ Program!d = i /\ Program!EffectiveAddress = Address
        /\ Program!Next4 = pc /\ Program!Executing("LOAD")
    BY <1>1, <2>1, OperandFacts DEF Operating
  <2> HIDE DEF i
  <2>3. LoadInFlight' /\ (IllegalInFlight' <=> funct3 \notin LoadFunct)
    BY <1>1, <1>2, <1>6 DEF LoadInFlight, IllegalInFlight, Nowhere, ToSysmem, ToUart
  <2>4. Program!Goto(Program!Next4)
    BY <1>1, <2>2, <2>3 DEF Program!Goto, AbstractPc, Ahead
  <2> DEFINE given == IF ToUart(Address) THEN ByteAt(0, uc_payload')
                      ELSE ReadBytes(sysmem, Address, funct3 % 4)
  <2>5. Program!Put(i.rd, LoadValue(funct3, given))
    <3>1. InFlightValue' = LoadValue(funct3, given)
      BY <1>1, <1>2, <1>4 DEF InFlightValue, ToUart, ToSysmem, ByteAt, ReadBytes, LoadValue
    <3>2. AbstractRegs' = IF xwr_reg = 0 THEN xmem
                          ELSE [xmem EXCEPT ![xwr_reg] = InFlightValue']
      BY <1>1, <1>3, <2>3 DEF AbstractRegs
    <3> QED BY <1>3, <2>1, <3>1, <3>2 DEF Program!Put
  <2>6. IF funct3 \in LoadFunct THEN Program!Continue ELSE Program!Stop("ILLEGAL_INSTRUCTION", insn)
    <3>1. ~IllegalInFlight
      BY <1>1, NotInFlight
    <3> QED BY <1>1, <2>3, <3>1
            DEF Program!Continue, Program!Stop, Program!Fault, NoFault, faultVars
  <2>7. Program!LoadWith(given)
    BY <1>4, <2>1, <2>2, <2>4, <2>5, <2>6, ProgramArithmetic, ProgramSets DEF Program!LoadWith
  <2>8. CASE ToUart(Address)
    <3>1. given = ByteAt(0, IF RxLeft = <<>> THEN 0 ELSE Head(RxLeft))
      BY <1>1, <2>8, IOMoves
    <3>2. Program!RxLine(Program!Pop(RxLeft)) /\ Program!TxLine
      BY <1>1, <1>4, <2>8, IOMoves, ProgramLines
    <3> QED BY <2>2, <2>7, <2>8, <3>1, <3>2, ProgramMemory DEF Program!LoadUart, RxLeft
  <2>9. CASE ToSysmem(Address)
    <3>1. ~ToUart(Address)
      BY <2>9, ZeroToSysmem
    <3>2. given = ReadBytes(Drained, Address, i.funct3 % 4)
      BY <1>4, <2>1, <3>1
    <3>3. Program!Lines
      BY <1>1, <1>4, <3>1, IOMoves, ProgramLines DEF Program!Lines, RxLeft
    <3> QED BY <2>2, <2>7, <2>9, <3>2, <3>3, ProgramMemory DEF Program!LoadMemory
  <2> QED BY <1>6, <2>8, <2>9 DEF Nowhere
<1> QED BY <1>5, <1>6

\* The rest of a load.
LEMMA LoadEnds ==
  ASSUME HInv, Next, LoadWait(ReadWires) \/ LoadDone(ReadWires)
  PROVE  Program!Quiet
<1>1. h_state = "l.wait" /\ UNCHANGED <<pc, insn, funct3>>
  BY DEF LoadWait, LoadDone, Decoded, fieldVars
<1>2. Program!NoIO
  BY <1>1, NoIOMoves
<1>3. sysmem' = sysmem /\ xmem' = xmem /\ ~xwr_en
  <2>1. ~xwr_en /\ RegisterFile
    BY <1>1 DEF HInv, IInv, OperandsInv, Next, HartTick
  <2> QED BY <1>1, <2>1, MemoryStandsStill DEF HInv, RegisterFile
<1>4. CASE LoadWait(ReadWires)
  <2>1. h_state' = "l.wait" /\ ~ReadWires.valid /\ ~xwr_en' /\ xwr_reg' = xwr_reg /\ NoFault
    BY <1>1, <1>4 DEF LoadWait, NoRegWrite
  <2>2. Address' = Address
    BY <1>1, <2>1, AddressHolds DEF HInv, IInv, Next, Operating, Accessing
  <2>3. ~ToUart(Address)
    BY <1>1, <2>1, HartSees DEF HInv
  <2>4. /\ LoadInFlight' <=> LoadInFlight
        /\ IllegalInFlight' <=> IllegalInFlight
    BY <1>1, <2>1, <2>2 DEF LoadInFlight, IllegalInFlight, ToSysmem, ToUart
  <2>5. InFlightValue' = InFlightValue
    BY <1>1, <1>3, <2>2, <2>3 DEF InFlightValue, ToSysmem, ToUart, ReadBytes, LoadValue
  <2>6. AbstractRegs' = AbstractRegs
    BY <1>3, <2>1, <2>4, <2>5 DEF AbstractRegs
  <2>7. AbstractPc' = AbstractPc
    BY <1>1, <2>1, <2>4 DEF AbstractPc, Ahead
  <2> QED BY <1>1, <1>2, <2>1, <2>4, <2>6, <2>7 DEF Program!Quiet, NoFault, faultVars
<1>5. CASE LoadDone(ReadWires)
  <2>1. /\ ReadWires.valid
        /\ xwr_en' /\ xwr_reg' = xwr_reg /\ xwr_val' = LoadValue(funct3, ReadWires.lanes)
        /\ IF funct3 \in LoadFunct
             THEN h_state' = "fetch.init" /\ NoFault
             ELSE h_state' = "faulted" /\ FaultIllegal(insn)
    BY <1>5 DEF LoadDone, WriteValue, WriteReg, Goto
  <2>2. ~Nowhere(Address)
    BY <1>1, <2>1, HartSees DEF HInv
  <2>3. LoadInFlight /\ (IllegalInFlight <=> funct3 \notin LoadFunct)
    BY <1>1, <2>2 DEF LoadInFlight, IllegalInFlight, Nowhere
  <2>4. ReadWires.lanes = IF ToUart(Address) THEN ByteAt(0, uc_payload)
                          ELSE ReadBytes(sysmem, Address, funct3 % 4)
    BY <1>1, <2>1, <2>2, HartSees, ZeroToSysmem DEF HInv, Nowhere
  <2>5. InFlightValue = xwr_val'
    BY <2>1, <2>4 DEF InFlightValue
  <2>6. ~LoadInFlight' /\ ~IllegalInFlight'
    BY <2>1, NotInFlightNext
  <2>7. AbstractRegs' = AbstractRegs
    BY <1>3, <2>1, <2>3, <2>5, <2>6 DEF AbstractRegs
  <2>8. AbstractPc' = AbstractPc
    BY <1>1, <2>1, <2>3, <2>6 DEF AbstractPc, Ahead
  <2> QED BY <1>1, <1>2, <2>1, <2>3, <2>6, <2>7, <2>8
          DEF Program!Quiet, NoFault, faultVars, FaultIllegal
<1> QED BY <1>4, <1>5

LEMMA WaitsAreQuiet ==
  ASSUME HInv, Next, WaitForRegs \/ StoreWait(WriteWires) \/ Faulted
  PROVE  Program!Quiet
<1>1. ~xwr_en' /\ pc' = pc /\ NoFault
  BY DEF WaitForRegs, StoreWait, Faulted, NoRegWrite
<1>2. CASE WaitForRegs
  <2>1. h_state \in Waits /\ h_state' \in Operating
    BY <1>2, WaitDomain, WaitNext DEF WaitForRegs, Goto
  <2>2. AbstractPc' = AbstractPc
    BY <2>1, BegunStays DEF HInv, IInv, Next, Begun, Waits
  <2> QED BY <1>1, <2>1, <2>2, QuietStep DEF Waits, Operating
<1>3. CASE StoreWait(WriteWires)
  <2>1. h_state = "s.wait" /\ h_state' \in {"s.wait", "fetch.init"}
    BY <1>3 DEF StoreWait, Goto
  <2>2. AbstractPc' = AbstractPc
    BY <1>1, <2>1 DEF AbstractPc, Ahead
  <2> QED BY <1>1, <2>1, <2>2, QuietStep
<1>4. CASE Faulted
  <2>1. h_state = "faulted" /\ h_state' = "faulted"
    BY <1>4 DEF Faulted
  <2>2. AbstractPc' = AbstractPc
    BY <1>1, <2>1 DEF AbstractPc, Ahead
  <2> QED BY <1>1, <2>1, <2>2, QuietStep
<1> QED BY <1>2, <1>3, <1>4
-----------------------------------------------------------------------------
\* Every edge of the clock is one step of Isa.
LEMMA ProgramStep ==
  ASSUME HInv, Next
  PROVE  Program!Next
<1> USE DEF Program!Next
<1>1. CASE Fetch(ReadWires)
  BY <1>1, FetchImplements
<1>2. CASE Resolve
  BY <1>2, ResolveImplements
<1>3. CASE Execute(ReadWires, WriteWires)
  BY <1>3, WaitsAreQuiet, LoadImplements, LoadEnds, AluImplements, StoreImplements,
     BranchImplements, JalrImplements DEF Execute
<1>4. CASE Faulted
  BY <1>4, WaitsAreQuiet
<1> QED BY <1>1, <1>2, <1>3, <1>4 DEF Next, HartTick

LEMMA ProgramInit == Init => Program!Init
<1> SUFFICES ASSUME Init PROVE Program!Init
  OBVIOUS
<1>1. /\ h_state = "fetch.init" /\ pc = 0 /\ ~xwr_en
      /\ fault_code = "UNSET" /\ fault_insn = 0 /\ xmem \in [Reg -> Word] /\ xmem[0] = 0
  BY FirstRegsAssumption DEF Init, HartInit
<1>2. uc_rdready = FALSE /\ uc_wrvalid = FALSE /\ rx_fifo = <<>> /\ tx_fifo = <<>>
  BY DEF Init, MMUInit, UARTConnInit, StreamsInit
<1>3. AbstractPc = 0 /\ AbstractRegs = xmem /\ ~IllegalInFlight
  BY <1>1 DEF AbstractPc, Ahead, AbstractRegs, LoadInFlight, IllegalInFlight
<1>4. Drained \in [MemByte -> Byte]
  BY HInvInit, DrainedType DEF HInv, IInv, TypeOK, MMUTypeOK
<1> QED BY <1>1, <1>2, <1>3, <1>4, ProgramSets DEF Program!Init, Program!StreamsInit

LEMMA ProgramStutter == UNCHANGED vars => UNCHANGED Program!isaVars
BY DEF vars, hartVars, fieldVars, writePortVars, readRegs, faultVars, mmuVars, sysmemVars,
       mmuReadVars, mmuWriteVars, uartConnVars, streamVars, Program!isaVars, AbstractPc, Ahead,
       AbstractRegs, InFlightValue, IllegalInFlight, LoadInFlight, Address, Drained, NextWCell

\* The hart executes its program, whatever it is, whatever it stores over itself and
\* whatever the line does: edge by edge it is the machine of Isa, which executes an
\* instruction at once and reads what the ones before it left.
THEOREM RefinesIsa == Spec => ImplementsIsa
<1>1. HInv /\ [Next]_vars => [Program!Next]_(Program!isaVars)
  BY ProgramStep, ProgramStutter
<1>2. Init => Program!Init
  BY ProgramInit
<1> QED BY <1>1, <1>2, HInvInit, HInvStep, PTL DEF Spec, ImplementsIsa, Program!Spec
-----------------------------------------------------------------------------
(***************************************************************************)
(* The system under resets: HInv holds again after the edge of a reset     *)
(* because that edge puts all the machines back at once, whatever each was *)
(* doing.  For a program that edge is a restart, which loses at most the   *)
(* effect of the one instruction under way.                                *)
(*                                                                         *)
(* Then, with the record of TopHistory: a store cut short leaves its first *)
(* bytes (StoreInv says how many MMUWrite has written in each of its       *)
(* states), and a program with no return address stops when it returns.    *)
(***************************************************************************)

TopInv == HInv /\ rst \in BOOLEAN

LEMMA ResetType ==
  ASSUME TypeOK, Reset
  PROVE  TypeOK'
<1>1. HartTypeOK'
  <2>1. xmem' \in [Reg -> Word] /\ xrd1_val' \in Word /\ xrd2_val' \in Word
    BY DEF Reset, RegisterFile, TypeOK, HartTypeOK
  <2>2. /\ pc' \in Word /\ insn' \in Word /\ imm' \in Word /\ fault_insn' \in Word
        /\ xwr_val' \in Word /\ xwr_reg' \in Reg /\ xrd1_reg' \in Reg /\ xrd2_reg' \in Reg
    BY RV32Constants DEF Reset, ResetHart
  <2>3. h_state' \in HartState /\ fault_code' \in FaultCode /\ xwr_en' \in BOOLEAN
    BY DEF Reset, ResetHart, HartState, FaultCode
  <2>4. funct3' \in 0 .. 7 /\ funct7' \in 0 .. 127
    BY DEF Reset, ResetHart
  <2> QED BY <2>1, <2>2, <2>3, <2>4 DEF HartTypeOK
<1>2. 0 \in CellAddr /\ BYTE \in AccessWidth /\ 0 \in Word
  BY Constants, RV32Constants DEF CellAddr, AccessWidth, BYTE
<1>3. SysmemTypeOK'
  BY SysmemTickType DEF TypeOK, MMUTypeOK, MMUReadTypeOK, MMUWriteTypeOK, Reset
<1>4. MMUReadTypeOK'
  BY <1>2, Constants DEF Reset, ResetMMURead, MMUReadTypeOK, MMUReadState
<1>5. MMUWriteTypeOK'
  BY <1>2, Constants DEF Reset, ResetMMUWrite, MMUWriteTypeOK, MMUWriteState
<1>6. UARTConnTypeOK'
  BY Constants DEF Reset, ResetUART, UARTConnTypeOK
<1>7. StreamsTypeOK'
  BY FifoAssumption DEF Reset, ResetUART, StreamsTypeOK, IsQueue
<1> QED BY <1>1, <1>3, <1>4, <1>5, <1>6, <1>7 DEF TypeOK, MMUTypeOK

\* A reset leaves nothing under way: not in the registers of the hart, which are what
\* it waits for, and not in the machines, which are what it waits on.
LEMMA ResetStep ==
  ASSUME IInv, Reset
  PROVE  IInv'
<1>1. TypeOK'
  BY ResetType DEF IInv
<1>2. h_state' = "fetch.init" /\ pc' = 0 /\ ~xwr_en'
  BY DEF Reset, ResetHart
<1>3. mr_state' = "init" /\ uc_state' = "init" /\ mw_state' = "init" /\ wport_en' = {}
  BY DEF Reset, ResetMMURead, ResetMMUWrite, ResetUART
<1>4. PcAligned'
  BY <1>2 DEF PcAligned, Aligned
<1>5. OperandsInv'
  BY <1>2 DEF OperandsInv, Operating, Accessing
<1> QED BY <1>1, <1>2, <1>3, <1>4, <1>5 DEF IInv, ReadInv, WriteInv

LEMMA ResetHInv ==
  ASSUME HInv, Reset
  PROVE  HInv'
<1>1. IInv'
  BY ResetStep DEF HInv
<1>2. h_state' = "fetch.init" /\ uc_rdready' = FALSE
  BY DEF Reset, ResetHart, ResetUART
<1>3. FieldsInv'
  BY <1>2 DEF FieldsInv
<1>4. FetchedInv'
  BY <1>2 DEF FetchedInv, Begun, Waits, Operating
<1>5. AnswerInv'
  BY <1>2 DEF AnswerInv
<1> QED BY <1>1, <1>3, <1>4, <1>5 DEF HInv

LEMMA TopInvInit == TopInit => TopInv
BY HInvInit DEF TopInit, TopInv

LEMMA TopInvStep == TopInv /\ [TopNext]_topVars => TopInv'
<1> SUFFICES ASSUME TopInv, [TopNext]_topVars PROVE TopInv'
  OBVIOUS
<1>1. CASE TopNext
  <2>1. rst' \in BOOLEAN
    BY <1>1, ButtonAssumption DEF TopNext
  <2>2. HInv'
    BY <1>1, ResetHInv, HInvStep DEF TopInv, TopNext
  <2> QED BY <2>1, <2>2 DEF TopInv
<1>2. CASE UNCHANGED topVars
  <2>1. UNCHANGED vars /\ UNCHANGED rst
    BY <1>2 DEF topVars
  <2>2. HInv'
    BY <2>1, HInvStep DEF TopInv
  <2> QED BY <2>1, <2>2 DEF TopInv
<1> QED BY <1>1, <1>2

LEMMA TopInvariance == TopSpec => []TopInv
BY TopInvInit, TopInvStep, PTL DEF TopSpec

\* Every register and memory keeps to its type through any resets.
THEOREM TopTypeCorrect == TopSpec => []TopTypeOK
<1>1. TopInv => TopTypeOK
  BY DEF TopInv, HInv, IInv, TopTypeOK
<1> QED BY <1>1, TopInvariance, PTL

\* No request is lost on a machine that is busy, wherever the button's reset has cut
\* the hart's accesses short.
THEOREM NoRequestIsLostByReset == TopSpec => []RequestsMeetIdleBus
<1>1. TopInv => RequestsMeetIdleBus
  BY HartReadFacts, HartWriteFacts
  DEF TopInv, HInv, IInv, ReadInv, WriteInv, RequestsMeetIdleBus
<1> QED BY <1>1, TopInvariance, PTL

\* A store that a reset cuts short does not go on after it, nor does any other meet the
\* program's next instruction.
THEOREM WritesAreSettledByReset == TopSpec => []WriteSettled
<1>1. TopInv => WriteSettled
  BY DEF TopInv, HInv, IInv, WriteInv, WriteSettled
<1> QED BY <1>1, TopInvariance, PTL
-----------------------------------------------------------------------------
(* The refinement of Isa with its restarts. *)

\* What MMUWrite has still to write is in the two cells after the one at its port.
LEMMA DrainedElsewhere ==
  ASSUME SysmemTypeOK, MMUWriteTypeOK,
         NEW i \in MemByte, i \div 2 # NextWCell, i \div 2 # (NextWCell + 1) % Span
  PROVE  Drained[i] = Written(sysmem, wport_addr, wport_data, wport_en)[i]
<1>1. \A m, data, en : /\ Written(m, NextWCell, data, en)[i] = m[i]
                       /\ Written(m, (NextWCell + 1) % Span, data, en)[i] = m[i]
  BY DEF Written
<1>2. (wport_addr + 2) % Span = (NextWCell + 1) % Span
  BY NextCells DEF MMUWriteTypeOK, CellAddr, NextWCell
<1> QED BY <1>1, <1>2 DEF Drained, MMUWriteTypeOK, MMUWriteState

\* Four bytes from an address are those two cells.
LEMMA CellAddress ==
  ASSUME NEW h \in CellAddr
  PROVE  2 * h \in Word /\ (2 * h) % 2 = 0 /\ CellOfAddr(2 * h) = h
<1>1. Span \in Nat /\ Span > 1 /\ h \in 0 .. Span - 1
  BY DepthAssumption DEF CellAddr
<1>2. WordSize \div 2 \in Nat \ {0} /\ WordSize \div 2 <= WordSize /\ WordSize \in Nat
  BY Sizes
<1>3. 2 * Span <= WordSize \div 2
  <2> DEFINE w == WordSize \div 2
             n == 2 * Span
  <2>1. w \in Nat \ {0} /\ n \in Nat \ {0} /\ (w % n) = 0
    BY <1>1, <1>2, AddressAssumption
  <2> HIDE DEF w, n
  <2>2. w < n => (w % n) = w
    BY <2>1
  <2>3. n <= w
    BY <2>1, <2>2
  <2> QED BY <2>3 DEF w, n
<1>4. 2 * h \in Word
  BY <1>1, <1>2, <1>3 DEF Word
<1>5. (2 * h) \div 2 = h /\ (2 * h) % 2 = 0
  BY <1>1
<1>6. (h % Span) = h
  BY <1>1
<1> QED BY <1>4, <1>5, <1>6 DEF CellOfAddr

\* A reset cuts short at most one store: what that had still to write is lost.
LEMMA ResetMemory ==
  ASSUME TypeOK, Reset
  PROVE  /\ Drained' \in [MemByte -> Byte]
         /\ \E addr \in Word : \A i \in MemByte :
              LaneOf(addr, i) >= Size(WORD) => Drained'[i] = Drained[i]
<1>1. SysmemTypeOK /\ MMUWriteTypeOK /\ TypeOK'
  BY ResetType DEF TypeOK, MMUTypeOK
<1>2. SysmemTypeOK' /\ MMUWriteTypeOK'
  BY <1>1 DEF TypeOK, MMUTypeOK
<1>3. Drained' = Written(sysmem, wport_addr, wport_data, wport_en)
  <2>1. mw_state' = "init" /\ wport_en' = {} /\ sysmem' \in [MemByte -> Byte]
    BY <1>2 DEF Reset, ResetMMUWrite, SysmemTypeOK
  <2>2. Drained' = sysmem'
    BY <2>1, WritesNothing DEF Drained
  <2> QED BY <2>2 DEF Reset, SysmemTick
<1>4. Drained' \in [MemByte -> Byte]
  <2>1. sysmem' = Written(sysmem, wport_addr, wport_data, wport_en)
    BY DEF Reset, SysmemTick
  <2> QED BY <1>2, <1>3, <2>1 DEF SysmemTypeOK
<1>5. NextWCell \in CellAddr
  BY <1>1, DepthAssumption DEF NextWCell, CellAddr, MMUWriteTypeOK
<1> DEFINE addr == 2 * NextWCell
<1>6. addr \in Word /\ (addr % 2) = 0 /\ CellOfAddr(addr) = NextWCell
  BY <1>5, CellAddress
<1> HIDE DEF addr
<1>7. ASSUME NEW i \in MemByte, LaneOf(addr, i) >= Size(WORD)
      PROVE  Drained'[i] = Drained[i]
  <2>1. LaneOf(addr, i) # 0 /\ LaneOf(addr, i) # 1 /\ LaneOf(addr, i) # 2 /\ LaneOf(addr, i) # 3
    BY <1>7, SizeValues
  <2>2. i \div 2 # NextWCell /\ i \div 2 # (NextWCell + 1) % Span
    BY <1>6, <2>1, LaneCells
  <2> QED BY <1>1, <1>3, <2>2, DrainedElsewhere
<1> QED BY <1>4, <1>6, <1>7

\* What the write port held is written, and a load in flight is lost.
LEMMA ResetRegs ==
  ASSUME IInv, Reset
  PROVE  /\ AbstractRegs' \in [Reg -> Word]
         /\ \E rd \in Reg : \A r \in Reg \ {rd} : AbstractRegs'[r] = AbstractRegs[r]
<1>1. h_state' = "fetch.init" /\ ~xwr_en' /\ TypeOK'
  BY ResetType DEF Reset, ResetHart, IInv
<1>2. AbstractRegs' = xmem' /\ xmem' \in [Reg -> Word]
  BY <1>1, NotInFlightNext DEF AbstractRegs, TypeOK, HartTypeOK
<1>3. xwr_reg \in Reg /\ xmem \in [Reg -> Word]
  BY DEF IInv, TypeOK, HartTypeOK
<1>4. ASSUME NEW r \in Reg \ {xwr_reg}
      PROVE  AbstractRegs'[r] = AbstractRegs[r]
  <2>1. xmem'[r] = xmem[r]
    BY <1>3, <1>4 DEF Reset, RegisterFile
  <2>2. AbstractRegs[r] = xmem[r]
    BY <1>3, <1>4 DEF AbstractRegs
  <2> QED BY <1>2, <2>1, <2>2
<1> QED BY <1>2, <1>3, <1>4

\* Whatever the hart was doing, a reset is a restart of the machine of Isa.
LEMMA ResetRestarts ==
  ASSUME HInv, Reset
  PROVE  Program!Restart
<1>1. IInv /\ TypeOK /\ h_state' = "fetch.init"
  BY DEF HInv, IInv, Reset, ResetHart
<1>2. ~IllegalInFlight' /\ AbstractPc' = pc'
  BY <1>1, NotInFlightNext DEF AbstractPc, Ahead, LoadInFlight
<1>3. /\ pc' = 0 /\ fault_code' = "UNSET" /\ fault_insn' = 0
      /\ rx_fifo' = <<>> /\ tx_fifo' = <<>> /\ uc_rdready' = FALSE /\ uc_wrvalid' = FALSE
  BY DEF Reset, ResetHart, ResetUART
<1>4. \A a, i : Program!LaneOf(a, i) = LaneOf(a, i)
  BY DEF Program!LaneOf, LaneOf
<1>5. Program!Size(Program!WORD) = Size(WORD)
  BY ProgramSets DEF Program!Size, Size
<1>6. /\ AbstractRegs' \in [Program!Reg -> Program!Word]
      /\ \E rd \in Program!Reg : \A r \in Program!Reg \ {rd} : AbstractRegs'[r] = AbstractRegs[r]
  BY <1>1, ResetRegs, ProgramSets
<1>7. /\ Drained' \in [Program!MemByte -> Program!Byte]
      /\ \E addr \in Program!Word : \A i \in Program!MemByte :
           Program!LaneOf(addr, i) >= Program!Size(Program!WORD) => Drained'[i] = Drained[i]
  BY <1>1, <1>4, <1>5, ResetMemory, ProgramSets
<1> QED BY <1>1, <1>2, <1>3, <1>6, <1>7 DEF Program!Restart

\* Under any resets the hart executes its program and restarts it: a reset costs the
\* program at most the instruction it cuts short, in one register or in four bytes.
THEOREM RefinesIsaWithRestarts == TopSpec => ImplementsIsaWithRestarts
<1>1. TopInit => TopInv /\ Program!Init
  BY HInvInit, ProgramInit DEF TopInit, TopInv
<1>2. TopInv /\ [TopNext]_topVars => [Program!Next \/ Program!Restart]_(Program!isaVars)
  <2> SUFFICES ASSUME TopInv, [TopNext]_topVars
               PROVE  [Program!Next \/ Program!Restart]_(Program!isaVars)
    OBVIOUS
  <2>1. CASE TopNext
    BY <2>1, ResetRestarts, ProgramStep DEF TopInv, TopNext
  <2>2. CASE UNCHANGED topVars
    <3>1. UNCHANGED vars
      BY <2>2 DEF topVars
    <3> QED BY <3>1, ProgramStutter
  <2> QED BY <2>1, <2>2
<1> QED BY <1>1, <1>2, TopInvStep, PTL
        DEF TopSpec, ImplementsIsaWithRestarts, Program!RestartSpec
-----------------------------------------------------------------------------
(* The last store. *)

StoreTypeOK ==
  /\ before \in [MemByte -> Byte]
  /\ store \in [addr : Word, width : AccessWidth, data : Lanes]

\* What memory is after the next edge.
PortMemory == Written(sysmem, wport_addr, wport_data, wport_en)

\* How far the last store is, in each state of MMUWrite.
StoreInv ==
  LET cell == CellOfAddr(store.addr)
      Until(state, width, half, n) ==
        mw_state = state =>
          store.width = width /\ store.addr % 2 = half /\ PortMemory = StoredUpTo(n)
  IN /\ StoreIsPrefix
     /\ \E n \in 0 .. Size(store.width) : PortMemory = StoredUpTo(n)
     /\ Until("half.unaligned", HALF, 1, 1)
     /\ Until("word", WORD, 0, 2)
     /\ Until("word.unaligned", WORD, 1, 1)
     /\ Until("word.unaligned.fish", WORD, 1, 3)
     /\ mw_state \in {"half.unaligned", "word", "word.unaligned"} => wport_addr = cell
     /\ mw_state = "word.unaligned.fish" => wport_addr = (cell + 1) % Span
     /\ mw_state = "half.unaligned" => wport_data[0] = store.data[1]
     /\ mw_state \in {"word", "word.unaligned", "word.unaligned.fish"} =>
          mw_payload = store.data

\* Each write of a cell that MMUWrite makes of a store puts its next bytes in place.
LEMMA CellsUpTo ==
  ASSUME NEW mem \in [MemByte -> Byte], NEW addr \in Word, NEW data \in Lanes, NEW cell
  PROVE  LET h == CellOfAddr(addr)
             g == (h + 1) % Span
             k == (h + 2) % Span
             P(n) == UpTo(mem, addr, data, n)
         IN /\ P(0) = mem
            /\ addr % 2 = 0 =>
                 /\ cell[0] = data[0] => Written(mem, h, cell, {0}) = P(1)
                 /\ cell[0] = data[0] /\ cell[1] = data[1] => Written(mem, h, cell, {0, 1}) = P(2)
                 /\ cell[0] = data[2] /\ cell[1] = data[3] =>
                      Written(P(2), g, cell, {0, 1}) = P(4)
            /\ addr % 2 = 1 =>
                 /\ cell[1] = data[0] => Written(mem, h, cell, {1}) = P(1)
                 /\ cell[0] = data[1] => Written(P(1), g, cell, {0}) = P(2)
                 /\ cell[0] = data[1] /\ cell[1] = data[2] =>
                      Written(P(1), g, cell, {0, 1}) = P(3)
                 /\ cell[0] = data[3] => Written(P(3), k, cell, {0}) = P(4)
<1> DEFINE h == CellOfAddr(addr)
           g == (h + 1) % Span
           k == (h + 2) % Span
           l(i) == LaneOf(addr, i)
           At(i, c, half) == i \div 2 = c /\ i % 2 = half
           P(n) == UpTo(mem, addr, data, n)
<1>1. h # g /\ g # k
  BY AddressParts, NextCells, DepthAssumption
<1>2. \A i \in MemByte :
        /\ l(i) \in Nat /\ i % 2 \in {0, 1}
        /\ addr % 2 = 0 =>
             /\ l(i) = 0 <=> At(i, h, 0)
             /\ l(i) = 1 <=> At(i, h, 1)
             /\ l(i) = 2 <=> At(i, g, 0)
             /\ l(i) = 3 <=> At(i, g, 1)
        /\ addr % 2 = 1 =>
             /\ l(i) = 0 <=> At(i, h, 1)
             /\ l(i) = 1 <=> At(i, g, 0)
             /\ l(i) = 2 <=> At(i, g, 1)
             /\ l(i) = 3 <=> At(i, k, 0)
  BY LaneCells
<1>3. \A i \in MemByte : /\ ~(l(i) < 0)
                         /\ l(i) < 1 <=> l(i) = 0
                         /\ l(i) < 2 <=> l(i) \in {0, 1}
                         /\ l(i) < 3 <=> l(i) \in {0, 1, 2}
                         /\ l(i) < 4 <=> l(i) \in {0, 1, 2, 3}
  BY <1>2
<1>4. \A n : P(n) = [i \in MemByte |-> IF l(i) < n THEN data[l(i)] ELSE mem[i]]
  BY DEF UpTo
<1> HIDE DEF h, g, k, l, P
<1>5. P(0) = mem
  BY <1>3, <1>4
<1>6. ASSUME addr % 2 = 0
      PROVE  /\ cell[0] = data[0] => Written(mem, h, cell, {0}) = P(1)
             /\ cell[0] = data[0] /\ cell[1] = data[1] => Written(mem, h, cell, {0, 1}) = P(2)
             /\ cell[0] = data[2] /\ cell[1] = data[3] => Written(P(2), g, cell, {0, 1}) = P(4)
  <2>1. cell[0] = data[0] => Written(mem, h, cell, {0}) = P(1)
    BY <1>2, <1>3, <1>4, <1>6 DEF Written
  <2>2. cell[0] = data[0] /\ cell[1] = data[1] => Written(mem, h, cell, {0, 1}) = P(2)
    BY <1>2, <1>3, <1>4, <1>6 DEF Written
  <2>3. cell[0] = data[2] /\ cell[1] = data[3] => Written(P(2), g, cell, {0, 1}) = P(4)
    BY <1>1, <1>2, <1>3, <1>4, <1>6 DEF Written
  <2> QED BY <2>1, <2>2, <2>3
<1>7. ASSUME addr % 2 = 1
      PROVE  /\ cell[1] = data[0] => Written(mem, h, cell, {1}) = P(1)
             /\ cell[0] = data[1] => Written(P(1), g, cell, {0}) = P(2)
             /\ cell[0] = data[1] /\ cell[1] = data[2] => Written(P(1), g, cell, {0, 1}) = P(3)
             /\ cell[0] = data[3] => Written(P(3), k, cell, {0}) = P(4)
  <2>1. cell[1] = data[0] => Written(mem, h, cell, {1}) = P(1)
    BY <1>2, <1>3, <1>4, <1>7 DEF Written
  <2>2. cell[0] = data[1] => Written(P(1), g, cell, {0}) = P(2)
    BY <1>1, <1>2, <1>3, <1>4, <1>7 DEF Written
  <2>3. cell[0] = data[1] /\ cell[1] = data[2] => Written(P(1), g, cell, {0, 1}) = P(3)
    BY <1>1, <1>2, <1>3, <1>4, <1>7 DEF Written
  <2>4. cell[0] = data[3] => Written(P(3), k, cell, {0}) = P(4)
    BY <1>1, <1>2, <1>3, <1>4, <1>7 DEF Written
  <2> QED BY <2>1, <2>2, <2>3, <2>4
<1> QED BY <1>5, <1>6, <1>7 DEF h, g, k, P

\* Every edge of MMUWrite takes the store further, or takes up another.
LEMMA StorePaces ==
  ASSUME SysmemTypeOK, MMUWriteTypeOK, StoreTypeOK, StoreInv,
         NEW req \in WriteReq, MMUWriteTick(req), sysmem' = PortMemory,
         mw_state = "init" /\ req.valid =>
           before' = Drained /\ store' = [addr |-> req.addr, width |-> req.width, data |-> req.data],
         ~(mw_state = "init" /\ req.valid) => before' = before /\ store' = store
  PROVE  StoreTypeOK' /\ StoreInv'
<1> USE DEF MMUWriteTypeOK
<1> DEFINE now == PortMemory
           h == CellOfAddr(req.addr)
           g == CellOfAddr(store.addr)
           P(n) == UpTo(before, store.addr, store.data, n)
           Q(n) == UpTo(before', store'.addr, store'.data, n)
           End == Size(store.width)
           End1 == Size(store'.width)
<1>1. now \in [MemByte -> Byte]
  BY WrittenType DEF SysmemTypeOK, PortMemory
<1>2. req.addr \in Word /\ req.data \in Lanes /\ req.width \in AccessWidth
  BY DEF WriteReq
<1>3. mw_state = "init" => Drained = now
  BY DEF Drained, PortMemory
<1>4. StoreTypeOK'
  BY <1>1, <1>2, <1>3 DEF StoreTypeOK
<1>5. before \in [MemByte -> Byte] /\ store.addr \in Word /\ store.data \in Lanes
  BY DEF StoreTypeOK
<1>6. \A n : StoredUpTo(n) = P(n) /\ StoredUpTo(n)' = Q(n)
  BY DEF StoredUpTo
<1>7. \A addr, data, en : Port(addr, data, en) => PortMemory' = Written(now, addr, data, en)
  BY DEF Port, PortMemory
<1>8. End \in {1, 2, 4} /\ End1 \in {1, 2, 4}
  BY <1>4, SizeValues DEF StoreTypeOK, AccessWidth
\* It suffices that the store is where the next state of MMUWrite has it.
<1>9. ASSUME mw_state' = "init", NEW m \in 0 .. End1, NEW n \in 0 .. End1,
             now = Q(m), PortMemory' = Q(n)
      PROVE  StoreInv'
  BY <1>6, <1>9 DEF StoreInv, StoreIsPrefix
<1>10. ASSUME mw_state = "init", req.valid
      PROVE  /\ before' = now /\ store' = [addr |-> req.addr, width |-> req.width, data |-> req.data]
             /\ \A n : Q(n) = UpTo(now, req.addr, req.data, n)
             /\ now = Q(0) /\ End1 = Size(req.width)
  <2>1. /\ before' = now
        /\ store' = [addr |-> req.addr, width |-> req.width, data |-> req.data]
    BY <1>3, <1>10
  <2>2. UpTo(now, req.addr, req.data, 0) = now
    BY <1>1, <1>2, CellsUpTo
  <2> QED BY <2>1, <2>2
<1>11. ASSUME ~(mw_state = "init" /\ req.valid)
      PROVE  store' = store /\ before' = before /\ \A n : Q(n) = P(n)
  BY <1>11
<1> HIDE DEF now, P, Q, End, End1, h, g
<1> SUFFICES StoreInv'
  BY <1>4
<1>12. CASE MWIdle(req)
  <2>1. mw_state' = "init" /\ mw_state = "init" /\ PortMemory' = now
    BY <1>1, <1>12, WritesNothing DEF MWIdle, Finish, PortMemory, now
  <2>2. CASE req.valid
    BY <1>8, <1>9, <1>10, <2>1, <2>2
  <2>3. CASE ~req.valid
    <3>1. PICK n \in 0 .. End : now = P(n)
      BY <1>6 DEF StoreInv, now, End
    <3>2. now = Q(n) /\ End1 = End
      BY <1>11, <2>3, <3>1 DEF End, End1
    <3> QED BY <1>9, <2>1, <3>1, <3>2
  <2> QED BY <2>2, <2>3
<1>13. CASE MWByte(req)
  <2>1. mw_state = "init" /\ req.valid /\ req.width = BYTE /\ mw_state' = "init"
    BY <1>13 DEF MWByte, Accepts, Finish
  <2>2. PortMemory' = Written(now, h, CellOf(req.data, 0, 0), {req.addr % 2})
    BY <1>7, <1>13 DEF MWByte, h
  <2>3. CellOf(req.data, 0, 0)[0] = req.data[0] /\ CellOf(req.data, 0, 0)[1] = req.data[0]
    BY DEF CellOf
  <2>4. req.addr % 2 \in {0, 1}
    BY <1>2, AddressParts
  <2>5. PortMemory' = UpTo(now, req.addr, req.data, 1)
    <3>1. PICK cell : cell = CellOf(req.data, 0, 0)
      OBVIOUS
    <3>2. /\ req.addr % 2 = 0 /\ cell[0] = req.data[0] =>
               Written(now, h, cell, {0}) = UpTo(now, req.addr, req.data, 1)
          /\ req.addr % 2 = 1 /\ cell[1] = req.data[0] =>
               Written(now, h, cell, {1}) = UpTo(now, req.addr, req.data, 1)
      BY <1>1, <1>2, CellsUpTo DEF h
    <3> QED BY <2>2, <2>3, <2>4, <3>1, <3>2
  <2> QED BY <1>8, <1>9, <1>10, <2>1, <2>5, SizeValues
<1>14. CASE MWHalf(req)
  <2>1. mw_state = "init" /\ req.valid /\ req.width = HALF /\ mw_state' = "init"
    BY <1>14 DEF MWHalf, Accepts, Finish
  <2>2. PortMemory' = Written(now, h, CellOf(req.data, 0, 1), {0, 1}) /\ req.addr % 2 = 0
    BY <1>7, <1>14 DEF MWHalf, h
  <2>3. CellOf(req.data, 0, 1)[0] = req.data[0] /\ CellOf(req.data, 0, 1)[1] = req.data[1]
    BY DEF CellOf
  <2>4. PortMemory' = UpTo(now, req.addr, req.data, 2)
    BY <1>1, <1>2, <2>2, <2>3, CellsUpTo DEF h
  <2> QED BY <1>8, <1>9, <1>10, <2>1, <2>4, SizeValues
<1>15. CASE MWHalfUnaligned(req)
  <2>1. mw_state = "init" /\ req.valid /\ req.width = HALF /\ mw_state' = "half.unaligned"
    BY <1>15 DEF MWHalfUnaligned, Accepts, Continue
  <2>2. /\ PortMemory' = Written(now, h, CellOf(req.data, 1, 0), {1}) /\ req.addr % 2 = 1
        /\ wport_addr' = h /\ wport_data' = CellOf(req.data, 1, 0)
    BY <1>7, <1>15 DEF MWHalfUnaligned, Port, h
  <2>3. CellOf(req.data, 1, 0)[0] = req.data[1] /\ CellOf(req.data, 1, 0)[1] = req.data[0]
    BY DEF CellOf
  <2>4. PortMemory' = UpTo(now, req.addr, req.data, 1)
    BY <1>1, <1>2, <2>2, <2>3, CellsUpTo DEF h
  <2>5. 0 \in 0 .. End1 /\ 1 \in 0 .. End1
    BY <1>8
  <2> QED BY <1>6, <1>10, <2>1, <2>2, <2>3, <2>4, <2>5 DEF StoreInv, StoreIsPrefix, h, now, End1
<1>16. CASE MWWord(req)
  <2>1. /\ mw_state = "init" /\ req.valid /\ req.width = WORD /\ mw_state' = "word"
        /\ mw_payload' = req.data
    BY <1>16 DEF MWWord, Accepts, Continue
  <2>2. /\ PortMemory' = Written(now, h, CellOf(req.data, 0, 1), {0, 1}) /\ req.addr % 2 = 0
        /\ wport_addr' = h
    BY <1>7, <1>16 DEF MWWord, Port, h
  <2>3. CellOf(req.data, 0, 1)[0] = req.data[0] /\ CellOf(req.data, 0, 1)[1] = req.data[1]
    BY DEF CellOf
  <2>4. PortMemory' = UpTo(now, req.addr, req.data, 2)
    BY <1>1, <1>2, <2>2, <2>3, CellsUpTo DEF h
  <2>5. 0 \in 0 .. End1 /\ 2 \in 0 .. End1
    BY <1>8, <1>10, <2>1, SizeValues
  <2> QED BY <1>6, <1>10, <2>1, <2>2, <2>4, <2>5 DEF StoreInv, StoreIsPrefix, h, now, End1
<1>17. CASE MWWordUnaligned(req)
  <2>1. /\ mw_state = "init" /\ req.valid /\ req.width = WORD /\ mw_state' = "word.unaligned"
        /\ mw_payload' = req.data
    BY <1>17 DEF MWWordUnaligned, Accepts, Continue
  <2>2. PICK cell : /\ cell = [ZeroCell EXCEPT ![1] = req.data[0]]
                    /\ PortMemory' = Written(now, h, cell, {1})
                    /\ req.addr % 2 = 1 /\ wport_addr' = h
    BY <1>7, <1>17 DEF MWWordUnaligned, Port, h
  <2>3. cell[1] = req.data[0]
    BY <2>2 DEF ZeroCell
  <2>4. PortMemory' = UpTo(now, req.addr, req.data, 1)
    <3>1. req.addr % 2 = 1 /\ cell[1] = req.data[0] =>
            Written(now, h, cell, {1}) = UpTo(now, req.addr, req.data, 1)
      BY <1>1, <1>2, CellsUpTo DEF h
    <3> QED BY <2>2, <2>3, <3>1
  <2>5. 0 \in 0 .. End1 /\ 1 \in 0 .. End1
    BY <1>8
  <2> QED BY <1>6, <1>10, <2>1, <2>2, <2>4, <2>5 DEF StoreInv, StoreIsPrefix, h, now, End1
<1>18. CASE MWHalfUnalignedRest
  <2>1. mw_state = "half.unaligned" /\ mw_state' = "init"
    BY <1>18 DEF MWHalfUnalignedRest, Finish
  <2>2. /\ store.width = HALF /\ store.addr % 2 = 1 /\ now = P(1)
        /\ wport_addr = g /\ wport_data[0] = store.data[1]
    BY <1>6, <2>1 DEF StoreInv, g, now
  <2>3. PortMemory' = Written(P(1), (g + 1) % Span, wport_data, {0})
    BY <1>7, <1>18, <2>2 DEF MWHalfUnalignedRest, NextWCell
  <2>4. PortMemory' = P(2)
    BY <1>5, <2>2, <2>3, CellsUpTo DEF g, P
  <2>5. End1 = 2 /\ now = Q(1) /\ PortMemory' = Q(2)
    BY <1>11, <2>1, <2>2, <2>4, SizeValues DEF End1
  <2> QED BY <1>9, <2>1, <2>5
<1>19. CASE MWWordRest
  <2>1. mw_state = "word" /\ mw_state' = "init"
    BY <1>19 DEF MWWordRest, Finish
  <2>2. /\ store.width = WORD /\ store.addr % 2 = 0 /\ now = P(2)
        /\ wport_addr = g /\ mw_payload = store.data
    BY <1>6, <2>1 DEF StoreInv, g, now
  <2>3. PortMemory' = Written(P(2), (g + 1) % Span, CellOf(store.data, 2, 3), {0, 1})
    BY <1>7, <1>19, <2>2 DEF MWWordRest, NextWCell
  <2>4. CellOf(store.data, 2, 3)[0] = store.data[2] /\ CellOf(store.data, 2, 3)[1] = store.data[3]
    BY DEF CellOf
  <2>5. PortMemory' = P(4)
    BY <1>5, <2>2, <2>3, <2>4, CellsUpTo DEF g, P
  <2>6. End1 = 4 /\ now = Q(2) /\ PortMemory' = Q(4)
    BY <1>11, <2>1, <2>2, <2>5, SizeValues DEF End1
  <2> QED BY <1>9, <2>1, <2>6
<1>20. CASE MWWordUnalignedMiddle
  <2>1. mw_state = "word.unaligned" /\ mw_state' = "word.unaligned.fish"
    BY <1>20 DEF MWWordUnalignedMiddle
  <2>2. /\ store.width = WORD /\ store.addr % 2 = 1 /\ now = P(1)
        /\ wport_addr = g /\ mw_payload = store.data
    BY <1>6, <2>1 DEF StoreInv, g, now
  <2>3. /\ PortMemory' = Written(P(1), (g + 1) % Span, CellOf(store.data, 1, 2), {0, 1})
        /\ wport_addr' = (g + 1) % Span /\ mw_payload' = store.data
    BY <1>7, <1>20, <2>2 DEF MWWordUnalignedMiddle, NextWCell, Port
  <2>4. CellOf(store.data, 1, 2)[0] = store.data[1] /\ CellOf(store.data, 1, 2)[1] = store.data[2]
    BY DEF CellOf
  <2>5. PortMemory' = P(3)
    BY <1>5, <2>2, <2>3, <2>4, CellsUpTo DEF g, P
  <2>6. End1 = 4 /\ now = Q(1) /\ PortMemory' = Q(3) /\ store' = store
    BY <1>11, <2>1, <2>2, <2>5, SizeValues DEF End1
  <2>7. 1 \in 0 .. End1 /\ 3 \in 0 .. End1
    BY <2>6
  <2> QED BY <1>6, <2>1, <2>2, <2>3, <2>6, <2>7 DEF StoreInv, StoreIsPrefix, g, now, End1
<1>21. CASE MWWordUnalignedFish
  <2>1. mw_state = "word.unaligned.fish" /\ mw_state' = "init"
    BY <1>21 DEF MWWordUnalignedFish, Finish
  <2>2. /\ store.width = WORD /\ store.addr % 2 = 1 /\ now = P(3)
        /\ wport_addr = (g + 1) % Span /\ mw_payload = store.data
    BY <1>6, <2>1 DEF StoreInv, g, now
  <2>3. NextWCell = (g + 2) % Span
    BY <1>5, <2>2, AddressParts, NextCells DEF NextWCell, g
  <2>4. PICK cell : /\ cell = [ZeroCell EXCEPT ![0] = store.data[3]]
                    /\ PortMemory' = Written(P(3), (g + 2) % Span, cell, {0})
    BY <1>7, <1>21, <2>2, <2>3 DEF MWWordUnalignedFish
  <2>5. cell[0] = store.data[3]
    BY <2>4 DEF ZeroCell
  <2>6. PortMemory' = P(4)
    <3>1. store.addr % 2 = 1 /\ cell[0] = store.data[3] =>
            Written(P(3), (g + 2) % Span, cell, {0}) = P(4)
      BY <1>5, CellsUpTo DEF g, P
    <3> QED BY <2>2, <2>4, <2>5, <3>1
  <2>7. End1 = 4 /\ now = Q(3) /\ PortMemory' = Q(4)
    BY <1>11, <2>1, <2>2, <2>6, SizeValues DEF End1
  <2> QED BY <1>9, <2>1, <2>7
<1> QED BY <1>12, <1>13, <1>14, <1>15, <1>16, <1>17, <1>18, <1>19, <1>20, <1>21
        DEF MMUWriteTick

LEMMA StoreInit ==
  ASSUME TopHistoryInit, TypeOK
  PROVE  StoreTypeOK /\ StoreInv
<1>1. /\ mw_state = "init" /\ wport_en = {} /\ before = sysmem
      /\ store = [addr |-> 0, width |-> BYTE, data |-> ByteAt(0, sysmem[0])]
  BY DEF TopHistoryInit, TopInit, Init, MMUInit, MMUWriteInit
<1>2. sysmem \in [MemByte -> Byte] /\ SysmemTypeOK
  BY DEF TypeOK, MMUTypeOK, SysmemTypeOK
<1>3. sysmem[0] \in Byte
  BY <1>2, DepthAssumption DEF MemByte
<1>4. StoreTypeOK
  <2>1. ByteAt(0, sysmem[0]) \in Lanes
    BY <1>3, Constants DEF ByteAt, Lanes, Lane
  <2>2. 0 \in Word /\ BYTE \in AccessWidth
    BY RV32Constants DEF BYTE, AccessWidth
  <2> QED BY <1>1, <1>2, <2>1, <2>2 DEF StoreTypeOK
<1>5. StoredUpTo(0) = sysmem
  <2>1. UpTo(before, store.addr, store.data, 0) = before
    BY <1>4, CellsUpTo DEF StoreTypeOK
  <2> QED BY <1>1, <2>1 DEF StoredUpTo
<1>6. PortMemory = sysmem
  BY <1>1, <1>2, WritesNothing DEF PortMemory
<1>7. 0 \in 0 .. Size(store.width)
  BY <1>1, SizeValues
<1> QED BY <1>1, <1>4, <1>5, <1>6, <1>7 DEF StoreInv, StoreIsPrefix

LEMMA StoreStep ==
  ASSUME IInv, StoreTypeOK, StoreInv, Next, ~rst, Recorded
  PROVE  StoreTypeOK' /\ StoreInv'
<1> DEFINE req == Routed(ToSysmem(HartWrite.addr), HartWrite, NoWrite)
<1>1. SysmemTypeOK /\ MMUWriteTypeOK /\ TypeOK
  BY DEF IInv, TypeOK, MMUTypeOK
<1>2. MMUWriteTick(req) /\ sysmem' = PortMemory
  BY DEF Next, MMUTick, SysmemTick, PortMemory
<1>3. req \in WriteReq
  <2>1. ToSysmem(HartWrite.addr) \in BOOLEAN
    BY DEF ToSysmem
  <2> QED BY <1>1, <2>1, RoutesType
<1>4. /\ req.valid <=> HartWrite.valid /\ ToSysmem(HartWrite.addr)
      /\ req.valid => req = HartWrite
  BY DEF Routed, NoWrite
<1> HIDE DEF req
<1>5. mw_state = "init" /\ req.valid =>
        before' = Drained /\ store' = [addr |-> req.addr, width |-> req.width, data |-> req.data]
  BY <1>4 DEF Recorded, StoreAccepted
<1>6. ~(mw_state = "init" /\ req.valid) => before' = before /\ store' = store
  BY <1>4 DEF Recorded, StoreAccepted
<1> QED BY <1>1, <1>2, <1>3, <1>5, <1>6, StorePaces

\* A reset lets the write at the port happen and forgets the rest.
LEMMA ResetStore ==
  ASSUME TypeOK, StoreTypeOK, StoreInv, Reset, rst, Recorded
  PROVE  StoreTypeOK' /\ StoreInv'
<1>1. before' = before /\ store' = store
  BY DEF Recorded, StoreAccepted
<1>2. mw_state' = "init" /\ wport_en' = {} /\ sysmem' = PortMemory /\ SysmemTypeOK'
  BY ResetType DEF Reset, ResetMMUWrite, SysmemTick, PortMemory, TypeOK, MMUTypeOK
<1>3. PortMemory' = sysmem'
  BY <1>2, WritesNothing DEF PortMemory, SysmemTypeOK
<1>4. \A n : StoredUpTo(n)' = StoredUpTo(n)
  BY <1>1 DEF StoredUpTo, UpTo
<1> QED BY <1>1, <1>2, <1>3, <1>4 DEF StoreTypeOK, StoreInv, StoreIsPrefix
-----------------------------------------------------------------------------
(* The return address. *)

\* x1 is all ones until it is written: no reset reaches the register file.
X1Inv == ~x1_given => xmem[1] = WordSize - 1

LEMMA X1Init ==
  ASSUME NEW inits, 1 \notin DOMAIN inits
  PROVE  FirstXmem(inits)[1] = WordSize - 1
<1> DEFINE b == BootInits(inits)
<1>1. WordSize - 1 > 0 /\ WordSize \in Nat /\ 1 \in Reg
  BY Sizes, RegAssumption DEF Reg
<1>2. 1 \in DOMAIN b /\ b[1] = WordSize - 1
  BY DEF BootInits
<1> HIDE DEF b
<1>3. RegReset(b, 1) = WordSize - 1
  BY <1>1, <1>2 DEF RegReset
<1> QED BY <1>1, <1>3 DEF FirstXmem, b

LEMMA X1Step ==
  ASSUME X1Inv, x1_given \in BOOLEAN, TypeOK, RegisterFile,
         x1_given' = (x1_given \/ (xwr_en /\ xwr_reg = 1))
  PROVE  X1Inv' /\ x1_given' \in BOOLEAN
<1>1. xmem \in [Reg -> Word] /\ xwr_reg \in Reg
  BY DEF TypeOK, HartTypeOK
<1>2. ~x1_given' => ~x1_given /\ ~(xwr_en /\ xwr_reg = 1)
  OBVIOUS
<1>3. 1 \in Reg
  BY RegAssumption DEF Reg
<1>4. ~(xwr_en /\ xwr_reg = 1) => xmem'[1] = xmem[1]
  BY <1>1, <1>3 DEF RegisterFile
<1>5. X1Inv'
  BY <1>2, <1>4 DEF X1Inv
<1>6. x1_given' \in BOOLEAN
  OBVIOUS
<1> QED BY <1>5, <1>6

LEMMA AllOnesMisaligned ==
  LET sum == Plus(WordSize - 1, 0) IN ~Aligned(sum - (sum % 2))
<1>1. PICK n \in Nat : WordSize = 4 * n /\ n > 0
  BY Sizes
<1>2. Plus(WordSize - 1, 0) = 4 * n - 1
  <2>1. WordSize - 1 \in 0 .. WordSize - 1 /\ WordSize \in Nat \ {0}
    BY <1>1
  <2>2. (WordSize - 1) % WordSize = WordSize - 1
    BY <2>1
  <2> QED BY <1>1, <2>2 DEF Plus
<1>3. (4 * n - 1) % 2 = 1
  BY <1>1
<1>4. (4 * n - 2) % 4 = 2
  BY <1>1
<1> QED BY <1>1, <1>2, <1>3, <1>4 DEF Aligned

\* The one use of x1 that RetFaults is about is misaligned, and a misaligned jump stops.
LEMMA RetStep ==
  ASSUME HInv, X1Inv, Next, h_state = "op.jalr", Decode(insn).rs1 = 1, imm = 0, ~x1_given
  PROVE  h_state' = "faulted" /\ fault_code' = "PC_MISALIGNED"
<1>1. xrd1_val = WordSize - 1
  <2>1. xrd1_reg = 1
    BY DEF HInv, FieldsInv
  <2>2. xrd1_val = xmem[xrd1_reg]
    BY DEF HInv, IInv, OperandsInv, Operating
  <2> QED BY <2>1, <2>2 DEF X1Inv
<1>2. ~Aligned(JalrTarget)
  BY <1>1, AllOnesMisaligned DEF JalrTarget, Address
<1>3. Execute(ReadWires, WriteWires)
  BY FetchMoves, ResolveMoves DEF Next, HartTick, Faulted
<1>4. OpJalrMisaligned
  BY <1>2, <1>3
  DEF Execute, WaitForRegs, AfterWait, OpLoad, LoadWait, LoadDone, Alu, OpStore, StoreWait,
      BranchNotTaken, BranchTaken, BranchMisaligned, BranchIllegal, OpJalr
<1> QED BY <1>4 DEF OpJalrMisaligned, FaultMisaligned, Goto

-----------------------------------------------------------------------------
HistoryInv ==
  /\ TopInv
  /\ StoreTypeOK /\ StoreInv
  /\ x1_given \in BOOLEAN /\ X1Inv

LEMMA HistoryInvInit == TopHistoryInit => HistoryInv
<1> SUFFICES ASSUME TopHistoryInit PROVE HistoryInv
  OBVIOUS
<1>1. TopInv
  BY TopInvInit DEF TopHistoryInit
<1>2. StoreTypeOK /\ StoreInv
  BY <1>1, StoreInit DEF TopInv, HInv, IInv
<1>3. PICK inits \in RegInits : xmem = FirstXmem(inits) /\ x1_given = (1 \in DOMAIN inits)
  BY DEF TopHistoryInit
<1>4. x1_given \in BOOLEAN /\ X1Inv
  <2>1. (1 \in DOMAIN inits) \in BOOLEAN
    OBVIOUS
  <2>2. x1_given \in BOOLEAN
    BY <1>3, <2>1
  <2>3. ~x1_given => 1 \notin DOMAIN inits
    BY <1>3
  <2>4. X1Inv
    BY <1>3, <2>3, X1Init DEF X1Inv
  <2> QED BY <2>2, <2>4
<1> QED BY <1>1, <1>2, <1>4 DEF HistoryInv

LEMMA HistoryInvStep == HistoryInv /\ [TopHistoryNext]_topHistoryVars => HistoryInv'
<1> SUFFICES ASSUME HistoryInv, [TopHistoryNext]_topHistoryVars PROVE HistoryInv'
  OBVIOUS
<1>1. TopInv /\ HInv /\ IInv /\ TypeOK
  BY DEF HistoryInv, TopInv, HInv, IInv
<1>2. TopInv'
  BY <1>1, TopInvStep DEF TopHistoryNext, topHistoryVars
<1>3. CASE TopHistoryNext
  <2>1. StoreTypeOK' /\ StoreInv'
    BY <1>1, <1>3, StoreStep, ResetStore DEF HistoryInv, TopHistoryNext, TopNext
  <2>2. RegisterFile
    BY <1>3 DEF TopHistoryNext, TopNext, Reset, Next, HartTick
  <2>3. X1Inv' /\ x1_given' \in BOOLEAN
    BY <1>1, <1>3, <2>2, X1Step DEF HistoryInv, TopHistoryNext, Recorded
  <2> QED BY <1>2, <2>1, <2>3 DEF HistoryInv
<1>4. CASE UNCHANGED topHistoryVars
  <2>1. UNCHANGED <<mw_state, wport_addr, wport_data, wport_en, mw_payload, sysmem, xmem>>
    BY <1>4 DEF topHistoryVars, topVars, vars, hartVars, mmuVars, sysmemVars, mmuWriteVars
  <2>2. UNCHANGED <<before, store, x1_given>>
    BY <1>4 DEF topHistoryVars
  <2>3. StoreTypeOK' /\ StoreInv'
    BY <2>1, <2>2 DEF HistoryInv, StoreTypeOK, StoreInv, StoreIsPrefix, StoredUpTo, UpTo, PortMemory
  <2>4. x1_given' \in BOOLEAN /\ X1Inv'
    BY <2>1, <2>2 DEF HistoryInv, X1Inv
  <2> QED BY <1>2, <2>3, <2>4 DEF HistoryInv
<1> QED BY <1>3, <1>4

LEMMA HistoryInvariance == TopHistorySpec => []HistoryInv
BY HistoryInvInit, HistoryInvStep, PTL DEF TopHistorySpec

\* Wherever in a store a reset falls, what the store leaves in memory is its first
\* bytes, each in its place, and all else is as it was.
THEOREM StoresArePrefixes == TopHistorySpec => []StoreIsPrefix
<1>1. HistoryInv => StoreIsPrefix
  BY DEF HistoryInv, StoreInv
<1> QED BY <1>1, HistoryInvariance, PTL

\* A program that was given no return address, and has made none, stops when it
\* returns, whatever else it has done and whatever resets it has met.
THEOREM ReturnsFault == TopHistorySpec => RetFaults
<1> DEFINE Faults == h_state = "op.jalr" /\ Decode(insn).rs1 = 1 /\ imm = 0 /\ ~rst /\ ~x1_given =>
                       h_state' = "faulted" /\ fault_code' = "PC_MISALIGNED"
<1>1. HistoryInv /\ [TopHistoryNext]_topHistoryVars => [Faults]_topHistoryVars
  <2> SUFFICES ASSUME HistoryInv, TopHistoryNext PROVE Faults
    OBVIOUS
  <2> QED BY RetStep DEF HistoryInv, TopInv, TopHistoryNext, TopNext
<1> QED BY <1>1, HistoryInvariance, PTL DEF TopHistorySpec, RetFaults
=============================================================================
