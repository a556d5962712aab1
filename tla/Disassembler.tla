---------------------------- MODULE Disassembler ---------------------------
(***************************************************************************)
(* The disassembler: the instruction of a word and its operands in the     *)
(* order of the text, where a register is its number, and an offset with   *)
(* its register is a pair.  How numbers are written is left out.           *)
(***************************************************************************)
EXTENDS RV32IInsns

\* decode(): the word's fields under the layout of cls.
decode(cls, word) == [e \in ToSet(cls.layout) |-> Extract(word, cls.ranges[e])]

\* Mutant: the sign bit's weight is one place too low.
c2Off(count, v) == IF Bit(v, count - 1) = 1 THEN v - 2^(count - 1) ELSE v

c2(count, v) == IF Bit(v, count - 1) = 1 THEN v - 2^count ELSE v

\* The names of the functions of an opcode, by funct3.
LFunct == [n \in {0, 1, 2, 4, 5} |-> <<"LB", "LH", "LW", "", "LBU", "LHU">>[n + 1]]
IFunct == [n \in {0, 1, 2, 3, 4, 6, 7} |->
             <<"ADDI", "SLLI", "SLTI", "SLTIU", "XORI", "", "ORI", "ANDI">>[n + 1]]
RFunct == [n \in {1, 2, 3, 4, 6, 7} |->
             <<"", "SLL", "SLT", "SLTU", "XOR", "", "OR", "AND">>[n + 1]]
SFunct == [n \in 0 .. 2 |-> <<"SB", "SH", "SW">>[n + 1]]
BFunct == [n \in {0, 1, 4, 5, 6, 7} |->
             <<"BEQ", "BNE", "", "", "BLT", "BGE", "BLTU", "BGEU">>[n + 1]]

Text(name, operands) == [name |-> name, operands |-> operands]

Unknown == Text("unknown", <<>>)

DisasmFence(v) ==
  LET succ == v.imm % 16  pred == (v.imm \div 16) % 16 IN
  IF v.imm \div 256 = 8 /\ succ = 3 /\ pred = 3 THEN Text("FENCE_TSO", <<>>)
  ELSE Text("FENCE", <<arg_fence(pred), arg_fence(succ)>>)

DisasmOpImm(v) ==
  CASE v.funct3 = 0 /\ v.imm = 0 /\ v.rd = 0 /\ v.rs1 = 0 -> Text("NOP", <<>>)
    [] v.funct3 = 0 /\ v.imm = 0 /\ ~(v.rd = 0 /\ v.rs1 = 0) -> Text("MV", <<v.rd, v.rs1>>)
    [] v.funct3 = 0 /\ v.rs1 = 0 /\ v.imm # 0 -> Text("LI", <<v.rd, v.imm>>)
    [] v.funct3 = 3 /\ v.imm = 1 -> Text("SEQZ", <<v.rd, v.rs1>>)
    [] v.funct3 = 4 /\ v.imm = 4095 -> Text("NOT", <<v.rd, v.rs1>>)
    [] v.funct3 = 5 -> Text(IF Bit(v.imm, 10) = 1 THEN "SRAI" ELSE "SRLI",
                            <<v.rd, v.rs1, v.imm % 64>>)
    [] OTHER -> Text(IFunct[v.funct3],
                     <<v.rd, v.rs1, IF v.funct3 \in {0, 2} THEN c2(12, v.imm) ELSE v.imm>>)

DisasmOp(v) ==
  CASE v.funct3 = 3 /\ v.rs1 = 0 -> Text("SNEZ", <<v.rd, v.rs2>>)
    [] v.funct3 = 0 -> Text(IF Bit(v.funct7, 5) = 1 THEN "SUB" ELSE "ADD", <<v.rd, v.rs1, v.rs2>>)
    [] v.funct3 = 5 -> Text(IF Bit(v.funct7, 5) = 1 THEN "SRA" ELSE "SRL", <<v.rd, v.rs1, v.rs2>>)
    [] OTHER -> Text(RFunct[v.funct3], <<v.rd, v.rs1, v.rs2>>)

DisasmJal(v) ==
  LET imm == c2(21, 2 * v.imm10_1 + 2^11 * v.imm11 + 2^12 * v.imm19_12 + 2^20 * v.imm20)
  IN IF v.rd = 0 THEN Text("J_", <<imm>>) ELSE Text("JAL", <<v.rd, imm>>)

\* disasm(), of a word with a known opcode; a function that is not known raises too.
disasm(word) ==
  LET i == decode(I, word)
      s == decode(S, word)
      b == decode(B, word)
      u == decode(U, word)
      opcode == i.opcode
      known(functs) == i.funct3 \in DOMAIN functs
      offset == 2 * b.imm4_1 + 2^5 * b.imm10_5 + 2^11 * b.imm11 + 2^12 * b.imm12
  IN
  CASE opcode = Opcode.LOAD /\ known(LFunct) ->
         Text(LFunct[i.funct3], <<i.rd, <<c2(12, i.imm), i.rs1>>>>)
    [] opcode = Opcode.MISC_MEM /\ i.funct3 = 0 -> DisasmFence(i)
    [] opcode = Opcode.OP_IMM -> DisasmOpImm(i)
    [] opcode = Opcode.OP -> DisasmOp(decode(R, word))
    [] opcode = Opcode.LUI -> Text("LUI", <<u.rd, u.imm>>)
    [] opcode = Opcode.AUIPC -> Text("AUIPC", <<u.rd, u.imm>>)
    [] opcode = Opcode.STORE /\ known(SFunct) ->
         Text(SFunct[i.funct3], <<s.rs2, <<c2(12, s.imm4_0 + 2^5 * s.imm11_5), s.rs1>>>>)
    [] opcode = Opcode.BRANCH /\ known(BFunct) ->
         Text(BFunct[i.funct3], <<b.rs1, b.rs2, c2(13, offset)>>)
    [] opcode = Opcode.JALR -> Text("JALR", <<i.rd, i.rs1, c2(12, i.imm)>>)
    [] opcode = Opcode.JAL -> DisasmJal(decode(J, word))
    [] opcode = Opcode.SYSTEM /\ i.funct3 = 0 /\ i.imm \in {0, 1} ->
         Text(<<"ECALL", "EBREAK">>[i.imm + 1], <<>>)
    [] OTHER -> Unknown
=============================================================================
