----------------------------- MODULE RV32IInsns ----------------------------
(***************************************************************************)
(* RV32I: the classes and instructions, and the registers' names.          *)
(***************************************************************************)
EXTENDS ILayout

Opcode == [LOAD |-> 3, MISC_MEM |-> 15, OP_IMM |-> 19, AUIPC |-> 23, STORE |-> 35, OP |-> 51,
           LUI |-> 55, BRANCH |-> 99, JALR |-> 103, JAL |-> 111, SYSTEM |-> 115]

\* The registers' names, in order: a register's own and its others.
RegNames ==
  << <<"zero", "x0">>, <<"ra", "x1">>, <<"sp", "x2">>, <<"gp", "x3">>, <<"tp", "x4">>,
     <<"t0", "x5">>, <<"t1", "x6">>, <<"t2", "x7">>, <<"fp", "s0", "x8">>, <<"s1", "x9">>,
     <<"a0", "x10">>, <<"a1", "x11">>, <<"a2", "x12">>, <<"a3", "x13">>, <<"a4", "x14">>,
     <<"a5", "x15">>, <<"a6", "x16">>, <<"a7", "x17">>, <<"s2", "x18">>, <<"s3", "x19">>,
     <<"s4", "x20">>, <<"s5", "x21">>, <<"s6", "x22">>, <<"s7", "x23">>, <<"s8", "x24">>,
     <<"s9", "x25">>, <<"s10", "x26">>, <<"s11", "x27">>, <<"t3", "x28">>, <<"t4", "x29">>,
     <<"t5", "x30">>, <<"t6", "x31">> >>

Reg(name) == (CHOOSE i \in DOMAIN RegNames : name \in ToSet(RegNames[i])) - 1

\* As many as the field has values, and no name twice.
ASSUME RegistersNamed ==
  /\ Len(RegNames) = 2^5
  /\ \A i, j \in DOMAIN RegNames :
       i # j => ToSet(RegNames[i]) \cap ToSet(RegNames[j]) = {}

Class(layout, defaults) ==
  [layout |-> layout, ranges |-> FieldRanges(layout), defaults |-> defaults]

R == Class(<<"opcode", "rd", "funct3", "rs1", "rs2", "funct7">>,
           [opcode |-> Opcode.OP, funct7 |-> 0])
I == Class(<<"opcode", "rd", "funct3", "rs1", "imm">>, [opcode |-> Opcode.OP_IMM])
S == Class(<<"opcode", "imm4_0", "funct3", "rs1", "rs2", "imm11_5">>,
           [opcode |-> Opcode.STORE])
B == Class(<<"opcode", "imm11", "imm4_1", "funct3", "rs1", "rs2", "imm10_5", "imm12">>,
           [opcode |-> Opcode.BRANCH])
U == Class(<<"opcode", "rd", "imm">>, <<>>)
J == Class(<<"opcode", "rd", "imm19_12", "imm11", "imm10_1", "imm20">>,
           [opcode |-> Opcode.JAL])

\* finalise() refuses a layout that does not fill its word.
ASSUME LayoutsFill == \A cls \in {R, I, S, B, U, J} : Fills(cls.layout)
-----------------------------------------------------------------------------
(* Transforms. *)

ImmXfrm(cls) ==
  [kind |-> "Imm", inputs |-> <<"imm">>, param |-> 0,
   layout |-> Without(cls.layout, ToSet(cls.layout) \ DOMAIN ImmTop)]
ShamtXfrm(imm11_5) ==
  [kind |-> "Shamt", inputs |-> <<"shamt">>, layout |-> <<"imm">>, param |-> imm11_5]
RS1OffXfrm ==
  [kind |-> "RS1Off", inputs |-> <<"rs1off">>, layout |-> <<"imm", "rs1">>, param |-> 0]
FenceXfrm(fm) ==
  [kind |-> "Fence", inputs |-> <<"pred", "succ">>, layout |-> <<"imm">>, param |-> fm]
SystemXfrm ==
  [kind |-> "System", inputs |-> <<"funct">>, layout |-> <<"funct3", "imm">>, param |-> 0]
CheckXfrm == [kind |-> "Check", inputs |-> <<"imm">>, layout |-> <<"imm">>, param |-> 0]
-----------------------------------------------------------------------------
(* Instructions, but for LI. *)

F7Negate == 32

\* Mutant: SUB is ADD.
OpNeverNegates(funct3, funct7) == Child(R, [funct3 |-> funct3])

Op(funct3, funct7) ==
  LET insn == Child(R, [funct3 |-> funct3])
  IN IF funct7 = 0 THEN insn ELSE Call(insn, [funct7 |-> funct7])

OpImm(funct3) == Child(I, [funct3 |-> funct3])
Shift(funct3, imm11_5) == Xfrm(OpImm(funct3), ShamtXfrm(imm11_5))
Load(funct3) ==
  Call(Xfrm(Child(I, [opcode |-> Opcode.LOAD]), RS1OffXfrm), [funct3 |-> funct3])
Fence(fm) ==
  Xfrm(Child(I, [opcode |-> Opcode.MISC_MEM, funct3 |-> 0, rd |-> 0, rs1 |-> 0]), FenceXfrm(fm))
System(funct) ==
  Call(Xfrm(Child(I, [opcode |-> Opcode.SYSTEM, rd |-> 0, rs1 |-> 0]), SystemXfrm),
       [funct |-> funct])
Store(funct3) ==
  Call(Xfrm(Xfrm(Child(S, <<>>), ImmXfrm(S)), RS1OffXfrm), [funct3 |-> funct3])
Branch(funct3) == Call(Xfrm(Child(B, <<>>), ImmXfrm(B)), [funct3 |-> funct3])
Upper(opcode) == Call(Xfrm(Child(U, <<>>), CheckXfrm), [opcode |-> opcode])
Jalr == Child(I, [opcode |-> Opcode.JALR, funct3 |-> 0])
Jal == Xfrm(Child(J, <<>>), ImmXfrm(J))

Insns ==
  [ADD |-> Op(0, 0), SUB |-> Op(0, F7Negate), SLL |-> Op(1, 0), SLT |-> Op(2, 0),
   SLTU |-> Op(3, 0), XOR |-> Op(4, 0), SRL |-> Op(5, 0), SRA |-> Op(5, F7Negate),
   OR |-> Op(6, 0), AND |-> Op(7, 0),
   ADDI |-> OpImm(0), SLTI |-> OpImm(2), SLTIU |-> OpImm(3), XORI |-> OpImm(4),
   ORI |-> OpImm(6), ANDI |-> OpImm(7),
   SLLI |-> Shift(1, 0), SRLI |-> Shift(5, 0), SRAI |-> Shift(5, F7Negate),
   LB |-> Load(0), LH |-> Load(1), LW |-> Load(2), LBU |-> Load(4), LHU |-> Load(5),
   SB |-> Store(0), SH |-> Store(1), SW |-> Store(2),
   BEQ |-> Branch(0), BNE |-> Branch(1), BLT |-> Branch(4), BGE |-> Branch(5),
   BLTU |-> Branch(6), BGEU |-> Branch(7),
   LUI |-> Upper(Opcode.LUI), AUIPC |-> Upper(Opcode.AUIPC),
   JAL |-> Jal, JALR |-> Jalr,
   FENCE |-> Fence(0), ECALL |-> System(0), EBREAK |-> System(8),
   \* and the others' special cases
   FENCE_TSO |-> Call(Fence(8), [pred |-> {"r", "w"}, succ |-> {"r", "w"}]),
   SNEZ |-> Call(Op(3, 0), [rs1 |-> Reg("zero")]),
   RET |-> Call(Jalr, [rd |-> Reg("zero"), rs1 |-> Reg("ra"), imm |-> 0]),
   MV |-> Call(OpImm(0), [imm |-> 0]), SEQZ |-> Call(OpImm(3), [imm |-> 1]),
   NOT |-> Call(OpImm(4), [imm |-> -1]),
   NOP |-> Call(OpImm(0), [rd |-> Reg("zero"), rs1 |-> Reg("zero"), imm |-> 0]),
   J_ |-> Call(Jal, [rd |-> Reg("zero")])]

SpecialCases == {"FENCE_TSO", "SNEZ", "RET", "MV", "SEQZ", "NOT", "NOP", "J_"}
-----------------------------------------------------------------------------
(* LI: the instructions that load an immediate of any size.  The immediate *)
(* is hi * 4096 + lo: hi is imm >> 12, lo is imm & 0xFFF.  A piece is an   *)
(* instruction LUI or ADDI and its own immediate.                          *)

Low == 0 .. 4095

Piece(insn, imm) == [insn |-> insn, imm |-> imm]

\* Mutant: the odd bit of lo is forgotten.
LIDropsBit(hi, lo) ==
  IF hi = 0 THEN <<Piece("ADDI", lo)>>
  ELSE IF lo < 2048 THEN <<Piece("LUI", hi), Piece("ADDI", lo)>>
  ELSE <<Piece("LUI", hi), Piece("ADDI", lo \div 2), Piece("ADDI", lo \div 2)>>

\* ADDI's immediate is signed, so a lo with its top bit is added in two halves.
LI(hi, lo) ==
  IF hi = 0 THEN <<Piece("ADDI", lo)>>
  ELSE IF lo < 2048 THEN <<Piece("LUI", hi), Piece("ADDI", lo)>>
  ELSE <<Piece("LUI", hi), Piece("ADDI", lo \div 2), Piece("ADDI", (lo \div 2) + (lo % 2))>>
=============================================================================
