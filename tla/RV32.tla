------------------------------- MODULE RV32 --------------------------------
(***************************************************************************)
(* The instructions of the hart: what their fields are, and the functions  *)
(* of two words it computes.                                               *)
(*                                                                         *)
(* Decode gives a word's fields the way the layouts I, R, S, B, U and J    *)
(* slice it: opcode, registers and functs are where every layout has them, *)
(* and imm is the immediate of the layout the opcode goes with, as the     *)
(* word the hart adds: sign-extended (LOAD, OP_IMM, JALR, STORE, BRANCH,   *)
(* JAL) or shifted to the top (LUI, AUIPC).  Which word encodes which      *)
(* instruction does not matter to anything here, so Decode is a parameter. *)
(*                                                                         *)
(* Shl and Shr are Amaranth's "<<" and ">>" of unsigned words.             *)
(***************************************************************************)
EXTENDS Words

CONSTANTS NReg,          \* XCOUNT: 32
          XLen,          \* bits of a word: 32
          SraBit,        \* 2^10: the bit of operand b that makes a right shift arithmetic
          Decode(_),
          Shl(_, _), Shr(_, _)

Reg == 0 .. NReg - 1

Opcode == {"LOAD", "MISC_MEM", "OP_IMM", "OP", "LUI", "AUIPC", "STORE", "BRANCH",
           "JALR", "JAL", "SYSTEM", "other"}

Insn == [opcode : Opcode, rd : Reg, rs1 : Reg, rs2 : Reg,
         funct3 : 0 .. 7, funct7 : 0 .. 127, imm : Word]

ASSUME RegAssumption == NReg \in Nat /\ NReg > 1

ASSUME ShiftAssumption ==
  /\ XLen \in Nat \ {0} /\ SraBit \in Nat \ {0}
  /\ XLen + SraBit <= WordSize
  /\ \A a \in Word, s \in 0 .. XLen - 1 : Shl(a, s) \in Word /\ Shr(a, s) \in Word

\* BRANCH and JAL have no bit 0 of imm.
ASSUME DecodeAssumption ==
  \A w \in Word : Decode(w) \in Insn

ASSUME LogicAssumption ==
  \A a, b \in Word :
    BitAnd(a, b) \in Word /\ BitOr(a, b) \in Word /\ BitXor(a, b) \in Word

FaultCode == {"UNSET", "ILLEGAL_INSTRUCTION", "PC_MISALIGNED"}

\* What fetch.wait does not let through: sixteen zeros below, or all ones.
IllegalWord(w) == w % HalfSize = 0 \/ w = WordSize - 1

Aligned(addr) == addr % 4 = 0

\* Mutant: sums are not cut to a word.
PlusUncut(a, b) == a + b

Plus(a, b) == (a + b) % WordSize
-----------------------------------------------------------------------------
(* The ALU.  Bit 0 of its funct7 says that operand b is the immediate, and *)
(* bit 5 that a sum is a difference or a right shift arithmetic.           *)

ADDI == 0
SLLI == 1
SLTI == 2
SLTIU == 3
XORI == 4
SRI == 5
ORI == 6
ANDI == 7

UsesImm(funct7) == funct7 % 2 = 1

Negates(funct7) == (funct7 \div 32) % 2 = 1

OperandB(f3, f7, rs2, imm) ==
  CASE Negates(f7) /\ f3 = ADDI -> (-rs2) % WordSize
    [] Negates(f7) /\ f3 = SRI  -> (rs2 % XLen) + SraBit
    [] OTHER -> IF UsesImm(f7) THEN imm ELSE rs2

\* Arithmetic right shift: the complement of a negative word is shifted.
Sar(a, s) == IF Signed(a) >= 0 THEN Shr(a, s)
             ELSE WordSize - 1 - Shr(WordSize - 1 - a, s)

Flag(condition) == IF condition THEN 1 ELSE 0

\* OTHER is SRI: funct3 has eight values, and each is an operation.
AluOut(f3, a, b) ==
  CASE f3 = ADDI  -> Plus(a, b)
    [] f3 = SLTI  -> Flag(Signed(a) < Signed(b))
    [] f3 = SLTIU -> Flag(a < b)
    [] f3 = ANDI  -> BitAnd(a, b)
    [] f3 = ORI   -> BitOr(a, b)
    [] f3 = XORI  -> BitXor(a, b)
    [] f3 = SLLI  -> Shl(a, b % XLen)
    [] OTHER      -> IF (b \div SraBit) % 2 = 1 THEN Sar(a, b % XLen) ELSE Shr(a, b % XLen)
-----------------------------------------------------------------------------
(* Branches, loads and stores. *)

BranchFunct == {0, 1, 4, 5, 6, 7}   \* BEQ, BNE, BLT, BGE, BLTU, BGEU

Taken(f3, a, b) ==
  CASE f3 = 0 -> a = b
    [] f3 = 1 -> a # b
    [] f3 = 4 -> Signed(a) < Signed(b)
    [] f3 = 5 -> Signed(a) >= Signed(b)
    [] f3 = 6 -> a < b
    [] f3 = 7 -> a >= b
    [] OTHER  -> FALSE

LoadFunct == {0, 1, 2, 4, 5}        \* LB, LH, LW, LBU, LHU

\* What a load makes of the word on the bus; a funct3 that is no load makes it 0.
LoadValue(f3, p) ==
  CASE f3 = 2 -> NumOf(p)
    [] f3 = 1 -> SignExtend(HalfSize, p[0] + ByteSize * p[1])
    [] f3 = 5 -> p[0] + ByteSize * p[1]
    [] f3 = 0 -> SignExtend(ByteSize, p[0])
    [] f3 = 4 -> p[0]
    [] OTHER  -> 0

StoreFunct == {0, 1, 2}             \* SB, SH, SW

\* The width a store drives; nothing drives it when funct3 is no store.
StoreWidth(f3) == IF f3 \in StoreFunct THEN f3 ELSE BYTE

\* What ECALL and EBREAK leave in x1.
SystemMark(imm) == (IF imm = 0 THEN 305449726 ELSE 2004304964) % WordSize
=============================================================================
