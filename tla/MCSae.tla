------------------------------- MODULE MCSae -------------------------------
(***************************************************************************)
(* Values for TLC: bytes of two bits, so words of 8 bits; 16 bytes of      *)
(* memory: two instructions, a word that stops the hart, and a word of     *)
(* data; four registers, of which x1 is where the loads, stores and jumps  *)
(* go: to the data word, to a byte inside it, to the UART, or to nothing.  *)
(*                                                                         *)
(* Kinds lists the instructions the programs are made of, and Code gives   *)
(* the words that encode them: no word that fetch.wait refuses.            *)
(***************************************************************************)
EXTENDS Sae

LOCAL INSTANCE Bitwise

CONSTANT KindsUsed    \* the kinds of which the programs are made: a set of numbers

MCBitAnd(a, b) == a & b
MCShl(a, s) == (a * 2^s) % WordSize
MCShr(a, s) == a \div 2^s

I(opcode, rd, funct, rs1, immediate) ==
  [opcode |-> opcode, rd |-> rd, rs1 |-> rs1, rs2 |-> 0, funct3 |-> funct, funct7 |-> 0,
   imm |-> immediate % WordSize]

R(rd, funct, rs1, rs2, seven) ==
  [opcode |-> "OP", rd |-> rd, rs1 |-> rs1, rs2 |-> rs2, funct3 |-> funct,
   funct7 |-> seven, imm |-> 0]

S(opcode, funct, rs1, rs2, immediate) ==
  [opcode |-> opcode, rd |-> 0, rs1 |-> rs1, rs2 |-> rs2, funct3 |-> funct,
   funct7 |-> 0, imm |-> immediate % WordSize]

Kinds == <<
  I("LOAD", 2, 2, 1, 0),       I("LOAD", 2, 1, 1, 1),      I("LOAD", 3, 0, 1, 0),
  I("LOAD", 2, 5, 1, 0),       I("LOAD", 1, 4, 1, 1),      I("LOAD", 2, 3, 1, 0),
  I("LOAD", 3, 6, 1, 0),       S("STORE", 2, 1, 2, 0),     S("STORE", 1, 1, 2, 1),
  S("STORE", 0, 1, 2, 0),      S("STORE", 3, 1, 2, 0),     S("STORE", 2, 0, 2, 4),
  I("OP_IMM", 1, 0, 1, 1),     I("OP_IMM", 0, 0, 1, 5),    I("OP_IMM", 2, 5, 2, 66),
  R(2, 0, 2, 1, 32),           R(2, 5, 2, 1, 32),          R(2, 5, 2, 1, 0),
  R(3, 0, 2, 1, 1),            R(3, 3, 1, 2, 0),           I("LUI", 2, 0, 0, 64),
  I("AUIPC", 1, 0, 0, 12),     I("JAL", 3, 0, 0, 8),       I("JAL", 3, 0, 0, 2),
  I("JAL", 1, 0, 0, -4),       I("JALR", 3, 0, 1, 0),      I("JALR", 3, 0, 1, 1),
  S("BRANCH", 0, 2, 2, 8),     S("BRANCH", 1, 2, 2, 8),    S("BRANCH", 4, 2, 1, -4),
  S("BRANCH", 7, 2, 1, 2),     S("BRANCH", 2, 1, 2, 8),    I("MISC_MEM", 0, 0, 0, 0),
  I("MISC_MEM", 0, 1, 0, 0),   I("SYSTEM", 0, 0, 0, 0),    I("SYSTEM", 0, 0, 0, 1),
  I("SYSTEM", 0, 0, 0, 2),     I("SYSTEM", 0, 1, 0, 0),    I("other", 0, 0, 0, 0) >>

Code(k) == k + (k - 1) \div 15

\* Every other word is an ADDI to x3, so that words that stores make run too.
MCDecode(w) ==
  IF \E k \in DOMAIN Kinds : Code(k) = w
    THEN Kinds[CHOOSE k \in DOMAIN Kinds : Code(k) = w]
    ELSE I("OP_IMM", 3, 0, 3, 1)

StopWord == WordSize - 1
DataWord == 177

MCImages ==
  {[i \in MemByte |-> BytesOf(<<Code(j), Code(k), StopWord, DataWord>>[(i \div 4) + 1])[i % 4]] :
     j, k \in KindsUsed}

MCRegs == {[r \in Reg |-> <<0, x1, 156, 7>>[r + 1]] : x1 \in {12, 13, 193, 130}}

=============================================================================
