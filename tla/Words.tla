------------------------------- MODULE Words -------------------------------
(***************************************************************************)
(* The data of the machine.                                                *)
(*                                                                         *)
(* A word is what a register holds and what the buses carry: four bytes,   *)
(* little-endian.  The hart computes with its number, 0 .. WordSize-1; the *)
(* memory unit only ever moves its bytes, so there a word is a function    *)
(* from Lane to Byte.  The code has bytes of 8 bits (ByteSize = 256); no   *)
(* definition depends on the size of a byte, so the runs take a small one  *)
(* and the proofs take any.                                                *)
(*                                                                         *)
(* BitAnd is Amaranth's "&" on unsigned numbers: "|" and "^" are defined   *)
(* from it.                                                                *)
(***************************************************************************)
EXTENDS Integers

CONSTANTS ByteSize,      \* number of values of a byte: 2^8 in the code
          BitAnd(_, _)   \* bitwise conjunction of two numbers

ASSUME ByteSizeAssumption == ByteSize \in Nat /\ ByteSize > 1 /\ ByteSize % 2 = 0

Byte == 0 .. ByteSize - 1

HalfSize == ByteSize * ByteSize

WordSize == HalfSize * HalfSize

Word == 0 .. WordSize - 1

BitOr(a, b) == a + b - BitAnd(a, b)

BitXor(a, b) == a + b - 2 * BitAnd(a, b)

ASSUME BitAndAssumption ==
  /\ \A a, b \in Byte : BitAnd(a, b) \in Byte /\ BitOr(a, b) \in Byte
  /\ \A a \in Byte : BitAnd(a, 0) = 0 /\ BitAnd(0, a) = 0
-----------------------------------------------------------------------------
(* Words as the buses carry them. *)

Lane == 0 .. 3

Lanes == [Lane -> Byte]

\* A 16-bit memory cell.
Cells == [0 .. 1 -> Byte]

ZeroCell == [i \in 0 .. 1 |-> 0]

ZeroLanes == [i \in Lane |-> 0]

OrLanes(p, q) == [i \in Lane |-> BitOr(p[i], q[i])]

\* p[8:]: the word without its low byte.
DropLow(p) == [i \in Lane |-> IF i = 3 THEN 0 ELSE p[i + 1]]

\* cell << (8 * k), or the cell extended with zeros when k = 0.
CellAt(k, cell) == [i \in Lane |-> IF i \in k .. k + 1 THEN cell[i - k] ELSE 0]

\* byte << (8 * k).
ByteAt(k, byte) == [i \in Lane |-> IF i = k THEN byte ELSE 0]

\* The cell made of byte i and byte j of a word.
CellOf(p, i, j) == [k \in 0 .. 1 |-> IF k = 0 THEN p[i] ELSE p[j]]
-----------------------------------------------------------------------------
(* A word as a number, and back; and as a signed number (as_signed()).     *)

BytesOf(v) == [i \in Lane |-> CASE i = 0 -> v % ByteSize
                                [] i = 1 -> (v \div ByteSize) % ByteSize
                                [] i = 2 -> (v \div HalfSize) % ByteSize
                                [] OTHER -> v \div (HalfSize * ByteSize)]

NumOf(p) == p[0] + ByteSize * p[1] + HalfSize * (p[2] + ByteSize * p[3])

\* The signed value of v, a number below size.
SignedIn(size, v) == IF v < size \div 2 THEN v ELSE v - size

Signed(v) == SignedIn(WordSize, v)

\* v below size, extended with its sign to a word.
SignExtend(size, v) == SignedIn(size, v) % WordSize
-----------------------------------------------------------------------------
(* AccessWidth.  The bus has two bits for the width, and the hart drives   *)
(* the two low bits of a funct3 on it: 3 is a value no AccessWidth names.  *)

BYTE == 0
HALF == 1
WORD == 2
AccessWidth == 0 .. 3

\* A bus on which nobody drives anything.
NoRead == [valid |-> FALSE, addr |-> 0, width |-> BYTE]

NoWrite == [valid |-> FALSE, addr |-> 0, width |-> BYTE, data |-> ZeroLanes]
=============================================================================
