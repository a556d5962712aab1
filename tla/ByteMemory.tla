---------------------------- MODULE ByteMemory -----------------------------
(***************************************************************************)
(* The address map, and memory as a program sees it: bytes, read and       *)
(* written one, two or four at a time at any address.                      *)
(*                                                                         *)
(* Addresses with the top bit clear are memory.  Its 2 * Depth bytes       *)
(* repeat every 2 * Span bytes (a port address has ceil_log2(Depth) bits,  *)
(* and Span is their number of values); the bytes between are not there:   *)
(* they read 0 and writing them does nothing.  With the top bit set, the   *)
(* low half of the address is a peripheral's id, and the hart has one      *)
(* peripheral, the UART.                                                   *)
(***************************************************************************)
EXTENDS Words

CONSTANTS Depth,   \* 16-bit cells of memory
          Span,    \* values of a cell's address at the memory's ports
          Cid      \* the id the hart gives the UART: 1

\* More than one cell: no word overlaps itself.
ASSUME DepthAssumption ==
  /\ Depth \in Nat \ {0} /\ Span \in Nat \ {0}
  /\ Depth <= Span /\ Span > 1

ASSUME AddressAssumption ==
  /\ Cid \in 1 .. HalfSize - 1
  /\ (WordSize \div 2) % (2 * Span) = 0

MemByte == 0 .. 2 * Depth - 1

ToSysmem(addr) == addr < WordSize \div 2

ToUart(addr) == ~ToSysmem(addr) /\ addr % HalfSize = Cid

Size(width) == CASE width = WORD -> 4 [] width = HALF -> 2 [] OTHER -> 1

\* The byte of memory that byte k of an access at addr names.
ByteIndex(addr, k) == (addr + k) % (2 * Span)

\* Byte i of mem, of the 2 * Span an address can name.
ByteOf(mem, i) == IF i \in MemByte THEN mem[i] ELSE 0

ReadBytes(mem, addr, width) ==
  [k \in Lane |-> IF k < Size(width) THEN ByteOf(mem, ByteIndex(addr, k)) ELSE 0]

\* Lane k of the access at addr that byte i of memory is, counted on the circle of
\* the 2 * Span bytes; at least Size(width) when the access leaves i alone.
LaneOf(addr, i) == (i - addr) % (2 * Span)

\* Width 3 is no width: such a write does nothing.
WriteBytes(mem, addr, width, data) ==
  [i \in MemByte |->
     IF width # 3 /\ LaneOf(addr, i) < Size(width) THEN data[LaneOf(addr, i)] ELSE mem[i]]
=============================================================================
