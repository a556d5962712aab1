------------------------------ MODULE Sysmem -------------------------------
(***************************************************************************)
(* The system memory: Depth cells of 16 bits, with one read port and one   *)
(* write port (amaranth.lib.memory).  It is modelled by its bytes: cell h  *)
(* holds bytes 2h and 2h+1.  The addresses of the ports are 0 .. Span-1: a *)
(* read of a cell that does not exist gives 0, and a write to one is lost. *)
(*                                                                         *)
(* Both ports are synchronous.  The read port registers the value the cell *)
(* has before the edge (it is not transparent for the write port).         *)
(***************************************************************************)
EXTENDS ByteMemory

VARIABLES sysmem,       \* the bytes
          rport_data    \* the read port's output register

sysmemVars == <<sysmem, rport_data>>

CellAddr == 0 .. Span - 1

SysmemTypeOK ==
  /\ sysmem \in [MemByte -> Byte]
  /\ rport_data \in Cells

CellIn(mem, h) == [k \in 0 .. 1 |-> ByteOf(mem, 2 * h + k)]

\* A cell's address, from the 32 bits of a bus address.
CellOfAddr(addr) == (addr \div 2) % Span

\* The bytes of memory after the write port writes data to cell h where the
\* enable bits en ask for it.
Written(mem, h, data, en) ==
  [i \in MemByte |-> IF i \div 2 = h /\ i % 2 \in en THEN data[i % 2] ELSE mem[i]]

\* One edge of the clock at the two ports.
SysmemTick(raddr, waddr, wdata, wen) ==
  /\ rport_data' = CellIn(sysmem, raddr)
  /\ sysmem' = Written(sysmem, waddr, wdata, wen)
=============================================================================
