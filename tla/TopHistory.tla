---------------------------- MODULE TopHistory -----------------------------
(***************************************************************************)
(* What has happened to a booted system: Top, its registers booted as Boot *)
(* says, with a record of the last store and of x1.  No action reads it.   *)
(***************************************************************************)
EXTENDS Top, Boot

CONSTANT RegInits     \* the dictionaries of registers the hart may be booted with

VARIABLES before,     \* memory before the last store the bus accepted
          store,      \* that store: addr, width, data
          x1_given    \* x1 was asked for at boot, or the program has written it

topHistoryVars == <<topVars, before, store, x1_given>>

TopHistoryInit ==
  /\ TopInit
  /\ before = sysmem
  /\ store = [addr |-> 0, width |-> BYTE, data |-> ByteAt(0, sysmem[0])]
  /\ \E inits \in RegInits : xmem = FirstXmem(inits) /\ x1_given = (1 \in DOMAIN inits)

StoreAccepted == ~rst /\ HartWrite.valid /\ ToSysmem(HartWrite.addr) /\ mw_state = "init"

Recorded ==
  /\ before' = IF StoreAccepted THEN Drained ELSE before
  /\ store' = IF StoreAccepted THEN [addr |-> HartWrite.addr, width |-> HartWrite.width,
                                     data |-> HartWrite.data] ELSE store
  /\ x1_given' = (x1_given \/ (xwr_en /\ xwr_reg = 1))

TopHistoryNext == TopNext /\ Recorded

TopHistorySpec == TopHistoryInit /\ [][TopHistoryNext]_topHistoryVars
-----------------------------------------------------------------------------
\* mem with the first n bytes of a store in place.
UpTo(mem, addr, data, n) ==
  [i \in MemByte |-> IF LaneOf(addr, i) < n THEN data[LaneOf(addr, i)] ELSE mem[i]]

StoredUpTo(n) == UpTo(before, store.addr, store.data, n)

\* Memory is at every edge what it was before the last store, with the first bytes of
\* that store in place: a reset in the middle of a store leaves some of its bytes
\* unwritten, never one in the wrong place or one after a gap (mmu.py, MMUWrite).
StoreIsPrefix == \E n \in 0 .. Size(store.width) : sysmem = StoredUpTo(n)

\* "ensure RET faults" (hart.py): a program that was given no x1, and has not written
\* it, stops when it returns, after any resets too.
RetFaults ==
  [][h_state = "op.jalr" /\ Decode(insn).rs1 = 1 /\ imm = 0 /\ ~rst /\ ~x1_given =>
       h_state' = "faulted" /\ fault_code' = "PC_MISALIGNED"]_topHistoryVars
=============================================================================
