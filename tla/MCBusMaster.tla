---------------------------- MODULE MCBusMaster ----------------------------
(***************************************************************************)
(* Values for TLC: bytes of one bit, so words of 4 bits, the top half of   *)
(* the addresses outside of memory, and 9 and 13 the UART's.  The master   *)
(* makes at most MaxAccesses accesses.                                     *)
(***************************************************************************)
EXTENDS BusTiming

LOCAL INSTANCE Bitwise

CONSTANT MaxAccesses

VARIABLE accesses   \* accesses made so far

MCBitAnd(a, b) == a & b

MCImages == {[i \in MemByte |-> IF i \in {1, 4, 5} THEN 1 ELSE 0]}

MCData == {[i \in Lane |-> IF i \in {0, 3} THEN 1 ELSE 0], [i \in Lane |-> i % 2]}

MCInit == TimedInit /\ accesses = 0

Requesting(state) == state \in {"fetch", "load", "store"}

MCNext ==
  /\ TimedNext
  /\ accesses' = accesses + (IF Requesting(m_state') /\ ~Requesting(m_state) THEN 1 ELSE 0)
  /\ accesses' <= MaxAccesses

MCSpec == MCInit /\ [][MCNext]_<<vars, accesses, ticks>>
=============================================================================
