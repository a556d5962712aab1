----------------------------- MODULE BusTiming -----------------------------
(***************************************************************************)
(* When the MMU answers: BusMaster with a count of the edges since the     *)
(* access in progress was accepted.  The count stops at MaxTicks, which is *)
(* later than any answer is due.                                           *)
(***************************************************************************)
EXTENDS BusMaster

VARIABLE ticks   \* edges since the access in progress was accepted

Waiting(state) == state \in {"fetching", "loading", "storing"}

MaxTicks == 5

TimedInit == Init /\ ticks = 0

TimedNext ==
  /\ Next
  /\ ticks' = IF ~Waiting(m_state) \/ ~Waiting(m_state') THEN 0
              ELSE IF ticks < MaxTicks THEN ticks + 1 ELSE ticks

TimedSpec == TimedInit /\ [][TimedNext]_<<vars, ticks>>
-----------------------------------------------------------------------------
Extra(condition) == IF condition THEN 1 ELSE 0

Unaligned == m_addr % 2 = 1 /\ m_width \in {HALF, WORD}

ReadTicks == 2 + Extra(Unaligned) + Extra(m_width = WORD)

WriteTicks == Extra(Unaligned) + Extra(m_width = WORD)

\* The answer of an access to memory comes exactly when tests/test_mmu.py expects it
\* (assertRead, assertWrite), whatever access went before; the UART's comes at once.
AnswersOnTime ==
  /\ m_state \in {"fetching", "loading"} =>
       /\ ToSysmem(m_addr) => (ReadRespValid(ReadWires) <=> ticks = ReadTicks) /\ ticks <= ReadTicks
       /\ ToUart(m_addr) => ReadRespValid(ReadWires)
  /\ m_state = "storing" =>
       /\ ToSysmem(m_addr) => (WriteReady(WriteWires) <=> ticks = WriteTicks) /\ ticks <= WriteTicks
       /\ ToUart(m_addr) => WriteReady(WriteWires)
=============================================================================
