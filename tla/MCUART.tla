------------------------------- MODULE MCUART -------------------------------
(***************************************************************************)
(* Values for TLC: a FIFO of three bytes.  What the machines do does not   *)
(* depend on the bytes, so those written and those received are numbered,  *)
(* modulo the size of a byte: a byte lost, repeated or out of order shows. *)
(* MaxBytes bytes are written, and as many received, at most.              *)
(***************************************************************************)
EXTENDS UARTHistory

LOCAL INSTANCE Bitwise

CONSTANT MaxBytes

MCBitAnd(a, b) == a & b

\* The byte after those of seq.
Numbered(seq) == (Len(seq) + 1) % ByteSize

MCNext ==
  \E reads, writes, ends \in BOOLEAN :
    /\ Recorded(ends, Numbered(ended))
    /\ writes => Len(written') < MaxBytes
    /\ ends => Len(ended) < MaxBytes
    /\ Tick(reads, writes, Numbered(written'), ends, Numbered(ended))

MCSpec == HistoryInit /\ [][MCNext]_<<vars, historyVars>>

\* The clock does not stop.
MCFairSpec == MCSpec /\ WF_<<vars, historyVars>>(MCNext)
=============================================================================
