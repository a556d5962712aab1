---------------------------- MODULE AsyncSerial -----------------------------
(***************************************************************************)
(* AsyncSerial: the library's ends of the serial line in the design, by    *)
(* bits: a start bit of 0, eight bits, the lowest first, and a stop bit of *)
(* 1, each of Divisor cycles.  The receiver sees the line through two      *)
(* registers and samples each bit about its middle.  An action is one edge *)
(* of the clock.                                                           *)
(***************************************************************************)
EXTENDS Integers, Sequences

CONSTANT Divisor    \* the clock's frequency over the line's bit rate

\* The library refuses less.
ASSUME DivisorAssumption == Divisor \in Nat /\ Divisor >= 5

VARIABLES at_shreg, at_timer, at_o,          \* transmitter: the bits left, the line
          ar_sync, ar_i,                     \* receiver: the line one edge and two edges ago
          ar_state, ar_shreg, ar_timer,
          ar_rdy, ar_data

asyncVars ==
  <<at_shreg, at_timer, at_o, ar_sync, ar_i, ar_state, ar_shreg, ar_timer, ar_rdy, ar_data>>

AsyncInit ==
  /\ at_shreg = <<>> /\ at_timer = 0 /\ at_o = 1
  /\ ar_sync = 1 /\ ar_i = 1
  /\ ar_state = "IDLE" /\ ar_shreg = <<>> /\ ar_timer = 0
  /\ ar_rdy = FALSE /\ ar_data = 0

Frame(byte) == <<0>> \o [k \in 1 .. 8 |-> (byte \div 2^(k - 1)) % 2] \o <<1>>

FramedByte(bits) ==
  LET b(k) == bits[k + 2] * 2^k IN b(0) + b(1) + b(2) + b(3) + b(4) + b(5) + b(6) + b(7)
-----------------------------------------------------------------------------
\* serial.tx.rdy
AsyncTxRdy == at_shreg = <<>>

\* The cycles until it is set.
AsyncTxLeft == IF AsyncTxRdy THEN 0 ELSE (Len(at_shreg) - 1) * Divisor + at_timer + 1

AsyncTxTick(ack, data) ==
  \/ /\ AsyncTxRdy
     /\ at_o' = 1
     /\ at_shreg' = IF ack THEN Frame(data) ELSE <<>>
     /\ at_timer' = IF ack THEN Divisor - 1 ELSE at_timer
  \/ /\ ~AsyncTxRdy
     /\ at_o' = Head(at_shreg)
     /\ at_shreg' = IF at_timer = 0 THEN Tail(at_shreg) ELSE at_shreg
     /\ at_timer' = IF at_timer = 0 THEN Divisor - 1 ELSE at_timer - 1
-----------------------------------------------------------------------------
\* A byte has ended; it is taken at this edge, or lost.
AsyncRxDone == ar_state = "DONE"

AsyncRxTick(ack, line) ==
  /\ ar_sync' = line /\ ar_i' = ar_sync
  /\ \/ /\ ar_state = "IDLE"
        /\ IF ar_i = 0 THEN ar_state' = "BUSY" /\ ar_timer' = Divisor \div 2 /\ ar_shreg' = <<>>
                       ELSE UNCHANGED <<ar_state, ar_timer, ar_shreg>>
     \/ /\ ar_state = "BUSY" /\ ar_timer # 0
        /\ ar_timer' = ar_timer - 1
        /\ UNCHANGED <<ar_state, ar_shreg>>
     \/ /\ ar_state = "BUSY" /\ ar_timer = 0
        /\ ar_shreg' = Append(ar_shreg, ar_i)
        /\ ar_timer' = Divisor - 1
        /\ ar_state' = IF Len(ar_shreg') = 10 THEN "DONE" ELSE "BUSY"
     \/ /\ AsyncRxDone
        /\ ar_state' = "IDLE"
        /\ UNCHANGED <<ar_timer, ar_shreg>>
  /\ ar_rdy' = IF ack THEN AsyncRxDone ELSE ar_rdy
  /\ ar_data' = IF ack /\ AsyncRxDone THEN FramedByte(ar_shreg) ELSE ar_data
=============================================================================
