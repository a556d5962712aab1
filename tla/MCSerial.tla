------------------------------ MODULE MCSerial ------------------------------
(***************************************************************************)
(* Values for TLC: texts of three bytes, with bits that differ at both     *)
(* ends and one that is negative as a char, and FIFOs as long as a text.   *)
(***************************************************************************)
EXTENDS SerialHistory

LOCAL INSTANCE Bitwise

MCBitAnd(a, b) == a & b

MCQuery == <<105, 225, 32>>
MCReply == <<49, 193, 121, 48>>
MCAnswer == <<121, 13, 10>>
MCRefusal == <<110>>
=============================================================================
