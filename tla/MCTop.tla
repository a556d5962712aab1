------------------------------- MODULE MCTop -------------------------------
(***************************************************************************)
(* Values for TLC: the programs of MCSae, booted as the code boots them,   *)
(* on a board whose button may be pressed at any edge, any number of       *)
(* times.                                                                  *)
(***************************************************************************)
EXTENDS MCSae, TopHistory, TLC

MCRegInits == {(2 :> 156), (1 :> 193) @@ (2 :> -3), (1 :> 13)}

TopRegs == {FirstXmem(inits) : inits \in MCRegInits}

\* A program's file: two instructions, a word that stops the hart, and three bytes.
TopImages ==
  {FirstSysmem([i \in 1 .. 15 |->
     BytesOf(<<Code(j), Code(k), StopWord, DataWord>>[((i - 1) \div 4) + 1])[(i - 1) % 4]]) :
     j, k \in KindsUsed}
=============================================================================
