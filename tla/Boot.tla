-------------------------------- MODULE Boot -------------------------------
(***************************************************************************)
(* What Hart's constructor puts in the two memories before the first edge: *)
(* registers from the dictionary reg_inits it is given, here a function on *)
(* some of the registers, and sysmem from the bytes of a program's file.   *)
(***************************************************************************)
EXTENDS RV32, ByteMemory, Sequences

\* Mutant: x1 is left to the registers' default.
BootInitsAsGiven(reg_inits) == reg_inits

\* A program that returns from its first frame is to fault: x1 is all ones.
BootInits(reg_inits) ==
  [xn \in DOMAIN reg_inits \cup {1} |->
     IF xn \in DOMAIN reg_inits THEN reg_inits[xn] ELSE WordSize - 1]

\* A register asked to start at 0 is taken for one nothing was asked of, so x2, the
\* stack pointer, then starts at the end of memory.
RegReset(reg_inits, xn) ==
  LET asked == xn \in DOMAIN reg_inits /\ reg_inits[xn] # 0
      v == IF asked THEN reg_inits[xn] ELSE IF xn = 2 THEN 2 * Depth ELSE 0
  IN IF xn = 0 THEN 0 ELSE IF v < 0 THEN v + WordSize ELSE v

FirstXmem(reg_inits) == [xn \in Reg |-> RegReset(BootInits(reg_inits), xn)]

\* The file's bytes by pairs, the first one low; the last of an odd number is alone in
\* its cell, and the cells past the file are zero.
FirstSysmem(file) ==
  LET cell(h) == [k \in 0 .. 1 |-> IF 2 * h + k < Len(file) THEN file[2 * h + k + 1] ELSE 0]
  IN [i \in MemByte |-> cell(i \div 2)[i % 2]]
=============================================================================
