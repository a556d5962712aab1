---------------------------- MODULE MCAssembler ----------------------------
(***************************************************************************)
(* Values for TLC: every instruction, with registers under their different *)
(* names and arguments at the boundaries of their fields and past them.    *)
(***************************************************************************)
EXTENDS Assembler, TLC

Regs == {Reg("x0"), Reg("ra"), Reg("s0"), Reg("t6")}

Imms == {0, 1, -2, 5, 2047, -2048, 2048, 4094, 1365, 699050, -349526, 1048575, -1048576}

Letters == {{"w"}, {"r", "i"}, {"r", "w"}, {"o"}, {}}

Values(e) ==
  CASE e \in {"rd", "rs1", "rs2"} -> Regs
    [] e = "imm" -> Imms
    [] e = "shamt" -> {0, 1, 5, 16, 31, 32}
    [] e = "rs1off" -> {0, 3, -1, 2047, -2048, 1365} \X {Reg("sp"), Reg("x31")}
    [] e \in {"pred", "succ"} -> Letters

\* The choices of arguments for the names of a sequence.
Arguments(names) ==
  LET choices[k \in 0 .. Len(names)] ==
        IF k = 0 THEN {<<>>}
        ELSE {f @@ (names[k] :> v) : f \in choices[k - 1], v \in Values(names[k])}
  IN choices[Len(names)]

\* One more argument, which is a field the instruction has fixed, or makes.
Extras == {[opcode |-> 3], [funct3 |-> 2], [funct7 |-> 32], [rd |-> 31], [rs1 |-> 31], [imm |-> 9]}

LineOf(name, args) == [name |-> name, args |-> args]

LILines(rds, his) ==
  {LineOf("LI", [rd |-> rd, imm |-> <<hi, lo>>]) :
     rd \in rds, hi \in his, lo \in {0, 1, 291, 2047, 2048, 2049, 3801, 4094, 4095}}

\* Immediates as they stand in the tests.
MCLILines == LILines({10}, {0, 1, 74565})

MCLines ==
  UNION {{LineOf(n, args) : args \in Arguments(Insns[n].asm_args)} : n \in DOMAIN Insns}
  \cup
  {LineOf(n, extra @@ (CHOOSE args \in Arguments(Insns[n].asm_args) : TRUE)) :
     n \in DOMAIN Insns, extra \in Extras}
  \cup
  LILines({0, 10}, {0, 1, -1, 74565, 524287, -524287, 1048575})
=============================================================================
