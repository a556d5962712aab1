----------------------------- MODULE Assembler -----------------------------
(***************************************************************************)
(* A line of a program on its way: it is assembled into words, the words   *)
(* are disassembled as the simulator does that traces them, and what that  *)
(* says is assembled again.                                                *)
(*                                                                         *)
(* The arguments of the line are those the instruction asks for            *)
(* (asm_args), and perhaps one more.  LI's immediate is a pair <<hi, lo>>. *)
(***************************************************************************)
EXTENDS Disassembler

CONSTANTS Lines     \* the lines: records of a name and its arguments

Operand(e) ==
  CASE e \in {"rd", "rs1", "rs2"} -> 0 .. 31
    [] e = "rs1off" -> Int \X (0 .. 31)
    [] e \in {"pred", "succ"} -> SUBSET ToSet(FenceLetter)
    [] OTHER -> Int

\* All the operands that the instruction asks for, and of those it has been given already
\* no other than fields of its words.
Asks(name, args) ==
  LET insn == Insns[name]
  IN /\ ToSet(insn.asm_args) \subseteq DOMAIN args
     /\ DOMAIN args \cap DOMAIN insn.kwargs \subseteq ToSet(insn.cls.layout)
     /\ \A e \in ToSet(insn.asm_args) : args[e] \in Operand(e)

ASSUME LinesAssumption ==
  \A l \in Lines :
    IF l.name = "LI" THEN l.args \in [rd : 0 .. 31, imm : Int \X Low]
    ELSE l.name \in DOMAIN Insns /\ Asks(l.name, l.args)

VARIABLES line, words, texts, again

asmVars == <<line, words, texts, again>>

LIPiece(rd, pieces, k) ==
  LET piece == pieces[k] IN
  IF piece.insn = "LUI" THEN value(Insns.LUI, [rd |-> rd, imm |-> piece.imm])
  ELSE value(Insns.ADDI, [rd |-> rd, rs1 |-> IF k = 1 THEN Reg("zero") ELSE rd,
                          imm |-> piece.imm])

\* The words of an instruction, by its name.
Assembled(name, args) ==
  IF name = "LI" THEN LET pieces == LI(args.imm[1], args.imm[2])
                      IN [k \in DOMAIN pieces |-> LIPiece(args.rd, pieces, k)]
  ELSE <<value(Insns[name], args)>>

\* The operands of a text are the instruction's asm_args, in order.
FromText(text) ==
  LET operands == text.operands IN
  IF text.name = "LI"
    THEN Assembled("LI", [rd |-> operands[1],
                          imm |-> <<operands[2] \div 4096, operands[2] % 4096>>])
  ELSE LET names == Insns[text.name].asm_args
       IN IF Len(names) # Len(operands) THEN <<Refused>>
          ELSE Assembled(text.name,
                         [e \in ToSet(names) |-> operands[CHOOSE i \in DOMAIN names : names[i] = e]])

AsmInit ==
  /\ line \in Lines
  /\ words = <<>> /\ texts = <<>> /\ again = <<>>

Assemble ==
  /\ words = <<>>
  /\ words' = Assembled(line.name, line.args)
  /\ UNCHANGED <<line, texts, again>>

Disassemble ==
  /\ words # <<>> /\ Refused \notin ToSet(words) /\ texts = <<>>
  /\ texts' = [k \in DOMAIN words |-> disasm(words[k])]
  /\ UNCHANGED <<line, words, again>>

Reassemble ==
  /\ texts # <<>> /\ again = <<>>
  /\ again' = [k \in DOMAIN texts |-> IF texts[k] = Unknown THEN <<Refused>> ELSE FromText(texts[k])]
  /\ UNCHANGED <<line, words, texts>>

AsmNext == Assemble \/ Disassemble \/ Reassemble

AsmSpec == AsmInit /\ [][AsmNext]_asmVars
-----------------------------------------------------------------------------
(* What the hart takes from a word (hart.py, fetch.resolve).               *)

\* Mutant: J's bits 11 and 19..12 are exchanged.
HartImmJSwapped(word) ==
  LET j == decode(J, word)
  IN 2 * j.imm10_1 + 2^11 * j.imm19_12 + 2^19 * j.imm11 + 2^20 * j.imm20

HartImmJ(word) ==
  LET j == decode(J, word)
  IN 2 * j.imm10_1 + 2^11 * j.imm11 + 2^12 * j.imm19_12 + 2^20 * j.imm20

HartImm(word) ==
  LET opcode == decode(I, word).opcode
      s == decode(S, word)
      b == decode(B, word)
  IN CASE opcode \in {Opcode.LUI, Opcode.AUIPC} -> decode(U, word).imm
       [] opcode = Opcode.STORE -> c2(12, s.imm4_0 + 2^5 * s.imm11_5)
       [] opcode = Opcode.BRANCH ->
            c2(13, 2 * b.imm4_1 + 2^5 * b.imm10_5 + 2^11 * b.imm11 + 2^12 * b.imm12)
       [] opcode = Opcode.JAL -> c2(21, HartImmJ(word))
       [] OTHER -> c2(12, decode(I, word).imm)
-----------------------------------------------------------------------------
\* The immediate a line asks for, as its instruction has room for it.
Asked(name, args) ==
  LET cut(bits, imm) == c2(bits, imm % 2^bits) IN
  CASE "shamt" \in DOMAIN args -> args.shamt + (IF name = "SRAI" THEN 1024 ELSE 0)
    [] "rs1off" \in DOMAIN args -> cut(12, args.rs1off[1])
    [] name \in {"LUI", "AUIPC"} -> args.imm % 2^20
    [] name \in {"JAL", "J_"} -> cut(21, args.imm - (args.imm % 2))
    [] name \in {"BEQ", "BNE", "BLT", "BGE", "BLTU", "BGEU"} -> cut(13, args.imm - (args.imm % 2))
    [] OTHER -> cut(12, args.imm)

IsAssembled == line.name # "LI" /\ words # <<>> /\ words # <<Refused>>

\* The line has the arguments its instruction asks for and no other: of another, which
\* a transform makes of one that is given too, nothing is left in the word.
AsAsked == DOMAIN line.args = ToSet(Insns[line.name].asm_args)

\* The hart takes from a word the operands of the line it was assembled from: the
\* immediate, which the formats cut up and reorder, put together again with its sign,
\* and each register in the field in which it is read.
HartReadsTheLine ==
  IsAssembled /\ AsAsked =>
    LET r == decode(R, words[1])
        args == line.args
        named(e) == e \in DOMAIN args
    IN /\ named("imm") \/ named("shamt") \/ named("rs1off") =>
            HartImm(words[1]) = Asked(line.name, args)
       /\ named("rs1off") => r.rs1 = args.rs1off[2]
       /\ \A e \in {"rd", "rs1", "rs2"} : named(e) => r[e] = args[e]

\* What the trace says of a word is a line that assembles to that word, and no other.
Reassembles == again # <<>> => \A k \in DOMAIN words : again[k] = <<words[k]>>

\* A word matches the instruction of its line, and no other but a special case of it:
\* nothing that is assembled can be taken for something else.  The exceptions: a shift
\* to the right takes every immediate for a shamt, and NOT compares its -1 with the
\* field's 4095 and matches nothing.
OneReading ==
  IsAssembled =>
    \A n \in DOMAIN Insns \ {"SRLI", "SRAI"} :
      LET matches == match_value(Insns[n], words[1]) # NoMatch
      IN /\ n = line.name /\ n # "NOT" => matches
         /\ n # line.name /\ n \notin SpecialCases /\ line.name \notin SpecialCases => ~matches

\* Whatever matches a word gives the arguments with which it makes that word.  (The
\* arguments a shift to the right matches have the bits of imm11_5 in shamt.)
MatchesInvert ==
  IsAssembled =>
    \A n \in DOMAIN Insns \ {"SRLI", "SRAI"} :
      LET args == match_value(Insns[n], words[1])
      IN args # NoMatch => value(Insns[n], args) = words[1]

\* "is already defined for ... and cannot be overridden" (ilayout.py): no argument of a
\* line changes a field its instruction fixes.
FixedFieldsStay ==
  IsAssembled =>
    LET insn == Insns[line.name]
        fixed == insn.cls.defaults ++ insn.kwargs
    IN \A e \in DOMAIN fixed \cap ToSet(insn.cls.layout) :
         decode(insn.cls, words[1])[e] =
           fixed[e] % 2^(insn.cls.ranges[e][2] - insn.cls.ranges[e][1])

\* A line of LI has been assembled, to instructions that load one part after another.
LIDone == line.name = "LI" /\ words # <<>> /\ Refused \notin ToSet(words)

Adds(word) ==
  IF decode(I, word).opcode = Opcode.LUI THEN c2(20, HartImm(word)) * 4096 ELSE HartImm(word)

LoadedByWords ==
  LET sum[k \in 0 .. Len(words)] == IF k = 0 THEN 0 ELSE sum[k - 1] + Adds(words[k])
  IN sum[Len(words)]

\* The immediates of which LI makes another number: those of 12 bits with the top one
\* set, which the one ADDI takes for negative, and those whose low 12 bits are all
\* ones, of which the second half is one too many for an ADDI.
Mistaken(hi, lo) == (hi = 0 /\ lo >= 2048) \/ lo = 4095

\* LI loads its immediate, or is one of those that are Mistaken; those are mistaken.
LIExact ==
  LIDone => LET imm == line.args.imm
            IN (LoadedByWords = c2(20, imm[1] % 2^20) * 4096 + imm[2])
                 <=> ~Mistaken(imm[1], imm[2])

\* "li x1, 0x123 ... .assert x1=0x123" (tests/test_integers.st): LI loads its operand.
LILoads ==
  LIDone => LoadedByWords = c2(20, line.args.imm[1] % 2^20) * 4096 + line.args.imm[2]
=============================================================================
