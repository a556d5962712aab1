------------------------------ MODULE ILayout ------------------------------
(***************************************************************************)
(* ILayout: instructions as layouts of fields.  A class of instructions    *)
(* has a layout, the fields of its words from the lowest bit up, and       *)
(* defaults; an instruction is a class with some of the arguments given    *)
(* (kwargs) and transforms (xfrms) that make fields of other arguments.    *)
(* value() makes a word of the arguments, match_value() reads them back.   *)
(*                                                                         *)
(* A word is the set of the numbers of its bits that are 1.  Keyword       *)
(* arguments are a function on names; a call that raises gives Refused.    *)
(***************************************************************************)
EXTENDS Integers, SequencesExt

WordLen == 32

\* What a call gives that raises.
Refused == {-1}

Bit(v, k) == (v \div 2^k) % 2

\* v in the bits of range, a pair <<start, end>>: what is too wide is cut off.
Place(v, range) == {i \in range[1] .. range[2] - 1 : Bit(v, i - range[1]) = 1}

\* The number that the bits of range make.
Extract(word, range) ==
  LET low[n \in 0 .. WordLen] ==
        IF n = 0 THEN 0
        ELSE low[n - 1] + (IF range[1] + n - 1 \in word THEN 2^(n - 1) ELSE 0)
  IN low[range[2] - range[1]]

Drop(kwargs, names) == Restrict(kwargs, DOMAIN kwargs \ names)

\* Arguments and more of them, which take the place of those of the same name.
kwargs ++ more ==
  [e \in DOMAIN kwargs \cup DOMAIN more |-> IF e \in DOMAIN more THEN more[e] ELSE kwargs[e]]
-----------------------------------------------------------------------------
(* The shapes of fields.  immY_X is bits Y to X of an immediate. *)

ImmTop == [imm4_0 |-> 4, imm11_5 |-> 11, imm11 |-> 11, imm4_1 |-> 4, imm10_5 |-> 10,
           imm12 |-> 12, imm19_12 |-> 19, imm10_1 |-> 10, imm20 |-> 20]
ImmBottom == [imm4_0 |-> 0, imm11_5 |-> 5, imm11 |-> 11, imm4_1 |-> 1, imm10_5 |-> 5,
              imm12 |-> 12, imm19_12 |-> 12, imm10_1 |-> 1, imm20 |-> 20]

\* imm is the last field of a layout, and takes what is left.
Width(elem, remlen) ==
  IF elem \in DOMAIN ImmTop THEN ImmTop[elem] - ImmBottom[elem] + 1
  ELSE IF elem = "imm" THEN remlen
  ELSE [opcode |-> 7, rd |-> 5, rs1 |-> 5, rs2 |-> 5, funct3 |-> 3, funct7 |-> 7][elem]

Ends(layout) ==
  LET end[i \in 0 .. Len(layout)] ==
        IF i = 0 THEN 0 ELSE end[i - 1] + Width(layout[i], WordLen - end[i - 1])
  IN end

\* finalise(): the range of every field.
FieldRanges(layout) ==
  [e \in ToSet(layout) |->
     LET i == CHOOSE i \in DOMAIN layout : layout[i] = e
     IN <<Ends(layout)[i - 1], Ends(layout)[i]>>]

Fills(layout) == Ends(layout)[Len(layout)] = WordLen
-----------------------------------------------------------------------------
(* Transforms: a record of its class (kind), its inputs, the fields it     *)
(* makes of them (layout), and a parameter.                                *)

FenceLetter == <<"w", "r", "o", "i">>

\* A set of fence's letters as a number, and back.
fence_arg(a) == Extract({i \in 0 .. 3 : FenceLetter[i + 1] \in a}, <<0, 4>>)
arg_fence(v) == {FenceLetter[i + 1] : i \in Place(v, <<0, 4>>)}

\* A field no layout has.
Assertion == [refused |-> TRUE]

ImmToLayout(x, args) ==
  [e \in ToSet(x.layout) |-> (args.imm \div 2^ImmBottom[e]) % 2^(ImmTop[e] - ImmBottom[e] + 1)]

ImmToInputs(x, args) ==
  LET sum[k \in 0 .. Len(x.layout)] ==
        IF k = 0 THEN 0
        ELSE sum[k - 1] + args[x.layout[k]] * 2^ImmBottom[x.layout[k]]
  IN [imm |-> sum[Len(x.layout)]]

ShamtToLayout(x, args) ==
  IF args.shamt \in 0 .. 31 THEN [imm |-> x.param * 32 + args.shamt] ELSE Assertion

\* imm stays as it is.
ShamtToInputs(x, args) == [shamt |-> args.imm]

RS1OffToLayout(x, args) == [imm |-> args.rs1off[1], rs1 |-> args.rs1off[2]]

RS1OffToInputs(x, args) == [rs1off |-> <<args.imm, args.rs1>>]

FenceToLayout(x, args) ==
  IF args.pred = {} \/ args.succ = {} THEN Assertion
  ELSE [imm |-> fence_arg(args.succ) + 16 * fence_arg(args.pred) + 256 * x.param]

NoMatch == [no_match |-> TRUE]

FenceToInputs(x, args) ==
  IF args.imm \div 256 # x.param THEN NoMatch
  ELSE [pred |-> arg_fence((args.imm \div 16) % 16), succ |-> arg_fence(args.imm % 16)]

SystemToLayout(x, args) == [funct3 |-> args.funct % 8, imm |-> args.funct \div 8]

CheckToLayout(x, args) ==
  IF args.imm \in -(2^20 - 1) .. 2^20 - 1 THEN [imm |-> args.imm] ELSE Assertion

CheckToInputs(x, args) == [imm |-> args.imm]

inputs_to_layout(x, args) ==
  CASE x.kind = "Imm" -> ImmToLayout(x, args)
    [] x.kind = "Shamt" -> ShamtToLayout(x, args)
    [] x.kind = "RS1Off" -> RS1OffToLayout(x, args)
    [] x.kind = "Fence" -> FenceToLayout(x, args)
    [] x.kind = "System" -> SystemToLayout(x, args)
    [] x.kind = "Check" -> CheckToLayout(x, args)

\* SystemXfrm has none: no instruction's match gets to it.
layout_to_inputs(x, args) ==
  CASE x.kind = "Imm" -> ImmToInputs(x, args)
    [] x.kind = "Shamt" -> ShamtToInputs(x, args)
    [] x.kind = "RS1Off" -> RS1OffToInputs(x, args)
    [] x.kind = "Fence" -> FenceToInputs(x, args)
    [] x.kind = "Check" -> CheckToInputs(x, args)

\* The arguments through a transform, if all it takes are there.
Forward(x, kwargs) ==
  IF ToSet(x.inputs) \subseteq DOMAIN kwargs
    THEN Drop(kwargs, ToSet(x.inputs)) ++ inputs_to_layout(x, kwargs) ELSE kwargs

Backward(x, kwargs) ==
  IF kwargs = NoMatch THEN NoMatch
  ELSE IF ToSet(x.layout) \subseteq DOMAIN kwargs
    THEN LET args == layout_to_inputs(x, kwargs)
         IN IF args = NoMatch THEN NoMatch ELSE Drop(kwargs, ToSet(x.layout)) ++ args
  ELSE kwargs
-----------------------------------------------------------------------------
(* Instructions.  cls is a record with layout, ranges and defaults.        *)

Without(names, dropped) ==
  LET kept[k \in 0 .. Len(names)] ==
        IF k = 0 THEN <<>>
        ELSE IF names[k] \in dropped THEN kept[k - 1] ELSE Append(kept[k - 1], names[k])
  IN kept[Len(names)]

\* An instruction of cls, one with more arguments given, and one with a transform,
\* which comes before those there are.
Child(cls, kwargs) ==
  [cls |-> cls, kwargs |-> kwargs, xfrms |-> <<>>,
   asm_args |-> Without(cls.layout, DOMAIN cls.defaults \cup DOMAIN kwargs)]

Call(insn, kwargs) ==
  [insn EXCEPT !.kwargs = @ ++ kwargs, !.asm_args = Without(@, DOMAIN kwargs)]

Xfrm(insn, x) ==
  [insn EXCEPT !.xfrms = <<x>> \o @,
               !.asm_args = Without(@, ToSet(x.layout)) \o x.inputs]

\* kwargs through all of an instruction's transforms, forwards; and backwards, which is
\* in that same order too.
Applied(xfrms, kwargs) ==
  LET after[k \in 0 .. Len(xfrms)] ==
        IF k = 0 THEN kwargs ELSE Forward(xfrms[k], after[k - 1])
  IN after[Len(xfrms)]

Reversed(xfrms, kwargs) ==
  LET after[k \in 0 .. Len(xfrms)] ==
        IF k = 0 THEN kwargs ELSE Backward(xfrms[k], after[k - 1])
  IN after[Len(xfrms)]

Combined(insn, given) == Applied(insn.xfrms, insn.kwargs ++ given)

\* Mutant: only defaults are protected.
AcceptsOverrides(insn, given) ==
  LET fixed == DOMAIN insn.cls.defaults
      names == DOMAIN Combined(insn, given)
  IN names \subseteq ToSet(insn.cls.layout) /\ names \cap DOMAIN given \cap fixed = {}

\* What args_for() checks: every name is a field by now, and none that was given is
\* one the instruction has fixed.
Accepts(insn, given) ==
  LET fixed == DOMAIN insn.cls.defaults \cup DOMAIN insn.kwargs
      names == DOMAIN Combined(insn, given)
  IN names \subseteq ToSet(insn.cls.layout) /\ names \cap DOMAIN given \cap fixed = {}

args_for(insn, given) == insn.cls.defaults ++ Combined(insn, given)

value(insn, given) ==
  LET args == args_for(insn, given) IN
  IF Accepts(insn, given) /\ DOMAIN args = ToSet(insn.cls.layout)
    THEN UNION {Place(args[e], insn.cls.ranges[e]) : e \in DOMAIN args}
    ELSE Refused

\* Mutant: what the instruction fixes is not compared.
match_valueUnchecked(insn, word) ==
  LET rem == ToSet(insn.cls.layout) \ DOMAIN args_for(insn, <<>>)
  IN Reversed(insn.xfrms, [e \in rem |-> Extract(word, insn.cls.ranges[e])])

match_value(insn, word) ==
  LET known == args_for(insn, <<>>)
      field(e) == Extract(word, insn.cls.ranges[e])
      rem == ToSet(insn.cls.layout) \ DOMAIN known
  IN IF \E e \in DOMAIN known : field(e) # known[e] THEN NoMatch
     ELSE Reversed(insn.xfrms, [e \in rem |-> field(e)])
=============================================================================
