--------------------------- MODULE AssemblerProofs --------------------------
(***************************************************************************)
(* A line of a program, whatever its operands: which instructions match    *)
(* its word, and with which arguments; what its word says to the hart; and *)
(* what LI loads.                                                          *)
(***************************************************************************)
EXTENDS Assembler, ILayoutProofs

(* What the instructions match. *)

\* What is read in a range of bits fits into it.
LEMMA FieldRange ==
  ASSUME NEW word
  PROVE  /\ Extract(word, <<0, 7>>) \in Nat /\ Extract(word, <<0, 7>>) < 128
         /\ Extract(word, <<7, 8>>) \in Nat /\ Extract(word, <<7, 8>>) < 2
         /\ Extract(word, <<7, 12>>) \in Nat /\ Extract(word, <<7, 12>>) < 32
         /\ Extract(word, <<8, 12>>) \in Nat /\ Extract(word, <<8, 12>>) < 16
         /\ Extract(word, <<12, 15>>) \in Nat /\ Extract(word, <<12, 15>>) < 8
         /\ Extract(word, <<12, 20>>) \in Nat /\ Extract(word, <<12, 20>>) < 256
         /\ Extract(word, <<12, 32>>) \in Nat /\ Extract(word, <<12, 32>>) < 1048576
         /\ Extract(word, <<15, 20>>) \in Nat /\ Extract(word, <<15, 20>>) < 32
         /\ Extract(word, <<20, 21>>) \in Nat /\ Extract(word, <<20, 21>>) < 2
         /\ Extract(word, <<20, 25>>) \in Nat /\ Extract(word, <<20, 25>>) < 32
         /\ Extract(word, <<20, 32>>) \in Nat /\ Extract(word, <<20, 32>>) < 4096
         /\ Extract(word, <<21, 31>>) \in Nat /\ Extract(word, <<21, 31>>) < 1024
         /\ Extract(word, <<25, 31>>) \in Nat /\ Extract(word, <<25, 31>>) < 64
         /\ Extract(word, <<25, 32>>) \in Nat /\ Extract(word, <<25, 32>>) < 128
         /\ Extract(word, <<31, 32>>) \in Nat /\ Extract(word, <<31, 32>>) < 2
<1>1. Extract(word, <<0, 7>>) \in Nat /\ Extract(word, <<0, 7>>) < 128
  <2>1. PICK a \in Nat, w \in 0 .. 20 : a = 0 /\ w = 7
    OBVIOUS
  <2>2. Extract(word, <<a, a + w>>) \in 0 .. Power(w) - 1
    BY Zenon, ExtractRange
  <2>3. Power(7) = 128 /\ <<a, a + w>> = <<0, 7>>
    BY <2>1, Powers DEF Power
  <2> QED BY SMT, <2>1, <2>2, <2>3
<1>2. Extract(word, <<7, 8>>) \in Nat /\ Extract(word, <<7, 8>>) < 2
  <2>1. PICK a \in Nat, w \in 0 .. 20 : a = 7 /\ w = 1
    OBVIOUS
  <2>2. Extract(word, <<a, a + w>>) \in 0 .. Power(w) - 1
    BY Zenon, ExtractRange
  <2>3. Power(1) = 2 /\ <<a, a + w>> = <<7, 8>>
    BY <2>1, Powers DEF Power
  <2> QED BY SMT, <2>1, <2>2, <2>3
<1>3. Extract(word, <<7, 12>>) \in Nat /\ Extract(word, <<7, 12>>) < 32
  <2>1. PICK a \in Nat, w \in 0 .. 20 : a = 7 /\ w = 5
    OBVIOUS
  <2>2. Extract(word, <<a, a + w>>) \in 0 .. Power(w) - 1
    BY Zenon, ExtractRange
  <2>3. Power(5) = 32 /\ <<a, a + w>> = <<7, 12>>
    BY <2>1, Powers DEF Power
  <2> QED BY SMT, <2>1, <2>2, <2>3
<1>4. Extract(word, <<8, 12>>) \in Nat /\ Extract(word, <<8, 12>>) < 16
  <2>1. PICK a \in Nat, w \in 0 .. 20 : a = 8 /\ w = 4
    OBVIOUS
  <2>2. Extract(word, <<a, a + w>>) \in 0 .. Power(w) - 1
    BY Zenon, ExtractRange
  <2>3. Power(4) = 16 /\ <<a, a + w>> = <<8, 12>>
    BY <2>1, Powers DEF Power
  <2> QED BY SMT, <2>1, <2>2, <2>3
<1>5. Extract(word, <<12, 15>>) \in Nat /\ Extract(word, <<12, 15>>) < 8
  <2>1. PICK a \in Nat, w \in 0 .. 20 : a = 12 /\ w = 3
    OBVIOUS
  <2>2. Extract(word, <<a, a + w>>) \in 0 .. Power(w) - 1
    BY Zenon, ExtractRange
  <2>3. Power(3) = 8 /\ <<a, a + w>> = <<12, 15>>
    BY <2>1, Powers DEF Power
  <2> QED BY SMT, <2>1, <2>2, <2>3
<1>6. Extract(word, <<12, 20>>) \in Nat /\ Extract(word, <<12, 20>>) < 256
  <2>1. PICK a \in Nat, w \in 0 .. 20 : a = 12 /\ w = 8
    OBVIOUS
  <2>2. Extract(word, <<a, a + w>>) \in 0 .. Power(w) - 1
    BY Zenon, ExtractRange
  <2>3. Power(8) = 256 /\ <<a, a + w>> = <<12, 20>>
    BY <2>1, Powers DEF Power
  <2> QED BY SMT, <2>1, <2>2, <2>3
<1>7. Extract(word, <<12, 32>>) \in Nat /\ Extract(word, <<12, 32>>) < 1048576
  <2>1. PICK a \in Nat, w \in 0 .. 20 : a = 12 /\ w = 20
    OBVIOUS
  <2>2. Extract(word, <<a, a + w>>) \in 0 .. Power(w) - 1
    BY Zenon, ExtractRange
  <2>3. Power(20) = 1048576 /\ <<a, a + w>> = <<12, 32>>
    BY <2>1, Powers DEF Power
  <2> QED BY SMT, <2>1, <2>2, <2>3
<1>8. Extract(word, <<15, 20>>) \in Nat /\ Extract(word, <<15, 20>>) < 32
  <2>1. PICK a \in Nat, w \in 0 .. 20 : a = 15 /\ w = 5
    OBVIOUS
  <2>2. Extract(word, <<a, a + w>>) \in 0 .. Power(w) - 1
    BY Zenon, ExtractRange
  <2>3. Power(5) = 32 /\ <<a, a + w>> = <<15, 20>>
    BY <2>1, Powers DEF Power
  <2> QED BY SMT, <2>1, <2>2, <2>3
<1>9. Extract(word, <<20, 21>>) \in Nat /\ Extract(word, <<20, 21>>) < 2
  <2>1. PICK a \in Nat, w \in 0 .. 20 : a = 20 /\ w = 1
    OBVIOUS
  <2>2. Extract(word, <<a, a + w>>) \in 0 .. Power(w) - 1
    BY Zenon, ExtractRange
  <2>3. Power(1) = 2 /\ <<a, a + w>> = <<20, 21>>
    BY <2>1, Powers DEF Power
  <2> QED BY SMT, <2>1, <2>2, <2>3
<1>10. Extract(word, <<20, 25>>) \in Nat /\ Extract(word, <<20, 25>>) < 32
  <2>1. PICK a \in Nat, w \in 0 .. 20 : a = 20 /\ w = 5
    OBVIOUS
  <2>2. Extract(word, <<a, a + w>>) \in 0 .. Power(w) - 1
    BY Zenon, ExtractRange
  <2>3. Power(5) = 32 /\ <<a, a + w>> = <<20, 25>>
    BY <2>1, Powers DEF Power
  <2> QED BY SMT, <2>1, <2>2, <2>3
<1>11. Extract(word, <<20, 32>>) \in Nat /\ Extract(word, <<20, 32>>) < 4096
  <2>1. PICK a \in Nat, w \in 0 .. 20 : a = 20 /\ w = 12
    OBVIOUS
  <2>2. Extract(word, <<a, a + w>>) \in 0 .. Power(w) - 1
    BY Zenon, ExtractRange
  <2>3. Power(12) = 4096 /\ <<a, a + w>> = <<20, 32>>
    BY <2>1, Powers DEF Power
  <2> QED BY SMT, <2>1, <2>2, <2>3
<1>12. Extract(word, <<21, 31>>) \in Nat /\ Extract(word, <<21, 31>>) < 1024
  <2>1. PICK a \in Nat, w \in 0 .. 20 : a = 21 /\ w = 10
    OBVIOUS
  <2>2. Extract(word, <<a, a + w>>) \in 0 .. Power(w) - 1
    BY Zenon, ExtractRange
  <2>3. Power(10) = 1024 /\ <<a, a + w>> = <<21, 31>>
    BY <2>1, Powers DEF Power
  <2> QED BY SMT, <2>1, <2>2, <2>3
<1>13. Extract(word, <<25, 31>>) \in Nat /\ Extract(word, <<25, 31>>) < 64
  <2>1. PICK a \in Nat, w \in 0 .. 20 : a = 25 /\ w = 6
    OBVIOUS
  <2>2. Extract(word, <<a, a + w>>) \in 0 .. Power(w) - 1
    BY Zenon, ExtractRange
  <2>3. Power(6) = 64 /\ <<a, a + w>> = <<25, 31>>
    BY <2>1, Powers DEF Power
  <2> QED BY SMT, <2>1, <2>2, <2>3
<1>14. Extract(word, <<25, 32>>) \in Nat /\ Extract(word, <<25, 32>>) < 128
  <2>1. PICK a \in Nat, w \in 0 .. 20 : a = 25 /\ w = 7
    OBVIOUS
  <2>2. Extract(word, <<a, a + w>>) \in 0 .. Power(w) - 1
    BY Zenon, ExtractRange
  <2>3. Power(7) = 128 /\ <<a, a + w>> = <<25, 32>>
    BY <2>1, Powers DEF Power
  <2> QED BY SMT, <2>1, <2>2, <2>3
<1>15. Extract(word, <<31, 32>>) \in Nat /\ Extract(word, <<31, 32>>) < 2
  <2>1. PICK a \in Nat, w \in 0 .. 20 : a = 31 /\ w = 1
    OBVIOUS
  <2>2. Extract(word, <<a, a + w>>) \in 0 .. Power(w) - 1
    BY Zenon, ExtractRange
  <2>3. Power(1) = 2 /\ <<a, a + w>> = <<31, 32>>
    BY <2>1, Powers DEF Power
  <2> QED BY SMT, <2>1, <2>2, <2>3
<1> QED BY SMT, <1>1, <1>2, <1>3, <1>4, <1>5, <1>6, <1>7, <1>8, <1>9, <1>10, <1>11, <1>12,
      <1>13, <1>14, <1>15

\* XMatch, for each family X: which words it matches, and the arguments it gives of them.
LEMMA OpMatch ==
  ASSUME NEW funct3, NEW word, NEW found, found = match_value(Op(funct3, 0), word)
  PROVE  /\ found # NoMatch <=>
              /\ Extract(word, <<0, 7>>) = 51
              /\ Extract(word, <<12, 15>>) = funct3
              /\ Extract(word, <<25, 32>>) = 0
         /\ found # NoMatch =>
              /\ DOMAIN found = {"rd", "rs1", "rs2"}
              /\ found["rd"] = Extract(word, <<7, 12>>)
              /\ found["rs1"] = Extract(word, <<15, 20>>)
              /\ found["rs2"] = Extract(word, <<20, 25>>)
<1> DEFINE kwargs == [funct3 |-> funct3]
           defaults == [opcode |-> 51, funct7 |-> 0]
           layout == {"opcode", "rd", "funct3", "rs1", "rs2", "funct7"}
<1>1. PICK insn : insn = Insn(R, kwargs, <<>>, <<"rd", "rs1", "rs2">>)
  OBVIOUS
<1>2. insn = Op(funct3, 0)
  BY <1>1, OpForm
<1>3. insn.cls = R /\ insn.kwargs = kwargs /\ insn.xfrms = <<>>
  BY <1>1, InsnParts
<1>4. ToSet(R.layout) = layout /\ R.ranges = RRanges /\ R.defaults = defaults
  BY Formats, RIs
<1>5. DOMAIN defaults = {"opcode", "funct7"} /\ DOMAIN kwargs = {"funct3"}
  OBVIOUS
<1>6. /\ defaults["opcode"] = 51
      /\ defaults["funct7"] = 0
      /\ kwargs["funct3"] = funct3
  OBVIOUS
<1> HIDE DEF kwargs, defaults
<1> DEFINE none == <<>>
<1>7. DOMAIN none = {} /\ none = <<>>
  OBVIOUS
<1> HIDE DEF none
<1>8. PICK all : IsPlus(all, kwargs, none)
  BY PlusIs
<1>9. /\ DOMAIN all = DOMAIN kwargs \cup DOMAIN none
      /\ \A e \in DOMAIN none : all[e] = none[e]
      /\ \A e \in DOMAIN kwargs : e \notin DOMAIN none => all[e] = kwargs[e]
  BY <1>8 DEF IsPlus
<1>10. all = Applied(<<>>, all)
  BY AppliedOf
<1>11. PICK known : IsPlus(known, defaults, all)
  BY PlusIs
<1>12. /\ DOMAIN known = DOMAIN defaults \cup DOMAIN all
       /\ \A e \in DOMAIN all : known[e] = all[e]
       /\ \A e \in DOMAIN defaults : e \notin DOMAIN all => known[e] = defaults[e]
  BY <1>11 DEF IsPlus
<1>13. /\ "funct3" \in DOMAIN all /\ all["funct3"] = funct3
  BY <1>5, <1>6, <1>9, <1>7
<1>14. DOMAIN known = {"opcode", "funct3", "funct7"}
  BY <1>7, <1>5, <1>6, <1>13, <1>12, <1>9
<1>15. /\ known["opcode"] = 51
       /\ known["funct3"] = funct3
       /\ known["funct7"] = 0
  BY <1>7, <1>5, <1>6, <1>13, <1>12, <1>9
<1>16. /\ RRanges["opcode"] = <<0, 7>>
       /\ RRanges["rd"] = <<7, 12>>
       /\ RRanges["funct3"] = <<12, 15>>
       /\ RRanges["rs1"] = <<15, 20>>
       /\ RRanges["rs2"] = <<20, 25>>
       /\ RRanges["funct7"] = <<25, 32>>
  BY DEF RRanges
<1> DEFINE matches ==
             /\ Extract(word, <<0, 7>>) = 51
             /\ Extract(word, <<12, 15>>) = funct3
             /\ Extract(word, <<25, 32>>) = 0
<1>17. Knows(known, word, RRanges) <=> matches
  BY <1>14, <1>15, <1>16 DEF Knows
<1> DEFINE rest == Rest(known, word, layout, RRanges)
<1>18. DOMAIN rest = {"rd", "rs1", "rs2"}
  BY <1>14 DEF Rest
<1>19. /\ rest["rd"] = Extract(word, <<7, 12>>)
       /\ rest["rs1"] = Extract(word, <<15, 20>>)
       /\ rest["rs2"] = Extract(word, <<20, 25>>)
  BY <1>14, <1>16 DEF Rest
<1>20. match_value(insn, word) =
         IF Knows(known, word, RRanges) THEN Reversed(<<>>, rest) ELSE NoMatch
  BY Zenon, <1>3, <1>4, <1>8, <1>11, <1>10, <1>7, MatchIs
<1> HIDE DEF rest
<1>21. rest # NoMatch
  BY <1>18, NotNoMatch
<1>22. found = IF matches THEN Reversed(<<>>, rest) ELSE NoMatch
  BY <1>2, <1>17, <1>20
<1> HIDE DEF matches
<1>23. Reversed(<<>>, rest) = rest
  BY ReversedOf
<1>24. matches => found = rest
  BY <1>22, <1>23
<1>25. matches => found # NoMatch
  BY <1>24, <1>21
<1> QED BY <1>22, <1>24, <1>25, <1>18, <1>19 DEF matches

LEMMA OpNegateMatch ==
  ASSUME NEW funct3, NEW word, NEW found, found = match_value(Op(funct3, F7Negate), word)
  PROVE  /\ found # NoMatch <=>
              /\ Extract(word, <<0, 7>>) = 51
              /\ Extract(word, <<12, 15>>) = funct3
              /\ Extract(word, <<25, 32>>) = 32
         /\ found # NoMatch =>
              /\ DOMAIN found = {"rd", "rs1", "rs2"}
              /\ found["rd"] = Extract(word, <<7, 12>>)
              /\ found["rs1"] = Extract(word, <<15, 20>>)
              /\ found["rs2"] = Extract(word, <<20, 25>>)
<1> DEFINE kwargs == [funct3 |-> funct3, funct7 |-> 32]
           defaults == [opcode |-> 51, funct7 |-> 0]
           layout == {"opcode", "rd", "funct3", "rs1", "rs2", "funct7"}
<1>1. PICK insn : insn = Insn(R, kwargs, <<>>, <<"rd", "rs1", "rs2">>)
  OBVIOUS
<1>2. insn = Op(funct3, F7Negate)
  BY <1>1, OpNegateForm
<1>3. insn.cls = R /\ insn.kwargs = kwargs /\ insn.xfrms = <<>>
  BY <1>1, InsnParts
<1>4. ToSet(R.layout) = layout /\ R.ranges = RRanges /\ R.defaults = defaults
  BY Formats, RIs
<1>5. DOMAIN defaults = {"opcode", "funct7"} /\ DOMAIN kwargs = {"funct3", "funct7"}
  OBVIOUS
<1>6. /\ defaults["opcode"] = 51
      /\ defaults["funct7"] = 0
      /\ kwargs["funct3"] = funct3
      /\ kwargs["funct7"] = 32
  OBVIOUS
<1> HIDE DEF kwargs, defaults
<1> DEFINE none == <<>>
<1>7. DOMAIN none = {} /\ none = <<>>
  OBVIOUS
<1> HIDE DEF none
<1>8. PICK all : IsPlus(all, kwargs, none)
  BY PlusIs
<1>9. /\ DOMAIN all = DOMAIN kwargs \cup DOMAIN none
      /\ \A e \in DOMAIN none : all[e] = none[e]
      /\ \A e \in DOMAIN kwargs : e \notin DOMAIN none => all[e] = kwargs[e]
  BY <1>8 DEF IsPlus
<1>10. all = Applied(<<>>, all)
  BY AppliedOf
<1>11. PICK known : IsPlus(known, defaults, all)
  BY PlusIs
<1>12. /\ DOMAIN known = DOMAIN defaults \cup DOMAIN all
       /\ \A e \in DOMAIN all : known[e] = all[e]
       /\ \A e \in DOMAIN defaults : e \notin DOMAIN all => known[e] = defaults[e]
  BY <1>11 DEF IsPlus
<1>13. /\ "funct3" \in DOMAIN all /\ all["funct3"] = funct3
       /\ "funct7" \in DOMAIN all /\ all["funct7"] = 32
  BY <1>5, <1>6, <1>9, <1>7
<1>14. DOMAIN known = {"opcode", "funct3", "funct7"}
  BY <1>7, <1>5, <1>6, <1>13, <1>12, <1>9
<1>15. /\ known["opcode"] = 51
       /\ known["funct3"] = funct3
       /\ known["funct7"] = 32
  BY <1>7, <1>5, <1>6, <1>13, <1>12, <1>9
<1>16. /\ RRanges["opcode"] = <<0, 7>>
       /\ RRanges["rd"] = <<7, 12>>
       /\ RRanges["funct3"] = <<12, 15>>
       /\ RRanges["rs1"] = <<15, 20>>
       /\ RRanges["rs2"] = <<20, 25>>
       /\ RRanges["funct7"] = <<25, 32>>
  BY DEF RRanges
<1> DEFINE matches ==
             /\ Extract(word, <<0, 7>>) = 51
             /\ Extract(word, <<12, 15>>) = funct3
             /\ Extract(word, <<25, 32>>) = 32
<1>17. Knows(known, word, RRanges) <=> matches
  BY <1>14, <1>15, <1>16 DEF Knows
<1> DEFINE rest == Rest(known, word, layout, RRanges)
<1>18. DOMAIN rest = {"rd", "rs1", "rs2"}
  BY <1>14 DEF Rest
<1>19. /\ rest["rd"] = Extract(word, <<7, 12>>)
       /\ rest["rs1"] = Extract(word, <<15, 20>>)
       /\ rest["rs2"] = Extract(word, <<20, 25>>)
  BY <1>14, <1>16 DEF Rest
<1>20. match_value(insn, word) =
         IF Knows(known, word, RRanges) THEN Reversed(<<>>, rest) ELSE NoMatch
  BY Zenon, <1>3, <1>4, <1>8, <1>11, <1>10, <1>7, MatchIs
<1> HIDE DEF rest
<1>21. rest # NoMatch
  BY <1>18, NotNoMatch
<1>22. found = IF matches THEN Reversed(<<>>, rest) ELSE NoMatch
  BY <1>2, <1>17, <1>20
<1> HIDE DEF matches
<1>23. Reversed(<<>>, rest) = rest
  BY ReversedOf
<1>24. matches => found = rest
  BY <1>22, <1>23
<1>25. matches => found # NoMatch
  BY <1>24, <1>21
<1> QED BY <1>22, <1>24, <1>25, <1>18, <1>19 DEF matches

LEMMA OpImmMatch ==
  ASSUME NEW funct3, NEW word, NEW found, found = match_value(OpImm(funct3), word)
  PROVE  /\ found # NoMatch <=>
              /\ Extract(word, <<0, 7>>) = 19
              /\ Extract(word, <<12, 15>>) = funct3
         /\ found # NoMatch =>
              /\ DOMAIN found = {"rd", "rs1", "imm"}
              /\ found["rd"] = Extract(word, <<7, 12>>)
              /\ found["rs1"] = Extract(word, <<15, 20>>)
              /\ found["imm"] = Extract(word, <<20, 32>>)
<1> DEFINE kwargs == [funct3 |-> funct3]
           defaults == [opcode |-> 19]
           layout == {"opcode", "rd", "funct3", "rs1", "imm"}
<1>1. PICK insn : insn = Insn(I, kwargs, <<>>, <<"rd", "rs1", "imm">>)
  OBVIOUS
<1>2. insn = OpImm(funct3)
  BY <1>1, OpImmForm
<1>3. insn.cls = I /\ insn.kwargs = kwargs /\ insn.xfrms = <<>>
  BY <1>1, InsnParts
<1>4. ToSet(I.layout) = layout /\ I.ranges = IRanges /\ I.defaults = defaults
  BY Formats, IIs
<1>5. DOMAIN defaults = {"opcode"} /\ DOMAIN kwargs = {"funct3"}
  OBVIOUS
<1>6. /\ defaults["opcode"] = 19
      /\ kwargs["funct3"] = funct3
  OBVIOUS
<1> HIDE DEF kwargs, defaults
<1> DEFINE none == <<>>
<1>7. DOMAIN none = {} /\ none = <<>>
  OBVIOUS
<1> HIDE DEF none
<1>8. PICK all : IsPlus(all, kwargs, none)
  BY PlusIs
<1>9. /\ DOMAIN all = DOMAIN kwargs \cup DOMAIN none
      /\ \A e \in DOMAIN none : all[e] = none[e]
      /\ \A e \in DOMAIN kwargs : e \notin DOMAIN none => all[e] = kwargs[e]
  BY <1>8 DEF IsPlus
<1>10. all = Applied(<<>>, all)
  BY AppliedOf
<1>11. PICK known : IsPlus(known, defaults, all)
  BY PlusIs
<1>12. /\ DOMAIN known = DOMAIN defaults \cup DOMAIN all
       /\ \A e \in DOMAIN all : known[e] = all[e]
       /\ \A e \in DOMAIN defaults : e \notin DOMAIN all => known[e] = defaults[e]
  BY <1>11 DEF IsPlus
<1>13. /\ "funct3" \in DOMAIN all /\ all["funct3"] = funct3
  BY <1>5, <1>6, <1>9, <1>7
<1>14. DOMAIN known = {"opcode", "funct3"}
  BY <1>7, <1>5, <1>6, <1>13, <1>12, <1>9
<1>15. /\ known["opcode"] = 19
       /\ known["funct3"] = funct3
  BY <1>7, <1>5, <1>6, <1>13, <1>12, <1>9
<1>16. /\ IRanges["opcode"] = <<0, 7>>
       /\ IRanges["rd"] = <<7, 12>>
       /\ IRanges["funct3"] = <<12, 15>>
       /\ IRanges["rs1"] = <<15, 20>>
       /\ IRanges["imm"] = <<20, 32>>
  BY DEF IRanges
<1> DEFINE matches ==
             /\ Extract(word, <<0, 7>>) = 19
             /\ Extract(word, <<12, 15>>) = funct3
<1>17. Knows(known, word, IRanges) <=> matches
  BY <1>14, <1>15, <1>16 DEF Knows
<1> DEFINE rest == Rest(known, word, layout, IRanges)
<1>18. DOMAIN rest = {"rd", "rs1", "imm"}
  BY <1>14 DEF Rest
<1>19. /\ rest["rd"] = Extract(word, <<7, 12>>)
       /\ rest["rs1"] = Extract(word, <<15, 20>>)
       /\ rest["imm"] = Extract(word, <<20, 32>>)
  BY <1>14, <1>16 DEF Rest
<1>20. match_value(insn, word) =
         IF Knows(known, word, IRanges) THEN Reversed(<<>>, rest) ELSE NoMatch
  BY Zenon, <1>3, <1>4, <1>8, <1>11, <1>10, <1>7, MatchIs
<1> HIDE DEF rest
<1>21. rest # NoMatch
  BY <1>18, NotNoMatch
<1>22. found = IF matches THEN Reversed(<<>>, rest) ELSE NoMatch
  BY <1>2, <1>17, <1>20
<1> HIDE DEF matches
<1>23. Reversed(<<>>, rest) = rest
  BY ReversedOf
<1>24. matches => found = rest
  BY <1>22, <1>23
<1>25. matches => found # NoMatch
  BY <1>24, <1>21
<1> QED BY <1>22, <1>24, <1>25, <1>18, <1>19 DEF matches

LEMMA ShiftMatch ==
  ASSUME NEW funct3, NEW p, NEW word, NEW found, found = match_value(Shift(funct3, p), word)
  PROVE  /\ found # NoMatch <=>
              /\ Extract(word, <<0, 7>>) = 19
              /\ Extract(word, <<12, 15>>) = funct3
         /\ found # NoMatch =>
              /\ DOMAIN found = {"rd", "rs1", "shamt"}
              /\ found["rd"] = Extract(word, <<7, 12>>)
              /\ found["rs1"] = Extract(word, <<15, 20>>)
              /\ found["shamt"] = Extract(word, <<20, 32>>)
<1> DEFINE kwargs == [funct3 |-> funct3]
           defaults == [opcode |-> 19]
           layout == {"opcode", "rd", "funct3", "rs1", "imm"}
<1>1. PICK insn : insn = Insn(I, kwargs, <<ShamtXfrm(p)>>, <<"rd", "rs1", "shamt">>)
  OBVIOUS
<1>2. insn = Shift(funct3, p)
  BY <1>1, ShiftForm
<1>3. insn.cls = I /\ insn.kwargs = kwargs /\ insn.xfrms = <<ShamtXfrm(p)>>
  BY <1>1, InsnParts
<1>4. ToSet(I.layout) = layout /\ I.ranges = IRanges /\ I.defaults = defaults
  BY Formats, IIs
<1>5. DOMAIN defaults = {"opcode"} /\ DOMAIN kwargs = {"funct3"}
  OBVIOUS
<1>6. /\ defaults["opcode"] = 19
      /\ kwargs["funct3"] = funct3
  OBVIOUS
<1> HIDE DEF kwargs, defaults
<1> DEFINE none == <<>>
<1>7. DOMAIN none = {} /\ none = <<>>
  OBVIOUS
<1> HIDE DEF none
<1>8. PICK all : IsPlus(all, kwargs, none)
  BY PlusIs
<1>9. /\ DOMAIN all = DOMAIN kwargs \cup DOMAIN none
      /\ \A e \in DOMAIN none : all[e] = none[e]
      /\ \A e \in DOMAIN kwargs : e \notin DOMAIN none => all[e] = kwargs[e]
  BY <1>8 DEF IsPlus
<1>10. ~({"shamt"} \subseteq DOMAIN all)
  BY <1>5, <1>9, <1>7
<1>11. Forward(ShamtXfrm(p), all) = all
  BY <1>10, XfrmInputs, ForwardNot
<1>12. all = Applied(<<ShamtXfrm(p)>>, all)
  BY <1>11, AppliedOf
<1>13. PICK known : IsPlus(known, defaults, all)
  BY PlusIs
<1>14. /\ DOMAIN known = DOMAIN defaults \cup DOMAIN all
       /\ \A e \in DOMAIN all : known[e] = all[e]
       /\ \A e \in DOMAIN defaults : e \notin DOMAIN all => known[e] = defaults[e]
  BY <1>13 DEF IsPlus
<1>15. /\ "funct3" \in DOMAIN all /\ all["funct3"] = funct3
  BY <1>5, <1>6, <1>9, <1>7
<1>16. DOMAIN known = {"opcode", "funct3"}
  BY <1>7, <1>5, <1>6, <1>15, <1>14, <1>9
<1>17. /\ known["opcode"] = 19
       /\ known["funct3"] = funct3
  BY <1>7, <1>5, <1>6, <1>15, <1>14, <1>9
<1>18. /\ IRanges["opcode"] = <<0, 7>>
       /\ IRanges["rd"] = <<7, 12>>
       /\ IRanges["funct3"] = <<12, 15>>
       /\ IRanges["rs1"] = <<15, 20>>
       /\ IRanges["imm"] = <<20, 32>>
  BY DEF IRanges
<1> DEFINE matches ==
             /\ Extract(word, <<0, 7>>) = 19
             /\ Extract(word, <<12, 15>>) = funct3
<1>19. Knows(known, word, IRanges) <=> matches
  BY <1>16, <1>17, <1>18 DEF Knows
<1> DEFINE rest == Rest(known, word, layout, IRanges)
<1>20. DOMAIN rest = {"rd", "rs1", "imm"}
  BY <1>16 DEF Rest
<1>21. /\ rest["rd"] = Extract(word, <<7, 12>>)
       /\ rest["rs1"] = Extract(word, <<15, 20>>)
       /\ rest["imm"] = Extract(word, <<20, 32>>)
  BY <1>16, <1>18 DEF Rest
<1>22. match_value(insn, word) =
         IF Knows(known, word, IRanges) THEN Reversed(<<ShamtXfrm(p)>>, rest) ELSE NoMatch
  BY Zenon, <1>3, <1>4, <1>8, <1>13, <1>12, <1>7, MatchIs
<1> HIDE DEF rest
<1>23. rest # NoMatch
  BY <1>20, NotNoMatch
<1>24. found = IF matches THEN Reversed(<<ShamtXfrm(p)>>, rest) ELSE NoMatch
  BY <1>2, <1>19, <1>22
<1> HIDE DEF matches
<1>25. Reversed(<<ShamtXfrm(p)>>, rest) = Backward(ShamtXfrm(p), rest)
  BY ReversedOf
<1>26. {"imm"} \subseteq DOMAIN rest /\ ToSet(ShamtXfrm(p).layout) = {"imm"}
  BY <1>20, XfrmParts
<1>27. PICK left : IsDrop(left, rest, {"imm"})
  BY DropIs
<1>28. /\ DOMAIN left = DOMAIN rest \ {"imm"}
       /\ \A e \in DOMAIN rest : e \notin {"imm"} => left[e] = rest[e]
  BY <1>27 DEF IsDrop
<1> DEFINE back == [shamt |-> rest["imm"]]
<1>29. layout_to_inputs(ShamtXfrm(p), rest) = back
  BY ShamtBack
<1>30. /\ DOMAIN back = {"shamt"}
       /\ back["shamt"] = rest["imm"]
  OBVIOUS
<1> HIDE DEF back
<1>31. back # NoMatch
  BY <1>30, NotNoMatch
<1>32. IsPlus(Backward(ShamtXfrm(p), rest), left, back)
  BY Zenon, <1>23, <1>26, <1>27, <1>29, <1>31, BackwardIs
<1>33. matches => IsPlus(found, left, back)
  BY <1>24, <1>25, <1>32
<1>34. matches =>
         /\ DOMAIN found = {"rd", "rs1", "shamt"}
         /\ found["rd"] = rest["rd"]
         /\ found["rs1"] = rest["rs1"]
         /\ found["shamt"] = rest["imm"]
  BY <1>20, <1>28, <1>30, <1>33 DEF IsPlus
<1>35. matches => found # NoMatch
  BY <1>34, NotNoMatch
<1> QED BY <1>24, <1>21, <1>34, <1>35 DEF matches

LEMMA LoadMatch ==
  ASSUME NEW funct3, NEW word, NEW found, found = match_value(Load(funct3), word)
  PROVE  /\ found # NoMatch <=>
              /\ Extract(word, <<0, 7>>) = 3
              /\ Extract(word, <<12, 15>>) = funct3
         /\ found # NoMatch =>
              /\ DOMAIN found = {"rd", "rs1off"}
              /\ found["rd"] = Extract(word, <<7, 12>>)
              /\ found["rs1off"] = <<Extract(word, <<20, 32>>), Extract(word, <<15, 20>>)>>
<1> DEFINE kwargs == [opcode |-> 3, funct3 |-> funct3]
           defaults == [opcode |-> 19]
           layout == {"opcode", "rd", "funct3", "rs1", "imm"}
<1>1. PICK insn : insn = Insn(I, kwargs, <<RS1OffXfrm>>, <<"rd", "rs1off">>)
  OBVIOUS
<1>2. insn = Load(funct3)
  BY <1>1, LoadForm
<1>3. insn.cls = I /\ insn.kwargs = kwargs /\ insn.xfrms = <<RS1OffXfrm>>
  BY <1>1, InsnParts
<1>4. ToSet(I.layout) = layout /\ I.ranges = IRanges /\ I.defaults = defaults
  BY Formats, IIs
<1>5. DOMAIN defaults = {"opcode"} /\ DOMAIN kwargs = {"opcode", "funct3"}
  OBVIOUS
<1>6. /\ defaults["opcode"] = 19
      /\ kwargs["opcode"] = 3
      /\ kwargs["funct3"] = funct3
  OBVIOUS
<1> HIDE DEF kwargs, defaults
<1> DEFINE none == <<>>
<1>7. DOMAIN none = {} /\ none = <<>>
  OBVIOUS
<1> HIDE DEF none
<1>8. PICK all : IsPlus(all, kwargs, none)
  BY PlusIs
<1>9. /\ DOMAIN all = DOMAIN kwargs \cup DOMAIN none
      /\ \A e \in DOMAIN none : all[e] = none[e]
      /\ \A e \in DOMAIN kwargs : e \notin DOMAIN none => all[e] = kwargs[e]
  BY <1>8 DEF IsPlus
<1>10. ~({"rs1off"} \subseteq DOMAIN all)
  BY <1>5, <1>9, <1>7
<1>11. Forward(RS1OffXfrm, all) = all
  BY <1>10, XfrmInputs, ForwardNot
<1>12. all = Applied(<<RS1OffXfrm>>, all)
  BY <1>11, AppliedOf
<1>13. PICK known : IsPlus(known, defaults, all)
  BY PlusIs
<1>14. /\ DOMAIN known = DOMAIN defaults \cup DOMAIN all
       /\ \A e \in DOMAIN all : known[e] = all[e]
       /\ \A e \in DOMAIN defaults : e \notin DOMAIN all => known[e] = defaults[e]
  BY <1>13 DEF IsPlus
<1>15. /\ "opcode" \in DOMAIN all /\ all["opcode"] = 3
       /\ "funct3" \in DOMAIN all /\ all["funct3"] = funct3
  BY <1>5, <1>6, <1>9, <1>7
<1>16. DOMAIN known = {"opcode", "funct3"}
  BY <1>7, <1>5, <1>6, <1>15, <1>14, <1>9
<1>17. /\ known["opcode"] = 3
       /\ known["funct3"] = funct3
  BY <1>7, <1>5, <1>6, <1>15, <1>14, <1>9
<1>18. /\ IRanges["opcode"] = <<0, 7>>
       /\ IRanges["rd"] = <<7, 12>>
       /\ IRanges["funct3"] = <<12, 15>>
       /\ IRanges["rs1"] = <<15, 20>>
       /\ IRanges["imm"] = <<20, 32>>
  BY DEF IRanges
<1> DEFINE matches ==
             /\ Extract(word, <<0, 7>>) = 3
             /\ Extract(word, <<12, 15>>) = funct3
<1>19. Knows(known, word, IRanges) <=> matches
  BY <1>16, <1>17, <1>18 DEF Knows
<1> DEFINE rest == Rest(known, word, layout, IRanges)
<1>20. DOMAIN rest = {"rd", "rs1", "imm"}
  BY <1>16 DEF Rest
<1>21. /\ rest["rd"] = Extract(word, <<7, 12>>)
       /\ rest["rs1"] = Extract(word, <<15, 20>>)
       /\ rest["imm"] = Extract(word, <<20, 32>>)
  BY <1>16, <1>18 DEF Rest
<1>22. match_value(insn, word) =
         IF Knows(known, word, IRanges) THEN Reversed(<<RS1OffXfrm>>, rest) ELSE NoMatch
  BY Zenon, <1>3, <1>4, <1>8, <1>13, <1>12, <1>7, MatchIs
<1> HIDE DEF rest
<1>23. rest # NoMatch
  BY <1>20, NotNoMatch
<1>24. found = IF matches THEN Reversed(<<RS1OffXfrm>>, rest) ELSE NoMatch
  BY <1>2, <1>19, <1>22
<1> HIDE DEF matches
<1>25. Reversed(<<RS1OffXfrm>>, rest) = Backward(RS1OffXfrm, rest)
  BY ReversedOf
<1>26. {"imm", "rs1"} \subseteq DOMAIN rest /\ ToSet(RS1OffXfrm.layout) = {"imm", "rs1"}
  BY <1>20, XfrmParts
<1>27. PICK left : IsDrop(left, rest, {"imm", "rs1"})
  BY DropIs
<1>28. /\ DOMAIN left = DOMAIN rest \ {"imm", "rs1"}
       /\ \A e \in DOMAIN rest : e \notin {"imm", "rs1"} => left[e] = rest[e]
  BY <1>27 DEF IsDrop
<1> DEFINE back == [rs1off |-> <<rest["imm"], rest["rs1"]>>]
<1>29. layout_to_inputs(RS1OffXfrm, rest) = back
  BY RS1OffBack
<1>30. /\ DOMAIN back = {"rs1off"}
       /\ back["rs1off"] = <<rest["imm"], rest["rs1"]>>
  OBVIOUS
<1> HIDE DEF back
<1>31. back # NoMatch
  BY <1>30, NotNoMatch
<1>32. IsPlus(Backward(RS1OffXfrm, rest), left, back)
  BY Zenon, <1>23, <1>26, <1>27, <1>29, <1>31, BackwardIs
<1>33. matches => IsPlus(found, left, back)
  BY <1>24, <1>25, <1>32
<1>34. matches =>
         /\ DOMAIN found = {"rd", "rs1off"}
         /\ found["rd"] = rest["rd"]
         /\ found["rs1off"] = <<rest["imm"], rest["rs1"]>>
  BY <1>20, <1>28, <1>30, <1>33 DEF IsPlus
<1>35. matches => found # NoMatch
  BY <1>34, NotNoMatch
<1> QED BY <1>24, <1>21, <1>34, <1>35 DEF matches

LEMMA FenceMatch ==
  ASSUME NEW p, NEW word, NEW found, found = match_value(Fence(p), word)
  PROVE  /\ found # NoMatch <=>
              /\ Extract(word, <<0, 7>>) = 15
              /\ Extract(word, <<7, 12>>) = 0
              /\ Extract(word, <<12, 15>>) = 0
              /\ Extract(word, <<15, 20>>) = 0
              /\ (Extract(word, <<20, 32>>) \div 256) = p
         /\ found # NoMatch =>
              /\ DOMAIN found = {"pred", "succ"}
              /\ found["pred"] = arg_fence((Extract(word, <<20, 32>>) \div 16) % 16)
              /\ found["succ"] = arg_fence(Extract(word, <<20, 32>>) % 16)
<1> DEFINE kwargs == [opcode |-> 15, funct3 |-> 0, rd |-> 0, rs1 |-> 0]
           defaults == [opcode |-> 19]
           layout == {"opcode", "rd", "funct3", "rs1", "imm"}
<1>1. PICK insn : insn = Insn(I, kwargs, <<FenceXfrm(p)>>, <<"pred", "succ">>)
  OBVIOUS
<1>2. insn = Fence(p)
  BY <1>1, FenceForm
<1>3. insn.cls = I /\ insn.kwargs = kwargs /\ insn.xfrms = <<FenceXfrm(p)>>
  BY <1>1, InsnParts
<1>4. ToSet(I.layout) = layout /\ I.ranges = IRanges /\ I.defaults = defaults
  BY Formats, IIs
<1>5. DOMAIN defaults = {"opcode"} /\ DOMAIN kwargs = {"opcode", "funct3", "rd", "rs1"}
  OBVIOUS
<1>6. /\ defaults["opcode"] = 19
      /\ kwargs["opcode"] = 15
      /\ kwargs["funct3"] = 0
      /\ kwargs["rd"] = 0
      /\ kwargs["rs1"] = 0
  OBVIOUS
<1> HIDE DEF kwargs, defaults
<1> DEFINE none == <<>>
<1>7. DOMAIN none = {} /\ none = <<>>
  OBVIOUS
<1> HIDE DEF none
<1>8. PICK all : IsPlus(all, kwargs, none)
  BY PlusIs
<1>9. /\ DOMAIN all = DOMAIN kwargs \cup DOMAIN none
      /\ \A e \in DOMAIN none : all[e] = none[e]
      /\ \A e \in DOMAIN kwargs : e \notin DOMAIN none => all[e] = kwargs[e]
  BY <1>8 DEF IsPlus
<1>10. ~({"pred", "succ"} \subseteq DOMAIN all)
  BY <1>5, <1>9, <1>7
<1>11. Forward(FenceXfrm(p), all) = all
  BY <1>10, XfrmInputs, ForwardNot
<1>12. all = Applied(<<FenceXfrm(p)>>, all)
  BY <1>11, AppliedOf
<1>13. PICK known : IsPlus(known, defaults, all)
  BY PlusIs
<1>14. /\ DOMAIN known = DOMAIN defaults \cup DOMAIN all
       /\ \A e \in DOMAIN all : known[e] = all[e]
       /\ \A e \in DOMAIN defaults : e \notin DOMAIN all => known[e] = defaults[e]
  BY <1>13 DEF IsPlus
<1>15. /\ "opcode" \in DOMAIN all /\ all["opcode"] = 15
       /\ "funct3" \in DOMAIN all /\ all["funct3"] = 0
       /\ "rd" \in DOMAIN all /\ all["rd"] = 0
       /\ "rs1" \in DOMAIN all /\ all["rs1"] = 0
  BY <1>5, <1>6, <1>9, <1>7
<1>16. DOMAIN known = {"opcode", "rd", "funct3", "rs1"}
  BY <1>7, <1>5, <1>6, <1>15, <1>14, <1>9
<1>17. /\ known["opcode"] = 15
       /\ known["rd"] = 0
       /\ known["funct3"] = 0
       /\ known["rs1"] = 0
  BY <1>7, <1>5, <1>6, <1>15, <1>14, <1>9
<1>18. /\ IRanges["opcode"] = <<0, 7>>
       /\ IRanges["rd"] = <<7, 12>>
       /\ IRanges["funct3"] = <<12, 15>>
       /\ IRanges["rs1"] = <<15, 20>>
       /\ IRanges["imm"] = <<20, 32>>
  BY DEF IRanges
<1> DEFINE matches ==
             /\ Extract(word, <<0, 7>>) = 15
             /\ Extract(word, <<7, 12>>) = 0
             /\ Extract(word, <<12, 15>>) = 0
             /\ Extract(word, <<15, 20>>) = 0
<1>19. Knows(known, word, IRanges) <=> matches
  BY <1>16, <1>17, <1>18 DEF Knows
<1> DEFINE rest == Rest(known, word, layout, IRanges)
<1>20. DOMAIN rest = {"imm"}
  BY <1>16 DEF Rest
<1>21. /\ rest["imm"] = Extract(word, <<20, 32>>)
  BY <1>16, <1>18 DEF Rest
<1>22. match_value(insn, word) =
         IF Knows(known, word, IRanges) THEN Reversed(<<FenceXfrm(p)>>, rest) ELSE NoMatch
  BY Zenon, <1>3, <1>4, <1>8, <1>13, <1>12, <1>7, MatchIs
<1> HIDE DEF rest
<1>23. rest # NoMatch
  BY <1>20, NotNoMatch
<1>24. found = IF matches THEN Reversed(<<FenceXfrm(p)>>, rest) ELSE NoMatch
  BY <1>2, <1>19, <1>22
<1> HIDE DEF matches
<1>25. Reversed(<<FenceXfrm(p)>>, rest) = Backward(FenceXfrm(p), rest)
  BY ReversedOf
<1>26. {"imm"} \subseteq DOMAIN rest /\ ToSet(FenceXfrm(p).layout) = {"imm"}
  BY <1>20, XfrmParts
<1>27. PICK left : IsDrop(left, rest, {"imm"})
  BY DropIs
<1>28. /\ DOMAIN left = DOMAIN rest \ {"imm"}
       /\ \A e \in DOMAIN rest : e \notin {"imm"} => left[e] = rest[e]
  BY <1>27 DEF IsDrop
<1> DEFINE back == IF rest["imm"] \div 256 # p THEN NoMatch
             ELSE [pred |-> arg_fence((rest["imm"] \div 16) % 16),
                   succ |-> arg_fence(rest["imm"] % 16)]
<1>29. layout_to_inputs(FenceXfrm(p), rest) = back
  BY FenceBack
<1>30. /\ rest["imm"] \div 256 = p => DOMAIN back = {"pred", "succ"}
       /\ rest["imm"] \div 256 = p => back["pred"] = arg_fence((rest["imm"] \div 16) % 16)
       /\ rest["imm"] \div 256 = p => back["succ"] = arg_fence(rest["imm"] % 16)
       /\ rest["imm"] \div 256 # p => back = NoMatch
  OBVIOUS
<1> HIDE DEF back
<1>31. rest["imm"] \div 256 = p => back # NoMatch
  BY <1>30, NotNoMatch
<1>32. matches /\ rest["imm"] \div 256 # p => found = NoMatch
  BY <1>24, <1>25, <1>26, <1>29, <1>30, BackwardNoMatch
<1>33. rest["imm"] \div 256 = p => IsPlus(Backward(FenceXfrm(p), rest), left, back)
  BY Zenon, <1>23, <1>26, <1>27, <1>29, <1>31, BackwardIs
<1>34. matches /\ rest["imm"] \div 256 = p => IsPlus(found, left, back)
  BY <1>24, <1>25, <1>33
<1>35. matches /\ rest["imm"] \div 256 = p =>
         /\ DOMAIN found = {"pred", "succ"}
         /\ found["pred"] = arg_fence((rest["imm"] \div 16) % 16)
         /\ found["succ"] = arg_fence(rest["imm"] % 16)
  BY <1>20, <1>28, <1>30, <1>34 DEF IsPlus
<1>36. matches /\ rest["imm"] \div 256 = p => found # NoMatch
  BY <1>35, NotNoMatch
<1> QED BY <1>24, <1>21, <1>32, <1>35, <1>36 DEF matches

LEMMA SystemMatch ==
  ASSUME NEW funct, NEW word, NEW found, found = match_value(System(funct), word)
  PROVE  /\ found # NoMatch <=>
              /\ Extract(word, <<0, 7>>) = 115
              /\ Extract(word, <<7, 12>>) = 0
              /\ Extract(word, <<12, 15>>) = funct % 8
              /\ Extract(word, <<15, 20>>) = 0
              /\ Extract(word, <<20, 32>>) = funct \div 8
         /\ found # NoMatch =>
              /\ DOMAIN found = {}
<1> DEFINE kwargs == [opcode |-> 115, rd |-> 0, rs1 |-> 0, funct |-> funct]
           defaults == [opcode |-> 19]
           layout == {"opcode", "rd", "funct3", "rs1", "imm"}
<1>1. PICK insn : insn = Insn(I, kwargs, <<SystemXfrm>>, <<>>)
  OBVIOUS
<1>2. insn = System(funct)
  BY <1>1, SystemForm
<1>3. insn.cls = I /\ insn.kwargs = kwargs /\ insn.xfrms = <<SystemXfrm>>
  BY <1>1, InsnParts
<1>4. ToSet(I.layout) = layout /\ I.ranges = IRanges /\ I.defaults = defaults
  BY Formats, IIs
<1>5. DOMAIN defaults = {"opcode"} /\ DOMAIN kwargs = {"opcode", "rd", "rs1", "funct"}
  OBVIOUS
<1>6. /\ defaults["opcode"] = 19
      /\ kwargs["opcode"] = 115
      /\ kwargs["rd"] = 0
      /\ kwargs["rs1"] = 0
      /\ kwargs["funct"] = funct
  OBVIOUS
<1> HIDE DEF kwargs, defaults
<1> DEFINE none == <<>>
<1>7. DOMAIN none = {} /\ none = <<>>
  OBVIOUS
<1> HIDE DEF none
<1>8. PICK all : IsPlus(all, kwargs, none)
  BY PlusIs
<1>9. /\ DOMAIN all = DOMAIN kwargs \cup DOMAIN none
      /\ \A e \in DOMAIN none : all[e] = none[e]
      /\ \A e \in DOMAIN kwargs : e \notin DOMAIN none => all[e] = kwargs[e]
  BY <1>8 DEF IsPlus
<1>10. {"funct"} \subseteq DOMAIN all
  BY <1>5, <1>9
<1>11. PICK left1 : IsDrop(left1, all, {"funct"})
  BY DropIs
<1>12. /\ DOMAIN left1 = DOMAIN all \ {"funct"}
       /\ \A e \in DOMAIN all : e \notin {"funct"} => left1[e] = all[e]
  BY <1>11 DEF IsDrop
<1> DEFINE out1 == [funct3 |-> all["funct"] % 8, imm |-> all["funct"] \div 8]
<1>13. inputs_to_layout(SystemXfrm, all) = out1
  BY SystemForth
<1>14. /\ DOMAIN out1 = {"funct3", "imm"}
       /\ out1["funct3"] = all["funct"] % 8
       /\ out1["imm"] = all["funct"] \div 8
  OBVIOUS
<1> HIDE DEF out1
<1>15. ToSet(SystemXfrm.inputs) = {"funct"}
  BY XfrmInputs
<1>16. PICK more1 : more1 = Forward(SystemXfrm, all) /\ IsPlus(more1, left1, out1)
  BY <1>10, <1>11, <1>13, <1>15, ForwardIs
<1>17. /\ DOMAIN more1 = DOMAIN left1 \cup DOMAIN out1
       /\ \A e \in DOMAIN out1 : more1[e] = out1[e]
       /\ \A e \in DOMAIN left1 : e \notin DOMAIN out1 => more1[e] = left1[e]
  BY <1>16 DEF IsPlus
<1>18. more1 = Applied(<<SystemXfrm>>, all)
  BY <1>16, AppliedOf
<1>19. PICK known : IsPlus(known, defaults, more1)
  BY PlusIs
<1>20. /\ DOMAIN known = DOMAIN defaults \cup DOMAIN more1
       /\ \A e \in DOMAIN more1 : known[e] = more1[e]
       /\ \A e \in DOMAIN defaults : e \notin DOMAIN more1 => known[e] = defaults[e]
  BY <1>19 DEF IsPlus
<1>21. /\ "opcode" \in DOMAIN all /\ all["opcode"] = 115
       /\ "rd" \in DOMAIN all /\ all["rd"] = 0
       /\ "rs1" \in DOMAIN all /\ all["rs1"] = 0
       /\ "funct" \in DOMAIN all /\ all["funct"] = funct
  BY <1>5, <1>6, <1>9, <1>7
<1>22. /\ "opcode" \in DOMAIN more1 /\ more1["opcode"] = 115
       /\ "rd" \in DOMAIN more1 /\ more1["rd"] = 0
       /\ "rs1" \in DOMAIN more1 /\ more1["rs1"] = 0
       /\ "funct3" \in DOMAIN more1 /\ more1["funct3"] = funct % 8
       /\ "imm" \in DOMAIN more1 /\ more1["imm"] = funct \div 8
  BY <1>12, <1>14, <1>17, <1>21, <1>7
<1>23. DOMAIN known = {"opcode", "rd", "funct3", "rs1", "imm"}
  BY <1>7, <1>5, <1>6, <1>22, <1>20, <1>9, <1>12, <1>14, <1>17
<1>24. /\ known["opcode"] = 115
       /\ known["rd"] = 0
       /\ known["funct3"] = funct % 8
       /\ known["rs1"] = 0
       /\ known["imm"] = funct \div 8
  BY <1>7, <1>5, <1>6, <1>22, <1>20, <1>9, <1>12, <1>14, <1>17
<1>25. /\ IRanges["opcode"] = <<0, 7>>
       /\ IRanges["rd"] = <<7, 12>>
       /\ IRanges["funct3"] = <<12, 15>>
       /\ IRanges["rs1"] = <<15, 20>>
       /\ IRanges["imm"] = <<20, 32>>
  BY DEF IRanges
<1> DEFINE matches ==
             /\ Extract(word, <<0, 7>>) = 115
             /\ Extract(word, <<7, 12>>) = 0
             /\ Extract(word, <<12, 15>>) = funct % 8
             /\ Extract(word, <<15, 20>>) = 0
             /\ Extract(word, <<20, 32>>) = funct \div 8
<1>26. Knows(known, word, IRanges) <=> matches
  BY <1>23, <1>24, <1>25 DEF Knows
<1> DEFINE rest == Rest(known, word, layout, IRanges)
<1>27. DOMAIN rest = {}
  BY <1>23 DEF Rest
<1>28. TRUE
  BY <1>23, <1>25 DEF Rest
<1>29. match_value(insn, word) =
         IF Knows(known, word, IRanges) THEN Reversed(<<SystemXfrm>>, rest) ELSE NoMatch
  BY Zenon, <1>3, <1>4, <1>8, <1>19, <1>18, <1>7, MatchIs
<1> HIDE DEF rest
<1>30. rest # NoMatch
  BY <1>27, NotNoMatch
<1>31. found = IF matches THEN Reversed(<<SystemXfrm>>, rest) ELSE NoMatch
  BY <1>2, <1>26, <1>29
<1> HIDE DEF matches
<1>32. ToSet(SystemXfrm.layout) = {"funct3", "imm"}
  BY Zenon, XfrmParts
<1>33. ~(ToSet(SystemXfrm.layout) \subseteq DOMAIN rest)
  BY <1>27, <1>32
<1>34. Backward(SystemXfrm, rest) = rest
  BY <1>33, <1>30, BackwardNot
<1>35. Reversed(<<SystemXfrm>>, rest) = rest
  BY <1>34, ReversedOf
<1>36. matches => found = rest
  BY <1>31, <1>35
<1>37. matches => found # NoMatch
  BY <1>36, <1>30
<1> QED BY <1>31, <1>36, <1>37, <1>27, <1>28 DEF matches

LEMMA StoreMatch ==
  ASSUME NEW funct3, NEW word, NEW found, found = match_value(Store(funct3), word)
  PROVE  /\ found # NoMatch <=>
              /\ Extract(word, <<0, 7>>) = 35
              /\ Extract(word, <<12, 15>>) = funct3
         /\ found # NoMatch =>
              /\ DOMAIN found = {"rs1", "rs2", "imm"}
              /\ found["rs1"] = Extract(word, <<15, 20>>)
              /\ found["rs2"] = Extract(word, <<20, 25>>)
              /\ found["imm"] = Extract(word, <<7, 12>>) * 1 + Extract(word, <<25, 32>>) * 32
<1> DEFINE kwargs == [funct3 |-> funct3]
           defaults == [opcode |-> 35]
           layout == {"opcode", "imm4_0", "funct3", "rs1", "rs2", "imm11_5"}
<1>1. PICK insn : insn = Insn(S, kwargs, <<RS1OffXfrm, ImmXfrm(S)>>, <<"rs2", "rs1off">>)
  OBVIOUS
<1>2. insn = Store(funct3)
  BY <1>1, StoreForm
<1>3. insn.cls = S /\ insn.kwargs = kwargs /\ insn.xfrms = <<RS1OffXfrm, ImmXfrm(S)>>
  BY <1>1, InsnParts
<1>4. ToSet(S.layout) = layout /\ S.ranges = SRanges /\ S.defaults = defaults
  BY Formats, SIs
<1>5. DOMAIN defaults = {"opcode"} /\ DOMAIN kwargs = {"funct3"}
  OBVIOUS
<1>6. /\ defaults["opcode"] = 35
      /\ kwargs["funct3"] = funct3
  OBVIOUS
<1> HIDE DEF kwargs, defaults
<1> DEFINE none == <<>>
<1>7. DOMAIN none = {} /\ none = <<>>
  OBVIOUS
<1> HIDE DEF none
<1>8. PICK all : IsPlus(all, kwargs, none)
  BY PlusIs
<1>9. /\ DOMAIN all = DOMAIN kwargs \cup DOMAIN none
      /\ \A e \in DOMAIN none : all[e] = none[e]
      /\ \A e \in DOMAIN kwargs : e \notin DOMAIN none => all[e] = kwargs[e]
  BY <1>8 DEF IsPlus
<1>10. ~({"rs1off"} \subseteq DOMAIN all)
  BY <1>5, <1>9, <1>7
<1>11. Forward(RS1OffXfrm, all) = all
  BY <1>10, XfrmInputs, ForwardNot
<1>12. ~({"imm"} \subseteq DOMAIN all)
  BY <1>5, <1>9, <1>7
<1>13. Forward(ImmXfrm(S), all) = all
  BY <1>12, XfrmInputs, ForwardNot
<1>14. all = Applied(<<RS1OffXfrm, ImmXfrm(S)>>, all)
  BY <1>11, <1>13, AppliedOf
<1>15. PICK known : IsPlus(known, defaults, all)
  BY PlusIs
<1>16. /\ DOMAIN known = DOMAIN defaults \cup DOMAIN all
       /\ \A e \in DOMAIN all : known[e] = all[e]
       /\ \A e \in DOMAIN defaults : e \notin DOMAIN all => known[e] = defaults[e]
  BY <1>15 DEF IsPlus
<1>17. /\ "funct3" \in DOMAIN all /\ all["funct3"] = funct3
  BY <1>5, <1>6, <1>9, <1>7
<1>18. DOMAIN known = {"opcode", "funct3"}
  BY <1>7, <1>5, <1>6, <1>17, <1>16, <1>9
<1>19. /\ known["opcode"] = 35
       /\ known["funct3"] = funct3
  BY <1>7, <1>5, <1>6, <1>17, <1>16, <1>9
<1>20. /\ SRanges["opcode"] = <<0, 7>>
       /\ SRanges["imm4_0"] = <<7, 12>>
       /\ SRanges["funct3"] = <<12, 15>>
       /\ SRanges["rs1"] = <<15, 20>>
       /\ SRanges["rs2"] = <<20, 25>>
       /\ SRanges["imm11_5"] = <<25, 32>>
  BY DEF SRanges
<1> DEFINE matches ==
             /\ Extract(word, <<0, 7>>) = 35
             /\ Extract(word, <<12, 15>>) = funct3
<1>21. Knows(known, word, SRanges) <=> matches
  BY <1>18, <1>19, <1>20 DEF Knows
<1> DEFINE rest == Rest(known, word, layout, SRanges)
<1>22. DOMAIN rest = {"imm4_0", "rs1", "rs2", "imm11_5"}
  BY <1>18 DEF Rest
<1>23. /\ rest["imm4_0"] = Extract(word, <<7, 12>>)
       /\ rest["rs1"] = Extract(word, <<15, 20>>)
       /\ rest["rs2"] = Extract(word, <<20, 25>>)
       /\ rest["imm11_5"] = Extract(word, <<25, 32>>)
  BY <1>18, <1>20 DEF Rest
<1>24. match_value(insn, word) =
         IF Knows(known, word, SRanges) THEN Reversed(<<RS1OffXfrm, ImmXfrm(S)>>, rest)
           ELSE NoMatch
  BY Zenon, <1>3, <1>4, <1>8, <1>15, <1>14, <1>7, MatchIs
<1> HIDE DEF rest
<1>25. rest # NoMatch
  BY <1>22, NotNoMatch
<1>26. found = IF matches THEN Reversed(<<RS1OffXfrm, ImmXfrm(S)>>, rest) ELSE NoMatch
  BY <1>2, <1>21, <1>24
<1> HIDE DEF matches
<1>27. ~({"imm", "rs1"} \subseteq DOMAIN rest) /\ ToSet(RS1OffXfrm.layout) = {"imm", "rs1"}
  BY <1>22, XfrmParts
<1>28. Backward(RS1OffXfrm, rest) = rest
  BY <1>27, <1>25, BackwardNot
<1>29. Reversed(<<RS1OffXfrm, ImmXfrm(S)>>, rest) = Backward(ImmXfrm(S), rest)
  BY <1>28, ReversedOf
<1>30. {"imm4_0", "imm11_5"} \subseteq DOMAIN rest /\
         ToSet(ImmXfrm(S).layout) = {"imm4_0", "imm11_5"}
  BY <1>22, XfrmParts
<1>31. PICK left : IsDrop(left, rest, {"imm4_0", "imm11_5"})
  BY DropIs
<1>32. /\ DOMAIN left = DOMAIN rest \ {"imm4_0", "imm11_5"}
       /\ \A e \in DOMAIN rest : e \notin {"imm4_0", "imm11_5"} => left[e] = rest[e]
  BY <1>31 DEF IsDrop
<1>33. /\ Extract(word, <<7, 12>>) \in Nat
       /\ Extract(word, <<25, 32>>) \in Nat
  BY SMT, FieldRange
<1>34. rest["imm4_0"] \in Int /\ rest["imm11_5"] \in Int
  BY <1>23, <1>33
<1> DEFINE back == [imm |-> rest["imm4_0"] * 1 + rest["imm11_5"] * 32]
<1>35. layout_to_inputs(ImmXfrm(S), rest) = back
  BY <1>34, ImmSBack
<1>36. /\ DOMAIN back = {"imm"}
       /\ back["imm"] = rest["imm4_0"] * 1 + rest["imm11_5"] * 32
  OBVIOUS
<1> HIDE DEF back
<1>37. back # NoMatch
  BY <1>36, NotNoMatch
<1>38. IsPlus(Backward(ImmXfrm(S), rest), left, back)
  BY Zenon, <1>25, <1>30, <1>31, <1>35, <1>37, BackwardIs
<1>39. matches => IsPlus(found, left, back)
  BY <1>26, <1>29, <1>38
<1>40. matches =>
         /\ DOMAIN found = {"rs1", "rs2", "imm"}
         /\ found["rs1"] = rest["rs1"]
         /\ found["rs2"] = rest["rs2"]
         /\ found["imm"] = rest["imm4_0"] * 1 + rest["imm11_5"] * 32
  BY <1>22, <1>32, <1>36, <1>39 DEF IsPlus
<1>41. matches => found # NoMatch
  BY <1>40, NotNoMatch
<1> QED BY <1>26, <1>23, <1>40, <1>41 DEF matches

LEMMA BranchMatch ==
  ASSUME NEW funct3, NEW word, NEW found, found = match_value(Branch(funct3), word)
  PROVE  /\ found # NoMatch <=>
              /\ Extract(word, <<0, 7>>) = 99
              /\ Extract(word, <<12, 15>>) = funct3
         /\ found # NoMatch =>
              /\ DOMAIN found = {"rs1", "rs2", "imm"}
              /\ found["rs1"] = Extract(word, <<15, 20>>)
              /\ found["rs2"] = Extract(word, <<20, 25>>)
              /\ found["imm"] = Extract(word, <<7, 8>>) * 2048 + Extract(word, <<8, 12>>) * 2 +
                   Extract(word, <<25, 31>>) * 32 + Extract(word, <<31, 32>>) * 4096
<1> DEFINE kwargs == [funct3 |-> funct3]
           defaults == [opcode |-> 99]
           layout == {"opcode", "imm11", "imm4_1", "funct3", "rs1", "rs2", "imm10_5", "imm12"}
<1>1. PICK insn : insn = Insn(B, kwargs, <<ImmXfrm(B)>>, <<"rs1", "rs2", "imm">>)
  OBVIOUS
<1>2. insn = Branch(funct3)
  BY <1>1, BranchForm
<1>3. insn.cls = B /\ insn.kwargs = kwargs /\ insn.xfrms = <<ImmXfrm(B)>>
  BY <1>1, InsnParts
<1>4. ToSet(B.layout) = layout /\ B.ranges = BRanges /\ B.defaults = defaults
  BY Formats, BIs
<1>5. DOMAIN defaults = {"opcode"} /\ DOMAIN kwargs = {"funct3"}
  OBVIOUS
<1>6. /\ defaults["opcode"] = 99
      /\ kwargs["funct3"] = funct3
  OBVIOUS
<1> HIDE DEF kwargs, defaults
<1> DEFINE none == <<>>
<1>7. DOMAIN none = {} /\ none = <<>>
  OBVIOUS
<1> HIDE DEF none
<1>8. PICK all : IsPlus(all, kwargs, none)
  BY PlusIs
<1>9. /\ DOMAIN all = DOMAIN kwargs \cup DOMAIN none
      /\ \A e \in DOMAIN none : all[e] = none[e]
      /\ \A e \in DOMAIN kwargs : e \notin DOMAIN none => all[e] = kwargs[e]
  BY <1>8 DEF IsPlus
<1>10. ~({"imm"} \subseteq DOMAIN all)
  BY <1>5, <1>9, <1>7
<1>11. Forward(ImmXfrm(B), all) = all
  BY <1>10, XfrmInputs, ForwardNot
<1>12. all = Applied(<<ImmXfrm(B)>>, all)
  BY <1>11, AppliedOf
<1>13. PICK known : IsPlus(known, defaults, all)
  BY PlusIs
<1>14. /\ DOMAIN known = DOMAIN defaults \cup DOMAIN all
       /\ \A e \in DOMAIN all : known[e] = all[e]
       /\ \A e \in DOMAIN defaults : e \notin DOMAIN all => known[e] = defaults[e]
  BY <1>13 DEF IsPlus
<1>15. /\ "funct3" \in DOMAIN all /\ all["funct3"] = funct3
  BY <1>5, <1>6, <1>9, <1>7
<1>16. DOMAIN known = {"opcode", "funct3"}
  BY <1>7, <1>5, <1>6, <1>15, <1>14, <1>9
<1>17. /\ known["opcode"] = 99
       /\ known["funct3"] = funct3
  BY <1>7, <1>5, <1>6, <1>15, <1>14, <1>9
<1>18. /\ BRanges["opcode"] = <<0, 7>>
       /\ BRanges["imm11"] = <<7, 8>>
       /\ BRanges["imm4_1"] = <<8, 12>>
       /\ BRanges["funct3"] = <<12, 15>>
       /\ BRanges["rs1"] = <<15, 20>>
       /\ BRanges["rs2"] = <<20, 25>>
       /\ BRanges["imm10_5"] = <<25, 31>>
       /\ BRanges["imm12"] = <<31, 32>>
  BY DEF BRanges
<1> DEFINE matches ==
             /\ Extract(word, <<0, 7>>) = 99
             /\ Extract(word, <<12, 15>>) = funct3
<1>19. Knows(known, word, BRanges) <=> matches
  BY <1>16, <1>17, <1>18 DEF Knows
<1> DEFINE rest == Rest(known, word, layout, BRanges)
<1>20. DOMAIN rest = {"imm11", "imm4_1", "rs1", "rs2", "imm10_5", "imm12"}
  BY <1>16 DEF Rest
<1>21. /\ rest["imm11"] = Extract(word, <<7, 8>>)
       /\ rest["imm4_1"] = Extract(word, <<8, 12>>)
       /\ rest["rs1"] = Extract(word, <<15, 20>>)
       /\ rest["rs2"] = Extract(word, <<20, 25>>)
       /\ rest["imm10_5"] = Extract(word, <<25, 31>>)
       /\ rest["imm12"] = Extract(word, <<31, 32>>)
  BY <1>16, <1>18 DEF Rest
<1>22. match_value(insn, word) =
         IF Knows(known, word, BRanges) THEN Reversed(<<ImmXfrm(B)>>, rest) ELSE NoMatch
  BY Zenon, <1>3, <1>4, <1>8, <1>13, <1>12, <1>7, MatchIs
<1> HIDE DEF rest
<1>23. rest # NoMatch
  BY <1>20, NotNoMatch
<1>24. found = IF matches THEN Reversed(<<ImmXfrm(B)>>, rest) ELSE NoMatch
  BY <1>2, <1>19, <1>22
<1> HIDE DEF matches
<1>25. Reversed(<<ImmXfrm(B)>>, rest) = Backward(ImmXfrm(B), rest)
  BY ReversedOf
<1>26. {"imm11", "imm4_1", "imm10_5", "imm12"} \subseteq DOMAIN rest /\
         ToSet(ImmXfrm(B).layout) = {"imm11", "imm4_1", "imm10_5", "imm12"}
  BY <1>20, XfrmParts
<1>27. PICK left : IsDrop(left, rest, {"imm11", "imm4_1", "imm10_5", "imm12"})
  BY DropIs
<1>28. /\ DOMAIN left = DOMAIN rest \ {"imm11", "imm4_1", "imm10_5", "imm12"}
       /\ \A e \in DOMAIN rest : e \notin {"imm11", "imm4_1", "imm10_5", "imm12"} =>
            left[e] = rest[e]
  BY <1>27 DEF IsDrop
<1>29. /\ Extract(word, <<7, 8>>) \in Nat
       /\ Extract(word, <<8, 12>>) \in Nat
       /\ Extract(word, <<25, 31>>) \in Nat
       /\ Extract(word, <<31, 32>>) \in Nat
  BY SMT, FieldRange
<1>30. rest["imm11"] \in Int /\ rest["imm4_1"] \in Int /\ rest["imm10_5"] \in Int /\
         rest["imm12"] \in Int
  BY <1>21, <1>29
<1> DEFINE back == [imm |-> rest["imm11"] * 2048 + rest["imm4_1"] * 2 + rest["imm10_5"] * 32 +
      rest["imm12"] * 4096]
<1>31. layout_to_inputs(ImmXfrm(B), rest) = back
  BY <1>30, ImmBBack
<1>32. /\ DOMAIN back = {"imm"}
       /\ back["imm"] = rest["imm11"] * 2048 + rest["imm4_1"] * 2 + rest["imm10_5"] * 32 +
            rest["imm12"] * 4096
  OBVIOUS
<1> HIDE DEF back
<1>33. back # NoMatch
  BY <1>32, NotNoMatch
<1>34. IsPlus(Backward(ImmXfrm(B), rest), left, back)
  BY Zenon, <1>23, <1>26, <1>27, <1>31, <1>33, BackwardIs
<1>35. matches => IsPlus(found, left, back)
  BY <1>24, <1>25, <1>34
<1>36. matches =>
         /\ DOMAIN found = {"rs1", "rs2", "imm"}
         /\ found["rs1"] = rest["rs1"]
         /\ found["rs2"] = rest["rs2"]
         /\ found["imm"] = rest["imm11"] * 2048 + rest["imm4_1"] * 2 + rest["imm10_5"] * 32 +
              rest["imm12"] * 4096
  BY <1>20, <1>28, <1>32, <1>35 DEF IsPlus
<1>37. matches => found # NoMatch
  BY <1>36, NotNoMatch
<1> QED BY <1>24, <1>21, <1>36, <1>37 DEF matches

LEMMA UpperMatch ==
  ASSUME NEW opcode, NEW word, NEW found, found = match_value(Upper(opcode), word)
  PROVE  /\ found # NoMatch <=>
              /\ Extract(word, <<0, 7>>) = opcode
         /\ found # NoMatch =>
              /\ DOMAIN found = {"rd", "imm"}
              /\ found["rd"] = Extract(word, <<7, 12>>)
              /\ found["imm"] = Extract(word, <<12, 32>>)
<1> DEFINE kwargs == [opcode |-> opcode]
           defaults == <<>>
           layout == {"opcode", "rd", "imm"}
<1>1. PICK insn : insn = Insn(U, kwargs, <<CheckXfrm>>, <<"rd", "imm">>)
  OBVIOUS
<1>2. insn = Upper(opcode)
  BY <1>1, UpperForm
<1>3. insn.cls = U /\ insn.kwargs = kwargs /\ insn.xfrms = <<CheckXfrm>>
  BY <1>1, InsnParts
<1>4. ToSet(U.layout) = layout /\ U.ranges = URanges /\ U.defaults = defaults
  BY Formats, UIs
<1>5. DOMAIN defaults = {} /\ DOMAIN kwargs = {"opcode"}
  OBVIOUS
<1>6. /\ kwargs["opcode"] = opcode
  OBVIOUS
<1> HIDE DEF kwargs, defaults
<1> DEFINE none == <<>>
<1>7. DOMAIN none = {} /\ none = <<>>
  OBVIOUS
<1> HIDE DEF none
<1>8. PICK all : IsPlus(all, kwargs, none)
  BY PlusIs
<1>9. /\ DOMAIN all = DOMAIN kwargs \cup DOMAIN none
      /\ \A e \in DOMAIN none : all[e] = none[e]
      /\ \A e \in DOMAIN kwargs : e \notin DOMAIN none => all[e] = kwargs[e]
  BY <1>8 DEF IsPlus
<1>10. ~({"imm"} \subseteq DOMAIN all)
  BY <1>5, <1>9, <1>7
<1>11. Forward(CheckXfrm, all) = all
  BY <1>10, XfrmInputs, ForwardNot
<1>12. all = Applied(<<CheckXfrm>>, all)
  BY <1>11, AppliedOf
<1>13. PICK known : IsPlus(known, defaults, all)
  BY PlusIs
<1>14. /\ DOMAIN known = DOMAIN defaults \cup DOMAIN all
       /\ \A e \in DOMAIN all : known[e] = all[e]
       /\ \A e \in DOMAIN defaults : e \notin DOMAIN all => known[e] = defaults[e]
  BY <1>13 DEF IsPlus
<1>15. /\ "opcode" \in DOMAIN all /\ all["opcode"] = opcode
  BY <1>5, <1>6, <1>9, <1>7
<1>16. DOMAIN known = {"opcode"}
  BY <1>7, <1>5, <1>6, <1>15, <1>14, <1>9
<1>17. /\ known["opcode"] = opcode
  BY <1>7, <1>5, <1>6, <1>15, <1>14, <1>9
<1>18. /\ URanges["opcode"] = <<0, 7>>
       /\ URanges["rd"] = <<7, 12>>
       /\ URanges["imm"] = <<12, 32>>
  BY DEF URanges
<1> DEFINE matches ==
             /\ Extract(word, <<0, 7>>) = opcode
<1>19. Knows(known, word, URanges) <=> matches
  BY <1>16, <1>17, <1>18 DEF Knows
<1> DEFINE rest == Rest(known, word, layout, URanges)
<1>20. DOMAIN rest = {"rd", "imm"}
  BY <1>16 DEF Rest
<1>21. /\ rest["rd"] = Extract(word, <<7, 12>>)
       /\ rest["imm"] = Extract(word, <<12, 32>>)
  BY <1>16, <1>18 DEF Rest
<1>22. match_value(insn, word) =
         IF Knows(known, word, URanges) THEN Reversed(<<CheckXfrm>>, rest) ELSE NoMatch
  BY Zenon, <1>3, <1>4, <1>8, <1>13, <1>12, <1>7, MatchIs
<1> HIDE DEF rest
<1>23. rest # NoMatch
  BY <1>20, NotNoMatch
<1>24. found = IF matches THEN Reversed(<<CheckXfrm>>, rest) ELSE NoMatch
  BY <1>2, <1>19, <1>22
<1> HIDE DEF matches
<1>25. Reversed(<<CheckXfrm>>, rest) = Backward(CheckXfrm, rest)
  BY ReversedOf
<1>26. {"imm"} \subseteq DOMAIN rest /\ ToSet(CheckXfrm.layout) = {"imm"}
  BY <1>20, XfrmParts
<1>27. PICK left : IsDrop(left, rest, {"imm"})
  BY DropIs
<1>28. /\ DOMAIN left = DOMAIN rest \ {"imm"}
       /\ \A e \in DOMAIN rest : e \notin {"imm"} => left[e] = rest[e]
  BY <1>27 DEF IsDrop
<1> DEFINE back == [imm |-> rest["imm"]]
<1>29. layout_to_inputs(CheckXfrm, rest) = back
  BY CheckBack
<1>30. /\ DOMAIN back = {"imm"}
       /\ back["imm"] = rest["imm"]
  OBVIOUS
<1> HIDE DEF back
<1>31. back # NoMatch
  BY <1>30, NotNoMatch
<1>32. IsPlus(Backward(CheckXfrm, rest), left, back)
  BY Zenon, <1>23, <1>26, <1>27, <1>29, <1>31, BackwardIs
<1>33. matches => IsPlus(found, left, back)
  BY <1>24, <1>25, <1>32
<1>34. matches =>
         /\ DOMAIN found = {"rd", "imm"}
         /\ found["rd"] = rest["rd"]
         /\ found["imm"] = rest["imm"]
  BY <1>20, <1>28, <1>30, <1>33 DEF IsPlus
<1>35. matches => found # NoMatch
  BY <1>34, NotNoMatch
<1> QED BY <1>24, <1>21, <1>34, <1>35 DEF matches

LEMMA JalrMatch ==
  ASSUME NEW word, NEW found, found = match_value(Jalr, word)
  PROVE  /\ found # NoMatch <=>
              /\ Extract(word, <<0, 7>>) = 103
              /\ Extract(word, <<12, 15>>) = 0
         /\ found # NoMatch =>
              /\ DOMAIN found = {"rd", "rs1", "imm"}
              /\ found["rd"] = Extract(word, <<7, 12>>)
              /\ found["rs1"] = Extract(word, <<15, 20>>)
              /\ found["imm"] = Extract(word, <<20, 32>>)
<1> DEFINE kwargs == [opcode |-> 103, funct3 |-> 0]
           defaults == [opcode |-> 19]
           layout == {"opcode", "rd", "funct3", "rs1", "imm"}
<1>1. PICK insn : insn = Insn(I, kwargs, <<>>, <<"rd", "rs1", "imm">>)
  OBVIOUS
<1>2. insn = Jalr
  BY <1>1, JalrForm
<1>3. insn.cls = I /\ insn.kwargs = kwargs /\ insn.xfrms = <<>>
  BY <1>1, InsnParts
<1>4. ToSet(I.layout) = layout /\ I.ranges = IRanges /\ I.defaults = defaults
  BY Formats, IIs
<1>5. DOMAIN defaults = {"opcode"} /\ DOMAIN kwargs = {"opcode", "funct3"}
  OBVIOUS
<1>6. /\ defaults["opcode"] = 19
      /\ kwargs["opcode"] = 103
      /\ kwargs["funct3"] = 0
  OBVIOUS
<1> HIDE DEF kwargs, defaults
<1> DEFINE none == <<>>
<1>7. DOMAIN none = {} /\ none = <<>>
  OBVIOUS
<1> HIDE DEF none
<1>8. PICK all : IsPlus(all, kwargs, none)
  BY PlusIs
<1>9. /\ DOMAIN all = DOMAIN kwargs \cup DOMAIN none
      /\ \A e \in DOMAIN none : all[e] = none[e]
      /\ \A e \in DOMAIN kwargs : e \notin DOMAIN none => all[e] = kwargs[e]
  BY <1>8 DEF IsPlus
<1>10. all = Applied(<<>>, all)
  BY AppliedOf
<1>11. PICK known : IsPlus(known, defaults, all)
  BY PlusIs
<1>12. /\ DOMAIN known = DOMAIN defaults \cup DOMAIN all
       /\ \A e \in DOMAIN all : known[e] = all[e]
       /\ \A e \in DOMAIN defaults : e \notin DOMAIN all => known[e] = defaults[e]
  BY <1>11 DEF IsPlus
<1>13. /\ "opcode" \in DOMAIN all /\ all["opcode"] = 103
       /\ "funct3" \in DOMAIN all /\ all["funct3"] = 0
  BY <1>5, <1>6, <1>9, <1>7
<1>14. DOMAIN known = {"opcode", "funct3"}
  BY <1>7, <1>5, <1>6, <1>13, <1>12, <1>9
<1>15. /\ known["opcode"] = 103
       /\ known["funct3"] = 0
  BY <1>7, <1>5, <1>6, <1>13, <1>12, <1>9
<1>16. /\ IRanges["opcode"] = <<0, 7>>
       /\ IRanges["rd"] = <<7, 12>>
       /\ IRanges["funct3"] = <<12, 15>>
       /\ IRanges["rs1"] = <<15, 20>>
       /\ IRanges["imm"] = <<20, 32>>
  BY DEF IRanges
<1> DEFINE matches ==
             /\ Extract(word, <<0, 7>>) = 103
             /\ Extract(word, <<12, 15>>) = 0
<1>17. Knows(known, word, IRanges) <=> matches
  BY <1>14, <1>15, <1>16 DEF Knows
<1> DEFINE rest == Rest(known, word, layout, IRanges)
<1>18. DOMAIN rest = {"rd", "rs1", "imm"}
  BY <1>14 DEF Rest
<1>19. /\ rest["rd"] = Extract(word, <<7, 12>>)
       /\ rest["rs1"] = Extract(word, <<15, 20>>)
       /\ rest["imm"] = Extract(word, <<20, 32>>)
  BY <1>14, <1>16 DEF Rest
<1>20. match_value(insn, word) =
         IF Knows(known, word, IRanges) THEN Reversed(<<>>, rest) ELSE NoMatch
  BY Zenon, <1>3, <1>4, <1>8, <1>11, <1>10, <1>7, MatchIs
<1> HIDE DEF rest
<1>21. rest # NoMatch
  BY <1>18, NotNoMatch
<1>22. found = IF matches THEN Reversed(<<>>, rest) ELSE NoMatch
  BY <1>2, <1>17, <1>20
<1> HIDE DEF matches
<1>23. Reversed(<<>>, rest) = rest
  BY ReversedOf
<1>24. matches => found = rest
  BY <1>22, <1>23
<1>25. matches => found # NoMatch
  BY <1>24, <1>21
<1> QED BY <1>22, <1>24, <1>25, <1>18, <1>19 DEF matches

LEMMA JalMatch ==
  ASSUME NEW word, NEW found, found = match_value(Jal, word)
  PROVE  /\ found # NoMatch <=>
              /\ Extract(word, <<0, 7>>) = 111
         /\ found # NoMatch =>
              /\ DOMAIN found = {"rd", "imm"}
              /\ found["rd"] = Extract(word, <<7, 12>>)
              /\ found["imm"] = Extract(word, <<12, 20>>) * 4096 +
                   Extract(word, <<20, 21>>) * 2048 + Extract(word, <<21, 31>>) * 2 +
                   Extract(word, <<31, 32>>) * 1048576
<1> DEFINE kwargs == <<>>
           defaults == [opcode |-> 111]
           layout == {"opcode", "rd", "imm19_12", "imm11", "imm10_1", "imm20"}
<1>1. PICK insn : insn = Insn(J, kwargs, <<ImmXfrm(J)>>, <<"rd", "imm">>)
  OBVIOUS
<1>2. insn = Jal
  BY <1>1, JalForm
<1>3. insn.cls = J /\ insn.kwargs = kwargs /\ insn.xfrms = <<ImmXfrm(J)>>
  BY <1>1, InsnParts
<1>4. ToSet(J.layout) = layout /\ J.ranges = JRanges /\ J.defaults = defaults
  BY Formats, JIs
<1>5. DOMAIN defaults = {"opcode"} /\ DOMAIN kwargs = {}
  OBVIOUS
<1>6. /\ defaults["opcode"] = 111
  OBVIOUS
<1> HIDE DEF kwargs, defaults
<1> DEFINE none == <<>>
<1>7. DOMAIN none = {} /\ none = <<>>
  OBVIOUS
<1> HIDE DEF none
<1>8. PICK all : IsPlus(all, kwargs, none)
  BY PlusIs
<1>9. /\ DOMAIN all = DOMAIN kwargs \cup DOMAIN none
      /\ \A e \in DOMAIN none : all[e] = none[e]
      /\ \A e \in DOMAIN kwargs : e \notin DOMAIN none => all[e] = kwargs[e]
  BY <1>8 DEF IsPlus
<1>10. ~({"imm"} \subseteq DOMAIN all)
  BY <1>5, <1>9, <1>7
<1>11. Forward(ImmXfrm(J), all) = all
  BY <1>10, XfrmInputs, ForwardNot
<1>12. all = Applied(<<ImmXfrm(J)>>, all)
  BY <1>11, AppliedOf
<1>13. PICK known : IsPlus(known, defaults, all)
  BY PlusIs
<1>14. /\ DOMAIN known = DOMAIN defaults \cup DOMAIN all
       /\ \A e \in DOMAIN all : known[e] = all[e]
       /\ \A e \in DOMAIN defaults : e \notin DOMAIN all => known[e] = defaults[e]
  BY <1>13 DEF IsPlus
<1>15. TRUE
  BY <1>5, <1>6, <1>9, <1>7
<1>16. DOMAIN known = {"opcode"}
  BY <1>7, <1>5, <1>6, <1>15, <1>14, <1>9
<1>17. /\ known["opcode"] = 111
  BY <1>7, <1>5, <1>6, <1>15, <1>14, <1>9
<1>18. /\ JRanges["opcode"] = <<0, 7>>
       /\ JRanges["rd"] = <<7, 12>>
       /\ JRanges["imm19_12"] = <<12, 20>>
       /\ JRanges["imm11"] = <<20, 21>>
       /\ JRanges["imm10_1"] = <<21, 31>>
       /\ JRanges["imm20"] = <<31, 32>>
  BY DEF JRanges
<1> DEFINE matches ==
             /\ Extract(word, <<0, 7>>) = 111
<1>19. Knows(known, word, JRanges) <=> matches
  BY <1>16, <1>17, <1>18 DEF Knows
<1> DEFINE rest == Rest(known, word, layout, JRanges)
<1>20. DOMAIN rest = {"rd", "imm19_12", "imm11", "imm10_1", "imm20"}
  BY <1>16 DEF Rest
<1>21. /\ rest["rd"] = Extract(word, <<7, 12>>)
       /\ rest["imm19_12"] = Extract(word, <<12, 20>>)
       /\ rest["imm11"] = Extract(word, <<20, 21>>)
       /\ rest["imm10_1"] = Extract(word, <<21, 31>>)
       /\ rest["imm20"] = Extract(word, <<31, 32>>)
  BY <1>16, <1>18 DEF Rest
<1>22. match_value(insn, word) =
         IF Knows(known, word, JRanges) THEN Reversed(<<ImmXfrm(J)>>, rest) ELSE NoMatch
  BY Zenon, <1>3, <1>4, <1>8, <1>13, <1>12, <1>7, MatchIs
<1> HIDE DEF rest
<1>23. rest # NoMatch
  BY <1>20, NotNoMatch
<1>24. found = IF matches THEN Reversed(<<ImmXfrm(J)>>, rest) ELSE NoMatch
  BY <1>2, <1>19, <1>22
<1> HIDE DEF matches
<1>25. Reversed(<<ImmXfrm(J)>>, rest) = Backward(ImmXfrm(J), rest)
  BY ReversedOf
<1>26. {"imm19_12", "imm11", "imm10_1", "imm20"} \subseteq DOMAIN rest /\
         ToSet(ImmXfrm(J).layout) = {"imm19_12", "imm11", "imm10_1", "imm20"}
  BY <1>20, XfrmParts
<1>27. PICK left : IsDrop(left, rest, {"imm19_12", "imm11", "imm10_1", "imm20"})
  BY DropIs
<1>28. /\ DOMAIN left = DOMAIN rest \ {"imm19_12", "imm11", "imm10_1", "imm20"}
       /\ \A e \in DOMAIN rest : e \notin {"imm19_12", "imm11", "imm10_1", "imm20"} =>
            left[e] = rest[e]
  BY <1>27 DEF IsDrop
<1>29. /\ Extract(word, <<12, 20>>) \in Nat
       /\ Extract(word, <<20, 21>>) \in Nat
       /\ Extract(word, <<21, 31>>) \in Nat
       /\ Extract(word, <<31, 32>>) \in Nat
  BY SMT, FieldRange
<1>30. rest["imm19_12"] \in Int /\ rest["imm11"] \in Int /\ rest["imm10_1"] \in Int /\
         rest["imm20"] \in Int
  BY <1>21, <1>29
<1> DEFINE back == [imm |-> rest["imm19_12"] * 4096 + rest["imm11"] * 2048 +
      rest["imm10_1"] * 2 + rest["imm20"] * 1048576]
<1>31. layout_to_inputs(ImmXfrm(J), rest) = back
  BY <1>30, ImmJBack
<1>32. /\ DOMAIN back = {"imm"}
       /\ back["imm"] = rest["imm19_12"] * 4096 + rest["imm11"] * 2048 + rest["imm10_1"] * 2 +
            rest["imm20"] * 1048576
  OBVIOUS
<1> HIDE DEF back
<1>33. back # NoMatch
  BY <1>32, NotNoMatch
<1>34. IsPlus(Backward(ImmXfrm(J), rest), left, back)
  BY Zenon, <1>23, <1>26, <1>27, <1>31, <1>33, BackwardIs
<1>35. matches => IsPlus(found, left, back)
  BY <1>24, <1>25, <1>34
<1>36. matches =>
         /\ DOMAIN found = {"rd", "imm"}
         /\ found["rd"] = rest["rd"]
         /\ found["imm"] = rest["imm19_12"] * 4096 + rest["imm11"] * 2048 +
              rest["imm10_1"] * 2 + rest["imm20"] * 1048576
  BY <1>20, <1>28, <1>32, <1>35 DEF IsPlus
<1>37. matches => found # NoMatch
  BY <1>36, NotNoMatch
<1> QED BY <1>24, <1>21, <1>36, <1>37 DEF matches

LEMMA FenceTSOMatch ==
  ASSUME NEW word, NEW found, found = match_value(Insns.FENCE_TSO, word)
  PROVE  /\ found # NoMatch <=>
              /\ Extract(word, <<0, 7>>) = 15
              /\ Extract(word, <<7, 12>>) = 0
              /\ Extract(word, <<12, 15>>) = 0
              /\ Extract(word, <<15, 20>>) = 0
              /\ Extract(word, <<20, 32>>) = 2099
         /\ found # NoMatch =>
              /\ DOMAIN found = {}
<1> DEFINE kwargs == [opcode |-> 15, funct3 |-> 0, rd |-> 0, rs1 |-> 0, pred |-> {"r", "w"},
      succ |-> {"r", "w"}]
           defaults == [opcode |-> 19]
           layout == {"opcode", "rd", "funct3", "rs1", "imm"}
<1>1. PICK insn : insn = Insn(I, kwargs, <<FenceXfrm(8)>>, <<>>)
  OBVIOUS
<1>2. insn = Insns.FENCE_TSO
  BY <1>1, FenceTSOForm
<1>3. insn.cls = I /\ insn.kwargs = kwargs /\ insn.xfrms = <<FenceXfrm(8)>>
  BY <1>1, InsnParts
<1>4. ToSet(I.layout) = layout /\ I.ranges = IRanges /\ I.defaults = defaults
  BY Formats, IIs
<1>5. DOMAIN defaults = {"opcode"} /\ DOMAIN kwargs =
        {"opcode", "funct3", "rd", "rs1", "pred", "succ"}
  OBVIOUS
<1>6. /\ defaults["opcode"] = 19
      /\ kwargs["opcode"] = 15
      /\ kwargs["funct3"] = 0
      /\ kwargs["rd"] = 0
      /\ kwargs["rs1"] = 0
      /\ kwargs["pred"] = {"r", "w"}
      /\ kwargs["succ"] = {"r", "w"}
  OBVIOUS
<1> HIDE DEF kwargs, defaults
<1> DEFINE none == <<>>
<1>7. DOMAIN none = {} /\ none = <<>>
  OBVIOUS
<1> HIDE DEF none
<1>8. PICK all : IsPlus(all, kwargs, none)
  BY PlusIs
<1>9. /\ DOMAIN all = DOMAIN kwargs \cup DOMAIN none
      /\ \A e \in DOMAIN none : all[e] = none[e]
      /\ \A e \in DOMAIN kwargs : e \notin DOMAIN none => all[e] = kwargs[e]
  BY <1>8 DEF IsPlus
<1>10. {"pred", "succ"} \subseteq DOMAIN all
  BY <1>5, <1>9
<1>11. PICK left1 : IsDrop(left1, all, {"pred", "succ"})
  BY DropIs
<1>12. /\ DOMAIN left1 = DOMAIN all \ {"pred", "succ"}
       /\ \A e \in DOMAIN all : e \notin {"pred", "succ"} => left1[e] = all[e]
  BY <1>11 DEF IsDrop
<1> DEFINE out1 == IF all["pred"] = {} \/ all["succ"] = {} THEN Assertion
          ELSE [imm |-> fence_arg(all["succ"]) + 16 * fence_arg(all["pred"]) + 256 * 8]
<1>13. inputs_to_layout(FenceXfrm(8), all) = out1
  BY FenceForth
<1>14. /\ ~(all["pred"] = {} \/ all["succ"] = {}) =>
            /\ DOMAIN out1 = {"imm"}
            /\ out1["imm"] = fence_arg(all["succ"]) + 16 * fence_arg(all["pred"]) + 256 * 8
       /\ ~(~(all["pred"] = {} \/ all["succ"] = {})) => DOMAIN out1 = {"refused"}
  BY DEF Assertion
<1> HIDE DEF out1
<1>15. ToSet(FenceXfrm(8).inputs) = {"pred", "succ"}
  BY XfrmInputs
<1>16. PICK more1 : more1 = Forward(FenceXfrm(8), all) /\ IsPlus(more1, left1, out1)
  BY <1>10, <1>11, <1>13, <1>15, ForwardIs
<1>17. /\ DOMAIN more1 = DOMAIN left1 \cup DOMAIN out1
       /\ \A e \in DOMAIN out1 : more1[e] = out1[e]
       /\ \A e \in DOMAIN left1 : e \notin DOMAIN out1 => more1[e] = left1[e]
  BY <1>16 DEF IsPlus
<1>18. more1 = Applied(<<FenceXfrm(8)>>, all)
  BY <1>16, AppliedOf
<1>19. PICK known : IsPlus(known, defaults, more1)
  BY PlusIs
<1>20. /\ DOMAIN known = DOMAIN defaults \cup DOMAIN more1
       /\ \A e \in DOMAIN more1 : known[e] = more1[e]
       /\ \A e \in DOMAIN defaults : e \notin DOMAIN more1 => known[e] = defaults[e]
  BY <1>19 DEF IsPlus
<1>21. /\ "opcode" \in DOMAIN all /\ all["opcode"] = 15
       /\ "funct3" \in DOMAIN all /\ all["funct3"] = 0
       /\ "rd" \in DOMAIN all /\ all["rd"] = 0
       /\ "rs1" \in DOMAIN all /\ all["rs1"] = 0
       /\ "pred" \in DOMAIN all /\ all["pred"] = {"r", "w"}
       /\ "succ" \in DOMAIN all /\ all["succ"] = {"r", "w"}
  BY <1>5, <1>6, <1>9, <1>7
<1>22. ~(all["pred"] = {} \/ all["succ"] = {})
  BY <1>21, <1>7
<1>23. /\ DOMAIN out1 = {"imm"}
       /\ out1["imm"] = fence_arg(all["succ"]) + 16 * fence_arg(all["pred"]) + 256 * 8
  BY <1>14, <1>22
<1>24. /\ "opcode" \in DOMAIN more1 /\ more1["opcode"] = 15
       /\ "funct3" \in DOMAIN more1 /\ more1["funct3"] = 0
       /\ "rd" \in DOMAIN more1 /\ more1["rd"] = 0
       /\ "rs1" \in DOMAIN more1 /\ more1["rs1"] = 0
       /\ "imm" \in DOMAIN more1 /\ more1["imm"] = fence_arg({"r", "w"}) +
            16 * fence_arg({"r", "w"}) + 256 * 8
  BY <1>12, <1>23, <1>17, <1>21, <1>7
<1>25. DOMAIN known = {"opcode", "rd", "funct3", "rs1", "imm"}
  BY <1>7, <1>5, <1>6, <1>24, <1>20, <1>9, <1>12, <1>14, <1>17, <1>23, FencePower
<1>26. /\ known["opcode"] = 15
       /\ known["rd"] = 0
       /\ known["funct3"] = 0
       /\ known["rs1"] = 0
       /\ known["imm"] = 2099
  BY <1>7, <1>5, <1>6, <1>24, <1>20, <1>9, <1>12, <1>14, <1>17, <1>23, FencePower
<1>27. /\ IRanges["opcode"] = <<0, 7>>
       /\ IRanges["rd"] = <<7, 12>>
       /\ IRanges["funct3"] = <<12, 15>>
       /\ IRanges["rs1"] = <<15, 20>>
       /\ IRanges["imm"] = <<20, 32>>
  BY DEF IRanges
<1> DEFINE matches ==
             /\ Extract(word, <<0, 7>>) = 15
             /\ Extract(word, <<7, 12>>) = 0
             /\ Extract(word, <<12, 15>>) = 0
             /\ Extract(word, <<15, 20>>) = 0
             /\ Extract(word, <<20, 32>>) = 2099
<1>28. Knows(known, word, IRanges) <=> matches
  BY <1>25, <1>26, <1>27 DEF Knows
<1> DEFINE rest == Rest(known, word, layout, IRanges)
<1>29. DOMAIN rest = {}
  BY <1>25 DEF Rest
<1>30. TRUE
  BY <1>25, <1>27 DEF Rest
<1>31. match_value(insn, word) =
         IF Knows(known, word, IRanges) THEN Reversed(<<FenceXfrm(8)>>, rest) ELSE NoMatch
  BY Zenon, <1>3, <1>4, <1>8, <1>19, <1>18, <1>7, MatchIs
<1> HIDE DEF rest
<1>32. rest # NoMatch
  BY <1>29, NotNoMatch
<1>33. found = IF matches THEN Reversed(<<FenceXfrm(8)>>, rest) ELSE NoMatch
  BY <1>2, <1>28, <1>31
<1> HIDE DEF matches
<1>34. ToSet(FenceXfrm(8).layout) = {"imm"}
  BY Zenon, XfrmParts
<1>35. ~(ToSet(FenceXfrm(8).layout) \subseteq DOMAIN rest)
  BY <1>29, <1>34
<1>36. Backward(FenceXfrm(8), rest) = rest
  BY <1>35, <1>32, BackwardNot
<1>37. Reversed(<<FenceXfrm(8)>>, rest) = rest
  BY <1>36, ReversedOf
<1>38. matches => found = rest
  BY <1>33, <1>37
<1>39. matches => found # NoMatch
  BY <1>38, <1>32
<1> QED BY <1>33, <1>38, <1>39, <1>29, <1>30 DEF matches

LEMMA SnezMatch ==
  ASSUME NEW word, NEW found, found = match_value(Insns.SNEZ, word)
  PROVE  /\ found # NoMatch <=>
              /\ Extract(word, <<0, 7>>) = 51
              /\ Extract(word, <<12, 15>>) = 3
              /\ Extract(word, <<15, 20>>) = 0
              /\ Extract(word, <<25, 32>>) = 0
         /\ found # NoMatch =>
              /\ DOMAIN found = {"rd", "rs2"}
              /\ found["rd"] = Extract(word, <<7, 12>>)
              /\ found["rs2"] = Extract(word, <<20, 25>>)
<1> DEFINE kwargs == [funct3 |-> 3, rs1 |-> Reg("zero")]
           defaults == [opcode |-> 51, funct7 |-> 0]
           layout == {"opcode", "rd", "funct3", "rs1", "rs2", "funct7"}
<1>1. PICK insn : insn = Insn(R, kwargs, <<>>, <<"rd", "rs2">>)
  OBVIOUS
<1>2. insn = Insns.SNEZ
  BY <1>1, SnezForm
<1>3. insn.cls = R /\ insn.kwargs = kwargs /\ insn.xfrms = <<>>
  BY <1>1, InsnParts
<1>4. ToSet(R.layout) = layout /\ R.ranges = RRanges /\ R.defaults = defaults
  BY Formats, RIs
<1>5. DOMAIN defaults = {"opcode", "funct7"} /\ DOMAIN kwargs = {"funct3", "rs1"}
  OBVIOUS
<1>6. /\ defaults["opcode"] = 51
      /\ defaults["funct7"] = 0
      /\ kwargs["funct3"] = 3
      /\ kwargs["rs1"] = 0
  BY RegValues
<1> HIDE DEF kwargs, defaults
<1> DEFINE none == <<>>
<1>7. DOMAIN none = {} /\ none = <<>>
  OBVIOUS
<1> HIDE DEF none
<1>8. PICK all : IsPlus(all, kwargs, none)
  BY PlusIs
<1>9. /\ DOMAIN all = DOMAIN kwargs \cup DOMAIN none
      /\ \A e \in DOMAIN none : all[e] = none[e]
      /\ \A e \in DOMAIN kwargs : e \notin DOMAIN none => all[e] = kwargs[e]
  BY <1>8 DEF IsPlus
<1>10. all = Applied(<<>>, all)
  BY AppliedOf
<1>11. PICK known : IsPlus(known, defaults, all)
  BY PlusIs
<1>12. /\ DOMAIN known = DOMAIN defaults \cup DOMAIN all
       /\ \A e \in DOMAIN all : known[e] = all[e]
       /\ \A e \in DOMAIN defaults : e \notin DOMAIN all => known[e] = defaults[e]
  BY <1>11 DEF IsPlus
<1>13. /\ "funct3" \in DOMAIN all /\ all["funct3"] = 3
       /\ "rs1" \in DOMAIN all /\ all["rs1"] = 0
  BY <1>5, <1>6, <1>9, <1>7
<1>14. DOMAIN known = {"opcode", "funct3", "rs1", "funct7"}
  BY <1>7, <1>5, <1>6, <1>13, <1>12, <1>9
<1>15. /\ known["opcode"] = 51
       /\ known["funct3"] = 3
       /\ known["rs1"] = 0
       /\ known["funct7"] = 0
  BY <1>7, <1>5, <1>6, <1>13, <1>12, <1>9
<1>16. /\ RRanges["opcode"] = <<0, 7>>
       /\ RRanges["rd"] = <<7, 12>>
       /\ RRanges["funct3"] = <<12, 15>>
       /\ RRanges["rs1"] = <<15, 20>>
       /\ RRanges["rs2"] = <<20, 25>>
       /\ RRanges["funct7"] = <<25, 32>>
  BY DEF RRanges
<1> DEFINE matches ==
             /\ Extract(word, <<0, 7>>) = 51
             /\ Extract(word, <<12, 15>>) = 3
             /\ Extract(word, <<15, 20>>) = 0
             /\ Extract(word, <<25, 32>>) = 0
<1>17. Knows(known, word, RRanges) <=> matches
  BY <1>14, <1>15, <1>16 DEF Knows
<1> DEFINE rest == Rest(known, word, layout, RRanges)
<1>18. DOMAIN rest = {"rd", "rs2"}
  BY <1>14 DEF Rest
<1>19. /\ rest["rd"] = Extract(word, <<7, 12>>)
       /\ rest["rs2"] = Extract(word, <<20, 25>>)
  BY <1>14, <1>16 DEF Rest
<1>20. match_value(insn, word) =
         IF Knows(known, word, RRanges) THEN Reversed(<<>>, rest) ELSE NoMatch
  BY Zenon, <1>3, <1>4, <1>8, <1>11, <1>10, <1>7, MatchIs
<1> HIDE DEF rest
<1>21. rest # NoMatch
  BY <1>18, NotNoMatch
<1>22. found = IF matches THEN Reversed(<<>>, rest) ELSE NoMatch
  BY <1>2, <1>17, <1>20
<1> HIDE DEF matches
<1>23. Reversed(<<>>, rest) = rest
  BY ReversedOf
<1>24. matches => found = rest
  BY <1>22, <1>23
<1>25. matches => found # NoMatch
  BY <1>24, <1>21
<1> QED BY <1>22, <1>24, <1>25, <1>18, <1>19 DEF matches

LEMMA RetMatch ==
  ASSUME NEW word, NEW found, found = match_value(Insns.RET, word)
  PROVE  /\ found # NoMatch <=>
              /\ Extract(word, <<0, 7>>) = 103
              /\ Extract(word, <<7, 12>>) = 0
              /\ Extract(word, <<12, 15>>) = 0
              /\ Extract(word, <<15, 20>>) = 1
              /\ Extract(word, <<20, 32>>) = 0
         /\ found # NoMatch =>
              /\ DOMAIN found = {}
<1> DEFINE kwargs == [opcode |-> 103, funct3 |-> 0, rd |-> Reg("zero"), rs1 |-> Reg("ra"),
      imm |-> 0]
           defaults == [opcode |-> 19]
           layout == {"opcode", "rd", "funct3", "rs1", "imm"}
<1>1. PICK insn : insn = Insn(I, kwargs, <<>>, <<>>)
  OBVIOUS
<1>2. insn = Insns.RET
  BY <1>1, RetForm
<1>3. insn.cls = I /\ insn.kwargs = kwargs /\ insn.xfrms = <<>>
  BY <1>1, InsnParts
<1>4. ToSet(I.layout) = layout /\ I.ranges = IRanges /\ I.defaults = defaults
  BY Formats, IIs
<1>5. DOMAIN defaults = {"opcode"} /\ DOMAIN kwargs = {"opcode", "funct3", "rd", "rs1", "imm"}
  OBVIOUS
<1>6. /\ defaults["opcode"] = 19
      /\ kwargs["opcode"] = 103
      /\ kwargs["funct3"] = 0
      /\ kwargs["rd"] = 0
      /\ kwargs["rs1"] = 1
      /\ kwargs["imm"] = 0
  BY RegValues
<1> HIDE DEF kwargs, defaults
<1> DEFINE none == <<>>
<1>7. DOMAIN none = {} /\ none = <<>>
  OBVIOUS
<1> HIDE DEF none
<1>8. PICK all : IsPlus(all, kwargs, none)
  BY PlusIs
<1>9. /\ DOMAIN all = DOMAIN kwargs \cup DOMAIN none
      /\ \A e \in DOMAIN none : all[e] = none[e]
      /\ \A e \in DOMAIN kwargs : e \notin DOMAIN none => all[e] = kwargs[e]
  BY <1>8 DEF IsPlus
<1>10. all = Applied(<<>>, all)
  BY AppliedOf
<1>11. PICK known : IsPlus(known, defaults, all)
  BY PlusIs
<1>12. /\ DOMAIN known = DOMAIN defaults \cup DOMAIN all
       /\ \A e \in DOMAIN all : known[e] = all[e]
       /\ \A e \in DOMAIN defaults : e \notin DOMAIN all => known[e] = defaults[e]
  BY <1>11 DEF IsPlus
<1>13. /\ "opcode" \in DOMAIN all /\ all["opcode"] = 103
       /\ "funct3" \in DOMAIN all /\ all["funct3"] = 0
       /\ "rd" \in DOMAIN all /\ all["rd"] = 0
       /\ "rs1" \in DOMAIN all /\ all["rs1"] = 1
       /\ "imm" \in DOMAIN all /\ all["imm"] = 0
  BY <1>5, <1>6, <1>9, <1>7
<1>14. DOMAIN known = {"opcode", "rd", "funct3", "rs1", "imm"}
  BY <1>7, <1>5, <1>6, <1>13, <1>12, <1>9
<1>15. /\ known["opcode"] = 103
       /\ known["rd"] = 0
       /\ known["funct3"] = 0
       /\ known["rs1"] = 1
       /\ known["imm"] = 0
  BY <1>7, <1>5, <1>6, <1>13, <1>12, <1>9
<1>16. /\ IRanges["opcode"] = <<0, 7>>
       /\ IRanges["rd"] = <<7, 12>>
       /\ IRanges["funct3"] = <<12, 15>>
       /\ IRanges["rs1"] = <<15, 20>>
       /\ IRanges["imm"] = <<20, 32>>
  BY DEF IRanges
<1> DEFINE matches ==
             /\ Extract(word, <<0, 7>>) = 103
             /\ Extract(word, <<7, 12>>) = 0
             /\ Extract(word, <<12, 15>>) = 0
             /\ Extract(word, <<15, 20>>) = 1
             /\ Extract(word, <<20, 32>>) = 0
<1>17. Knows(known, word, IRanges) <=> matches
  BY <1>14, <1>15, <1>16 DEF Knows
<1> DEFINE rest == Rest(known, word, layout, IRanges)
<1>18. DOMAIN rest = {}
  BY <1>14 DEF Rest
<1>19. TRUE
  BY <1>14, <1>16 DEF Rest
<1>20. match_value(insn, word) =
         IF Knows(known, word, IRanges) THEN Reversed(<<>>, rest) ELSE NoMatch
  BY Zenon, <1>3, <1>4, <1>8, <1>11, <1>10, <1>7, MatchIs
<1> HIDE DEF rest
<1>21. rest # NoMatch
  BY <1>18, NotNoMatch
<1>22. found = IF matches THEN Reversed(<<>>, rest) ELSE NoMatch
  BY <1>2, <1>17, <1>20
<1> HIDE DEF matches
<1>23. Reversed(<<>>, rest) = rest
  BY ReversedOf
<1>24. matches => found = rest
  BY <1>22, <1>23
<1>25. matches => found # NoMatch
  BY <1>24, <1>21
<1> QED BY <1>22, <1>24, <1>25, <1>18, <1>19 DEF matches

LEMMA MvMatch ==
  ASSUME NEW word, NEW found, found = match_value(Insns.MV, word)
  PROVE  /\ found # NoMatch <=>
              /\ Extract(word, <<0, 7>>) = 19
              /\ Extract(word, <<12, 15>>) = 0
              /\ Extract(word, <<20, 32>>) = 0
         /\ found # NoMatch =>
              /\ DOMAIN found = {"rd", "rs1"}
              /\ found["rd"] = Extract(word, <<7, 12>>)
              /\ found["rs1"] = Extract(word, <<15, 20>>)
<1> DEFINE kwargs == [funct3 |-> 0, imm |-> 0]
           defaults == [opcode |-> 19]
           layout == {"opcode", "rd", "funct3", "rs1", "imm"}
<1>1. PICK insn : insn = Insn(I, kwargs, <<>>, <<"rd", "rs1">>)
  OBVIOUS
<1>2. insn = Insns.MV
  BY <1>1, MvForm
<1>3. insn.cls = I /\ insn.kwargs = kwargs /\ insn.xfrms = <<>>
  BY <1>1, InsnParts
<1>4. ToSet(I.layout) = layout /\ I.ranges = IRanges /\ I.defaults = defaults
  BY Formats, IIs
<1>5. DOMAIN defaults = {"opcode"} /\ DOMAIN kwargs = {"funct3", "imm"}
  OBVIOUS
<1>6. /\ defaults["opcode"] = 19
      /\ kwargs["funct3"] = 0
      /\ kwargs["imm"] = 0
  OBVIOUS
<1> HIDE DEF kwargs, defaults
<1> DEFINE none == <<>>
<1>7. DOMAIN none = {} /\ none = <<>>
  OBVIOUS
<1> HIDE DEF none
<1>8. PICK all : IsPlus(all, kwargs, none)
  BY PlusIs
<1>9. /\ DOMAIN all = DOMAIN kwargs \cup DOMAIN none
      /\ \A e \in DOMAIN none : all[e] = none[e]
      /\ \A e \in DOMAIN kwargs : e \notin DOMAIN none => all[e] = kwargs[e]
  BY <1>8 DEF IsPlus
<1>10. all = Applied(<<>>, all)
  BY AppliedOf
<1>11. PICK known : IsPlus(known, defaults, all)
  BY PlusIs
<1>12. /\ DOMAIN known = DOMAIN defaults \cup DOMAIN all
       /\ \A e \in DOMAIN all : known[e] = all[e]
       /\ \A e \in DOMAIN defaults : e \notin DOMAIN all => known[e] = defaults[e]
  BY <1>11 DEF IsPlus
<1>13. /\ "funct3" \in DOMAIN all /\ all["funct3"] = 0
       /\ "imm" \in DOMAIN all /\ all["imm"] = 0
  BY <1>5, <1>6, <1>9, <1>7
<1>14. DOMAIN known = {"opcode", "funct3", "imm"}
  BY <1>7, <1>5, <1>6, <1>13, <1>12, <1>9
<1>15. /\ known["opcode"] = 19
       /\ known["funct3"] = 0
       /\ known["imm"] = 0
  BY <1>7, <1>5, <1>6, <1>13, <1>12, <1>9
<1>16. /\ IRanges["opcode"] = <<0, 7>>
       /\ IRanges["rd"] = <<7, 12>>
       /\ IRanges["funct3"] = <<12, 15>>
       /\ IRanges["rs1"] = <<15, 20>>
       /\ IRanges["imm"] = <<20, 32>>
  BY DEF IRanges
<1> DEFINE matches ==
             /\ Extract(word, <<0, 7>>) = 19
             /\ Extract(word, <<12, 15>>) = 0
             /\ Extract(word, <<20, 32>>) = 0
<1>17. Knows(known, word, IRanges) <=> matches
  BY <1>14, <1>15, <1>16 DEF Knows
<1> DEFINE rest == Rest(known, word, layout, IRanges)
<1>18. DOMAIN rest = {"rd", "rs1"}
  BY <1>14 DEF Rest
<1>19. /\ rest["rd"] = Extract(word, <<7, 12>>)
       /\ rest["rs1"] = Extract(word, <<15, 20>>)
  BY <1>14, <1>16 DEF Rest
<1>20. match_value(insn, word) =
         IF Knows(known, word, IRanges) THEN Reversed(<<>>, rest) ELSE NoMatch
  BY Zenon, <1>3, <1>4, <1>8, <1>11, <1>10, <1>7, MatchIs
<1> HIDE DEF rest
<1>21. rest # NoMatch
  BY <1>18, NotNoMatch
<1>22. found = IF matches THEN Reversed(<<>>, rest) ELSE NoMatch
  BY <1>2, <1>17, <1>20
<1> HIDE DEF matches
<1>23. Reversed(<<>>, rest) = rest
  BY ReversedOf
<1>24. matches => found = rest
  BY <1>22, <1>23
<1>25. matches => found # NoMatch
  BY <1>24, <1>21
<1> QED BY <1>22, <1>24, <1>25, <1>18, <1>19 DEF matches

LEMMA SeqzMatch ==
  ASSUME NEW word, NEW found, found = match_value(Insns.SEQZ, word)
  PROVE  /\ found # NoMatch <=>
              /\ Extract(word, <<0, 7>>) = 19
              /\ Extract(word, <<12, 15>>) = 3
              /\ Extract(word, <<20, 32>>) = 1
         /\ found # NoMatch =>
              /\ DOMAIN found = {"rd", "rs1"}
              /\ found["rd"] = Extract(word, <<7, 12>>)
              /\ found["rs1"] = Extract(word, <<15, 20>>)
<1> DEFINE kwargs == [funct3 |-> 3, imm |-> 1]
           defaults == [opcode |-> 19]
           layout == {"opcode", "rd", "funct3", "rs1", "imm"}
<1>1. PICK insn : insn = Insn(I, kwargs, <<>>, <<"rd", "rs1">>)
  OBVIOUS
<1>2. insn = Insns.SEQZ
  BY <1>1, SeqzForm
<1>3. insn.cls = I /\ insn.kwargs = kwargs /\ insn.xfrms = <<>>
  BY <1>1, InsnParts
<1>4. ToSet(I.layout) = layout /\ I.ranges = IRanges /\ I.defaults = defaults
  BY Formats, IIs
<1>5. DOMAIN defaults = {"opcode"} /\ DOMAIN kwargs = {"funct3", "imm"}
  OBVIOUS
<1>6. /\ defaults["opcode"] = 19
      /\ kwargs["funct3"] = 3
      /\ kwargs["imm"] = 1
  OBVIOUS
<1> HIDE DEF kwargs, defaults
<1> DEFINE none == <<>>
<1>7. DOMAIN none = {} /\ none = <<>>
  OBVIOUS
<1> HIDE DEF none
<1>8. PICK all : IsPlus(all, kwargs, none)
  BY PlusIs
<1>9. /\ DOMAIN all = DOMAIN kwargs \cup DOMAIN none
      /\ \A e \in DOMAIN none : all[e] = none[e]
      /\ \A e \in DOMAIN kwargs : e \notin DOMAIN none => all[e] = kwargs[e]
  BY <1>8 DEF IsPlus
<1>10. all = Applied(<<>>, all)
  BY AppliedOf
<1>11. PICK known : IsPlus(known, defaults, all)
  BY PlusIs
<1>12. /\ DOMAIN known = DOMAIN defaults \cup DOMAIN all
       /\ \A e \in DOMAIN all : known[e] = all[e]
       /\ \A e \in DOMAIN defaults : e \notin DOMAIN all => known[e] = defaults[e]
  BY <1>11 DEF IsPlus
<1>13. /\ "funct3" \in DOMAIN all /\ all["funct3"] = 3
       /\ "imm" \in DOMAIN all /\ all["imm"] = 1
  BY <1>5, <1>6, <1>9, <1>7
<1>14. DOMAIN known = {"opcode", "funct3", "imm"}
  BY <1>7, <1>5, <1>6, <1>13, <1>12, <1>9
<1>15. /\ known["opcode"] = 19
       /\ known["funct3"] = 3
       /\ known["imm"] = 1
  BY <1>7, <1>5, <1>6, <1>13, <1>12, <1>9
<1>16. /\ IRanges["opcode"] = <<0, 7>>
       /\ IRanges["rd"] = <<7, 12>>
       /\ IRanges["funct3"] = <<12, 15>>
       /\ IRanges["rs1"] = <<15, 20>>
       /\ IRanges["imm"] = <<20, 32>>
  BY DEF IRanges
<1> DEFINE matches ==
             /\ Extract(word, <<0, 7>>) = 19
             /\ Extract(word, <<12, 15>>) = 3
             /\ Extract(word, <<20, 32>>) = 1
<1>17. Knows(known, word, IRanges) <=> matches
  BY <1>14, <1>15, <1>16 DEF Knows
<1> DEFINE rest == Rest(known, word, layout, IRanges)
<1>18. DOMAIN rest = {"rd", "rs1"}
  BY <1>14 DEF Rest
<1>19. /\ rest["rd"] = Extract(word, <<7, 12>>)
       /\ rest["rs1"] = Extract(word, <<15, 20>>)
  BY <1>14, <1>16 DEF Rest
<1>20. match_value(insn, word) =
         IF Knows(known, word, IRanges) THEN Reversed(<<>>, rest) ELSE NoMatch
  BY Zenon, <1>3, <1>4, <1>8, <1>11, <1>10, <1>7, MatchIs
<1> HIDE DEF rest
<1>21. rest # NoMatch
  BY <1>18, NotNoMatch
<1>22. found = IF matches THEN Reversed(<<>>, rest) ELSE NoMatch
  BY <1>2, <1>17, <1>20
<1> HIDE DEF matches
<1>23. Reversed(<<>>, rest) = rest
  BY ReversedOf
<1>24. matches => found = rest
  BY <1>22, <1>23
<1>25. matches => found # NoMatch
  BY <1>24, <1>21
<1> QED BY <1>22, <1>24, <1>25, <1>18, <1>19 DEF matches

LEMMA NotMatch ==
  ASSUME NEW word, NEW found, found = match_value(Insns.NOT, word)
  PROVE  /\ found # NoMatch <=>
              /\ Extract(word, <<0, 7>>) = 19
              /\ Extract(word, <<12, 15>>) = 4
              /\ Extract(word, <<20, 32>>) = -1
         /\ found # NoMatch =>
              /\ DOMAIN found = {"rd", "rs1"}
              /\ found["rd"] = Extract(word, <<7, 12>>)
              /\ found["rs1"] = Extract(word, <<15, 20>>)
<1> DEFINE kwargs == [funct3 |-> 4, imm |-> -1]
           defaults == [opcode |-> 19]
           layout == {"opcode", "rd", "funct3", "rs1", "imm"}
<1>1. PICK insn : insn = Insn(I, kwargs, <<>>, <<"rd", "rs1">>)
  OBVIOUS
<1>2. insn = Insns.NOT
  BY <1>1, NotForm
<1>3. insn.cls = I /\ insn.kwargs = kwargs /\ insn.xfrms = <<>>
  BY <1>1, InsnParts
<1>4. ToSet(I.layout) = layout /\ I.ranges = IRanges /\ I.defaults = defaults
  BY Formats, IIs
<1>5. DOMAIN defaults = {"opcode"} /\ DOMAIN kwargs = {"funct3", "imm"}
  OBVIOUS
<1>6. /\ defaults["opcode"] = 19
      /\ kwargs["funct3"] = 4
      /\ kwargs["imm"] = -1
  OBVIOUS
<1> HIDE DEF kwargs, defaults
<1> DEFINE none == <<>>
<1>7. DOMAIN none = {} /\ none = <<>>
  OBVIOUS
<1> HIDE DEF none
<1>8. PICK all : IsPlus(all, kwargs, none)
  BY PlusIs
<1>9. /\ DOMAIN all = DOMAIN kwargs \cup DOMAIN none
      /\ \A e \in DOMAIN none : all[e] = none[e]
      /\ \A e \in DOMAIN kwargs : e \notin DOMAIN none => all[e] = kwargs[e]
  BY <1>8 DEF IsPlus
<1>10. all = Applied(<<>>, all)
  BY AppliedOf
<1>11. PICK known : IsPlus(known, defaults, all)
  BY PlusIs
<1>12. /\ DOMAIN known = DOMAIN defaults \cup DOMAIN all
       /\ \A e \in DOMAIN all : known[e] = all[e]
       /\ \A e \in DOMAIN defaults : e \notin DOMAIN all => known[e] = defaults[e]
  BY <1>11 DEF IsPlus
<1>13. /\ "funct3" \in DOMAIN all /\ all["funct3"] = 4
       /\ "imm" \in DOMAIN all /\ all["imm"] = -1
  BY <1>5, <1>6, <1>9, <1>7
<1>14. DOMAIN known = {"opcode", "funct3", "imm"}
  BY <1>7, <1>5, <1>6, <1>13, <1>12, <1>9
<1>15. /\ known["opcode"] = 19
       /\ known["funct3"] = 4
       /\ known["imm"] = -1
  BY <1>7, <1>5, <1>6, <1>13, <1>12, <1>9
<1>16. /\ IRanges["opcode"] = <<0, 7>>
       /\ IRanges["rd"] = <<7, 12>>
       /\ IRanges["funct3"] = <<12, 15>>
       /\ IRanges["rs1"] = <<15, 20>>
       /\ IRanges["imm"] = <<20, 32>>
  BY DEF IRanges
<1> DEFINE matches ==
             /\ Extract(word, <<0, 7>>) = 19
             /\ Extract(word, <<12, 15>>) = 4
             /\ Extract(word, <<20, 32>>) = -1
<1>17. Knows(known, word, IRanges) <=> matches
  BY <1>14, <1>15, <1>16 DEF Knows
<1> DEFINE rest == Rest(known, word, layout, IRanges)
<1>18. DOMAIN rest = {"rd", "rs1"}
  BY <1>14 DEF Rest
<1>19. /\ rest["rd"] = Extract(word, <<7, 12>>)
       /\ rest["rs1"] = Extract(word, <<15, 20>>)
  BY <1>14, <1>16 DEF Rest
<1>20. match_value(insn, word) =
         IF Knows(known, word, IRanges) THEN Reversed(<<>>, rest) ELSE NoMatch
  BY Zenon, <1>3, <1>4, <1>8, <1>11, <1>10, <1>7, MatchIs
<1> HIDE DEF rest
<1>21. rest # NoMatch
  BY <1>18, NotNoMatch
<1>22. found = IF matches THEN Reversed(<<>>, rest) ELSE NoMatch
  BY <1>2, <1>17, <1>20
<1> HIDE DEF matches
<1>23. Reversed(<<>>, rest) = rest
  BY ReversedOf
<1>24. matches => found = rest
  BY <1>22, <1>23
<1>25. matches => found # NoMatch
  BY <1>24, <1>21
<1> QED BY <1>22, <1>24, <1>25, <1>18, <1>19 DEF matches

LEMMA NopMatch ==
  ASSUME NEW word, NEW found, found = match_value(Insns.NOP, word)
  PROVE  /\ found # NoMatch <=>
              /\ Extract(word, <<0, 7>>) = 19
              /\ Extract(word, <<7, 12>>) = 0
              /\ Extract(word, <<12, 15>>) = 0
              /\ Extract(word, <<15, 20>>) = 0
              /\ Extract(word, <<20, 32>>) = 0
         /\ found # NoMatch =>
              /\ DOMAIN found = {}
<1> DEFINE kwargs == [funct3 |-> 0, rd |-> Reg("zero"), rs1 |-> Reg("zero"), imm |-> 0]
           defaults == [opcode |-> 19]
           layout == {"opcode", "rd", "funct3", "rs1", "imm"}
<1>1. PICK insn : insn = Insn(I, kwargs, <<>>, <<>>)
  OBVIOUS
<1>2. insn = Insns.NOP
  BY <1>1, NopForm
<1>3. insn.cls = I /\ insn.kwargs = kwargs /\ insn.xfrms = <<>>
  BY <1>1, InsnParts
<1>4. ToSet(I.layout) = layout /\ I.ranges = IRanges /\ I.defaults = defaults
  BY Formats, IIs
<1>5. DOMAIN defaults = {"opcode"} /\ DOMAIN kwargs = {"funct3", "rd", "rs1", "imm"}
  OBVIOUS
<1>6. /\ defaults["opcode"] = 19
      /\ kwargs["funct3"] = 0
      /\ kwargs["rd"] = 0
      /\ kwargs["rs1"] = 0
      /\ kwargs["imm"] = 0
  BY RegValues
<1> HIDE DEF kwargs, defaults
<1> DEFINE none == <<>>
<1>7. DOMAIN none = {} /\ none = <<>>
  OBVIOUS
<1> HIDE DEF none
<1>8. PICK all : IsPlus(all, kwargs, none)
  BY PlusIs
<1>9. /\ DOMAIN all = DOMAIN kwargs \cup DOMAIN none
      /\ \A e \in DOMAIN none : all[e] = none[e]
      /\ \A e \in DOMAIN kwargs : e \notin DOMAIN none => all[e] = kwargs[e]
  BY <1>8 DEF IsPlus
<1>10. all = Applied(<<>>, all)
  BY AppliedOf
<1>11. PICK known : IsPlus(known, defaults, all)
  BY PlusIs
<1>12. /\ DOMAIN known = DOMAIN defaults \cup DOMAIN all
       /\ \A e \in DOMAIN all : known[e] = all[e]
       /\ \A e \in DOMAIN defaults : e \notin DOMAIN all => known[e] = defaults[e]
  BY <1>11 DEF IsPlus
<1>13. /\ "funct3" \in DOMAIN all /\ all["funct3"] = 0
       /\ "rd" \in DOMAIN all /\ all["rd"] = 0
       /\ "rs1" \in DOMAIN all /\ all["rs1"] = 0
       /\ "imm" \in DOMAIN all /\ all["imm"] = 0
  BY <1>5, <1>6, <1>9, <1>7
<1>14. DOMAIN known = {"opcode", "rd", "funct3", "rs1", "imm"}
  BY <1>7, <1>5, <1>6, <1>13, <1>12, <1>9
<1>15. /\ known["opcode"] = 19
       /\ known["rd"] = 0
       /\ known["funct3"] = 0
       /\ known["rs1"] = 0
       /\ known["imm"] = 0
  BY <1>7, <1>5, <1>6, <1>13, <1>12, <1>9
<1>16. /\ IRanges["opcode"] = <<0, 7>>
       /\ IRanges["rd"] = <<7, 12>>
       /\ IRanges["funct3"] = <<12, 15>>
       /\ IRanges["rs1"] = <<15, 20>>
       /\ IRanges["imm"] = <<20, 32>>
  BY DEF IRanges
<1> DEFINE matches ==
             /\ Extract(word, <<0, 7>>) = 19
             /\ Extract(word, <<7, 12>>) = 0
             /\ Extract(word, <<12, 15>>) = 0
             /\ Extract(word, <<15, 20>>) = 0
             /\ Extract(word, <<20, 32>>) = 0
<1>17. Knows(known, word, IRanges) <=> matches
  BY <1>14, <1>15, <1>16 DEF Knows
<1> DEFINE rest == Rest(known, word, layout, IRanges)
<1>18. DOMAIN rest = {}
  BY <1>14 DEF Rest
<1>19. TRUE
  BY <1>14, <1>16 DEF Rest
<1>20. match_value(insn, word) =
         IF Knows(known, word, IRanges) THEN Reversed(<<>>, rest) ELSE NoMatch
  BY Zenon, <1>3, <1>4, <1>8, <1>11, <1>10, <1>7, MatchIs
<1> HIDE DEF rest
<1>21. rest # NoMatch
  BY <1>18, NotNoMatch
<1>22. found = IF matches THEN Reversed(<<>>, rest) ELSE NoMatch
  BY <1>2, <1>17, <1>20
<1> HIDE DEF matches
<1>23. Reversed(<<>>, rest) = rest
  BY ReversedOf
<1>24. matches => found = rest
  BY <1>22, <1>23
<1>25. matches => found # NoMatch
  BY <1>24, <1>21
<1> QED BY <1>22, <1>24, <1>25, <1>18, <1>19 DEF matches

LEMMA JMatch ==
  ASSUME NEW word, NEW found, found = match_value(Insns.J_, word)
  PROVE  /\ found # NoMatch <=>
              /\ Extract(word, <<0, 7>>) = 111
              /\ Extract(word, <<7, 12>>) = 0
         /\ found # NoMatch =>
              /\ DOMAIN found = {"imm"}
              /\ found["imm"] = Extract(word, <<12, 20>>) * 4096 +
                   Extract(word, <<20, 21>>) * 2048 + Extract(word, <<21, 31>>) * 2 +
                   Extract(word, <<31, 32>>) * 1048576
<1> DEFINE kwargs == [rd |-> Reg("zero")]
           defaults == [opcode |-> 111]
           layout == {"opcode", "rd", "imm19_12", "imm11", "imm10_1", "imm20"}
<1>1. PICK insn : insn = Insn(J, kwargs, <<ImmXfrm(J)>>, <<"imm">>)
  OBVIOUS
<1>2. insn = Insns.J_
  BY <1>1, JForm
<1>3. insn.cls = J /\ insn.kwargs = kwargs /\ insn.xfrms = <<ImmXfrm(J)>>
  BY <1>1, InsnParts
<1>4. ToSet(J.layout) = layout /\ J.ranges = JRanges /\ J.defaults = defaults
  BY Formats, JIs
<1>5. DOMAIN defaults = {"opcode"} /\ DOMAIN kwargs = {"rd"}
  OBVIOUS
<1>6. /\ defaults["opcode"] = 111
      /\ kwargs["rd"] = 0
  BY RegValues
<1> HIDE DEF kwargs, defaults
<1> DEFINE none == <<>>
<1>7. DOMAIN none = {} /\ none = <<>>
  OBVIOUS
<1> HIDE DEF none
<1>8. PICK all : IsPlus(all, kwargs, none)
  BY PlusIs
<1>9. /\ DOMAIN all = DOMAIN kwargs \cup DOMAIN none
      /\ \A e \in DOMAIN none : all[e] = none[e]
      /\ \A e \in DOMAIN kwargs : e \notin DOMAIN none => all[e] = kwargs[e]
  BY <1>8 DEF IsPlus
<1>10. ~({"imm"} \subseteq DOMAIN all)
  BY <1>5, <1>9, <1>7
<1>11. Forward(ImmXfrm(J), all) = all
  BY <1>10, XfrmInputs, ForwardNot
<1>12. all = Applied(<<ImmXfrm(J)>>, all)
  BY <1>11, AppliedOf
<1>13. PICK known : IsPlus(known, defaults, all)
  BY PlusIs
<1>14. /\ DOMAIN known = DOMAIN defaults \cup DOMAIN all
       /\ \A e \in DOMAIN all : known[e] = all[e]
       /\ \A e \in DOMAIN defaults : e \notin DOMAIN all => known[e] = defaults[e]
  BY <1>13 DEF IsPlus
<1>15. /\ "rd" \in DOMAIN all /\ all["rd"] = 0
  BY <1>5, <1>6, <1>9, <1>7
<1>16. DOMAIN known = {"opcode", "rd"}
  BY <1>7, <1>5, <1>6, <1>15, <1>14, <1>9
<1>17. /\ known["opcode"] = 111
       /\ known["rd"] = 0
  BY <1>7, <1>5, <1>6, <1>15, <1>14, <1>9
<1>18. /\ JRanges["opcode"] = <<0, 7>>
       /\ JRanges["rd"] = <<7, 12>>
       /\ JRanges["imm19_12"] = <<12, 20>>
       /\ JRanges["imm11"] = <<20, 21>>
       /\ JRanges["imm10_1"] = <<21, 31>>
       /\ JRanges["imm20"] = <<31, 32>>
  BY DEF JRanges
<1> DEFINE matches ==
             /\ Extract(word, <<0, 7>>) = 111
             /\ Extract(word, <<7, 12>>) = 0
<1>19. Knows(known, word, JRanges) <=> matches
  BY <1>16, <1>17, <1>18 DEF Knows
<1> DEFINE rest == Rest(known, word, layout, JRanges)
<1>20. DOMAIN rest = {"imm19_12", "imm11", "imm10_1", "imm20"}
  BY <1>16 DEF Rest
<1>21. /\ rest["imm19_12"] = Extract(word, <<12, 20>>)
       /\ rest["imm11"] = Extract(word, <<20, 21>>)
       /\ rest["imm10_1"] = Extract(word, <<21, 31>>)
       /\ rest["imm20"] = Extract(word, <<31, 32>>)
  BY <1>16, <1>18 DEF Rest
<1>22. match_value(insn, word) =
         IF Knows(known, word, JRanges) THEN Reversed(<<ImmXfrm(J)>>, rest) ELSE NoMatch
  BY Zenon, <1>3, <1>4, <1>8, <1>13, <1>12, <1>7, MatchIs
<1> HIDE DEF rest
<1>23. rest # NoMatch
  BY <1>20, NotNoMatch
<1>24. found = IF matches THEN Reversed(<<ImmXfrm(J)>>, rest) ELSE NoMatch
  BY <1>2, <1>19, <1>22
<1> HIDE DEF matches
<1>25. Reversed(<<ImmXfrm(J)>>, rest) = Backward(ImmXfrm(J), rest)
  BY ReversedOf
<1>26. {"imm19_12", "imm11", "imm10_1", "imm20"} \subseteq DOMAIN rest /\
         ToSet(ImmXfrm(J).layout) = {"imm19_12", "imm11", "imm10_1", "imm20"}
  BY <1>20, XfrmParts
<1>27. PICK left : IsDrop(left, rest, {"imm19_12", "imm11", "imm10_1", "imm20"})
  BY DropIs
<1>28. /\ DOMAIN left = DOMAIN rest \ {"imm19_12", "imm11", "imm10_1", "imm20"}
       /\ \A e \in DOMAIN rest : e \notin {"imm19_12", "imm11", "imm10_1", "imm20"} =>
            left[e] = rest[e]
  BY <1>27 DEF IsDrop
<1>29. /\ Extract(word, <<12, 20>>) \in Nat
       /\ Extract(word, <<20, 21>>) \in Nat
       /\ Extract(word, <<21, 31>>) \in Nat
       /\ Extract(word, <<31, 32>>) \in Nat
  BY SMT, FieldRange
<1>30. rest["imm19_12"] \in Int /\ rest["imm11"] \in Int /\ rest["imm10_1"] \in Int /\
         rest["imm20"] \in Int
  BY <1>21, <1>29
<1> DEFINE back == [imm |-> rest["imm19_12"] * 4096 + rest["imm11"] * 2048 +
      rest["imm10_1"] * 2 + rest["imm20"] * 1048576]
<1>31. layout_to_inputs(ImmXfrm(J), rest) = back
  BY <1>30, ImmJBack
<1>32. /\ DOMAIN back = {"imm"}
       /\ back["imm"] = rest["imm19_12"] * 4096 + rest["imm11"] * 2048 + rest["imm10_1"] * 2 +
            rest["imm20"] * 1048576
  OBVIOUS
<1> HIDE DEF back
<1>33. back # NoMatch
  BY <1>32, NotNoMatch
<1>34. IsPlus(Backward(ImmXfrm(J), rest), left, back)
  BY Zenon, <1>23, <1>26, <1>27, <1>31, <1>33, BackwardIs
<1>35. matches => IsPlus(found, left, back)
  BY <1>24, <1>25, <1>34
<1>36. matches =>
         /\ DOMAIN found = {"imm"}
         /\ found["imm"] = rest["imm19_12"] * 4096 + rest["imm11"] * 2048 +
              rest["imm10_1"] * 2 + rest["imm20"] * 1048576
  BY <1>20, <1>28, <1>32, <1>35 DEF IsPlus
<1>37. matches => found # NoMatch
  BY <1>36, NotNoMatch
<1> QED BY <1>24, <1>21, <1>36, <1>37 DEF matches
-----------------------------------------------------------------------------
(* The arguments that an instruction matches make the word again. *)

\* The pieces of an immediate, out of it and together again.
LEMMA SplitS ==
  ASSUME NEW word, NEW imm,
         imm = Extract(word, <<7, 12>>) * 1 + Extract(word, <<25, 32>>) * 32
  PROVE  /\ imm \in Int
         /\ (((imm \div 1) % 32) % 32) = Extract(word, <<7, 12>>)
         /\ (((imm \div 32) % 128) % 128) = Extract(word, <<25, 32>>)
<1>1. /\ Extract(word, <<7, 12>>) \in Nat /\ Extract(word, <<7, 12>>) < 32
      /\ Extract(word, <<25, 32>>) \in Nat /\ Extract(word, <<25, 32>>) < 128
  BY SMT, FieldRange
<1>2. PICK lo, hi :
        /\ lo = Extract(word, <<7, 12>>)
        /\ hi = Extract(word, <<25, 32>>)
  OBVIOUS
<1>3. lo \in Nat /\ lo < 32 /\ hi \in Nat /\ hi < 128
  BY SMT, <1>1, <1>2
<1>4. imm = lo * 1 + hi * 32
  BY SMT, <1>2
<1>5. imm \in Int
  BY SMT, <1>3, <1>4
<1>6. ((imm \div 1) % 32) = lo
  BY SMT, <1>3, <1>4
<1>7. (((imm \div 1) % 32) % 32) = lo
  BY SMT, <1>3, <1>6
<1>8. ((imm \div 32) % 128) = hi
  BY SMT, <1>3, <1>4
<1>9. (((imm \div 32) % 128) % 128) = hi
  BY SMT, <1>3, <1>8
<1> QED BY SMT, <1>2, <1>5, <1>7, <1>9

LEMMA SplitB ==
  ASSUME NEW word, NEW imm,
         imm = Extract(word, <<7, 8>>) * 2048 + Extract(word, <<8, 12>>) * 2 +
           Extract(word, <<25, 31>>) * 32 + Extract(word, <<31, 32>>) * 4096
  PROVE  /\ imm \in Int
         /\ (((imm \div 2048) % 2) % 2) = Extract(word, <<7, 8>>)
         /\ (((imm \div 2) % 16) % 16) = Extract(word, <<8, 12>>)
         /\ (((imm \div 32) % 64) % 64) = Extract(word, <<25, 31>>)
         /\ (((imm \div 4096) % 2) % 2) = Extract(word, <<31, 32>>)
<1>1. /\ Extract(word, <<7, 8>>) \in Nat /\ Extract(word, <<7, 8>>) < 2
      /\ Extract(word, <<8, 12>>) \in Nat /\ Extract(word, <<8, 12>>) < 16
      /\ Extract(word, <<25, 31>>) \in Nat /\ Extract(word, <<25, 31>>) < 64
      /\ Extract(word, <<31, 32>>) \in Nat /\ Extract(word, <<31, 32>>) < 2
  BY SMT, FieldRange
<1>2. PICK b11, b4_1, b10_5, b12 :
        /\ b11 = Extract(word, <<7, 8>>)
        /\ b4_1 = Extract(word, <<8, 12>>)
        /\ b10_5 = Extract(word, <<25, 31>>)
        /\ b12 = Extract(word, <<31, 32>>)
  OBVIOUS
<1>3. b11 \in Nat /\ b11 < 2 /\ b4_1 \in Nat /\ b4_1 < 16 /\ b10_5 \in Nat /\ b10_5 < 64 /\
        b12 \in Nat /\ b12 < 2
  BY SMT, <1>1, <1>2
<1>4. imm = b11 * 2048 + b4_1 * 2 + b10_5 * 32 + b12 * 4096
  BY SMT, <1>2
<1>5. imm \in Int
  BY SMT, <1>3, <1>4
<1>6. ((imm \div 2048) % 2) = b11
  BY SMT, <1>3, <1>4
<1>7. (((imm \div 2048) % 2) % 2) = b11
  BY SMT, <1>3, <1>6
<1>8. ((imm \div 2) % 16) = b4_1
  BY SMT, <1>3, <1>4
<1>9. (((imm \div 2) % 16) % 16) = b4_1
  BY SMT, <1>3, <1>8
<1>10. ((imm \div 32) % 64) = b10_5
  BY SMT, <1>3, <1>4
<1>11. (((imm \div 32) % 64) % 64) = b10_5
  BY SMT, <1>3, <1>10
<1>12. ((imm \div 4096) % 2) = b12
  BY SMT, <1>3, <1>4
<1>13. (((imm \div 4096) % 2) % 2) = b12
  BY SMT, <1>3, <1>12
<1> QED BY SMT, <1>2, <1>5, <1>7, <1>9, <1>11, <1>13

LEMMA SplitJ ==
  ASSUME NEW word, NEW imm,
         imm = Extract(word, <<12, 20>>) * 4096 + Extract(word, <<20, 21>>) * 2048 +
           Extract(word, <<21, 31>>) * 2 + Extract(word, <<31, 32>>) * 1048576
  PROVE  /\ imm \in Int
         /\ (((imm \div 4096) % 256) % 256) = Extract(word, <<12, 20>>)
         /\ (((imm \div 2048) % 2) % 2) = Extract(word, <<20, 21>>)
         /\ (((imm \div 2) % 1024) % 1024) = Extract(word, <<21, 31>>)
         /\ (((imm \div 1048576) % 2) % 2) = Extract(word, <<31, 32>>)
<1>1. /\ Extract(word, <<12, 20>>) \in Nat /\ Extract(word, <<12, 20>>) < 256
      /\ Extract(word, <<20, 21>>) \in Nat /\ Extract(word, <<20, 21>>) < 2
      /\ Extract(word, <<21, 31>>) \in Nat /\ Extract(word, <<21, 31>>) < 1024
      /\ Extract(word, <<31, 32>>) \in Nat /\ Extract(word, <<31, 32>>) < 2
  BY SMT, FieldRange
<1>2. PICK j19_12, j11, j10_1, j20 :
        /\ j19_12 = Extract(word, <<12, 20>>)
        /\ j11 = Extract(word, <<20, 21>>)
        /\ j10_1 = Extract(word, <<21, 31>>)
        /\ j20 = Extract(word, <<31, 32>>)
  OBVIOUS
<1>3. j19_12 \in Nat /\ j19_12 < 256 /\ j11 \in Nat /\ j11 < 2 /\ j10_1 \in Nat /\
        j10_1 < 1024 /\ j20 \in Nat /\ j20 < 2
  BY SMT, <1>1, <1>2
<1>4. imm = j19_12 * 4096 + j11 * 2048 + j10_1 * 2 + j20 * 1048576
  BY SMT, <1>2
<1>5. imm \in Int
  BY SMT, <1>3, <1>4
<1>6. ((imm \div 4096) % 256) = j19_12
  BY SMT, <1>3, <1>4
<1>7. (((imm \div 4096) % 256) % 256) = j19_12
  BY SMT, <1>3, <1>6
<1>8. ((imm \div 2048) % 2) = j11
  BY SMT, <1>3, <1>4
<1>9. (((imm \div 2048) % 2) % 2) = j11
  BY SMT, <1>3, <1>8
<1>10. ((imm \div 2) % 1024) = j10_1
  BY SMT, <1>3, <1>4
<1>11. (((imm \div 2) % 1024) % 1024) = j10_1
  BY SMT, <1>3, <1>10
<1>12. ((imm \div 1048576) % 2) = j20
  BY SMT, <1>3, <1>4
<1>13. (((imm \div 1048576) % 2) % 2) = j20
  BY SMT, <1>3, <1>12
<1> QED BY SMT, <1>2, <1>5, <1>7, <1>9, <1>11, <1>13

\* A fence's letters are the bits of a number below 16.
LEMMA FenceNumber ==
  ASSUME NEW v \in Int, v >= 0, v < 16
  PROVE  fence_arg(arg_fence(v)) = v
<1> DEFINE letters == {i \in 0 .. 3 : FenceLetter[i + 1] \in arg_fence(v)}
<1>1. PICK a \in Nat, w \in 0 .. 20 : a = 0 /\ w = 4
  OBVIOUS
<1>2. \A i, j \in 0 .. 3 : FenceLetter[i + 1] = FenceLetter[j + 1] => i = j
  BY DEF FenceLetter
<1>3. \A k \in 0 .. 3 : k \in letters <=> Bit(v, k) = 1
  <2> SUFFICES ASSUME NEW k \in 0 .. 3 PROVE k \in letters <=> Bit(v, k) = 1
    OBVIOUS
  <2>1. k \in Place(v, <<0, 4>>) <=> Bit(v, k) = 1
    BY DEF Place
  <2>2. Place(v, <<0, 4>>) \subseteq 0 .. 3
    BY DEF Place
  <2>3. FenceLetter[k + 1] \in arg_fence(v) <=> k \in Place(v, <<0, 4>>)
    BY <1>2, <2>2 DEF arg_fence
  <2> QED BY <2>1, <2>3
<1> HIDE DEF letters
<1>4. \A k \in 0 .. w - 1 : a + k \in letters <=> Bit(v, k) = 1
  BY <1>1, <1>3
<1>5. Extract(letters, <<a, a + w>>) = v % Power(w)
  BY <1>4, ExtractPlaced
<1>6. Power(4) = 16 /\ <<a, a + w>> = <<0, 4>>
  BY <1>1, Powers DEF Power
<1>7. Extract(letters, <<0, 4>>) = v
  BY <1>1, <1>5, <1>6
<1> QED BY <1>7 DEF fence_arg, letters

\* No letters are no bits.
LEMMA NoLetters == fence_arg({}) = 0
<1> DEFINE none == {i \in 0 .. 3 : FenceLetter[i + 1] \in {}}
<1>1. PICK a \in Nat, w \in 0 .. 20, v \in Int : a = 0 /\ w = 4 /\ v = 0
  OBVIOUS
<1>2. none = {}
  OBVIOUS
<1> HIDE DEF none
<1>3. \A k \in 0 .. 3 : Bit(0, k) = 0
  <2>1. Bit(0, 0) = 0 /\ Bit(0, 1) = 0 /\ Bit(0, 2) = 0 /\ Bit(0, 3) = 0
    BY Powers DEF Bit
  <2> QED BY <2>1
<1>4. \A k \in 0 .. w - 1 : a + k \in none <=> Bit(v, k) = 1
  BY <1>1, <1>2, <1>3
<1>5. Extract(none, <<a, a + w>>) = v % Power(w)
  BY <1>4, ExtractPlaced
<1>6. Power(4) = 16 /\ <<a, a + w>> = <<0, 4>>
  BY <1>1, Powers DEF Power
<1>7. Extract(none, <<0, 4>>) = 0
  BY <1>1, <1>5, <1>6
<1> QED BY <1>7 DEF fence_arg, none

\* XInverts, for each family X: the arguments that it matches a word with make that word.
LEMMA OpInverts ==
  ASSUME NEW funct3, NEW word \in SUBSET (0 .. 31), NEW found,
         found = match_value(Op(funct3, 0), word), found # NoMatch
  PROVE  value(Op(funct3, 0), found) = word
<1>1. /\ Extract(word, <<0, 7>>) = 51
      /\ Extract(word, <<12, 15>>) = funct3
      /\ Extract(word, <<25, 32>>) = 0
      /\ DOMAIN found = {"rd", "rs1", "rs2"}
      /\ found["rd"] = Extract(word, <<7, 12>>)
      /\ found["rs1"] = Extract(word, <<15, 20>>)
      /\ found["rs2"] = Extract(word, <<20, 25>>)
  BY OpMatch
<1>2. /\ Extract(word, <<0, 7>>) \in Nat /\ Extract(word, <<0, 7>>) < 128
      /\ Extract(word, <<7, 12>>) \in Nat /\ Extract(word, <<7, 12>>) < 32
      /\ Extract(word, <<12, 15>>) \in Nat /\ Extract(word, <<12, 15>>) < 8
      /\ Extract(word, <<15, 20>>) \in Nat /\ Extract(word, <<15, 20>>) < 32
      /\ Extract(word, <<20, 25>>) \in Nat /\ Extract(word, <<20, 25>>) < 32
      /\ Extract(word, <<25, 32>>) \in Nat /\ Extract(word, <<25, 32>>) < 128
  BY SMT, FieldRange
<1>3. value(Op(funct3, 0), found) =
        RWord(51, found["rd"], funct3, found["rs1"], found["rs2"], 0)
  BY <1>1, OpValue
<1>4. /\ (51 % 128) = Extract(word, <<0, 7>>)
      /\ (found["rd"] % 32) = Extract(word, <<7, 12>>)
      /\ (funct3 % 8) = Extract(word, <<12, 15>>)
      /\ (found["rs1"] % 32) = Extract(word, <<15, 20>>)
      /\ (found["rs2"] % 32) = Extract(word, <<20, 25>>)
      /\ (0 % 128) = Extract(word, <<25, 32>>)
  BY <1>1, <1>2
<1>5. /\ 51 \in Int
      /\ found["rd"] \in Int
      /\ funct3 \in Int
      /\ found["rs1"] \in Int
      /\ found["rs2"] \in Int
      /\ 0 \in Int
  BY SMT, <1>1, <1>2
<1>6. RWord(51, found["rd"], funct3, found["rs1"], found["rs2"], 0) = word
  BY <1>4, <1>5, ROfFields
<1> QED BY <1>3, <1>6

LEMMA OpNegateInverts ==
  ASSUME NEW funct3, NEW word \in SUBSET (0 .. 31), NEW found,
         found = match_value(Op(funct3, F7Negate), word), found # NoMatch
  PROVE  value(Op(funct3, F7Negate), found) = word
<1>1. /\ Extract(word, <<0, 7>>) = 51
      /\ Extract(word, <<12, 15>>) = funct3
      /\ Extract(word, <<25, 32>>) = 32
      /\ DOMAIN found = {"rd", "rs1", "rs2"}
      /\ found["rd"] = Extract(word, <<7, 12>>)
      /\ found["rs1"] = Extract(word, <<15, 20>>)
      /\ found["rs2"] = Extract(word, <<20, 25>>)
  BY OpNegateMatch
<1>2. /\ Extract(word, <<0, 7>>) \in Nat /\ Extract(word, <<0, 7>>) < 128
      /\ Extract(word, <<7, 12>>) \in Nat /\ Extract(word, <<7, 12>>) < 32
      /\ Extract(word, <<12, 15>>) \in Nat /\ Extract(word, <<12, 15>>) < 8
      /\ Extract(word, <<15, 20>>) \in Nat /\ Extract(word, <<15, 20>>) < 32
      /\ Extract(word, <<20, 25>>) \in Nat /\ Extract(word, <<20, 25>>) < 32
      /\ Extract(word, <<25, 32>>) \in Nat /\ Extract(word, <<25, 32>>) < 128
  BY SMT, FieldRange
<1>3. value(Op(funct3, F7Negate), found) =
        RWord(51, found["rd"], funct3, found["rs1"], found["rs2"], 32)
  BY <1>1, OpNegateValue
<1>4. /\ (51 % 128) = Extract(word, <<0, 7>>)
      /\ (found["rd"] % 32) = Extract(word, <<7, 12>>)
      /\ (funct3 % 8) = Extract(word, <<12, 15>>)
      /\ (found["rs1"] % 32) = Extract(word, <<15, 20>>)
      /\ (found["rs2"] % 32) = Extract(word, <<20, 25>>)
      /\ (32 % 128) = Extract(word, <<25, 32>>)
  BY <1>1, <1>2
<1>5. /\ 51 \in Int
      /\ found["rd"] \in Int
      /\ funct3 \in Int
      /\ found["rs1"] \in Int
      /\ found["rs2"] \in Int
      /\ 32 \in Int
  BY SMT, <1>1, <1>2
<1>6. RWord(51, found["rd"], funct3, found["rs1"], found["rs2"], 32) = word
  BY <1>4, <1>5, ROfFields
<1> QED BY <1>3, <1>6

LEMMA OpImmInverts ==
  ASSUME NEW funct3, NEW word \in SUBSET (0 .. 31), NEW found,
         found = match_value(OpImm(funct3), word), found # NoMatch
  PROVE  value(OpImm(funct3), found) = word
<1>1. /\ Extract(word, <<0, 7>>) = 19
      /\ Extract(word, <<12, 15>>) = funct3
      /\ DOMAIN found = {"rd", "rs1", "imm"}
      /\ found["rd"] = Extract(word, <<7, 12>>)
      /\ found["rs1"] = Extract(word, <<15, 20>>)
      /\ found["imm"] = Extract(word, <<20, 32>>)
  BY OpImmMatch
<1>2. /\ Extract(word, <<0, 7>>) \in Nat /\ Extract(word, <<0, 7>>) < 128
      /\ Extract(word, <<7, 12>>) \in Nat /\ Extract(word, <<7, 12>>) < 32
      /\ Extract(word, <<12, 15>>) \in Nat /\ Extract(word, <<12, 15>>) < 8
      /\ Extract(word, <<15, 20>>) \in Nat /\ Extract(word, <<15, 20>>) < 32
      /\ Extract(word, <<20, 32>>) \in Nat /\ Extract(word, <<20, 32>>) < 4096
  BY SMT, FieldRange
<1>3. value(OpImm(funct3), found) =
        IWord(19, found["rd"], funct3, found["rs1"], found["imm"])
  BY <1>1, OpImmValue
<1>4. /\ (19 % 128) = Extract(word, <<0, 7>>)
      /\ (found["rd"] % 32) = Extract(word, <<7, 12>>)
      /\ (funct3 % 8) = Extract(word, <<12, 15>>)
      /\ (found["rs1"] % 32) = Extract(word, <<15, 20>>)
      /\ (found["imm"] % 4096) = Extract(word, <<20, 32>>)
  BY <1>1, <1>2
<1>5. /\ 19 \in Int
      /\ found["rd"] \in Int
      /\ funct3 \in Int
      /\ found["rs1"] \in Int
      /\ found["imm"] \in Int
  BY SMT, <1>1, <1>2
<1>6. IWord(19, found["rd"], funct3, found["rs1"], found["imm"]) = word
  BY <1>4, <1>5, IOfFields
<1> QED BY <1>3, <1>6

LEMMA ShiftInverts ==
  ASSUME NEW funct3, NEW word \in SUBSET (0 .. 31), NEW found,
         found = match_value(Shift(funct3, 0), word), found # NoMatch,
         found["shamt"] \in 0 .. 31
  PROVE  value(Shift(funct3, 0), found) = word
<1>1. /\ Extract(word, <<0, 7>>) = 19
      /\ Extract(word, <<12, 15>>) = funct3
      /\ DOMAIN found = {"rd", "rs1", "shamt"}
      /\ found["rd"] = Extract(word, <<7, 12>>)
      /\ found["rs1"] = Extract(word, <<15, 20>>)
      /\ found["shamt"] = Extract(word, <<20, 32>>)
  BY ShiftMatch
<1>2. /\ Extract(word, <<0, 7>>) \in Nat /\ Extract(word, <<0, 7>>) < 128
      /\ Extract(word, <<7, 12>>) \in Nat /\ Extract(word, <<7, 12>>) < 32
      /\ Extract(word, <<12, 15>>) \in Nat /\ Extract(word, <<12, 15>>) < 8
      /\ Extract(word, <<15, 20>>) \in Nat /\ Extract(word, <<15, 20>>) < 32
      /\ Extract(word, <<20, 32>>) \in Nat /\ Extract(word, <<20, 32>>) < 4096
  BY SMT, FieldRange
<1>3. 0 * 32 = 0 /\ 256 * 0 = 0
  OBVIOUS
<1>4. value(Shift(funct3, 0), found) =
        IWord(19, found["rd"], funct3, found["rs1"], 0 * 32 + found["shamt"])
  BY <1>1, ShiftValue
<1>5. (0 * 32 + found["shamt"]) = found["shamt"]
  BY <1>1, <1>2
<1>6. value(Shift(funct3, 0), found) =
        IWord(19, found["rd"], funct3, found["rs1"], found["shamt"])
  BY <1>4, <1>5
<1>7. /\ (19 % 128) = Extract(word, <<0, 7>>)
      /\ (found["rd"] % 32) = Extract(word, <<7, 12>>)
      /\ (funct3 % 8) = Extract(word, <<12, 15>>)
      /\ (found["rs1"] % 32) = Extract(word, <<15, 20>>)
      /\ (found["shamt"] % 4096) = Extract(word, <<20, 32>>)
  BY <1>1, <1>2
<1>8. /\ 19 \in Int
      /\ found["rd"] \in Int
      /\ funct3 \in Int
      /\ found["rs1"] \in Int
      /\ found["shamt"] \in Int
  BY SMT, <1>1, <1>2
<1>9. IWord(19, found["rd"], funct3, found["rs1"], found["shamt"]) = word
  BY <1>7, <1>8, IOfFields
<1> QED BY <1>6, <1>9

LEMMA LoadInverts ==
  ASSUME NEW funct3, NEW word \in SUBSET (0 .. 31), NEW found,
         found = match_value(Load(funct3), word), found # NoMatch
  PROVE  value(Load(funct3), found) = word
<1>1. /\ Extract(word, <<0, 7>>) = 3
      /\ Extract(word, <<12, 15>>) = funct3
      /\ DOMAIN found = {"rd", "rs1off"}
      /\ found["rd"] = Extract(word, <<7, 12>>)
      /\ found["rs1off"] = <<Extract(word, <<20, 32>>), Extract(word, <<15, 20>>)>>
  BY LoadMatch
<1>2. /\ Extract(word, <<0, 7>>) \in Nat /\ Extract(word, <<0, 7>>) < 128
      /\ Extract(word, <<7, 12>>) \in Nat /\ Extract(word, <<7, 12>>) < 32
      /\ Extract(word, <<12, 15>>) \in Nat /\ Extract(word, <<12, 15>>) < 8
      /\ Extract(word, <<15, 20>>) \in Nat /\ Extract(word, <<15, 20>>) < 32
      /\ Extract(word, <<20, 32>>) \in Nat /\ Extract(word, <<20, 32>>) < 4096
  BY SMT, FieldRange
<1>3. value(Load(funct3), found) =
        IWord(3, found["rd"], funct3, found["rs1off"][2], found["rs1off"][1])
  BY <1>1, LoadValue
<1>4. /\ (3 % 128) = Extract(word, <<0, 7>>)
      /\ (found["rd"] % 32) = Extract(word, <<7, 12>>)
      /\ (funct3 % 8) = Extract(word, <<12, 15>>)
      /\ (found["rs1off"][2] % 32) = Extract(word, <<15, 20>>)
      /\ (found["rs1off"][1] % 4096) = Extract(word, <<20, 32>>)
  BY <1>1, <1>2
<1>5. /\ 3 \in Int
      /\ found["rd"] \in Int
      /\ funct3 \in Int
      /\ found["rs1off"][2] \in Int
      /\ found["rs1off"][1] \in Int
  BY SMT, <1>1, <1>2
<1>6. IWord(3, found["rd"], funct3, found["rs1off"][2], found["rs1off"][1]) = word
  BY <1>4, <1>5, IOfFields
<1> QED BY <1>3, <1>6

LEMMA FenceInverts ==
  ASSUME NEW word \in SUBSET (0 .. 31), NEW found,
         found = match_value(Fence(0), word), found # NoMatch,
         found["pred"] # {}, found["succ"] # {}
  PROVE  value(Fence(0), found) = word
<1>1. /\ Extract(word, <<0, 7>>) = 15
      /\ Extract(word, <<7, 12>>) = 0
      /\ Extract(word, <<12, 15>>) = 0
      /\ Extract(word, <<15, 20>>) = 0
      /\ (Extract(word, <<20, 32>>) \div 256) = 0
      /\ DOMAIN found = {"pred", "succ"}
      /\ found["pred"] = arg_fence((Extract(word, <<20, 32>>) \div 16) % 16)
      /\ found["succ"] = arg_fence(Extract(word, <<20, 32>>) % 16)
  BY FenceMatch
<1>2. /\ Extract(word, <<0, 7>>) \in Nat /\ Extract(word, <<0, 7>>) < 128
      /\ Extract(word, <<7, 12>>) \in Nat /\ Extract(word, <<7, 12>>) < 32
      /\ Extract(word, <<12, 15>>) \in Nat /\ Extract(word, <<12, 15>>) < 8
      /\ Extract(word, <<15, 20>>) \in Nat /\ Extract(word, <<15, 20>>) < 32
      /\ Extract(word, <<20, 32>>) \in Nat /\ Extract(word, <<20, 32>>) < 4096
  BY SMT, FieldRange
<1>3. fence_arg(found["succ"]) = Extract(word, <<20, 32>>) % 16 /\
      fence_arg(found["pred"]) = (Extract(word, <<20, 32>>) \div 16) % 16
  BY <1>1, <1>2, FenceNumber
<1>4. 0 * 32 = 0 /\ 256 * 0 = 0
  OBVIOUS
<1>5. value(Fence(0), found) =
        IWord(15, 0, 0, 0, fence_arg(found["succ"]) + 16 * fence_arg(found["pred"]) + 256 * 0)
  BY <1>1, FenceValue
<1>6. (fence_arg(found["succ"]) + 16 * fence_arg(found["pred"]) + 256 * 0) =
        fence_arg(found["succ"]) + 16 * fence_arg(found["pred"])
  BY <1>1, <1>2, <1>3
<1>7. value(Fence(0), found) =
        IWord(15, 0, 0, 0, fence_arg(found["succ"]) + 16 * fence_arg(found["pred"]))
  BY <1>5, <1>6
<1>8. /\ (15 % 128) = Extract(word, <<0, 7>>)
      /\ (0 % 32) = Extract(word, <<7, 12>>)
      /\ (0 % 8) = Extract(word, <<12, 15>>)
      /\ (0 % 32) = Extract(word, <<15, 20>>)
  BY <1>1, <1>2
<1>9. PICK i, s, p : i = Extract(word, <<20, 32>>) /\ s = fence_arg(found["succ"]) /\
      p = fence_arg(found["pred"])
  OBVIOUS
<1>10. i \in Nat /\ i \div 256 = 0 /\ i < 4096 /\ s = i % 16 /\ p = (i \div 16) % 16
  BY <1>9, <1>1, <1>2, <1>3
<1>11. i < 256
  BY <1>10
<1>12. (s + 16 * p) = i /\ ((s + 16 * p) % 4096) = i
  BY <1>10, <1>11
<1>13. ((fence_arg(found["succ"]) + 16 * fence_arg(found["pred"])) % 4096) =
         Extract(word, <<20, 32>>)
  BY <1>9, <1>12
<1>14. (fence_arg(found["succ"]) + 16 * fence_arg(found["pred"])) \in Int
  BY <1>9, <1>10
<1>15. /\ 15 \in Int
       /\ 0 \in Int
       /\ 0 \in Int
       /\ 0 \in Int
  BY SMT, <1>1, <1>2, <1>3
<1>16. IWord(15, 0, 0, 0, fence_arg(found["succ"]) + 16 * fence_arg(found["pred"])) = word
  BY <1>8, <1>13, <1>14, <1>15, IOfFields
<1> QED BY <1>7, <1>16

LEMMA SystemInverts ==
  ASSUME NEW funct, NEW word \in SUBSET (0 .. 31), NEW found,
         found = match_value(System(funct), word), found # NoMatch
  PROVE  value(System(funct), found) = word
<1>1. /\ Extract(word, <<0, 7>>) = 115
      /\ Extract(word, <<7, 12>>) = 0
      /\ Extract(word, <<12, 15>>) = funct % 8
      /\ Extract(word, <<15, 20>>) = 0
      /\ Extract(word, <<20, 32>>) = funct \div 8
      /\ DOMAIN found = {}
  BY SystemMatch
<1>2. /\ Extract(word, <<0, 7>>) \in Nat /\ Extract(word, <<0, 7>>) < 128
      /\ Extract(word, <<7, 12>>) \in Nat /\ Extract(word, <<7, 12>>) < 32
      /\ Extract(word, <<12, 15>>) \in Nat /\ Extract(word, <<12, 15>>) < 8
      /\ Extract(word, <<15, 20>>) \in Nat /\ Extract(word, <<15, 20>>) < 32
      /\ Extract(word, <<20, 32>>) \in Nat /\ Extract(word, <<20, 32>>) < 4096
  BY SMT, FieldRange
<1>3. value(System(funct), found) =
        IWord(115, 0, funct % 8, 0, funct \div 8)
  BY <1>1, SystemValue
<1>4. /\ (115 % 128) = Extract(word, <<0, 7>>)
      /\ (0 % 32) = Extract(word, <<7, 12>>)
      /\ ((funct % 8) % 8) = Extract(word, <<12, 15>>)
      /\ (0 % 32) = Extract(word, <<15, 20>>)
      /\ ((funct \div 8) % 4096) = Extract(word, <<20, 32>>)
  BY <1>1, <1>2
<1>5. /\ 115 \in Int
      /\ 0 \in Int
      /\ (funct % 8) \in Int
      /\ 0 \in Int
      /\ (funct \div 8) \in Int
  BY SMT, <1>1, <1>2
<1>6. IWord(115, 0, funct % 8, 0, funct \div 8) = word
  BY <1>4, <1>5, IOfFields
<1> QED BY <1>3, <1>6

LEMMA StoreInverts ==
  ASSUME NEW funct3, NEW word \in SUBSET (0 .. 31), NEW found,
         found = match_value(Store(funct3), word), found # NoMatch
  PROVE  value(Store(funct3), found) = word
<1>1. /\ Extract(word, <<0, 7>>) = 35
      /\ Extract(word, <<12, 15>>) = funct3
      /\ DOMAIN found = {"rs1", "rs2", "imm"}
      /\ found["rs1"] = Extract(word, <<15, 20>>)
      /\ found["rs2"] = Extract(word, <<20, 25>>)
  BY StoreMatch
<1>2. found["imm"] = Extract(word, <<7, 12>>) * 1 + Extract(word, <<25, 32>>) * 32
  BY StoreMatch
<1>3. /\ Extract(word, <<0, 7>>) \in Nat /\ Extract(word, <<0, 7>>) < 128
      /\ Extract(word, <<7, 12>>) \in Nat /\ Extract(word, <<7, 12>>) < 32
      /\ Extract(word, <<12, 15>>) \in Nat /\ Extract(word, <<12, 15>>) < 8
      /\ Extract(word, <<15, 20>>) \in Nat /\ Extract(word, <<15, 20>>) < 32
      /\ Extract(word, <<20, 25>>) \in Nat /\ Extract(word, <<20, 25>>) < 32
      /\ Extract(word, <<25, 32>>) \in Nat /\ Extract(word, <<25, 32>>) < 128
  BY SMT, FieldRange
<1>4. /\ found["imm"] \in Int
      /\ (((found["imm"] \div 1) % 32) % 32) = Extract(word, <<7, 12>>)
      /\ (((found["imm"] \div 32) % 128) % 128) = Extract(word, <<25, 32>>)
  BY <1>2, SplitS
<1>5. value(Store(funct3), found) =
        SWord(35, (found["imm"] \div 1) % 32, funct3, found["rs1"], found["rs2"],
        (found["imm"] \div 32) % 128)
  BY <1>1, StoreImmValue
<1>6. /\ (35 % 128) = Extract(word, <<0, 7>>)
      /\ (funct3 % 8) = Extract(word, <<12, 15>>)
      /\ (found["rs1"] % 32) = Extract(word, <<15, 20>>)
      /\ (found["rs2"] % 32) = Extract(word, <<20, 25>>)
  BY <1>1, <1>3
<1>7. /\ 35 \in Int
      /\ ((found["imm"] \div 1) % 32) \in Int
      /\ funct3 \in Int
      /\ found["rs1"] \in Int
      /\ found["rs2"] \in Int
      /\ ((found["imm"] \div 32) % 128) \in Int
  BY SMT, <1>1, <1>3, <1>4
<1>8. SWord(35, (found["imm"] \div 1) % 32, funct3, found["rs1"], found["rs2"],
        (found["imm"] \div 32) % 128) = word
  BY <1>6, <1>4, <1>7, SOfFields
<1> QED BY <1>5, <1>8

LEMMA BranchInverts ==
  ASSUME NEW funct3, NEW word \in SUBSET (0 .. 31), NEW found,
         found = match_value(Branch(funct3), word), found # NoMatch
  PROVE  value(Branch(funct3), found) = word
<1>1. /\ Extract(word, <<0, 7>>) = 99
      /\ Extract(word, <<12, 15>>) = funct3
      /\ DOMAIN found = {"rs1", "rs2", "imm"}
      /\ found["rs1"] = Extract(word, <<15, 20>>)
      /\ found["rs2"] = Extract(word, <<20, 25>>)
  BY BranchMatch
<1>2. found["imm"] = Extract(word, <<7, 8>>) * 2048 + Extract(word, <<8, 12>>) * 2 +
                     Extract(word, <<25, 31>>) * 32 + Extract(word, <<31, 32>>) * 4096
  BY BranchMatch
<1>3. /\ Extract(word, <<0, 7>>) \in Nat /\ Extract(word, <<0, 7>>) < 128
      /\ Extract(word, <<7, 8>>) \in Nat /\ Extract(word, <<7, 8>>) < 2
      /\ Extract(word, <<8, 12>>) \in Nat /\ Extract(word, <<8, 12>>) < 16
      /\ Extract(word, <<12, 15>>) \in Nat /\ Extract(word, <<12, 15>>) < 8
      /\ Extract(word, <<15, 20>>) \in Nat /\ Extract(word, <<15, 20>>) < 32
      /\ Extract(word, <<20, 25>>) \in Nat /\ Extract(word, <<20, 25>>) < 32
      /\ Extract(word, <<25, 31>>) \in Nat /\ Extract(word, <<25, 31>>) < 64
      /\ Extract(word, <<31, 32>>) \in Nat /\ Extract(word, <<31, 32>>) < 2
  BY SMT, FieldRange
<1>4. /\ found["imm"] \in Int
      /\ (((found["imm"] \div 2048) % 2) % 2) = Extract(word, <<7, 8>>)
      /\ (((found["imm"] \div 2) % 16) % 16) = Extract(word, <<8, 12>>)
      /\ (((found["imm"] \div 32) % 64) % 64) = Extract(word, <<25, 31>>)
      /\ (((found["imm"] \div 4096) % 2) % 2) = Extract(word, <<31, 32>>)
  BY <1>2, SplitB
<1>5. value(Branch(funct3), found) =
        BWord(99, (found["imm"] \div 2048) % 2, (found["imm"] \div 2) % 16, funct3, found["rs1"],
        found["rs2"], (found["imm"] \div 32) % 64, (found["imm"] \div 4096) % 2)
  BY <1>1, BranchValue
<1>6. /\ (99 % 128) = Extract(word, <<0, 7>>)
      /\ (funct3 % 8) = Extract(word, <<12, 15>>)
      /\ (found["rs1"] % 32) = Extract(word, <<15, 20>>)
      /\ (found["rs2"] % 32) = Extract(word, <<20, 25>>)
  BY <1>1, <1>3
<1>7. /\ 99 \in Int
      /\ ((found["imm"] \div 2048) % 2) \in Int
      /\ ((found["imm"] \div 2) % 16) \in Int
      /\ funct3 \in Int
      /\ found["rs1"] \in Int
      /\ found["rs2"] \in Int
      /\ ((found["imm"] \div 32) % 64) \in Int
      /\ ((found["imm"] \div 4096) % 2) \in Int
  BY SMT, <1>1, <1>3, <1>4
<1>8. BWord(99, (found["imm"] \div 2048) % 2, (found["imm"] \div 2) % 16, funct3, found["rs1"],
        found["rs2"], (found["imm"] \div 32) % 64, (found["imm"] \div 4096) % 2) = word
  BY <1>6, <1>4, <1>7, BOfFields
<1> QED BY <1>5, <1>8

LEMMA UpperInverts ==
  ASSUME NEW opcode, NEW word \in SUBSET (0 .. 31), NEW found,
         found = match_value(Upper(opcode), word), found # NoMatch
  PROVE  value(Upper(opcode), found) = word
<1>1. /\ Extract(word, <<0, 7>>) = opcode
      /\ DOMAIN found = {"rd", "imm"}
      /\ found["rd"] = Extract(word, <<7, 12>>)
      /\ found["imm"] = Extract(word, <<12, 32>>)
  BY UpperMatch
<1>2. /\ Extract(word, <<0, 7>>) \in Nat /\ Extract(word, <<0, 7>>) < 128
      /\ Extract(word, <<7, 12>>) \in Nat /\ Extract(word, <<7, 12>>) < 32
      /\ Extract(word, <<12, 32>>) \in Nat /\ Extract(word, <<12, 32>>) < 1048576
  BY SMT, FieldRange
<1>3. found["imm"] \in -(2^20 - 1) .. 2^20 - 1
  BY SMT, <1>1, <1>2, Powers
<1>4. value(Upper(opcode), found) =
        UWord(opcode, found["rd"], found["imm"])
  BY <1>1, <1>3, UpperValue
<1>5. /\ (opcode % 128) = Extract(word, <<0, 7>>)
      /\ (found["rd"] % 32) = Extract(word, <<7, 12>>)
      /\ (found["imm"] % 1048576) = Extract(word, <<12, 32>>)
  BY <1>1, <1>2
<1>6. /\ opcode \in Int
      /\ found["rd"] \in Int
      /\ found["imm"] \in Int
  BY SMT, <1>1, <1>2
<1>7. UWord(opcode, found["rd"], found["imm"]) = word
  BY <1>5, <1>6, UOfFields
<1> QED BY <1>4, <1>7

LEMMA JalrInverts ==
  ASSUME NEW word \in SUBSET (0 .. 31), NEW found,
         found = match_value(Jalr, word), found # NoMatch
  PROVE  value(Jalr, found) = word
<1>1. /\ Extract(word, <<0, 7>>) = 103
      /\ Extract(word, <<12, 15>>) = 0
      /\ DOMAIN found = {"rd", "rs1", "imm"}
      /\ found["rd"] = Extract(word, <<7, 12>>)
      /\ found["rs1"] = Extract(word, <<15, 20>>)
      /\ found["imm"] = Extract(word, <<20, 32>>)
  BY JalrMatch
<1>2. /\ Extract(word, <<0, 7>>) \in Nat /\ Extract(word, <<0, 7>>) < 128
      /\ Extract(word, <<7, 12>>) \in Nat /\ Extract(word, <<7, 12>>) < 32
      /\ Extract(word, <<12, 15>>) \in Nat /\ Extract(word, <<12, 15>>) < 8
      /\ Extract(word, <<15, 20>>) \in Nat /\ Extract(word, <<15, 20>>) < 32
      /\ Extract(word, <<20, 32>>) \in Nat /\ Extract(word, <<20, 32>>) < 4096
  BY SMT, FieldRange
<1>3. value(Jalr, found) =
        IWord(103, found["rd"], 0, found["rs1"], found["imm"])
  BY <1>1, JalrValue
<1>4. /\ (103 % 128) = Extract(word, <<0, 7>>)
      /\ (found["rd"] % 32) = Extract(word, <<7, 12>>)
      /\ (0 % 8) = Extract(word, <<12, 15>>)
      /\ (found["rs1"] % 32) = Extract(word, <<15, 20>>)
      /\ (found["imm"] % 4096) = Extract(word, <<20, 32>>)
  BY <1>1, <1>2
<1>5. /\ 103 \in Int
      /\ found["rd"] \in Int
      /\ 0 \in Int
      /\ found["rs1"] \in Int
      /\ found["imm"] \in Int
  BY SMT, <1>1, <1>2
<1>6. IWord(103, found["rd"], 0, found["rs1"], found["imm"]) = word
  BY <1>4, <1>5, IOfFields
<1> QED BY <1>3, <1>6

LEMMA JalInverts ==
  ASSUME NEW word \in SUBSET (0 .. 31), NEW found,
         found = match_value(Jal, word), found # NoMatch
  PROVE  value(Jal, found) = word
<1>1. /\ Extract(word, <<0, 7>>) = 111
      /\ DOMAIN found = {"rd", "imm"}
      /\ found["rd"] = Extract(word, <<7, 12>>)
  BY JalMatch
<1>2. found["imm"] = Extract(word, <<12, 20>>) * 4096 + Extract(word, <<20, 21>>) * 2048 +
                     Extract(word, <<21, 31>>) * 2 + Extract(word, <<31, 32>>) * 1048576
  BY JalMatch
<1>3. /\ Extract(word, <<0, 7>>) \in Nat /\ Extract(word, <<0, 7>>) < 128
      /\ Extract(word, <<7, 12>>) \in Nat /\ Extract(word, <<7, 12>>) < 32
      /\ Extract(word, <<12, 20>>) \in Nat /\ Extract(word, <<12, 20>>) < 256
      /\ Extract(word, <<20, 21>>) \in Nat /\ Extract(word, <<20, 21>>) < 2
      /\ Extract(word, <<21, 31>>) \in Nat /\ Extract(word, <<21, 31>>) < 1024
      /\ Extract(word, <<31, 32>>) \in Nat /\ Extract(word, <<31, 32>>) < 2
  BY SMT, FieldRange
<1>4. /\ found["imm"] \in Int
      /\ (((found["imm"] \div 4096) % 256) % 256) = Extract(word, <<12, 20>>)
      /\ (((found["imm"] \div 2048) % 2) % 2) = Extract(word, <<20, 21>>)
      /\ (((found["imm"] \div 2) % 1024) % 1024) = Extract(word, <<21, 31>>)
      /\ (((found["imm"] \div 1048576) % 2) % 2) = Extract(word, <<31, 32>>)
  BY <1>2, SplitJ
<1>5. value(Jal, found) =
        JWord(111, found["rd"], (found["imm"] \div 4096) % 256, (found["imm"] \div 2048) % 2,
        (found["imm"] \div 2) % 1024, (found["imm"] \div 1048576) % 2)
  BY <1>1, JalValue
<1>6. /\ (111 % 128) = Extract(word, <<0, 7>>)
      /\ (found["rd"] % 32) = Extract(word, <<7, 12>>)
  BY <1>1, <1>3
<1>7. /\ 111 \in Int
      /\ found["rd"] \in Int
      /\ ((found["imm"] \div 4096) % 256) \in Int
      /\ ((found["imm"] \div 2048) % 2) \in Int
      /\ ((found["imm"] \div 2) % 1024) \in Int
      /\ ((found["imm"] \div 1048576) % 2) \in Int
  BY SMT, <1>1, <1>3, <1>4
<1>8. JWord(111, found["rd"], (found["imm"] \div 4096) % 256, (found["imm"] \div 2048) % 2,
        (found["imm"] \div 2) % 1024, (found["imm"] \div 1048576) % 2) = word
  BY SMT, <1>6, <1>4, <1>7, JOfFields
<1> QED BY <1>5, <1>8

LEMMA FenceTSOInverts ==
  ASSUME NEW word \in SUBSET (0 .. 31), NEW found,
         found = match_value(Insns.FENCE_TSO, word), found # NoMatch
  PROVE  value(Insns.FENCE_TSO, found) = word
<1>1. /\ Extract(word, <<0, 7>>) = 15
      /\ Extract(word, <<7, 12>>) = 0
      /\ Extract(word, <<12, 15>>) = 0
      /\ Extract(word, <<15, 20>>) = 0
      /\ Extract(word, <<20, 32>>) = 2099
      /\ DOMAIN found = {}
  BY FenceTSOMatch
<1>2. /\ Extract(word, <<0, 7>>) \in Nat /\ Extract(word, <<0, 7>>) < 128
      /\ Extract(word, <<7, 12>>) \in Nat /\ Extract(word, <<7, 12>>) < 32
      /\ Extract(word, <<12, 15>>) \in Nat /\ Extract(word, <<12, 15>>) < 8
      /\ Extract(word, <<15, 20>>) \in Nat /\ Extract(word, <<15, 20>>) < 32
      /\ Extract(word, <<20, 32>>) \in Nat /\ Extract(word, <<20, 32>>) < 4096
  BY SMT, FieldRange
<1>3. value(Insns.FENCE_TSO, found) =
        IWord(15, 0, 0, 0, 2099)
  BY <1>1, FenceTSOValue
<1>4. /\ (15 % 128) = Extract(word, <<0, 7>>)
      /\ (0 % 32) = Extract(word, <<7, 12>>)
      /\ (0 % 8) = Extract(word, <<12, 15>>)
      /\ (0 % 32) = Extract(word, <<15, 20>>)
      /\ (2099 % 4096) = Extract(word, <<20, 32>>)
  BY <1>1, <1>2
<1>5. /\ 15 \in Int
      /\ 0 \in Int
      /\ 0 \in Int
      /\ 0 \in Int
      /\ 2099 \in Int
  BY SMT, <1>1, <1>2
<1>6. IWord(15, 0, 0, 0, 2099) = word
  BY <1>4, <1>5, IOfFields
<1> QED BY <1>3, <1>6

LEMMA SnezInverts ==
  ASSUME NEW word \in SUBSET (0 .. 31), NEW found,
         found = match_value(Insns.SNEZ, word), found # NoMatch
  PROVE  value(Insns.SNEZ, found) = word
<1>1. /\ Extract(word, <<0, 7>>) = 51
      /\ Extract(word, <<12, 15>>) = 3
      /\ Extract(word, <<15, 20>>) = 0
      /\ Extract(word, <<25, 32>>) = 0
      /\ DOMAIN found = {"rd", "rs2"}
      /\ found["rd"] = Extract(word, <<7, 12>>)
      /\ found["rs2"] = Extract(word, <<20, 25>>)
  BY SnezMatch
<1>2. /\ Extract(word, <<0, 7>>) \in Nat /\ Extract(word, <<0, 7>>) < 128
      /\ Extract(word, <<7, 12>>) \in Nat /\ Extract(word, <<7, 12>>) < 32
      /\ Extract(word, <<12, 15>>) \in Nat /\ Extract(word, <<12, 15>>) < 8
      /\ Extract(word, <<15, 20>>) \in Nat /\ Extract(word, <<15, 20>>) < 32
      /\ Extract(word, <<20, 25>>) \in Nat /\ Extract(word, <<20, 25>>) < 32
      /\ Extract(word, <<25, 32>>) \in Nat /\ Extract(word, <<25, 32>>) < 128
  BY SMT, FieldRange
<1>3. value(Insns.SNEZ, found) =
        RWord(51, found["rd"], 3, 0, found["rs2"], 0)
  BY <1>1, SnezValue
<1>4. /\ (51 % 128) = Extract(word, <<0, 7>>)
      /\ (found["rd"] % 32) = Extract(word, <<7, 12>>)
      /\ (3 % 8) = Extract(word, <<12, 15>>)
      /\ (0 % 32) = Extract(word, <<15, 20>>)
      /\ (found["rs2"] % 32) = Extract(word, <<20, 25>>)
      /\ (0 % 128) = Extract(word, <<25, 32>>)
  BY <1>1, <1>2
<1>5. /\ 51 \in Int
      /\ found["rd"] \in Int
      /\ 3 \in Int
      /\ 0 \in Int
      /\ found["rs2"] \in Int
      /\ 0 \in Int
  BY SMT, <1>1, <1>2
<1>6. RWord(51, found["rd"], 3, 0, found["rs2"], 0) = word
  BY <1>4, <1>5, ROfFields
<1> QED BY <1>3, <1>6

LEMMA RetInverts ==
  ASSUME NEW word \in SUBSET (0 .. 31), NEW found,
         found = match_value(Insns.RET, word), found # NoMatch
  PROVE  value(Insns.RET, found) = word
<1>1. /\ Extract(word, <<0, 7>>) = 103
      /\ Extract(word, <<7, 12>>) = 0
      /\ Extract(word, <<12, 15>>) = 0
      /\ Extract(word, <<15, 20>>) = 1
      /\ Extract(word, <<20, 32>>) = 0
      /\ DOMAIN found = {}
  BY RetMatch
<1>2. /\ Extract(word, <<0, 7>>) \in Nat /\ Extract(word, <<0, 7>>) < 128
      /\ Extract(word, <<7, 12>>) \in Nat /\ Extract(word, <<7, 12>>) < 32
      /\ Extract(word, <<12, 15>>) \in Nat /\ Extract(word, <<12, 15>>) < 8
      /\ Extract(word, <<15, 20>>) \in Nat /\ Extract(word, <<15, 20>>) < 32
      /\ Extract(word, <<20, 32>>) \in Nat /\ Extract(word, <<20, 32>>) < 4096
  BY SMT, FieldRange
<1>3. value(Insns.RET, found) =
        IWord(103, 0, 0, 1, 0)
  BY <1>1, RetValue
<1>4. /\ (103 % 128) = Extract(word, <<0, 7>>)
      /\ (0 % 32) = Extract(word, <<7, 12>>)
      /\ (0 % 8) = Extract(word, <<12, 15>>)
      /\ (1 % 32) = Extract(word, <<15, 20>>)
      /\ (0 % 4096) = Extract(word, <<20, 32>>)
  BY <1>1, <1>2
<1>5. /\ 103 \in Int
      /\ 0 \in Int
      /\ 0 \in Int
      /\ 1 \in Int
      /\ 0 \in Int
  BY SMT, <1>1, <1>2
<1>6. IWord(103, 0, 0, 1, 0) = word
  BY <1>4, <1>5, IOfFields
<1> QED BY <1>3, <1>6

LEMMA MvInverts ==
  ASSUME NEW word \in SUBSET (0 .. 31), NEW found,
         found = match_value(Insns.MV, word), found # NoMatch
  PROVE  value(Insns.MV, found) = word
<1>1. /\ Extract(word, <<0, 7>>) = 19
      /\ Extract(word, <<12, 15>>) = 0
      /\ Extract(word, <<20, 32>>) = 0
      /\ DOMAIN found = {"rd", "rs1"}
      /\ found["rd"] = Extract(word, <<7, 12>>)
      /\ found["rs1"] = Extract(word, <<15, 20>>)
  BY MvMatch
<1>2. /\ Extract(word, <<0, 7>>) \in Nat /\ Extract(word, <<0, 7>>) < 128
      /\ Extract(word, <<7, 12>>) \in Nat /\ Extract(word, <<7, 12>>) < 32
      /\ Extract(word, <<12, 15>>) \in Nat /\ Extract(word, <<12, 15>>) < 8
      /\ Extract(word, <<15, 20>>) \in Nat /\ Extract(word, <<15, 20>>) < 32
      /\ Extract(word, <<20, 32>>) \in Nat /\ Extract(word, <<20, 32>>) < 4096
  BY SMT, FieldRange
<1>3. value(Insns.MV, found) =
        IWord(19, found["rd"], 0, found["rs1"], 0)
  BY <1>1, MvValue
<1>4. /\ (19 % 128) = Extract(word, <<0, 7>>)
      /\ (found["rd"] % 32) = Extract(word, <<7, 12>>)
      /\ (0 % 8) = Extract(word, <<12, 15>>)
      /\ (found["rs1"] % 32) = Extract(word, <<15, 20>>)
      /\ (0 % 4096) = Extract(word, <<20, 32>>)
  BY <1>1, <1>2
<1>5. /\ 19 \in Int
      /\ found["rd"] \in Int
      /\ 0 \in Int
      /\ found["rs1"] \in Int
      /\ 0 \in Int
  BY SMT, <1>1, <1>2
<1>6. IWord(19, found["rd"], 0, found["rs1"], 0) = word
  BY <1>4, <1>5, IOfFields
<1> QED BY <1>3, <1>6

LEMMA SeqzInverts ==
  ASSUME NEW word \in SUBSET (0 .. 31), NEW found,
         found = match_value(Insns.SEQZ, word), found # NoMatch
  PROVE  value(Insns.SEQZ, found) = word
<1>1. /\ Extract(word, <<0, 7>>) = 19
      /\ Extract(word, <<12, 15>>) = 3
      /\ Extract(word, <<20, 32>>) = 1
      /\ DOMAIN found = {"rd", "rs1"}
      /\ found["rd"] = Extract(word, <<7, 12>>)
      /\ found["rs1"] = Extract(word, <<15, 20>>)
  BY SeqzMatch
<1>2. /\ Extract(word, <<0, 7>>) \in Nat /\ Extract(word, <<0, 7>>) < 128
      /\ Extract(word, <<7, 12>>) \in Nat /\ Extract(word, <<7, 12>>) < 32
      /\ Extract(word, <<12, 15>>) \in Nat /\ Extract(word, <<12, 15>>) < 8
      /\ Extract(word, <<15, 20>>) \in Nat /\ Extract(word, <<15, 20>>) < 32
      /\ Extract(word, <<20, 32>>) \in Nat /\ Extract(word, <<20, 32>>) < 4096
  BY SMT, FieldRange
<1>3. value(Insns.SEQZ, found) =
        IWord(19, found["rd"], 3, found["rs1"], 1)
  BY <1>1, SeqzValue
<1>4. /\ (19 % 128) = Extract(word, <<0, 7>>)
      /\ (found["rd"] % 32) = Extract(word, <<7, 12>>)
      /\ (3 % 8) = Extract(word, <<12, 15>>)
      /\ (found["rs1"] % 32) = Extract(word, <<15, 20>>)
      /\ (1 % 4096) = Extract(word, <<20, 32>>)
  BY <1>1, <1>2
<1>5. /\ 19 \in Int
      /\ found["rd"] \in Int
      /\ 3 \in Int
      /\ found["rs1"] \in Int
      /\ 1 \in Int
  BY SMT, <1>1, <1>2
<1>6. IWord(19, found["rd"], 3, found["rs1"], 1) = word
  BY <1>4, <1>5, IOfFields
<1> QED BY <1>3, <1>6

\* NOT matches no word: it compares its -1 with a field, which is 4095.
LEMMA NotNever == ASSUME NEW word PROVE match_value(Insns.NOT, word) = NoMatch
<1>1. Extract(word, <<20, 32>>) \in Nat
  BY SMT, FieldRange
<1> QED BY <1>1, NotMatch

LEMMA NopInverts ==
  ASSUME NEW word \in SUBSET (0 .. 31), NEW found,
         found = match_value(Insns.NOP, word), found # NoMatch
  PROVE  value(Insns.NOP, found) = word
<1>1. /\ Extract(word, <<0, 7>>) = 19
      /\ Extract(word, <<7, 12>>) = 0
      /\ Extract(word, <<12, 15>>) = 0
      /\ Extract(word, <<15, 20>>) = 0
      /\ Extract(word, <<20, 32>>) = 0
      /\ DOMAIN found = {}
  BY NopMatch
<1>2. /\ Extract(word, <<0, 7>>) \in Nat /\ Extract(word, <<0, 7>>) < 128
      /\ Extract(word, <<7, 12>>) \in Nat /\ Extract(word, <<7, 12>>) < 32
      /\ Extract(word, <<12, 15>>) \in Nat /\ Extract(word, <<12, 15>>) < 8
      /\ Extract(word, <<15, 20>>) \in Nat /\ Extract(word, <<15, 20>>) < 32
      /\ Extract(word, <<20, 32>>) \in Nat /\ Extract(word, <<20, 32>>) < 4096
  BY SMT, FieldRange
<1>3. value(Insns.NOP, found) =
        IWord(19, 0, 0, 0, 0)
  BY <1>1, NopValue
<1>4. /\ (19 % 128) = Extract(word, <<0, 7>>)
      /\ (0 % 32) = Extract(word, <<7, 12>>)
      /\ (0 % 8) = Extract(word, <<12, 15>>)
      /\ (0 % 32) = Extract(word, <<15, 20>>)
      /\ (0 % 4096) = Extract(word, <<20, 32>>)
  BY <1>1, <1>2
<1>5. /\ 19 \in Int
      /\ 0 \in Int
      /\ 0 \in Int
      /\ 0 \in Int
      /\ 0 \in Int
  BY SMT, <1>1, <1>2
<1>6. IWord(19, 0, 0, 0, 0) = word
  BY <1>4, <1>5, IOfFields
<1> QED BY <1>3, <1>6

LEMMA JInverts ==
  ASSUME NEW word \in SUBSET (0 .. 31), NEW found,
         found = match_value(Insns.J_, word), found # NoMatch
  PROVE  value(Insns.J_, found) = word
<1>1. /\ Extract(word, <<0, 7>>) = 111
      /\ Extract(word, <<7, 12>>) = 0
      /\ DOMAIN found = {"imm"}
  BY JMatch
<1>2. found["imm"] = Extract(word, <<12, 20>>) * 4096 + Extract(word, <<20, 21>>) * 2048 +
                     Extract(word, <<21, 31>>) * 2 + Extract(word, <<31, 32>>) * 1048576
  BY JMatch
<1>3. /\ Extract(word, <<0, 7>>) \in Nat /\ Extract(word, <<0, 7>>) < 128
      /\ Extract(word, <<7, 12>>) \in Nat /\ Extract(word, <<7, 12>>) < 32
      /\ Extract(word, <<12, 20>>) \in Nat /\ Extract(word, <<12, 20>>) < 256
      /\ Extract(word, <<20, 21>>) \in Nat /\ Extract(word, <<20, 21>>) < 2
      /\ Extract(word, <<21, 31>>) \in Nat /\ Extract(word, <<21, 31>>) < 1024
      /\ Extract(word, <<31, 32>>) \in Nat /\ Extract(word, <<31, 32>>) < 2
  BY SMT, FieldRange
<1>4. /\ found["imm"] \in Int
      /\ (((found["imm"] \div 4096) % 256) % 256) = Extract(word, <<12, 20>>)
      /\ (((found["imm"] \div 2048) % 2) % 2) = Extract(word, <<20, 21>>)
      /\ (((found["imm"] \div 2) % 1024) % 1024) = Extract(word, <<21, 31>>)
      /\ (((found["imm"] \div 1048576) % 2) % 2) = Extract(word, <<31, 32>>)
  BY <1>2, SplitJ
<1>5. value(Insns.J_, found) =
        JWord(111, 0, (found["imm"] \div 4096) % 256, (found["imm"] \div 2048) % 2,
        (found["imm"] \div 2) % 1024, (found["imm"] \div 1048576) % 2)
  BY <1>1, JValue
<1>6. /\ (111 % 128) = Extract(word, <<0, 7>>)
      /\ (0 % 32) = Extract(word, <<7, 12>>)
  BY <1>1, <1>3
<1>7. /\ 111 \in Int
      /\ 0 \in Int
      /\ ((found["imm"] \div 4096) % 256) \in Int
      /\ ((found["imm"] \div 2048) % 2) \in Int
      /\ ((found["imm"] \div 2) % 1024) \in Int
      /\ ((found["imm"] \div 1048576) % 2) \in Int
  BY SMT, <1>1, <1>3, <1>4
<1>8. JWord(111, 0, (found["imm"] \div 4096) % 256, (found["imm"] \div 2048) % 2,
        (found["imm"] \div 2) % 1024, (found["imm"] \div 1048576) % 2) = word
  BY SMT, <1>6, <1>4, <1>7, JOfFields
<1> QED BY <1>5, <1>8
-----------------------------------------------------------------------------
(* The fields of the words of the instructions. *)

\* A register number fits into its field.
LEMMA Small == \A v \in 0 .. 31 : (v % 32) = v
BY SMT

\* The letters of a fence, as a number: none, or at least one of them.
LEMMA FenceBits ==
  ASSUME NEW a, a \subseteq ToSet(FenceLetter), a # {}
  PROVE  fence_arg(a) \in 1 .. 15
<1> DEFINE letters == {i \in 0 .. 3 : FenceLetter[i + 1] \in a}
<1>1. PICK b \in Nat, w \in 0 .. 20 : b = 0 /\ w = 4
  OBVIOUS
<1>2. PICK k \in 0 .. 3 : k \in letters
  <2>1. PICK letter : letter \in a
    OBVIOUS
  <2>2. PICK i \in 1 .. 4 : letter = FenceLetter[i]
    BY <2>1 DEF ToSet, FenceLetter
  <2>3. PICK k \in 0 .. 3 : k + 1 = i
    BY <2>2
  <2> QED BY <2>1, <2>2, <2>3
<1> HIDE DEF letters
<1>3. /\ Extract(letters, <<b, b + w>>) \in 0 .. Power(w) - 1
      /\ \A j \in 0 .. w - 1 : b + j \in letters <=> Bit(Extract(letters, <<b, b + w>>), j) = 1
  BY Zenon, ExtractRange
<1>4. Power(4) = 16 /\ <<b, b + w>> = <<0, 4>>
  BY <1>1, Powers DEF Power
<1>5. PICK v : v = Extract(letters, <<0, 4>>)
  OBVIOUS
<1>6. v \in 0 .. 15
  BY <1>1, <1>3, <1>4, <1>5
<1>7. Bit(v, k) = 1
  BY <1>1, <1>2, <1>3, <1>4, <1>5
<1>8. \A j \in 0 .. 3 : Bit(0, j) = 0
  <2>1. Bit(0, 0) = 0 /\ Bit(0, 1) = 0 /\ Bit(0, 2) = 0 /\ Bit(0, 3) = 0
    BY Powers DEF Bit
  <2> QED BY <2>1
<1>9. v # 0
  BY <1>7, <1>8
<1> QED BY <1>5, <1>6, <1>9 DEF fence_arg, letters

\* XLine, for each family X of instructions: every field of the word of a line.
LEMMA OpLine ==
  ASSUME NEW funct3 \in 0 .. 7, NEW given, NEW word, word = value(Op(funct3, 0), given),
         word # Refused, {"rd", "rs1", "rs2"} \subseteq DOMAIN given, given["rd"] \in 0 .. 31,
         given["rs1"] \in 0 .. 31, given["rs2"] \in 0 .. 31
  PROVE  /\ word \in SUBSET (0 .. 31)
         /\ Extract(word, <<0, 7>>) = 51
         /\ Extract(word, <<7, 12>>) = given["rd"]
         /\ Extract(word, <<12, 15>>) = funct3
         /\ Extract(word, <<15, 20>>) = given["rs1"]
         /\ Extract(word, <<20, 25>>) = given["rs2"]
         /\ Extract(word, <<25, 32>>) = 0
<1>1. /\ word = RWord(51, given["rd"], funct3, given["rs1"], given["rs2"], 0)
  BY OpMakes
<1>2. /\ (given["rd"]) \in Int
      /\ (funct3) \in Int
      /\ (given["rs1"]) \in Int
      /\ (given["rs2"]) \in Int
  BY SMT, <1>1
<1>3. /\ word \in SUBSET (0 .. 31)
      /\ Extract(word, <<0, 7>>) = (51 % 128)
      /\ Extract(word, <<7, 12>>) = ((given["rd"]) % 32)
      /\ Extract(word, <<12, 15>>) = ((funct3) % 8)
      /\ Extract(word, <<15, 20>>) = ((given["rs1"]) % 32)
      /\ Extract(word, <<20, 25>>) = ((given["rs2"]) % 32)
      /\ Extract(word, <<25, 32>>) = (0 % 128)
  BY SMT, <1>1, <1>2, RFields
<1>4. Extract(word, <<0, 7>>) = 51
  BY SMT, <1>3, <1>2
<1>5. Extract(word, <<7, 12>>) = given["rd"]
  BY SMT, <1>3, <1>2
<1>6. Extract(word, <<12, 15>>) = funct3
  BY SMT, <1>3, <1>2
<1>7. Extract(word, <<15, 20>>) = given["rs1"]
  BY SMT, <1>3, <1>2
<1>8. Extract(word, <<20, 25>>) = given["rs2"]
  BY SMT, <1>3, <1>2
<1>9. Extract(word, <<25, 32>>) = 0
  BY SMT, <1>3, <1>2
<1> QED BY SMT, <1>1, <1>3, <1>4, <1>5, <1>6, <1>7, <1>8, <1>9

LEMMA OpNegateLine ==
  ASSUME NEW funct3 \in 0 .. 7, NEW given, NEW word, word = value(Op(funct3, F7Negate), given),
         word # Refused, {"rd", "rs1", "rs2"} \subseteq DOMAIN given, given["rd"] \in 0 .. 31,
         given["rs1"] \in 0 .. 31, given["rs2"] \in 0 .. 31
  PROVE  /\ word \in SUBSET (0 .. 31)
         /\ Extract(word, <<0, 7>>) = 51
         /\ Extract(word, <<7, 12>>) = given["rd"]
         /\ Extract(word, <<12, 15>>) = funct3
         /\ Extract(word, <<15, 20>>) = given["rs1"]
         /\ Extract(word, <<20, 25>>) = given["rs2"]
         /\ Extract(word, <<25, 32>>) = 32
<1>1. /\ word = RWord(51, given["rd"], funct3, given["rs1"], given["rs2"], 32)
  BY OpNegateMakes
<1>2. /\ (given["rd"]) \in Int
      /\ (funct3) \in Int
      /\ (given["rs1"]) \in Int
      /\ (given["rs2"]) \in Int
  BY SMT, <1>1
<1>3. /\ word \in SUBSET (0 .. 31)
      /\ Extract(word, <<0, 7>>) = (51 % 128)
      /\ Extract(word, <<7, 12>>) = ((given["rd"]) % 32)
      /\ Extract(word, <<12, 15>>) = ((funct3) % 8)
      /\ Extract(word, <<15, 20>>) = ((given["rs1"]) % 32)
      /\ Extract(word, <<20, 25>>) = ((given["rs2"]) % 32)
      /\ Extract(word, <<25, 32>>) = (32 % 128)
  BY SMT, <1>1, <1>2, RFields
<1>4. Extract(word, <<0, 7>>) = 51
  BY SMT, <1>3, <1>2
<1>5. Extract(word, <<7, 12>>) = given["rd"]
  BY SMT, <1>3, <1>2
<1>6. Extract(word, <<12, 15>>) = funct3
  BY SMT, <1>3, <1>2
<1>7. Extract(word, <<15, 20>>) = given["rs1"]
  BY SMT, <1>3, <1>2
<1>8. Extract(word, <<20, 25>>) = given["rs2"]
  BY SMT, <1>3, <1>2
<1>9. Extract(word, <<25, 32>>) = 32
  BY SMT, <1>3, <1>2
<1> QED BY SMT, <1>1, <1>3, <1>4, <1>5, <1>6, <1>7, <1>8, <1>9

LEMMA OpImmLine ==
  ASSUME NEW funct3 \in 0 .. 7, NEW given, NEW word, word = value(OpImm(funct3), given),
         word # Refused, {"rd", "rs1", "imm"} \subseteq DOMAIN given, given["rd"] \in 0 .. 31,
         given["rs1"] \in 0 .. 31, given["imm"] \in Int
  PROVE  /\ word \in SUBSET (0 .. 31)
         /\ Extract(word, <<0, 7>>) = 19
         /\ Extract(word, <<7, 12>>) = given["rd"]
         /\ Extract(word, <<12, 15>>) = funct3
         /\ Extract(word, <<15, 20>>) = given["rs1"]
         /\ Extract(word, <<20, 32>>) = given["imm"] % 4096
<1>1. /\ word = IWord(19, given["rd"], funct3, given["rs1"], given["imm"])
  BY OpImmMakes
<1>2. /\ (given["rd"]) \in Int
      /\ (funct3) \in Int
      /\ (given["rs1"]) \in Int
      /\ (given["imm"]) \in Int
  BY SMT, <1>1
<1>3. /\ word \in SUBSET (0 .. 31)
      /\ Extract(word, <<0, 7>>) = (19 % 128)
      /\ Extract(word, <<7, 12>>) = ((given["rd"]) % 32)
      /\ Extract(word, <<12, 15>>) = ((funct3) % 8)
      /\ Extract(word, <<15, 20>>) = ((given["rs1"]) % 32)
      /\ Extract(word, <<20, 32>>) = ((given["imm"]) % 4096)
  BY SMT, <1>1, <1>2, IFields
<1>4. Extract(word, <<0, 7>>) = 19
  BY SMT, <1>3, <1>2
<1>5. Extract(word, <<7, 12>>) = given["rd"]
  BY SMT, <1>3, <1>2
<1>6. Extract(word, <<12, 15>>) = funct3
  BY SMT, <1>3, <1>2
<1>7. Extract(word, <<15, 20>>) = given["rs1"]
  BY SMT, <1>3, <1>2
<1>8. Extract(word, <<20, 32>>) = given["imm"] % 4096
  BY SMT, <1>3, <1>2
<1> QED BY SMT, <1>1, <1>3, <1>4, <1>5, <1>6, <1>7, <1>8

LEMMA ShiftLine ==
  ASSUME NEW funct3 \in 0 .. 7, NEW p, p \in {0, F7Negate}, NEW given, NEW word,
         word = value(Shift(funct3, p), given), word # Refused,
         {"rd", "rs1", "shamt"} \subseteq DOMAIN given, given["rd"] \in 0 .. 31,
         given["rs1"] \in 0 .. 31, given["shamt"] \in Int
  PROVE  /\ word \in SUBSET (0 .. 31)
         /\ Extract(word, <<0, 7>>) = 19
         /\ Extract(word, <<7, 12>>) = given["rd"]
         /\ Extract(word, <<12, 15>>) = funct3
         /\ Extract(word, <<15, 20>>) = given["rs1"]
         /\ Extract(word, <<20, 32>>) = p * 32 + given["shamt"]
         /\ given["shamt"] \in 0 .. 31
<1>1. /\ given["shamt"] \in 0 .. 31
      /\ word = IWord(19, given["rd"], funct3, given["rs1"], p * 32 + given["shamt"])
  BY ShiftMakes
<1>2. /\ (given["rd"]) \in Int
      /\ (funct3) \in Int
      /\ (given["rs1"]) \in Int
      /\ (p * 32 + given["shamt"]) \in Int
  BY SMT, <1>1 DEF F7Negate
<1>3. /\ word \in SUBSET (0 .. 31)
      /\ Extract(word, <<0, 7>>) = (19 % 128)
      /\ Extract(word, <<7, 12>>) = ((given["rd"]) % 32)
      /\ Extract(word, <<12, 15>>) = ((funct3) % 8)
      /\ Extract(word, <<15, 20>>) = ((given["rs1"]) % 32)
      /\ Extract(word, <<20, 32>>) = ((p * 32 + given["shamt"]) % 4096)
  BY SMT, <1>1, <1>2, IFields
<1>4. Extract(word, <<0, 7>>) = 19
  BY SMT, <1>3, <1>2
<1>5. Extract(word, <<7, 12>>) = given["rd"]
  BY SMT, <1>3, <1>2
<1>6. Extract(word, <<12, 15>>) = funct3
  BY SMT, <1>3, <1>2
<1>7. Extract(word, <<15, 20>>) = given["rs1"]
  BY SMT, <1>3, <1>2
<1>8. Extract(word, <<20, 32>>) = p * 32 + given["shamt"]
  BY SMT, <1>3, <1>1 DEF F7Negate
<1> QED BY SMT, <1>1, <1>3, <1>4, <1>5, <1>6, <1>7, <1>8

LEMMA LoadLine ==
  ASSUME NEW funct3 \in 0 .. 7, NEW given, NEW word, word = value(Load(funct3), given),
         word # Refused, {"rd", "rs1off"} \subseteq DOMAIN given, given["rd"] \in 0 .. 31,
         given["rs1off"][1] \in Int, given["rs1off"][2] \in 0 .. 31
  PROVE  /\ word \in SUBSET (0 .. 31)
         /\ Extract(word, <<0, 7>>) = 3
         /\ Extract(word, <<7, 12>>) = given["rd"]
         /\ Extract(word, <<12, 15>>) = funct3
         /\ Extract(word, <<15, 20>>) = given["rs1off"][2]
         /\ Extract(word, <<20, 32>>) = given["rs1off"][1] % 4096
<1>1. /\ word = IWord(3, given["rd"], funct3, given["rs1off"][2], given["rs1off"][1])
  BY LoadMakes
<1>2. /\ (given["rd"]) \in Int
      /\ (funct3) \in Int
      /\ (given["rs1off"][2]) \in Int
      /\ (given["rs1off"][1]) \in Int
  BY SMT, <1>1
<1>3. /\ word \in SUBSET (0 .. 31)
      /\ Extract(word, <<0, 7>>) = (3 % 128)
      /\ Extract(word, <<7, 12>>) = ((given["rd"]) % 32)
      /\ Extract(word, <<12, 15>>) = ((funct3) % 8)
      /\ Extract(word, <<15, 20>>) = ((given["rs1off"][2]) % 32)
      /\ Extract(word, <<20, 32>>) = ((given["rs1off"][1]) % 4096)
  BY SMT, <1>1, <1>2, IFields
<1>4. Extract(word, <<0, 7>>) = 3
  BY SMT, <1>3, <1>2
<1>5. Extract(word, <<7, 12>>) = given["rd"]
  BY SMT, <1>3, <1>2
<1>6. Extract(word, <<12, 15>>) = funct3
  BY SMT, <1>3, <1>2
<1>7. Extract(word, <<15, 20>>) = given["rs1off"][2]
  BY SMT, <1>3, <1>2
<1>8. Extract(word, <<20, 32>>) = given["rs1off"][1] % 4096
  BY SMT, <1>3, <1>2
<1> QED BY SMT, <1>1, <1>3, <1>4, <1>5, <1>6, <1>7, <1>8

LEMMA FenceLine ==
  ASSUME NEW given, NEW word, word = value(Fence(0), given), word # Refused,
         {"pred", "succ"} \subseteq DOMAIN given, given["pred"] \subseteq ToSet(FenceLetter),
         given["succ"] \subseteq ToSet(FenceLetter)
  PROVE  /\ word \in SUBSET (0 .. 31)
         /\ Extract(word, <<0, 7>>) = 15
         /\ Extract(word, <<7, 12>>) = 0
         /\ Extract(word, <<12, 15>>) = 0
         /\ Extract(word, <<15, 20>>) = 0
         /\ Extract(word, <<20, 32>>) = fence_arg(given["succ"]) + 16 * fence_arg(given["pred"])
         /\ fence_arg(given["pred"]) \in 1 .. 15
         /\ fence_arg(given["succ"]) \in 1 .. 15
<1>1. /\ given["pred"] # {} /\ given["succ"] # {}
      /\ word = IWord(15, 0, 0, 0, fence_arg(given["succ"]) + 16 * fence_arg(given["pred"]) +
           256 * 0)
  BY FenceMakes
<1>2. fence_arg(given["pred"]) \in 1 .. 15 /\ fence_arg(given["succ"]) \in 1 .. 15
  BY <1>1, FenceBits
<1>3. PICK s, o : s = fence_arg(given["succ"]) /\ o = fence_arg(given["pred"])
  OBVIOUS
<1>4. s \in 1 .. 15 /\ o \in 1 .. 15
  BY <1>2, <1>3
<1>5. (s + 16 * o + 256 * 0) \in Int /\ ((s + 16 * o + 256 * 0) % 4096) = s + 16 * o
  BY <1>4
<1>6. /\ (fence_arg(given["succ"]) + 16 * fence_arg(given["pred"]) + 256 * 0) \in Int
  BY SMT, <1>1, <1>2, <1>3, <1>4, <1>5
<1>7. /\ word \in SUBSET (0 .. 31)
      /\ Extract(word, <<0, 7>>) = (15 % 128)
      /\ Extract(word, <<7, 12>>) = (0 % 32)
      /\ Extract(word, <<12, 15>>) = (0 % 8)
      /\ Extract(word, <<15, 20>>) = (0 % 32)
      /\ Extract(word, <<20, 32>>) = ((fence_arg(given["succ"]) +
           16 * fence_arg(given["pred"]) + 256 * 0) % 4096)
  BY SMT, <1>1, <1>6, IFields
<1>8. Extract(word, <<0, 7>>) = 15
  BY SMT, <1>7, <1>6
<1>9. Extract(word, <<7, 12>>) = 0
  BY SMT, <1>7, <1>6
<1>10. Extract(word, <<12, 15>>) = 0
  BY SMT, <1>7, <1>6
<1>11. Extract(word, <<15, 20>>) = 0
  BY SMT, <1>7, <1>6
<1>12. Extract(word, <<20, 32>>) = fence_arg(given["succ"]) + 16 * fence_arg(given["pred"])
  BY SMT, <1>7, <1>2, <1>3, <1>4, <1>5
<1> QED BY SMT, <1>1, <1>7, <1>2, <1>8, <1>9, <1>10, <1>11, <1>12

LEMMA SystemLine ==
  ASSUME NEW funct \in 0 .. 8, NEW given, NEW word, word = value(System(funct), given),
         word # Refused, {"funct"} \cap DOMAIN given = {}
  PROVE  /\ word \in SUBSET (0 .. 31)
         /\ Extract(word, <<0, 7>>) = 115
         /\ Extract(word, <<7, 12>>) = 0
         /\ Extract(word, <<12, 15>>) = funct % 8
         /\ Extract(word, <<15, 20>>) = 0
         /\ Extract(word, <<20, 32>>) = funct \div 8
<1>1. /\ word = IWord(115, 0, funct % 8, 0, funct \div 8)
  BY SystemMakes
<1>2. /\ (funct % 8) \in Int
      /\ (funct \div 8) \in Int
  BY SMT, <1>1
<1>3. /\ word \in SUBSET (0 .. 31)
      /\ Extract(word, <<0, 7>>) = (115 % 128)
      /\ Extract(word, <<7, 12>>) = (0 % 32)
      /\ Extract(word, <<12, 15>>) = ((funct % 8) % 8)
      /\ Extract(word, <<15, 20>>) = (0 % 32)
      /\ Extract(word, <<20, 32>>) = ((funct \div 8) % 4096)
  BY SMT, <1>1, <1>2, IFields
<1>4. Extract(word, <<0, 7>>) = 115
  BY SMT, <1>3, <1>2
<1>5. Extract(word, <<7, 12>>) = 0
  BY SMT, <1>3, <1>2
<1>6. Extract(word, <<12, 15>>) = funct % 8
  BY SMT, <1>3, <1>2
<1>7. Extract(word, <<15, 20>>) = 0
  BY SMT, <1>3, <1>2
<1>8. Extract(word, <<20, 32>>) = funct \div 8
  BY SMT, <1>3, <1>2
<1> QED BY SMT, <1>1, <1>3, <1>4, <1>5, <1>6, <1>7, <1>8

LEMMA StoreLine ==
  ASSUME NEW funct3 \in 0 .. 7, NEW given, NEW word, word = value(Store(funct3), given),
         word # Refused, {"rs2", "rs1off"} \subseteq DOMAIN given, given["rs2"] \in 0 .. 31,
         given["rs1off"][1] \in Int, given["rs1off"][2] \in 0 .. 31
  PROVE  /\ word \in SUBSET (0 .. 31)
         /\ Extract(word, <<0, 7>>) = 35
         /\ Extract(word, <<7, 12>>) = given["rs1off"][1] % 32
         /\ Extract(word, <<12, 15>>) = funct3
         /\ Extract(word, <<15, 20>>) = given["rs1off"][2]
         /\ Extract(word, <<20, 25>>) = given["rs2"]
         /\ Extract(word, <<25, 32>>) = (given["rs1off"][1] \div 32) % 128
<1>1. /\ word = SWord(35, (given["rs1off"][1] \div 1) % 32, funct3, given["rs1off"][2],
           given["rs2"],
            (given["rs1off"][1] \div 32) % 128)
  BY StoreMakes
<1>2. /\ ((given["rs1off"][1] \div 1) % 32) \in Int
      /\ (funct3) \in Int
      /\ (given["rs1off"][2]) \in Int
      /\ (given["rs2"]) \in Int
      /\ ((given["rs1off"][1] \div 32) % 128) \in Int
  BY SMT, <1>1
<1>3. PICK part4_0, part11_5 :
        /\ part4_0 = (given["rs1off"][1] \div 1) % 32
        /\ part11_5 = (given["rs1off"][1] \div 32) % 128
  OBVIOUS
<1>4. word = SWord(35, part4_0, funct3, given["rs1off"][2], given["rs2"], part11_5)
  BY <1>1, <1>3
<1>5. part4_0 \in Int /\ part11_5 \in Int
  BY SMT, <1>3, <1>2
<1>6. /\ word \in SUBSET (0 .. 31)
      /\ Extract(word, <<0, 7>>) = (35 % 128)
      /\ Extract(word, <<7, 12>>) = (part4_0 % 32)
      /\ Extract(word, <<12, 15>>) = (funct3 % 8)
      /\ Extract(word, <<15, 20>>) = (given["rs1off"][2] % 32)
      /\ Extract(word, <<20, 25>>) = (given["rs2"] % 32)
      /\ Extract(word, <<25, 32>>) = (part11_5 % 128)
  BY SMT, <1>4, <1>5, <1>2, SFields
<1>7. Extract(word, <<0, 7>>) = 35
  BY SMT, <1>6, <1>2, <1>3
<1>8. Extract(word, <<7, 12>>) = given["rs1off"][1] % 32
  BY SMT, <1>6, <1>2, <1>3
<1>9. Extract(word, <<12, 15>>) = funct3
  BY SMT, <1>6, <1>2, <1>3
<1>10. Extract(word, <<15, 20>>) = given["rs1off"][2]
  BY Zenon, <1>6, Small
<1>11. Extract(word, <<20, 25>>) = given["rs2"]
  BY Zenon, <1>6, Small
<1>12. Extract(word, <<25, 32>>) = (given["rs1off"][1] \div 32) % 128
  BY SMT, <1>6, <1>2, <1>3
<1> QED BY SMT, <1>1, <1>6, <1>7, <1>8, <1>9, <1>10, <1>11, <1>12

LEMMA BranchLine ==
  ASSUME NEW funct3 \in 0 .. 7, NEW given, NEW word, word = value(Branch(funct3), given),
         word # Refused, {"rs1", "rs2", "imm"} \subseteq DOMAIN given,
         given["rs1"] \in 0 .. 31, given["rs2"] \in 0 .. 31, given["imm"] \in Int
  PROVE  /\ word \in SUBSET (0 .. 31)
         /\ Extract(word, <<0, 7>>) = 99
         /\ Extract(word, <<7, 8>>) = (given["imm"] \div 2048) % 2
         /\ Extract(word, <<8, 12>>) = (given["imm"] \div 2) % 16
         /\ Extract(word, <<12, 15>>) = funct3
         /\ Extract(word, <<15, 20>>) = given["rs1"]
         /\ Extract(word, <<20, 25>>) = given["rs2"]
         /\ Extract(word, <<25, 31>>) = (given["imm"] \div 32) % 64
         /\ Extract(word, <<31, 32>>) = (given["imm"] \div 4096) % 2
<1>1. /\ word = BWord(99, (given["imm"] \div 2048) % 2, (given["imm"] \div 2) % 16, funct3,
           given["rs1"],
            given["rs2"], (given["imm"] \div 32) % 64, (given["imm"] \div 4096) % 2)
  BY BranchMakes
<1>2. /\ ((given["imm"] \div 2048) % 2) \in Int
      /\ ((given["imm"] \div 2) % 16) \in Int
      /\ (funct3) \in Int
      /\ (given["rs1"]) \in Int
      /\ (given["rs2"]) \in Int
      /\ ((given["imm"] \div 32) % 64) \in Int
      /\ ((given["imm"] \div 4096) % 2) \in Int
  BY SMT, <1>1
<1>3. PICK part11, part4_1, part10_5, part12 :
        /\ part11 = (given["imm"] \div 2048) % 2
        /\ part4_1 = (given["imm"] \div 2) % 16
        /\ part10_5 = (given["imm"] \div 32) % 64
        /\ part12 = (given["imm"] \div 4096) % 2
  OBVIOUS
<1>4. word = BWord(99, part11, part4_1, funct3, given["rs1"], given["rs2"], part10_5, part12)
  BY <1>1, <1>3
<1>5. part11 \in Int /\ part4_1 \in Int /\ part10_5 \in Int /\ part12 \in Int
  BY SMT, <1>3, <1>2
<1>6. /\ word \in SUBSET (0 .. 31)
      /\ Extract(word, <<0, 7>>) = (99 % 128)
      /\ Extract(word, <<7, 8>>) = (part11 % 2)
      /\ Extract(word, <<8, 12>>) = (part4_1 % 16)
      /\ Extract(word, <<12, 15>>) = (funct3 % 8)
      /\ Extract(word, <<15, 20>>) = (given["rs1"] % 32)
      /\ Extract(word, <<20, 25>>) = (given["rs2"] % 32)
      /\ Extract(word, <<25, 31>>) = (part10_5 % 64)
      /\ Extract(word, <<31, 32>>) = (part12 % 2)
  BY SMT, <1>4, <1>5, <1>2, BFields
<1>7. Extract(word, <<0, 7>>) = 99
  BY SMT, <1>6, <1>2, <1>3
<1>8. Extract(word, <<7, 8>>) = (given["imm"] \div 2048) % 2
  BY SMT, <1>6, <1>2, <1>3
<1>9. Extract(word, <<8, 12>>) = (given["imm"] \div 2) % 16
  BY SMT, <1>6, <1>2, <1>3
<1>10. Extract(word, <<12, 15>>) = funct3
  BY SMT, <1>6, <1>2, <1>3
<1>11. Extract(word, <<15, 20>>) = given["rs1"]
  BY Zenon, <1>6, Small
<1>12. Extract(word, <<20, 25>>) = given["rs2"]
  BY Zenon, <1>6, Small
<1>13. Extract(word, <<25, 31>>) = (given["imm"] \div 32) % 64
  BY SMT, <1>6, <1>2, <1>3
<1>14. Extract(word, <<31, 32>>) = (given["imm"] \div 4096) % 2
  BY SMT, <1>6, <1>2, <1>3
<1> QED BY SMT, <1>1, <1>6, <1>7, <1>8, <1>9, <1>10, <1>11, <1>12, <1>13, <1>14

LEMMA UpperLine ==
  ASSUME NEW opcode, opcode \in {23, 55}, NEW given, NEW word,
         word = value(Upper(opcode), given), word # Refused,
         {"rd", "imm"} \subseteq DOMAIN given, given["rd"] \in 0 .. 31, given["imm"] \in Int
  PROVE  /\ word \in SUBSET (0 .. 31)
         /\ Extract(word, <<0, 7>>) = opcode
         /\ Extract(word, <<7, 12>>) = given["rd"]
         /\ Extract(word, <<12, 32>>) = given["imm"] % 2^20
<1>1. /\ given["imm"] \in -(2^20 - 1) .. 2^20 - 1
      /\ word = UWord(opcode, given["rd"], given["imm"])
  BY UpperMakes
<1>2. /\ (opcode) \in Int
      /\ (given["rd"]) \in Int
      /\ (given["imm"]) \in Int
  BY SMT, <1>1
<1>3. /\ word \in SUBSET (0 .. 31)
      /\ Extract(word, <<0, 7>>) = ((opcode) % 128)
      /\ Extract(word, <<7, 12>>) = ((given["rd"]) % 32)
      /\ Extract(word, <<12, 32>>) = ((given["imm"]) % 1048576)
  BY SMT, <1>1, <1>2, UFields
<1>4. Extract(word, <<0, 7>>) = opcode
  BY SMT, <1>3, <1>2, Powers
<1>5. Extract(word, <<7, 12>>) = given["rd"]
  BY SMT, <1>3, <1>2, Powers
<1>6. Extract(word, <<12, 32>>) = given["imm"] % 2^20
  BY SMT, <1>3, <1>2, Powers
<1> QED BY SMT, <1>1, <1>3, <1>4, <1>5, <1>6

LEMMA JalrLine ==
  ASSUME NEW given, NEW word, word = value(Jalr, given), word # Refused,
         {"rd", "rs1", "imm"} \subseteq DOMAIN given, given["rd"] \in 0 .. 31,
         given["rs1"] \in 0 .. 31, given["imm"] \in Int
  PROVE  /\ word \in SUBSET (0 .. 31)
         /\ Extract(word, <<0, 7>>) = 103
         /\ Extract(word, <<7, 12>>) = given["rd"]
         /\ Extract(word, <<12, 15>>) = 0
         /\ Extract(word, <<15, 20>>) = given["rs1"]
         /\ Extract(word, <<20, 32>>) = given["imm"] % 4096
<1>1. /\ word = IWord(103, given["rd"], 0, given["rs1"], given["imm"])
  BY JalrMakes
<1>2. /\ (given["rd"]) \in Int
      /\ (given["rs1"]) \in Int
      /\ (given["imm"]) \in Int
  BY SMT, <1>1
<1>3. /\ word \in SUBSET (0 .. 31)
      /\ Extract(word, <<0, 7>>) = (103 % 128)
      /\ Extract(word, <<7, 12>>) = ((given["rd"]) % 32)
      /\ Extract(word, <<12, 15>>) = (0 % 8)
      /\ Extract(word, <<15, 20>>) = ((given["rs1"]) % 32)
      /\ Extract(word, <<20, 32>>) = ((given["imm"]) % 4096)
  BY SMT, <1>1, <1>2, IFields
<1>4. Extract(word, <<0, 7>>) = 103
  BY SMT, <1>3, <1>2
<1>5. Extract(word, <<7, 12>>) = given["rd"]
  BY SMT, <1>3, <1>2
<1>6. Extract(word, <<12, 15>>) = 0
  BY SMT, <1>3, <1>2
<1>7. Extract(word, <<15, 20>>) = given["rs1"]
  BY SMT, <1>3, <1>2
<1>8. Extract(word, <<20, 32>>) = given["imm"] % 4096
  BY SMT, <1>3, <1>2
<1> QED BY SMT, <1>1, <1>3, <1>4, <1>5, <1>6, <1>7, <1>8

LEMMA JalLine ==
  ASSUME NEW given, NEW word, word = value(Jal, given), word # Refused,
         {"rd", "imm"} \subseteq DOMAIN given, given["rd"] \in 0 .. 31, given["imm"] \in Int
  PROVE  /\ word \in SUBSET (0 .. 31)
         /\ Extract(word, <<0, 7>>) = 111
         /\ Extract(word, <<7, 12>>) = given["rd"]
         /\ Extract(word, <<12, 20>>) = (given["imm"] \div 4096) % 256
         /\ Extract(word, <<20, 21>>) = (given["imm"] \div 2048) % 2
         /\ Extract(word, <<21, 31>>) = (given["imm"] \div 2) % 1024
         /\ Extract(word, <<31, 32>>) = (given["imm"] \div 1048576) % 2
<1>1. /\ word = JWord(111, given["rd"], (given["imm"] \div 4096) % 256,
           (given["imm"] \div 2048) % 2,
            (given["imm"] \div 2) % 1024, (given["imm"] \div 1048576) % 2)
  BY JalMakes
<1>2. /\ (given["rd"]) \in Int
      /\ ((given["imm"] \div 4096) % 256) \in Int
      /\ ((given["imm"] \div 2048) % 2) \in Int
      /\ ((given["imm"] \div 2) % 1024) \in Int
      /\ ((given["imm"] \div 1048576) % 2) \in Int
  BY SMT, <1>1
<1>3. PICK part19_12, part11, part10_1, part20 :
        /\ part19_12 = (given["imm"] \div 4096) % 256
        /\ part11 = (given["imm"] \div 2048) % 2
        /\ part10_1 = (given["imm"] \div 2) % 1024
        /\ part20 = (given["imm"] \div 1048576) % 2
  OBVIOUS
<1>4. word = JWord(111, given["rd"], part19_12, part11, part10_1, part20)
  BY <1>1, <1>3
<1>5. part19_12 \in Int /\ part11 \in Int /\ part10_1 \in Int /\ part20 \in Int
  BY SMT, <1>3, <1>2
<1>6. /\ word \in SUBSET (0 .. 31)
      /\ Extract(word, <<0, 7>>) = (111 % 128)
      /\ Extract(word, <<7, 12>>) = (given["rd"] % 32)
      /\ Extract(word, <<12, 20>>) = (part19_12 % 256)
      /\ Extract(word, <<20, 21>>) = (part11 % 2)
      /\ Extract(word, <<21, 31>>) = (part10_1 % 1024)
      /\ Extract(word, <<31, 32>>) = (part20 % 2)
  BY SMT, <1>4, <1>5, <1>2, JFields
<1>7. Extract(word, <<0, 7>>) = 111
  BY SMT, <1>6, <1>2, <1>3
<1>8. Extract(word, <<7, 12>>) = given["rd"]
  BY SMT, <1>6, <1>2, <1>3
<1>9. Extract(word, <<12, 20>>) = (given["imm"] \div 4096) % 256
  BY SMT, <1>6, <1>2, <1>3
<1>10. Extract(word, <<20, 21>>) = (given["imm"] \div 2048) % 2
  BY SMT, <1>6, <1>2, <1>3
<1>11. Extract(word, <<21, 31>>) = (given["imm"] \div 2) % 1024
  BY SMT, <1>6, <1>2, <1>3
<1>12. Extract(word, <<31, 32>>) = (given["imm"] \div 1048576) % 2
  BY SMT, <1>6, <1>2, <1>3
<1> QED BY SMT, <1>1, <1>6, <1>7, <1>8, <1>9, <1>10, <1>11, <1>12

LEMMA FenceTSOLine ==
  ASSUME NEW given, NEW word, word = value(Insns.FENCE_TSO, given), word # Refused,
         {"pred", "succ"} \cap DOMAIN given = {}
  PROVE  /\ word \in SUBSET (0 .. 31)
         /\ Extract(word, <<0, 7>>) = 15
         /\ Extract(word, <<7, 12>>) = 0
         /\ Extract(word, <<12, 15>>) = 0
         /\ Extract(word, <<15, 20>>) = 0
         /\ Extract(word, <<20, 32>>) = 2099
<1>1. /\ word = IWord(15, 0, 0, 0, 2099)
  BY FenceTSOMakes
<1>2. TRUE
  OBVIOUS
<1>3. /\ word \in SUBSET (0 .. 31)
      /\ Extract(word, <<0, 7>>) = (15 % 128)
      /\ Extract(word, <<7, 12>>) = (0 % 32)
      /\ Extract(word, <<12, 15>>) = (0 % 8)
      /\ Extract(word, <<15, 20>>) = (0 % 32)
      /\ Extract(word, <<20, 32>>) = (2099 % 4096)
  BY SMT, <1>1, <1>2, IFields
<1>4. Extract(word, <<0, 7>>) = 15
  BY SMT, <1>3, <1>2
<1>5. Extract(word, <<7, 12>>) = 0
  BY SMT, <1>3, <1>2
<1>6. Extract(word, <<12, 15>>) = 0
  BY SMT, <1>3, <1>2
<1>7. Extract(word, <<15, 20>>) = 0
  BY SMT, <1>3, <1>2
<1>8. Extract(word, <<20, 32>>) = 2099
  BY SMT, <1>3, <1>2
<1> QED BY SMT, <1>1, <1>3, <1>4, <1>5, <1>6, <1>7, <1>8

LEMMA SnezLine ==
  ASSUME NEW given, NEW word, word = value(Insns.SNEZ, given), word # Refused,
         {"rd", "rs2"} \subseteq DOMAIN given, given["rd"] \in 0 .. 31, given["rs2"] \in 0 .. 31
  PROVE  /\ word \in SUBSET (0 .. 31)
         /\ Extract(word, <<0, 7>>) = 51
         /\ Extract(word, <<7, 12>>) = given["rd"]
         /\ Extract(word, <<12, 15>>) = 3
         /\ Extract(word, <<15, 20>>) = 0
         /\ Extract(word, <<20, 25>>) = given["rs2"]
         /\ Extract(word, <<25, 32>>) = 0
<1>1. /\ word = RWord(51, given["rd"], 3, 0, given["rs2"], 0)
  BY SnezMakes
<1>2. /\ (given["rd"]) \in Int
      /\ (given["rs2"]) \in Int
  BY SMT, <1>1
<1>3. /\ word \in SUBSET (0 .. 31)
      /\ Extract(word, <<0, 7>>) = (51 % 128)
      /\ Extract(word, <<7, 12>>) = ((given["rd"]) % 32)
      /\ Extract(word, <<12, 15>>) = (3 % 8)
      /\ Extract(word, <<15, 20>>) = (0 % 32)
      /\ Extract(word, <<20, 25>>) = ((given["rs2"]) % 32)
      /\ Extract(word, <<25, 32>>) = (0 % 128)
  BY SMT, <1>1, <1>2, RFields
<1>4. Extract(word, <<0, 7>>) = 51
  BY SMT, <1>3, <1>2
<1>5. Extract(word, <<7, 12>>) = given["rd"]
  BY SMT, <1>3, <1>2
<1>6. Extract(word, <<12, 15>>) = 3
  BY SMT, <1>3, <1>2
<1>7. Extract(word, <<15, 20>>) = 0
  BY SMT, <1>3, <1>2
<1>8. Extract(word, <<20, 25>>) = given["rs2"]
  BY SMT, <1>3, <1>2
<1>9. Extract(word, <<25, 32>>) = 0
  BY SMT, <1>3, <1>2
<1> QED BY SMT, <1>1, <1>3, <1>4, <1>5, <1>6, <1>7, <1>8, <1>9

LEMMA RetLine ==
  ASSUME NEW given, NEW word, word = value(Insns.RET, given), word # Refused
  PROVE  /\ word \in SUBSET (0 .. 31)
         /\ Extract(word, <<0, 7>>) = 103
         /\ Extract(word, <<7, 12>>) = 0
         /\ Extract(word, <<12, 15>>) = 0
         /\ Extract(word, <<15, 20>>) = 1
         /\ Extract(word, <<20, 32>>) = 0
<1>1. /\ word = IWord(103, 0, 0, 1, 0)
  BY RetMakes
<1>2. TRUE
  OBVIOUS
<1>3. /\ word \in SUBSET (0 .. 31)
      /\ Extract(word, <<0, 7>>) = (103 % 128)
      /\ Extract(word, <<7, 12>>) = (0 % 32)
      /\ Extract(word, <<12, 15>>) = (0 % 8)
      /\ Extract(word, <<15, 20>>) = (1 % 32)
      /\ Extract(word, <<20, 32>>) = (0 % 4096)
  BY SMT, <1>1, <1>2, IFields
<1>4. Extract(word, <<0, 7>>) = 103
  BY SMT, <1>3, <1>2
<1>5. Extract(word, <<7, 12>>) = 0
  BY SMT, <1>3, <1>2
<1>6. Extract(word, <<12, 15>>) = 0
  BY SMT, <1>3, <1>2
<1>7. Extract(word, <<15, 20>>) = 1
  BY SMT, <1>3, <1>2
<1>8. Extract(word, <<20, 32>>) = 0
  BY SMT, <1>3, <1>2
<1> QED BY SMT, <1>1, <1>3, <1>4, <1>5, <1>6, <1>7, <1>8

LEMMA MvLine ==
  ASSUME NEW given, NEW word, word = value(Insns.MV, given), word # Refused,
         {"rd", "rs1"} \subseteq DOMAIN given, given["rd"] \in 0 .. 31, given["rs1"] \in 0 .. 31
  PROVE  /\ word \in SUBSET (0 .. 31)
         /\ Extract(word, <<0, 7>>) = 19
         /\ Extract(word, <<7, 12>>) = given["rd"]
         /\ Extract(word, <<12, 15>>) = 0
         /\ Extract(word, <<15, 20>>) = given["rs1"]
         /\ Extract(word, <<20, 32>>) = 0
<1>1. /\ word = IWord(19, given["rd"], 0, given["rs1"], 0)
  BY MvMakes
<1>2. /\ (given["rd"]) \in Int
      /\ (given["rs1"]) \in Int
  BY SMT, <1>1
<1>3. /\ word \in SUBSET (0 .. 31)
      /\ Extract(word, <<0, 7>>) = (19 % 128)
      /\ Extract(word, <<7, 12>>) = ((given["rd"]) % 32)
      /\ Extract(word, <<12, 15>>) = (0 % 8)
      /\ Extract(word, <<15, 20>>) = ((given["rs1"]) % 32)
      /\ Extract(word, <<20, 32>>) = (0 % 4096)
  BY SMT, <1>1, <1>2, IFields
<1>4. Extract(word, <<0, 7>>) = 19
  BY SMT, <1>3, <1>2
<1>5. Extract(word, <<7, 12>>) = given["rd"]
  BY SMT, <1>3, <1>2
<1>6. Extract(word, <<12, 15>>) = 0
  BY SMT, <1>3, <1>2
<1>7. Extract(word, <<15, 20>>) = given["rs1"]
  BY SMT, <1>3, <1>2
<1>8. Extract(word, <<20, 32>>) = 0
  BY SMT, <1>3, <1>2
<1> QED BY SMT, <1>1, <1>3, <1>4, <1>5, <1>6, <1>7, <1>8

LEMMA SeqzLine ==
  ASSUME NEW given, NEW word, word = value(Insns.SEQZ, given), word # Refused,
         {"rd", "rs1"} \subseteq DOMAIN given, given["rd"] \in 0 .. 31, given["rs1"] \in 0 .. 31
  PROVE  /\ word \in SUBSET (0 .. 31)
         /\ Extract(word, <<0, 7>>) = 19
         /\ Extract(word, <<7, 12>>) = given["rd"]
         /\ Extract(word, <<12, 15>>) = 3
         /\ Extract(word, <<15, 20>>) = given["rs1"]
         /\ Extract(word, <<20, 32>>) = 1
<1>1. /\ word = IWord(19, given["rd"], 3, given["rs1"], 1)
  BY SeqzMakes
<1>2. /\ (given["rd"]) \in Int
      /\ (given["rs1"]) \in Int
  BY SMT, <1>1
<1>3. /\ word \in SUBSET (0 .. 31)
      /\ Extract(word, <<0, 7>>) = (19 % 128)
      /\ Extract(word, <<7, 12>>) = ((given["rd"]) % 32)
      /\ Extract(word, <<12, 15>>) = (3 % 8)
      /\ Extract(word, <<15, 20>>) = ((given["rs1"]) % 32)
      /\ Extract(word, <<20, 32>>) = (1 % 4096)
  BY SMT, <1>1, <1>2, IFields
<1>4. Extract(word, <<0, 7>>) = 19
  BY SMT, <1>3, <1>2
<1>5. Extract(word, <<7, 12>>) = given["rd"]
  BY SMT, <1>3, <1>2
<1>6. Extract(word, <<12, 15>>) = 3
  BY SMT, <1>3, <1>2
<1>7. Extract(word, <<15, 20>>) = given["rs1"]
  BY SMT, <1>3, <1>2
<1>8. Extract(word, <<20, 32>>) = 1
  BY SMT, <1>3, <1>2
<1> QED BY SMT, <1>1, <1>3, <1>4, <1>5, <1>6, <1>7, <1>8

LEMMA NotLine ==
  ASSUME NEW given, NEW word, word = value(Insns.NOT, given), word # Refused,
         {"rd", "rs1"} \subseteq DOMAIN given, given["rd"] \in 0 .. 31, given["rs1"] \in 0 .. 31
  PROVE  /\ word \in SUBSET (0 .. 31)
         /\ Extract(word, <<0, 7>>) = 19
         /\ Extract(word, <<7, 12>>) = given["rd"]
         /\ Extract(word, <<12, 15>>) = 4
         /\ Extract(word, <<15, 20>>) = given["rs1"]
         /\ Extract(word, <<20, 32>>) = 4095
<1>1. /\ word = IWord(19, given["rd"], 4, given["rs1"], -1)
  BY NotMakes
<1>2. /\ (given["rd"]) \in Int
      /\ (given["rs1"]) \in Int
      /\ (-1) \in Int
  BY SMT, <1>1
<1>3. PICK minus : minus = -1
  OBVIOUS
<1>4. minus \in Int /\ minus + 1 = 0
  BY SMT, <1>3
<1>5. (minus % 4096) = 4095
  BY SMT, <1>4
<1>6. word = IWord(19, given["rd"], 4, given["rs1"], minus)
  BY <1>1, <1>3
<1>7. /\ word \in SUBSET (0 .. 31)
      /\ Extract(word, <<0, 7>>) = (19 % 128)
      /\ Extract(word, <<7, 12>>) = ((given["rd"]) % 32)
      /\ Extract(word, <<12, 15>>) = (4 % 8)
      /\ Extract(word, <<15, 20>>) = ((given["rs1"]) % 32)
      /\ Extract(word, <<20, 32>>) = ((minus) % 4096)
  BY SMT, <1>6, <1>4, <1>2, IFields
<1>8. Extract(word, <<0, 7>>) = 19
  BY SMT, <1>7, <1>4, <1>2, <1>5
<1>9. Extract(word, <<7, 12>>) = given["rd"]
  BY SMT, <1>7, <1>4, <1>2, <1>5
<1>10. Extract(word, <<12, 15>>) = 4
  BY SMT, <1>7, <1>4, <1>2, <1>5
<1>11. Extract(word, <<15, 20>>) = given["rs1"]
  BY SMT, <1>7, <1>4, <1>2, <1>5
<1>12. Extract(word, <<20, 32>>) = 4095
  BY SMT, <1>7, <1>4, <1>2, <1>5
<1> QED BY SMT, <1>6, <1>7, <1>8, <1>9, <1>10, <1>11, <1>12

LEMMA NopLine ==
  ASSUME NEW given, NEW word, word = value(Insns.NOP, given), word # Refused
  PROVE  /\ word \in SUBSET (0 .. 31)
         /\ Extract(word, <<0, 7>>) = 19
         /\ Extract(word, <<7, 12>>) = 0
         /\ Extract(word, <<12, 15>>) = 0
         /\ Extract(word, <<15, 20>>) = 0
         /\ Extract(word, <<20, 32>>) = 0
<1>1. /\ word = IWord(19, 0, 0, 0, 0)
  BY NopMakes
<1>2. TRUE
  OBVIOUS
<1>3. /\ word \in SUBSET (0 .. 31)
      /\ Extract(word, <<0, 7>>) = (19 % 128)
      /\ Extract(word, <<7, 12>>) = (0 % 32)
      /\ Extract(word, <<12, 15>>) = (0 % 8)
      /\ Extract(word, <<15, 20>>) = (0 % 32)
      /\ Extract(word, <<20, 32>>) = (0 % 4096)
  BY SMT, <1>1, <1>2, IFields
<1>4. Extract(word, <<0, 7>>) = 19
  BY SMT, <1>3, <1>2
<1>5. Extract(word, <<7, 12>>) = 0
  BY SMT, <1>3, <1>2
<1>6. Extract(word, <<12, 15>>) = 0
  BY SMT, <1>3, <1>2
<1>7. Extract(word, <<15, 20>>) = 0
  BY SMT, <1>3, <1>2
<1>8. Extract(word, <<20, 32>>) = 0
  BY SMT, <1>3, <1>2
<1> QED BY SMT, <1>1, <1>3, <1>4, <1>5, <1>6, <1>7, <1>8

LEMMA JLine ==
  ASSUME NEW given, NEW word, word = value(Insns.J_, given), word # Refused,
         {"imm"} \subseteq DOMAIN given, given["imm"] \in Int
  PROVE  /\ word \in SUBSET (0 .. 31)
         /\ Extract(word, <<0, 7>>) = 111
         /\ Extract(word, <<7, 12>>) = 0
         /\ Extract(word, <<12, 20>>) = (given["imm"] \div 4096) % 256
         /\ Extract(word, <<20, 21>>) = (given["imm"] \div 2048) % 2
         /\ Extract(word, <<21, 31>>) = (given["imm"] \div 2) % 1024
         /\ Extract(word, <<31, 32>>) = (given["imm"] \div 1048576) % 2
<1>1. /\ word = JWord(111, 0, (given["imm"] \div 4096) % 256, (given["imm"] \div 2048) % 2,
            (given["imm"] \div 2) % 1024, (given["imm"] \div 1048576) % 2)
  BY JMakes
<1>2. /\ ((given["imm"] \div 4096) % 256) \in Int
      /\ ((given["imm"] \div 2048) % 2) \in Int
      /\ ((given["imm"] \div 2) % 1024) \in Int
      /\ ((given["imm"] \div 1048576) % 2) \in Int
  BY SMT, <1>1
<1>3. PICK part19_12, part11, part10_1, part20 :
        /\ part19_12 = (given["imm"] \div 4096) % 256
        /\ part11 = (given["imm"] \div 2048) % 2
        /\ part10_1 = (given["imm"] \div 2) % 1024
        /\ part20 = (given["imm"] \div 1048576) % 2
  OBVIOUS
<1>4. word = JWord(111, 0, part19_12, part11, part10_1, part20)
  BY <1>1, <1>3
<1>5. part19_12 \in Int /\ part11 \in Int /\ part10_1 \in Int /\ part20 \in Int
  BY SMT, <1>3, <1>2
<1>6. /\ word \in SUBSET (0 .. 31)
      /\ Extract(word, <<0, 7>>) = (111 % 128)
      /\ Extract(word, <<7, 12>>) = (0 % 32)
      /\ Extract(word, <<12, 20>>) = (part19_12 % 256)
      /\ Extract(word, <<20, 21>>) = (part11 % 2)
      /\ Extract(word, <<21, 31>>) = (part10_1 % 1024)
      /\ Extract(word, <<31, 32>>) = (part20 % 2)
  BY SMT, <1>4, <1>5, <1>2, JFields
<1>7. Extract(word, <<0, 7>>) = 111
  BY SMT, <1>6, <1>2, <1>3
<1>8. Extract(word, <<7, 12>>) = 0
  BY SMT, <1>6, <1>2, <1>3
<1>9. Extract(word, <<12, 20>>) = (given["imm"] \div 4096) % 256
  BY SMT, <1>6, <1>2, <1>3
<1>10. Extract(word, <<20, 21>>) = (given["imm"] \div 2048) % 2
  BY SMT, <1>6, <1>2, <1>3
<1>11. Extract(word, <<21, 31>>) = (given["imm"] \div 2) % 1024
  BY SMT, <1>6, <1>2, <1>3
<1>12. Extract(word, <<31, 32>>) = (given["imm"] \div 1048576) % 2
  BY SMT, <1>6, <1>2, <1>3
<1> QED BY SMT, <1>1, <1>6, <1>7, <1>8, <1>9, <1>10, <1>11, <1>12
-----------------------------------------------------------------------------
(* The fields that the instructions fix. *)

\* A word has the fields that an instruction fixes.
Fixed(insn, word) ==
  LET fixed == insn.cls.defaults ++ insn.kwargs
  IN \A e \in DOMAIN fixed \cap ToSet(insn.cls.layout) :
       decode(insn.cls, word)[e] =
         fixed[e] % 2^(insn.cls.ranges[e][2] - insn.cls.ranges[e][1])

\* So it has if the bits of each field are what the arguments make of it.
HasFields(insn, word, fixed) ==
  \A e \in DOMAIN fixed \cap ToSet(insn.cls.layout) :
    Extract(word, insn.cls.ranges[e]) =
      fixed[e] % Power(insn.cls.ranges[e][2] - insn.cls.ranges[e][1])

\* A word that has the fields fixed has them as FixedFieldsStay asks.
LEMMA FixedIs ==
  ASSUME NEW insn, NEW word, NEW fixed, IsPlus(fixed, insn.cls.defaults, insn.kwargs),
         HasFields(insn, word, fixed)
  PROVE  Fixed(insn, word)
<1>1. fixed = insn.cls.defaults ++ insn.kwargs
  BY DEF IsPlus
<1>2. \A e \in ToSet(insn.cls.layout) :
        decode(insn.cls, word)[e] = Extract(word, insn.cls.ranges[e])
  BY DEF decode
<1>3. \A e \in DOMAIN fixed \cap ToSet(insn.cls.layout) :
        decode(insn.cls, word)[e] =
          fixed[e] % 2^(insn.cls.ranges[e][2] - insn.cls.ranges[e][1])
  BY Zenon, <1>2 DEF Power, HasFields
<1> QED BY Zenon, <1>1, <1>3 DEF Fixed

\* XFixed, for each family X: the word of a line has the fields that are fixed.
LEMMA OpFixed ==
  ASSUME NEW funct3 \in 0 .. 7, NEW given, NEW word, word = value(Op(funct3, 0), given),
         word # Refused, {"rd", "rs1", "rs2"} \subseteq DOMAIN given, given["rd"] \in 0 .. 31,
         given["rs1"] \in 0 .. 31, given["rs2"] \in 0 .. 31
  PROVE  Fixed(Op(funct3, 0), word)
<1> DEFINE kwargs == [funct3 |-> funct3]
           defaults == [opcode |-> 51, funct7 |-> 0]
           layout == {"opcode", "rd", "funct3", "rs1", "rs2", "funct7"}
<1>1. PICK insn : insn = Insn(R, kwargs, <<>>, <<"rd", "rs1", "rs2">>)
  OBVIOUS
<1>2. insn = Op(funct3, 0)
  BY <1>1, OpForm
<1>3. insn.cls = R /\ insn.kwargs = kwargs /\ insn.xfrms = <<>>
  BY <1>1, InsnParts
<1>4. ToSet(R.layout) = layout /\ R.ranges = RRanges /\ R.defaults = defaults
  BY Formats, RIs
<1>5. DOMAIN defaults = {"opcode", "funct7"} /\ DOMAIN kwargs = {"funct3"}
  OBVIOUS
<1>6. /\ defaults["opcode"] = 51
      /\ defaults["funct7"] = 0
      /\ kwargs["funct3"] = funct3
  OBVIOUS
<1> HIDE DEF kwargs, defaults
<1>7. PICK fixed : IsPlus(fixed, defaults, kwargs)
  BY PlusIs
<1>8. /\ DOMAIN fixed = DOMAIN defaults \cup DOMAIN kwargs
      /\ \A e \in DOMAIN kwargs : fixed[e] = kwargs[e]
      /\ \A e \in DOMAIN defaults : e \notin DOMAIN kwargs => fixed[e] = defaults[e]
  BY <1>7 DEF IsPlus
<1>9. DOMAIN fixed \cap layout = {"opcode", "funct3", "funct7"}
  BY <1>5, <1>8
<1>10. /\ fixed["opcode"] = 51
       /\ fixed["funct3"] = funct3
       /\ fixed["funct7"] = 0
  BY <1>5, <1>6, <1>8
<1>11. /\ Extract(word, <<0, 7>>) = 51
       /\ Extract(word, <<12, 15>>) = funct3
       /\ Extract(word, <<25, 32>>) = 0
  BY OpLine
<1>12. /\ RRanges["opcode"] = <<0, 7>>
       /\ RRanges["funct3"] = <<12, 15>>
       /\ RRanges["funct7"] = <<25, 32>>
  BY DEF RRanges
<1>13. RRanges["opcode"][2] - RRanges["opcode"][1] = 7 /\ Power(7) = 128
  BY <1>12, Powers DEF Power
<1>14. Extract(word, RRanges["opcode"]) =
         fixed["opcode"] % Power(RRanges["opcode"][2] - RRanges["opcode"][1])
  BY <1>10, <1>11, <1>12, <1>13
<1>15. RRanges["funct3"][2] - RRanges["funct3"][1] = 3 /\ Power(3) = 8
  BY <1>12, Powers DEF Power
<1>16. (funct3 % 8) = funct3
  BY SMT
<1>17. Extract(word, RRanges["funct3"]) =
         fixed["funct3"] % Power(RRanges["funct3"][2] - RRanges["funct3"][1])
  BY <1>10, <1>11, <1>12, <1>15, <1>16
<1>18. RRanges["funct7"][2] - RRanges["funct7"][1] = 7 /\ Power(7) = 128
  BY <1>12, Powers DEF Power
<1>19. Extract(word, RRanges["funct7"]) =
         fixed["funct7"] % Power(RRanges["funct7"][2] - RRanges["funct7"][1])
  BY <1>10, <1>11, <1>12, <1>18
<1>20. \A e \in DOMAIN fixed \cap layout :
         Extract(word, RRanges[e]) =
           fixed[e] % Power(RRanges[e][2] - RRanges[e][1])
  BY Zenon, <1>9, <1>14, <1>17, <1>19
<1>21. IsPlus(fixed, insn.cls.defaults, insn.kwargs)
  BY <1>3, <1>4, <1>7
<1>22. HasFields(insn, word, fixed)
  BY Zenon, <1>3, <1>4, <1>20 DEF HasFields
<1>23. Fixed(insn, word)
  BY Zenon, <1>21, <1>22, FixedIs
<1> QED BY <1>2, <1>23

LEMMA OpNegateFixed ==
  ASSUME NEW funct3 \in 0 .. 7, NEW given, NEW word, word = value(Op(funct3, F7Negate), given),
         word # Refused, {"rd", "rs1", "rs2"} \subseteq DOMAIN given, given["rd"] \in 0 .. 31,
         given["rs1"] \in 0 .. 31, given["rs2"] \in 0 .. 31
  PROVE  Fixed(Op(funct3, F7Negate), word)
<1> DEFINE kwargs == [funct3 |-> funct3, funct7 |-> 32]
           defaults == [opcode |-> 51, funct7 |-> 0]
           layout == {"opcode", "rd", "funct3", "rs1", "rs2", "funct7"}
<1>1. PICK insn : insn = Insn(R, kwargs, <<>>, <<"rd", "rs1", "rs2">>)
  OBVIOUS
<1>2. insn = Op(funct3, F7Negate)
  BY <1>1, OpNegateForm
<1>3. insn.cls = R /\ insn.kwargs = kwargs /\ insn.xfrms = <<>>
  BY <1>1, InsnParts
<1>4. ToSet(R.layout) = layout /\ R.ranges = RRanges /\ R.defaults = defaults
  BY Formats, RIs
<1>5. DOMAIN defaults = {"opcode", "funct7"} /\ DOMAIN kwargs = {"funct3", "funct7"}
  OBVIOUS
<1>6. /\ defaults["opcode"] = 51
      /\ defaults["funct7"] = 0
      /\ kwargs["funct3"] = funct3
      /\ kwargs["funct7"] = 32
  OBVIOUS
<1> HIDE DEF kwargs, defaults
<1>7. PICK fixed : IsPlus(fixed, defaults, kwargs)
  BY PlusIs
<1>8. /\ DOMAIN fixed = DOMAIN defaults \cup DOMAIN kwargs
      /\ \A e \in DOMAIN kwargs : fixed[e] = kwargs[e]
      /\ \A e \in DOMAIN defaults : e \notin DOMAIN kwargs => fixed[e] = defaults[e]
  BY <1>7 DEF IsPlus
<1>9. DOMAIN fixed \cap layout = {"opcode", "funct3", "funct7"}
  BY <1>5, <1>8
<1>10. /\ fixed["opcode"] = 51
       /\ fixed["funct3"] = funct3
       /\ fixed["funct7"] = 32
  BY <1>5, <1>6, <1>8
<1>11. /\ Extract(word, <<0, 7>>) = 51
       /\ Extract(word, <<12, 15>>) = funct3
       /\ Extract(word, <<25, 32>>) = 32
  BY OpNegateLine
<1>12. /\ RRanges["opcode"] = <<0, 7>>
       /\ RRanges["funct3"] = <<12, 15>>
       /\ RRanges["funct7"] = <<25, 32>>
  BY DEF RRanges
<1>13. RRanges["opcode"][2] - RRanges["opcode"][1] = 7 /\ Power(7) = 128
  BY <1>12, Powers DEF Power
<1>14. Extract(word, RRanges["opcode"]) =
         fixed["opcode"] % Power(RRanges["opcode"][2] - RRanges["opcode"][1])
  BY <1>10, <1>11, <1>12, <1>13
<1>15. RRanges["funct3"][2] - RRanges["funct3"][1] = 3 /\ Power(3) = 8
  BY <1>12, Powers DEF Power
<1>16. (funct3 % 8) = funct3
  BY SMT
<1>17. Extract(word, RRanges["funct3"]) =
         fixed["funct3"] % Power(RRanges["funct3"][2] - RRanges["funct3"][1])
  BY <1>10, <1>11, <1>12, <1>15, <1>16
<1>18. RRanges["funct7"][2] - RRanges["funct7"][1] = 7 /\ Power(7) = 128
  BY <1>12, Powers DEF Power
<1>19. Extract(word, RRanges["funct7"]) =
         fixed["funct7"] % Power(RRanges["funct7"][2] - RRanges["funct7"][1])
  BY <1>10, <1>11, <1>12, <1>18
<1>20. \A e \in DOMAIN fixed \cap layout :
         Extract(word, RRanges[e]) =
           fixed[e] % Power(RRanges[e][2] - RRanges[e][1])
  BY Zenon, <1>9, <1>14, <1>17, <1>19
<1>21. IsPlus(fixed, insn.cls.defaults, insn.kwargs)
  BY <1>3, <1>4, <1>7
<1>22. HasFields(insn, word, fixed)
  BY Zenon, <1>3, <1>4, <1>20 DEF HasFields
<1>23. Fixed(insn, word)
  BY Zenon, <1>21, <1>22, FixedIs
<1> QED BY <1>2, <1>23

LEMMA OpImmFixed ==
  ASSUME NEW funct3 \in 0 .. 7, NEW given, NEW word, word = value(OpImm(funct3), given),
         word # Refused, {"rd", "rs1", "imm"} \subseteq DOMAIN given, given["rd"] \in 0 .. 31,
         given["rs1"] \in 0 .. 31, given["imm"] \in Int
  PROVE  Fixed(OpImm(funct3), word)
<1> DEFINE kwargs == [funct3 |-> funct3]
           defaults == [opcode |-> 19]
           layout == {"opcode", "rd", "funct3", "rs1", "imm"}
<1>1. PICK insn : insn = Insn(I, kwargs, <<>>, <<"rd", "rs1", "imm">>)
  OBVIOUS
<1>2. insn = OpImm(funct3)
  BY <1>1, OpImmForm
<1>3. insn.cls = I /\ insn.kwargs = kwargs /\ insn.xfrms = <<>>
  BY <1>1, InsnParts
<1>4. ToSet(I.layout) = layout /\ I.ranges = IRanges /\ I.defaults = defaults
  BY Formats, IIs
<1>5. DOMAIN defaults = {"opcode"} /\ DOMAIN kwargs = {"funct3"}
  OBVIOUS
<1>6. /\ defaults["opcode"] = 19
      /\ kwargs["funct3"] = funct3
  OBVIOUS
<1> HIDE DEF kwargs, defaults
<1>7. PICK fixed : IsPlus(fixed, defaults, kwargs)
  BY PlusIs
<1>8. /\ DOMAIN fixed = DOMAIN defaults \cup DOMAIN kwargs
      /\ \A e \in DOMAIN kwargs : fixed[e] = kwargs[e]
      /\ \A e \in DOMAIN defaults : e \notin DOMAIN kwargs => fixed[e] = defaults[e]
  BY <1>7 DEF IsPlus
<1>9. DOMAIN fixed \cap layout = {"opcode", "funct3"}
  BY <1>5, <1>8
<1>10. /\ fixed["opcode"] = 19
       /\ fixed["funct3"] = funct3
  BY <1>5, <1>6, <1>8
<1>11. /\ Extract(word, <<0, 7>>) = 19
       /\ Extract(word, <<12, 15>>) = funct3
  BY OpImmLine
<1>12. /\ IRanges["opcode"] = <<0, 7>>
       /\ IRanges["funct3"] = <<12, 15>>
  BY DEF IRanges
<1>13. IRanges["opcode"][2] - IRanges["opcode"][1] = 7 /\ Power(7) = 128
  BY <1>12, Powers DEF Power
<1>14. Extract(word, IRanges["opcode"]) =
         fixed["opcode"] % Power(IRanges["opcode"][2] - IRanges["opcode"][1])
  BY <1>10, <1>11, <1>12, <1>13
<1>15. IRanges["funct3"][2] - IRanges["funct3"][1] = 3 /\ Power(3) = 8
  BY <1>12, Powers DEF Power
<1>16. (funct3 % 8) = funct3
  BY SMT
<1>17. Extract(word, IRanges["funct3"]) =
         fixed["funct3"] % Power(IRanges["funct3"][2] - IRanges["funct3"][1])
  BY <1>10, <1>11, <1>12, <1>15, <1>16
<1>18. \A e \in DOMAIN fixed \cap layout :
         Extract(word, IRanges[e]) =
           fixed[e] % Power(IRanges[e][2] - IRanges[e][1])
  BY Zenon, <1>9, <1>14, <1>17
<1>19. IsPlus(fixed, insn.cls.defaults, insn.kwargs)
  BY <1>3, <1>4, <1>7
<1>20. HasFields(insn, word, fixed)
  BY Zenon, <1>3, <1>4, <1>18 DEF HasFields
<1>21. Fixed(insn, word)
  BY Zenon, <1>19, <1>20, FixedIs
<1> QED BY <1>2, <1>21

LEMMA ShiftFixed ==
  ASSUME NEW funct3 \in 0 .. 7, NEW p, p \in {0, F7Negate}, NEW given, NEW word,
         word = value(Shift(funct3, p), given), word # Refused,
         {"rd", "rs1", "shamt"} \subseteq DOMAIN given, given["rd"] \in 0 .. 31,
         given["rs1"] \in 0 .. 31, given["shamt"] \in Int
  PROVE  Fixed(Shift(funct3, p), word)
<1> DEFINE kwargs == [funct3 |-> funct3]
           defaults == [opcode |-> 19]
           layout == {"opcode", "rd", "funct3", "rs1", "imm"}
<1>1. PICK insn : insn = Insn(I, kwargs, <<ShamtXfrm(p)>>, <<"rd", "rs1", "shamt">>)
  OBVIOUS
<1>2. insn = Shift(funct3, p)
  BY <1>1, ShiftForm
<1>3. insn.cls = I /\ insn.kwargs = kwargs /\ insn.xfrms = <<ShamtXfrm(p)>>
  BY <1>1, InsnParts
<1>4. ToSet(I.layout) = layout /\ I.ranges = IRanges /\ I.defaults = defaults
  BY Formats, IIs
<1>5. DOMAIN defaults = {"opcode"} /\ DOMAIN kwargs = {"funct3"}
  OBVIOUS
<1>6. /\ defaults["opcode"] = 19
      /\ kwargs["funct3"] = funct3
  OBVIOUS
<1> HIDE DEF kwargs, defaults
<1>7. PICK fixed : IsPlus(fixed, defaults, kwargs)
  BY PlusIs
<1>8. /\ DOMAIN fixed = DOMAIN defaults \cup DOMAIN kwargs
      /\ \A e \in DOMAIN kwargs : fixed[e] = kwargs[e]
      /\ \A e \in DOMAIN defaults : e \notin DOMAIN kwargs => fixed[e] = defaults[e]
  BY <1>7 DEF IsPlus
<1>9. DOMAIN fixed \cap layout = {"opcode", "funct3"}
  BY <1>5, <1>8
<1>10. /\ fixed["opcode"] = 19
       /\ fixed["funct3"] = funct3
  BY <1>5, <1>6, <1>8
<1>11. /\ Extract(word, <<0, 7>>) = 19
       /\ Extract(word, <<12, 15>>) = funct3
  BY ShiftLine
<1>12. /\ IRanges["opcode"] = <<0, 7>>
       /\ IRanges["funct3"] = <<12, 15>>
  BY DEF IRanges
<1>13. IRanges["opcode"][2] - IRanges["opcode"][1] = 7 /\ Power(7) = 128
  BY <1>12, Powers DEF Power
<1>14. Extract(word, IRanges["opcode"]) =
         fixed["opcode"] % Power(IRanges["opcode"][2] - IRanges["opcode"][1])
  BY <1>10, <1>11, <1>12, <1>13
<1>15. IRanges["funct3"][2] - IRanges["funct3"][1] = 3 /\ Power(3) = 8
  BY <1>12, Powers DEF Power
<1>16. (funct3 % 8) = funct3
  BY SMT
<1>17. Extract(word, IRanges["funct3"]) =
         fixed["funct3"] % Power(IRanges["funct3"][2] - IRanges["funct3"][1])
  BY <1>10, <1>11, <1>12, <1>15, <1>16
<1>18. \A e \in DOMAIN fixed \cap layout :
         Extract(word, IRanges[e]) =
           fixed[e] % Power(IRanges[e][2] - IRanges[e][1])
  BY Zenon, <1>9, <1>14, <1>17
<1>19. IsPlus(fixed, insn.cls.defaults, insn.kwargs)
  BY <1>3, <1>4, <1>7
<1>20. HasFields(insn, word, fixed)
  BY Zenon, <1>3, <1>4, <1>18 DEF HasFields
<1>21. Fixed(insn, word)
  BY Zenon, <1>19, <1>20, FixedIs
<1> QED BY <1>2, <1>21

LEMMA LoadFixed ==
  ASSUME NEW funct3 \in 0 .. 7, NEW given, NEW word, word = value(Load(funct3), given),
         word # Refused, {"rd", "rs1off"} \subseteq DOMAIN given, given["rd"] \in 0 .. 31,
         given["rs1off"][1] \in Int, given["rs1off"][2] \in 0 .. 31
  PROVE  Fixed(Load(funct3), word)
<1> DEFINE kwargs == [opcode |-> 3, funct3 |-> funct3]
           defaults == [opcode |-> 19]
           layout == {"opcode", "rd", "funct3", "rs1", "imm"}
<1>1. PICK insn : insn = Insn(I, kwargs, <<RS1OffXfrm>>, <<"rd", "rs1off">>)
  OBVIOUS
<1>2. insn = Load(funct3)
  BY <1>1, LoadForm
<1>3. insn.cls = I /\ insn.kwargs = kwargs /\ insn.xfrms = <<RS1OffXfrm>>
  BY <1>1, InsnParts
<1>4. ToSet(I.layout) = layout /\ I.ranges = IRanges /\ I.defaults = defaults
  BY Formats, IIs
<1>5. DOMAIN defaults = {"opcode"} /\ DOMAIN kwargs = {"opcode", "funct3"}
  OBVIOUS
<1>6. /\ defaults["opcode"] = 19
      /\ kwargs["opcode"] = 3
      /\ kwargs["funct3"] = funct3
  OBVIOUS
<1> HIDE DEF kwargs, defaults
<1>7. PICK fixed : IsPlus(fixed, defaults, kwargs)
  BY PlusIs
<1>8. /\ DOMAIN fixed = DOMAIN defaults \cup DOMAIN kwargs
      /\ \A e \in DOMAIN kwargs : fixed[e] = kwargs[e]
      /\ \A e \in DOMAIN defaults : e \notin DOMAIN kwargs => fixed[e] = defaults[e]
  BY <1>7 DEF IsPlus
<1>9. DOMAIN fixed \cap layout = {"opcode", "funct3"}
  BY <1>5, <1>8
<1>10. /\ fixed["opcode"] = 3
       /\ fixed["funct3"] = funct3
  BY <1>5, <1>6, <1>8
<1>11. /\ Extract(word, <<0, 7>>) = 3
       /\ Extract(word, <<12, 15>>) = funct3
  BY LoadLine
<1>12. /\ IRanges["opcode"] = <<0, 7>>
       /\ IRanges["funct3"] = <<12, 15>>
  BY DEF IRanges
<1>13. IRanges["opcode"][2] - IRanges["opcode"][1] = 7 /\ Power(7) = 128
  BY <1>12, Powers DEF Power
<1>14. Extract(word, IRanges["opcode"]) =
         fixed["opcode"] % Power(IRanges["opcode"][2] - IRanges["opcode"][1])
  BY <1>10, <1>11, <1>12, <1>13
<1>15. IRanges["funct3"][2] - IRanges["funct3"][1] = 3 /\ Power(3) = 8
  BY <1>12, Powers DEF Power
<1>16. (funct3 % 8) = funct3
  BY SMT
<1>17. Extract(word, IRanges["funct3"]) =
         fixed["funct3"] % Power(IRanges["funct3"][2] - IRanges["funct3"][1])
  BY <1>10, <1>11, <1>12, <1>15, <1>16
<1>18. \A e \in DOMAIN fixed \cap layout :
         Extract(word, IRanges[e]) =
           fixed[e] % Power(IRanges[e][2] - IRanges[e][1])
  BY Zenon, <1>9, <1>14, <1>17
<1>19. IsPlus(fixed, insn.cls.defaults, insn.kwargs)
  BY <1>3, <1>4, <1>7
<1>20. HasFields(insn, word, fixed)
  BY Zenon, <1>3, <1>4, <1>18 DEF HasFields
<1>21. Fixed(insn, word)
  BY Zenon, <1>19, <1>20, FixedIs
<1> QED BY <1>2, <1>21

LEMMA FenceFixed ==
  ASSUME NEW given, NEW word, word = value(Fence(0), given), word # Refused,
         {"pred", "succ"} \subseteq DOMAIN given, given["pred"] \subseteq ToSet(FenceLetter),
         given["succ"] \subseteq ToSet(FenceLetter)
  PROVE  Fixed(Fence(0), word)
<1>1. PICK p : p = 0
  OBVIOUS
<1> DEFINE kwargs == [opcode |-> 15, funct3 |-> 0, rd |-> 0, rs1 |-> 0]
           defaults == [opcode |-> 19]
           layout == {"opcode", "rd", "funct3", "rs1", "imm"}
<1>2. PICK insn : insn = Insn(I, kwargs, <<FenceXfrm(p)>>, <<"pred", "succ">>)
  OBVIOUS
<1>3. insn = Fence(p)
  BY <1>2, FenceForm
<1>4. insn.cls = I /\ insn.kwargs = kwargs /\ insn.xfrms = <<FenceXfrm(p)>>
  BY <1>2, InsnParts
<1>5. ToSet(I.layout) = layout /\ I.ranges = IRanges /\ I.defaults = defaults
  BY Formats, IIs
<1>6. DOMAIN defaults = {"opcode"} /\ DOMAIN kwargs = {"opcode", "funct3", "rd", "rs1"}
  OBVIOUS
<1>7. /\ defaults["opcode"] = 19
      /\ kwargs["opcode"] = 15
      /\ kwargs["funct3"] = 0
      /\ kwargs["rd"] = 0
      /\ kwargs["rs1"] = 0
  OBVIOUS
<1> HIDE DEF kwargs, defaults
<1>8. PICK fixed : IsPlus(fixed, defaults, kwargs)
  BY PlusIs
<1>9. /\ DOMAIN fixed = DOMAIN defaults \cup DOMAIN kwargs
      /\ \A e \in DOMAIN kwargs : fixed[e] = kwargs[e]
      /\ \A e \in DOMAIN defaults : e \notin DOMAIN kwargs => fixed[e] = defaults[e]
  BY <1>8 DEF IsPlus
<1>10. DOMAIN fixed \cap layout = {"opcode", "rd", "funct3", "rs1"}
  BY <1>6, <1>9
<1>11. /\ fixed["opcode"] = 15
       /\ fixed["rd"] = 0
       /\ fixed["funct3"] = 0
       /\ fixed["rs1"] = 0
  BY <1>6, <1>7, <1>9
<1>12. /\ Extract(word, <<0, 7>>) = 15
       /\ Extract(word, <<7, 12>>) = 0
       /\ Extract(word, <<12, 15>>) = 0
       /\ Extract(word, <<15, 20>>) = 0
  BY FenceLine
<1>13. /\ IRanges["opcode"] = <<0, 7>>
       /\ IRanges["rd"] = <<7, 12>>
       /\ IRanges["funct3"] = <<12, 15>>
       /\ IRanges["rs1"] = <<15, 20>>
  BY DEF IRanges
<1>14. IRanges["opcode"][2] - IRanges["opcode"][1] = 7 /\ Power(7) = 128
  BY <1>13, Powers DEF Power
<1>15. Extract(word, IRanges["opcode"]) =
         fixed["opcode"] % Power(IRanges["opcode"][2] - IRanges["opcode"][1])
  BY <1>11, <1>12, <1>13, <1>14
<1>16. IRanges["rd"][2] - IRanges["rd"][1] = 5 /\ Power(5) = 32
  BY <1>13, Powers DEF Power
<1>17. Extract(word, IRanges["rd"]) =
         fixed["rd"] % Power(IRanges["rd"][2] - IRanges["rd"][1])
  BY <1>11, <1>12, <1>13, <1>16
<1>18. IRanges["funct3"][2] - IRanges["funct3"][1] = 3 /\ Power(3) = 8
  BY <1>13, Powers DEF Power
<1>19. Extract(word, IRanges["funct3"]) =
         fixed["funct3"] % Power(IRanges["funct3"][2] - IRanges["funct3"][1])
  BY <1>11, <1>12, <1>13, <1>18
<1>20. IRanges["rs1"][2] - IRanges["rs1"][1] = 5 /\ Power(5) = 32
  BY <1>13, Powers DEF Power
<1>21. Extract(word, IRanges["rs1"]) =
         fixed["rs1"] % Power(IRanges["rs1"][2] - IRanges["rs1"][1])
  BY <1>11, <1>12, <1>13, <1>20
<1>22. \A e \in DOMAIN fixed \cap layout :
         Extract(word, IRanges[e]) =
           fixed[e] % Power(IRanges[e][2] - IRanges[e][1])
  BY Zenon, <1>10, <1>15, <1>17, <1>19, <1>21
<1>23. IsPlus(fixed, insn.cls.defaults, insn.kwargs)
  BY <1>4, <1>5, <1>8
<1>24. HasFields(insn, word, fixed)
  BY Zenon, <1>4, <1>5, <1>22 DEF HasFields
<1>25. Fixed(insn, word)
  BY Zenon, <1>23, <1>24, FixedIs
<1> QED BY <1>3, <1>25, <1>1

LEMMA SystemFixed ==
  ASSUME NEW funct \in 0 .. 8, NEW given, NEW word, word = value(System(funct), given),
         word # Refused, {"funct"} \cap DOMAIN given = {}
  PROVE  Fixed(System(funct), word)
<1> DEFINE kwargs == [opcode |-> 115, rd |-> 0, rs1 |-> 0, funct |-> funct]
           defaults == [opcode |-> 19]
           layout == {"opcode", "rd", "funct3", "rs1", "imm"}
<1>1. PICK insn : insn = Insn(I, kwargs, <<SystemXfrm>>, <<>>)
  OBVIOUS
<1>2. insn = System(funct)
  BY <1>1, SystemForm
<1>3. insn.cls = I /\ insn.kwargs = kwargs /\ insn.xfrms = <<SystemXfrm>>
  BY <1>1, InsnParts
<1>4. ToSet(I.layout) = layout /\ I.ranges = IRanges /\ I.defaults = defaults
  BY Formats, IIs
<1>5. DOMAIN defaults = {"opcode"} /\ DOMAIN kwargs = {"opcode", "rd", "rs1", "funct"}
  OBVIOUS
<1>6. /\ defaults["opcode"] = 19
      /\ kwargs["opcode"] = 115
      /\ kwargs["rd"] = 0
      /\ kwargs["rs1"] = 0
      /\ kwargs["funct"] = funct
  OBVIOUS
<1> HIDE DEF kwargs, defaults
<1>7. PICK fixed : IsPlus(fixed, defaults, kwargs)
  BY PlusIs
<1>8. /\ DOMAIN fixed = DOMAIN defaults \cup DOMAIN kwargs
      /\ \A e \in DOMAIN kwargs : fixed[e] = kwargs[e]
      /\ \A e \in DOMAIN defaults : e \notin DOMAIN kwargs => fixed[e] = defaults[e]
  BY <1>7 DEF IsPlus
<1>9. DOMAIN fixed \cap layout = {"opcode", "rd", "rs1"}
  BY <1>5, <1>8
<1>10. /\ fixed["opcode"] = 115
       /\ fixed["rd"] = 0
       /\ fixed["rs1"] = 0
  BY <1>5, <1>6, <1>8
<1>11. /\ Extract(word, <<0, 7>>) = 115
       /\ Extract(word, <<7, 12>>) = 0
       /\ Extract(word, <<15, 20>>) = 0
  BY SystemLine
<1>12. /\ IRanges["opcode"] = <<0, 7>>
       /\ IRanges["rd"] = <<7, 12>>
       /\ IRanges["rs1"] = <<15, 20>>
  BY DEF IRanges
<1>13. IRanges["opcode"][2] - IRanges["opcode"][1] = 7 /\ Power(7) = 128
  BY <1>12, Powers DEF Power
<1>14. Extract(word, IRanges["opcode"]) =
         fixed["opcode"] % Power(IRanges["opcode"][2] - IRanges["opcode"][1])
  BY <1>10, <1>11, <1>12, <1>13
<1>15. IRanges["rd"][2] - IRanges["rd"][1] = 5 /\ Power(5) = 32
  BY <1>12, Powers DEF Power
<1>16. Extract(word, IRanges["rd"]) =
         fixed["rd"] % Power(IRanges["rd"][2] - IRanges["rd"][1])
  BY <1>10, <1>11, <1>12, <1>15
<1>17. IRanges["rs1"][2] - IRanges["rs1"][1] = 5 /\ Power(5) = 32
  BY <1>12, Powers DEF Power
<1>18. Extract(word, IRanges["rs1"]) =
         fixed["rs1"] % Power(IRanges["rs1"][2] - IRanges["rs1"][1])
  BY <1>10, <1>11, <1>12, <1>17
<1>19. \A e \in DOMAIN fixed \cap layout :
         Extract(word, IRanges[e]) =
           fixed[e] % Power(IRanges[e][2] - IRanges[e][1])
  BY Zenon, <1>9, <1>14, <1>16, <1>18
<1>20. IsPlus(fixed, insn.cls.defaults, insn.kwargs)
  BY <1>3, <1>4, <1>7
<1>21. HasFields(insn, word, fixed)
  BY Zenon, <1>3, <1>4, <1>19 DEF HasFields
<1>22. Fixed(insn, word)
  BY Zenon, <1>20, <1>21, FixedIs
<1> QED BY <1>2, <1>22

LEMMA StoreFixed ==
  ASSUME NEW funct3 \in 0 .. 7, NEW given, NEW word, word = value(Store(funct3), given),
         word # Refused, {"rs2", "rs1off"} \subseteq DOMAIN given, given["rs2"] \in 0 .. 31,
         given["rs1off"][1] \in Int, given["rs1off"][2] \in 0 .. 31
  PROVE  Fixed(Store(funct3), word)
<1> DEFINE kwargs == [funct3 |-> funct3]
           defaults == [opcode |-> 35]
           layout == {"opcode", "imm4_0", "funct3", "rs1", "rs2", "imm11_5"}
<1>1. PICK insn : insn = Insn(S, kwargs, <<RS1OffXfrm, ImmXfrm(S)>>, <<"rs2", "rs1off">>)
  OBVIOUS
<1>2. insn = Store(funct3)
  BY <1>1, StoreForm
<1>3. insn.cls = S /\ insn.kwargs = kwargs /\ insn.xfrms = <<RS1OffXfrm, ImmXfrm(S)>>
  BY <1>1, InsnParts
<1>4. ToSet(S.layout) = layout /\ S.ranges = SRanges /\ S.defaults = defaults
  BY Formats, SIs
<1>5. DOMAIN defaults = {"opcode"} /\ DOMAIN kwargs = {"funct3"}
  OBVIOUS
<1>6. /\ defaults["opcode"] = 35
      /\ kwargs["funct3"] = funct3
  OBVIOUS
<1> HIDE DEF kwargs, defaults
<1>7. PICK fixed : IsPlus(fixed, defaults, kwargs)
  BY PlusIs
<1>8. /\ DOMAIN fixed = DOMAIN defaults \cup DOMAIN kwargs
      /\ \A e \in DOMAIN kwargs : fixed[e] = kwargs[e]
      /\ \A e \in DOMAIN defaults : e \notin DOMAIN kwargs => fixed[e] = defaults[e]
  BY <1>7 DEF IsPlus
<1>9. DOMAIN fixed \cap layout = {"opcode", "funct3"}
  BY <1>5, <1>8
<1>10. /\ fixed["opcode"] = 35
       /\ fixed["funct3"] = funct3
  BY <1>5, <1>6, <1>8
<1>11. /\ Extract(word, <<0, 7>>) = 35
       /\ Extract(word, <<12, 15>>) = funct3
  BY StoreLine
<1>12. /\ SRanges["opcode"] = <<0, 7>>
       /\ SRanges["funct3"] = <<12, 15>>
  BY DEF SRanges
<1>13. SRanges["opcode"][2] - SRanges["opcode"][1] = 7 /\ Power(7) = 128
  BY <1>12, Powers DEF Power
<1>14. Extract(word, SRanges["opcode"]) =
         fixed["opcode"] % Power(SRanges["opcode"][2] - SRanges["opcode"][1])
  BY <1>10, <1>11, <1>12, <1>13
<1>15. SRanges["funct3"][2] - SRanges["funct3"][1] = 3 /\ Power(3) = 8
  BY <1>12, Powers DEF Power
<1>16. (funct3 % 8) = funct3
  BY SMT
<1>17. Extract(word, SRanges["funct3"]) =
         fixed["funct3"] % Power(SRanges["funct3"][2] - SRanges["funct3"][1])
  BY <1>10, <1>11, <1>12, <1>15, <1>16
<1>18. \A e \in DOMAIN fixed \cap layout :
         Extract(word, SRanges[e]) =
           fixed[e] % Power(SRanges[e][2] - SRanges[e][1])
  BY Zenon, <1>9, <1>14, <1>17
<1>19. IsPlus(fixed, insn.cls.defaults, insn.kwargs)
  BY <1>3, <1>4, <1>7
<1>20. HasFields(insn, word, fixed)
  BY Zenon, <1>3, <1>4, <1>18 DEF HasFields
<1>21. Fixed(insn, word)
  BY Zenon, <1>19, <1>20, FixedIs
<1> QED BY <1>2, <1>21

LEMMA BranchFixed ==
  ASSUME NEW funct3 \in 0 .. 7, NEW given, NEW word, word = value(Branch(funct3), given),
         word # Refused, {"rs1", "rs2", "imm"} \subseteq DOMAIN given,
         given["rs1"] \in 0 .. 31, given["rs2"] \in 0 .. 31, given["imm"] \in Int
  PROVE  Fixed(Branch(funct3), word)
<1> DEFINE kwargs == [funct3 |-> funct3]
           defaults == [opcode |-> 99]
           layout == {"opcode", "imm11", "imm4_1", "funct3", "rs1", "rs2", "imm10_5", "imm12"}
<1>1. PICK insn : insn = Insn(B, kwargs, <<ImmXfrm(B)>>, <<"rs1", "rs2", "imm">>)
  OBVIOUS
<1>2. insn = Branch(funct3)
  BY <1>1, BranchForm
<1>3. insn.cls = B /\ insn.kwargs = kwargs /\ insn.xfrms = <<ImmXfrm(B)>>
  BY <1>1, InsnParts
<1>4. ToSet(B.layout) = layout /\ B.ranges = BRanges /\ B.defaults = defaults
  BY Formats, BIs
<1>5. DOMAIN defaults = {"opcode"} /\ DOMAIN kwargs = {"funct3"}
  OBVIOUS
<1>6. /\ defaults["opcode"] = 99
      /\ kwargs["funct3"] = funct3
  OBVIOUS
<1> HIDE DEF kwargs, defaults
<1>7. PICK fixed : IsPlus(fixed, defaults, kwargs)
  BY PlusIs
<1>8. /\ DOMAIN fixed = DOMAIN defaults \cup DOMAIN kwargs
      /\ \A e \in DOMAIN kwargs : fixed[e] = kwargs[e]
      /\ \A e \in DOMAIN defaults : e \notin DOMAIN kwargs => fixed[e] = defaults[e]
  BY <1>7 DEF IsPlus
<1>9. DOMAIN fixed \cap layout = {"opcode", "funct3"}
  BY <1>5, <1>8
<1>10. /\ fixed["opcode"] = 99
       /\ fixed["funct3"] = funct3
  BY <1>5, <1>6, <1>8
<1>11. /\ Extract(word, <<0, 7>>) = 99
       /\ Extract(word, <<12, 15>>) = funct3
  BY BranchLine
<1>12. /\ BRanges["opcode"] = <<0, 7>>
       /\ BRanges["funct3"] = <<12, 15>>
  BY DEF BRanges
<1>13. BRanges["opcode"][2] - BRanges["opcode"][1] = 7 /\ Power(7) = 128
  BY <1>12, Powers DEF Power
<1>14. Extract(word, BRanges["opcode"]) =
         fixed["opcode"] % Power(BRanges["opcode"][2] - BRanges["opcode"][1])
  BY <1>10, <1>11, <1>12, <1>13
<1>15. BRanges["funct3"][2] - BRanges["funct3"][1] = 3 /\ Power(3) = 8
  BY <1>12, Powers DEF Power
<1>16. (funct3 % 8) = funct3
  BY SMT
<1>17. Extract(word, BRanges["funct3"]) =
         fixed["funct3"] % Power(BRanges["funct3"][2] - BRanges["funct3"][1])
  BY <1>10, <1>11, <1>12, <1>15, <1>16
<1>18. \A e \in DOMAIN fixed \cap layout :
         Extract(word, BRanges[e]) =
           fixed[e] % Power(BRanges[e][2] - BRanges[e][1])
  BY Zenon, <1>9, <1>14, <1>17
<1>19. IsPlus(fixed, insn.cls.defaults, insn.kwargs)
  BY <1>3, <1>4, <1>7
<1>20. HasFields(insn, word, fixed)
  BY Zenon, <1>3, <1>4, <1>18 DEF HasFields
<1>21. Fixed(insn, word)
  BY Zenon, <1>19, <1>20, FixedIs
<1> QED BY <1>2, <1>21

LEMMA UpperFixed ==
  ASSUME NEW opcode, opcode \in {23, 55}, NEW given, NEW word,
         word = value(Upper(opcode), given), word # Refused,
         {"rd", "imm"} \subseteq DOMAIN given, given["rd"] \in 0 .. 31, given["imm"] \in Int
  PROVE  Fixed(Upper(opcode), word)
<1> DEFINE kwargs == [opcode |-> opcode]
           defaults == <<>>
           layout == {"opcode", "rd", "imm"}
<1>1. PICK insn : insn = Insn(U, kwargs, <<CheckXfrm>>, <<"rd", "imm">>)
  OBVIOUS
<1>2. insn = Upper(opcode)
  BY <1>1, UpperForm
<1>3. insn.cls = U /\ insn.kwargs = kwargs /\ insn.xfrms = <<CheckXfrm>>
  BY <1>1, InsnParts
<1>4. ToSet(U.layout) = layout /\ U.ranges = URanges /\ U.defaults = defaults
  BY Formats, UIs
<1>5. DOMAIN defaults = {} /\ DOMAIN kwargs = {"opcode"}
  OBVIOUS
<1>6. /\ kwargs["opcode"] = opcode
  OBVIOUS
<1> HIDE DEF kwargs, defaults
<1>7. PICK fixed : IsPlus(fixed, defaults, kwargs)
  BY PlusIs
<1>8. /\ DOMAIN fixed = DOMAIN defaults \cup DOMAIN kwargs
      /\ \A e \in DOMAIN kwargs : fixed[e] = kwargs[e]
      /\ \A e \in DOMAIN defaults : e \notin DOMAIN kwargs => fixed[e] = defaults[e]
  BY <1>7 DEF IsPlus
<1>9. DOMAIN fixed \cap layout = {"opcode"}
  BY <1>5, <1>8
<1>10. /\ fixed["opcode"] = opcode
  BY <1>5, <1>6, <1>8
<1>11. /\ Extract(word, <<0, 7>>) = opcode
  BY UpperLine
<1>12. /\ URanges["opcode"] = <<0, 7>>
  BY DEF URanges
<1>13. URanges["opcode"][2] - URanges["opcode"][1] = 7 /\ Power(7) = 128
  BY <1>12, Powers DEF Power
<1>14. (opcode % 128) = opcode
  BY SMT
<1>15. Extract(word, URanges["opcode"]) =
         fixed["opcode"] % Power(URanges["opcode"][2] - URanges["opcode"][1])
  BY <1>10, <1>11, <1>12, <1>13, <1>14
<1>16. \A e \in DOMAIN fixed \cap layout :
         Extract(word, URanges[e]) =
           fixed[e] % Power(URanges[e][2] - URanges[e][1])
  BY Zenon, <1>9, <1>15
<1>17. IsPlus(fixed, insn.cls.defaults, insn.kwargs)
  BY <1>3, <1>4, <1>7
<1>18. HasFields(insn, word, fixed)
  BY Zenon, <1>3, <1>4, <1>16 DEF HasFields
<1>19. Fixed(insn, word)
  BY Zenon, <1>17, <1>18, FixedIs
<1> QED BY <1>2, <1>19

LEMMA JalrFixed ==
  ASSUME NEW given, NEW word, word = value(Jalr, given), word # Refused,
         {"rd", "rs1", "imm"} \subseteq DOMAIN given, given["rd"] \in 0 .. 31,
         given["rs1"] \in 0 .. 31, given["imm"] \in Int
  PROVE  Fixed(Jalr, word)
<1> DEFINE kwargs == [opcode |-> 103, funct3 |-> 0]
           defaults == [opcode |-> 19]
           layout == {"opcode", "rd", "funct3", "rs1", "imm"}
<1>1. PICK insn : insn = Insn(I, kwargs, <<>>, <<"rd", "rs1", "imm">>)
  OBVIOUS
<1>2. insn = Jalr
  BY <1>1, JalrForm
<1>3. insn.cls = I /\ insn.kwargs = kwargs /\ insn.xfrms = <<>>
  BY <1>1, InsnParts
<1>4. ToSet(I.layout) = layout /\ I.ranges = IRanges /\ I.defaults = defaults
  BY Formats, IIs
<1>5. DOMAIN defaults = {"opcode"} /\ DOMAIN kwargs = {"opcode", "funct3"}
  OBVIOUS
<1>6. /\ defaults["opcode"] = 19
      /\ kwargs["opcode"] = 103
      /\ kwargs["funct3"] = 0
  OBVIOUS
<1> HIDE DEF kwargs, defaults
<1>7. PICK fixed : IsPlus(fixed, defaults, kwargs)
  BY PlusIs
<1>8. /\ DOMAIN fixed = DOMAIN defaults \cup DOMAIN kwargs
      /\ \A e \in DOMAIN kwargs : fixed[e] = kwargs[e]
      /\ \A e \in DOMAIN defaults : e \notin DOMAIN kwargs => fixed[e] = defaults[e]
  BY <1>7 DEF IsPlus
<1>9. DOMAIN fixed \cap layout = {"opcode", "funct3"}
  BY <1>5, <1>8
<1>10. /\ fixed["opcode"] = 103
       /\ fixed["funct3"] = 0
  BY <1>5, <1>6, <1>8
<1>11. /\ Extract(word, <<0, 7>>) = 103
       /\ Extract(word, <<12, 15>>) = 0
  BY JalrLine
<1>12. /\ IRanges["opcode"] = <<0, 7>>
       /\ IRanges["funct3"] = <<12, 15>>
  BY DEF IRanges
<1>13. IRanges["opcode"][2] - IRanges["opcode"][1] = 7 /\ Power(7) = 128
  BY <1>12, Powers DEF Power
<1>14. Extract(word, IRanges["opcode"]) =
         fixed["opcode"] % Power(IRanges["opcode"][2] - IRanges["opcode"][1])
  BY <1>10, <1>11, <1>12, <1>13
<1>15. IRanges["funct3"][2] - IRanges["funct3"][1] = 3 /\ Power(3) = 8
  BY <1>12, Powers DEF Power
<1>16. Extract(word, IRanges["funct3"]) =
         fixed["funct3"] % Power(IRanges["funct3"][2] - IRanges["funct3"][1])
  BY <1>10, <1>11, <1>12, <1>15
<1>17. \A e \in DOMAIN fixed \cap layout :
         Extract(word, IRanges[e]) =
           fixed[e] % Power(IRanges[e][2] - IRanges[e][1])
  BY Zenon, <1>9, <1>14, <1>16
<1>18. IsPlus(fixed, insn.cls.defaults, insn.kwargs)
  BY <1>3, <1>4, <1>7
<1>19. HasFields(insn, word, fixed)
  BY Zenon, <1>3, <1>4, <1>17 DEF HasFields
<1>20. Fixed(insn, word)
  BY Zenon, <1>18, <1>19, FixedIs
<1> QED BY <1>2, <1>20

LEMMA JalFixed ==
  ASSUME NEW given, NEW word, word = value(Jal, given), word # Refused,
         {"rd", "imm"} \subseteq DOMAIN given, given["rd"] \in 0 .. 31, given["imm"] \in Int
  PROVE  Fixed(Jal, word)
<1> DEFINE kwargs == <<>>
           defaults == [opcode |-> 111]
           layout == {"opcode", "rd", "imm19_12", "imm11", "imm10_1", "imm20"}
<1>1. PICK insn : insn = Insn(J, kwargs, <<ImmXfrm(J)>>, <<"rd", "imm">>)
  OBVIOUS
<1>2. insn = Jal
  BY <1>1, JalForm
<1>3. insn.cls = J /\ insn.kwargs = kwargs /\ insn.xfrms = <<ImmXfrm(J)>>
  BY <1>1, InsnParts
<1>4. ToSet(J.layout) = layout /\ J.ranges = JRanges /\ J.defaults = defaults
  BY Formats, JIs
<1>5. DOMAIN defaults = {"opcode"} /\ DOMAIN kwargs = {}
  OBVIOUS
<1>6. /\ defaults["opcode"] = 111
  OBVIOUS
<1> HIDE DEF kwargs, defaults
<1>7. PICK fixed : IsPlus(fixed, defaults, kwargs)
  BY PlusIs
<1>8. /\ DOMAIN fixed = DOMAIN defaults \cup DOMAIN kwargs
      /\ \A e \in DOMAIN kwargs : fixed[e] = kwargs[e]
      /\ \A e \in DOMAIN defaults : e \notin DOMAIN kwargs => fixed[e] = defaults[e]
  BY <1>7 DEF IsPlus
<1>9. DOMAIN fixed \cap layout = {"opcode"}
  BY <1>5, <1>8
<1>10. /\ fixed["opcode"] = 111
  BY <1>5, <1>6, <1>8
<1>11. /\ Extract(word, <<0, 7>>) = 111
  BY JalLine
<1>12. /\ JRanges["opcode"] = <<0, 7>>
  BY DEF JRanges
<1>13. JRanges["opcode"][2] - JRanges["opcode"][1] = 7 /\ Power(7) = 128
  BY <1>12, Powers DEF Power
<1>14. Extract(word, JRanges["opcode"]) =
         fixed["opcode"] % Power(JRanges["opcode"][2] - JRanges["opcode"][1])
  BY <1>10, <1>11, <1>12, <1>13
<1>15. \A e \in DOMAIN fixed \cap layout :
         Extract(word, JRanges[e]) =
           fixed[e] % Power(JRanges[e][2] - JRanges[e][1])
  BY Zenon, <1>9, <1>14
<1>16. IsPlus(fixed, insn.cls.defaults, insn.kwargs)
  BY <1>3, <1>4, <1>7
<1>17. HasFields(insn, word, fixed)
  BY Zenon, <1>3, <1>4, <1>15 DEF HasFields
<1>18. Fixed(insn, word)
  BY Zenon, <1>16, <1>17, FixedIs
<1> QED BY <1>2, <1>18

LEMMA FenceTSOFixed ==
  ASSUME NEW given, NEW word, word = value(Insns.FENCE_TSO, given), word # Refused,
         {"pred", "succ"} \cap DOMAIN given = {}
  PROVE  Fixed(Insns.FENCE_TSO, word)
<1> DEFINE kwargs == [opcode |-> 15, funct3 |-> 0, rd |-> 0, rs1 |-> 0, pred |-> {"r", "w"},
      succ |-> {"r", "w"}]
           defaults == [opcode |-> 19]
           layout == {"opcode", "rd", "funct3", "rs1", "imm"}
<1>1. PICK insn : insn = Insn(I, kwargs, <<FenceXfrm(8)>>, <<>>)
  OBVIOUS
<1>2. insn = Insns.FENCE_TSO
  BY <1>1, FenceTSOForm
<1>3. insn.cls = I /\ insn.kwargs = kwargs /\ insn.xfrms = <<FenceXfrm(8)>>
  BY <1>1, InsnParts
<1>4. ToSet(I.layout) = layout /\ I.ranges = IRanges /\ I.defaults = defaults
  BY Formats, IIs
<1>5. DOMAIN defaults = {"opcode"} /\ DOMAIN kwargs =
        {"opcode", "funct3", "rd", "rs1", "pred", "succ"}
  OBVIOUS
<1>6. /\ defaults["opcode"] = 19
      /\ kwargs["opcode"] = 15
      /\ kwargs["funct3"] = 0
      /\ kwargs["rd"] = 0
      /\ kwargs["rs1"] = 0
      /\ kwargs["pred"] = {"r", "w"}
      /\ kwargs["succ"] = {"r", "w"}
  OBVIOUS
<1> HIDE DEF kwargs, defaults
<1>7. PICK fixed : IsPlus(fixed, defaults, kwargs)
  BY PlusIs
<1>8. /\ DOMAIN fixed = DOMAIN defaults \cup DOMAIN kwargs
      /\ \A e \in DOMAIN kwargs : fixed[e] = kwargs[e]
      /\ \A e \in DOMAIN defaults : e \notin DOMAIN kwargs => fixed[e] = defaults[e]
  BY <1>7 DEF IsPlus
<1>9. DOMAIN fixed \cap layout = {"opcode", "rd", "funct3", "rs1"}
  BY <1>5, <1>8
<1>10. /\ fixed["opcode"] = 15
       /\ fixed["rd"] = 0
       /\ fixed["funct3"] = 0
       /\ fixed["rs1"] = 0
  BY <1>5, <1>6, <1>8
<1>11. /\ Extract(word, <<0, 7>>) = 15
       /\ Extract(word, <<7, 12>>) = 0
       /\ Extract(word, <<12, 15>>) = 0
       /\ Extract(word, <<15, 20>>) = 0
  BY FenceTSOLine
<1>12. /\ IRanges["opcode"] = <<0, 7>>
       /\ IRanges["rd"] = <<7, 12>>
       /\ IRanges["funct3"] = <<12, 15>>
       /\ IRanges["rs1"] = <<15, 20>>
  BY DEF IRanges
<1>13. IRanges["opcode"][2] - IRanges["opcode"][1] = 7 /\ Power(7) = 128
  BY <1>12, Powers DEF Power
<1>14. Extract(word, IRanges["opcode"]) =
         fixed["opcode"] % Power(IRanges["opcode"][2] - IRanges["opcode"][1])
  BY <1>10, <1>11, <1>12, <1>13
<1>15. IRanges["rd"][2] - IRanges["rd"][1] = 5 /\ Power(5) = 32
  BY <1>12, Powers DEF Power
<1>16. Extract(word, IRanges["rd"]) =
         fixed["rd"] % Power(IRanges["rd"][2] - IRanges["rd"][1])
  BY <1>10, <1>11, <1>12, <1>15
<1>17. IRanges["funct3"][2] - IRanges["funct3"][1] = 3 /\ Power(3) = 8
  BY <1>12, Powers DEF Power
<1>18. Extract(word, IRanges["funct3"]) =
         fixed["funct3"] % Power(IRanges["funct3"][2] - IRanges["funct3"][1])
  BY <1>10, <1>11, <1>12, <1>17
<1>19. IRanges["rs1"][2] - IRanges["rs1"][1] = 5 /\ Power(5) = 32
  BY <1>12, Powers DEF Power
<1>20. Extract(word, IRanges["rs1"]) =
         fixed["rs1"] % Power(IRanges["rs1"][2] - IRanges["rs1"][1])
  BY <1>10, <1>11, <1>12, <1>19
<1>21. \A e \in DOMAIN fixed \cap layout :
         Extract(word, IRanges[e]) =
           fixed[e] % Power(IRanges[e][2] - IRanges[e][1])
  BY Zenon, <1>9, <1>14, <1>16, <1>18, <1>20
<1>22. IsPlus(fixed, insn.cls.defaults, insn.kwargs)
  BY <1>3, <1>4, <1>7
<1>23. HasFields(insn, word, fixed)
  BY Zenon, <1>3, <1>4, <1>21 DEF HasFields
<1>24. Fixed(insn, word)
  BY Zenon, <1>22, <1>23, FixedIs
<1> QED BY <1>2, <1>24

LEMMA SnezFixed ==
  ASSUME NEW given, NEW word, word = value(Insns.SNEZ, given), word # Refused,
         {"rd", "rs2"} \subseteq DOMAIN given, given["rd"] \in 0 .. 31, given["rs2"] \in 0 .. 31
  PROVE  Fixed(Insns.SNEZ, word)
<1> DEFINE kwargs == [funct3 |-> 3, rs1 |-> Reg("zero")]
           defaults == [opcode |-> 51, funct7 |-> 0]
           layout == {"opcode", "rd", "funct3", "rs1", "rs2", "funct7"}
<1>1. PICK insn : insn = Insn(R, kwargs, <<>>, <<"rd", "rs2">>)
  OBVIOUS
<1>2. insn = Insns.SNEZ
  BY <1>1, SnezForm
<1>3. insn.cls = R /\ insn.kwargs = kwargs /\ insn.xfrms = <<>>
  BY <1>1, InsnParts
<1>4. ToSet(R.layout) = layout /\ R.ranges = RRanges /\ R.defaults = defaults
  BY Formats, RIs
<1>5. DOMAIN defaults = {"opcode", "funct7"} /\ DOMAIN kwargs = {"funct3", "rs1"}
  OBVIOUS
<1>6. /\ defaults["opcode"] = 51
      /\ defaults["funct7"] = 0
      /\ kwargs["funct3"] = 3
      /\ kwargs["rs1"] = 0
  BY RegValues
<1> HIDE DEF kwargs, defaults
<1>7. PICK fixed : IsPlus(fixed, defaults, kwargs)
  BY PlusIs
<1>8. /\ DOMAIN fixed = DOMAIN defaults \cup DOMAIN kwargs
      /\ \A e \in DOMAIN kwargs : fixed[e] = kwargs[e]
      /\ \A e \in DOMAIN defaults : e \notin DOMAIN kwargs => fixed[e] = defaults[e]
  BY <1>7 DEF IsPlus
<1>9. DOMAIN fixed \cap layout = {"opcode", "funct3", "rs1", "funct7"}
  BY <1>5, <1>8
<1>10. /\ fixed["opcode"] = 51
       /\ fixed["funct3"] = 3
       /\ fixed["rs1"] = 0
       /\ fixed["funct7"] = 0
  BY <1>5, <1>6, <1>8
<1>11. /\ Extract(word, <<0, 7>>) = 51
       /\ Extract(word, <<12, 15>>) = 3
       /\ Extract(word, <<15, 20>>) = 0
       /\ Extract(word, <<25, 32>>) = 0
  BY SnezLine
<1>12. /\ RRanges["opcode"] = <<0, 7>>
       /\ RRanges["funct3"] = <<12, 15>>
       /\ RRanges["rs1"] = <<15, 20>>
       /\ RRanges["funct7"] = <<25, 32>>
  BY DEF RRanges
<1>13. RRanges["opcode"][2] - RRanges["opcode"][1] = 7 /\ Power(7) = 128
  BY <1>12, Powers DEF Power
<1>14. Extract(word, RRanges["opcode"]) =
         fixed["opcode"] % Power(RRanges["opcode"][2] - RRanges["opcode"][1])
  BY <1>10, <1>11, <1>12, <1>13
<1>15. RRanges["funct3"][2] - RRanges["funct3"][1] = 3 /\ Power(3) = 8
  BY <1>12, Powers DEF Power
<1>16. Extract(word, RRanges["funct3"]) =
         fixed["funct3"] % Power(RRanges["funct3"][2] - RRanges["funct3"][1])
  BY <1>10, <1>11, <1>12, <1>15
<1>17. RRanges["rs1"][2] - RRanges["rs1"][1] = 5 /\ Power(5) = 32
  BY <1>12, Powers DEF Power
<1>18. Extract(word, RRanges["rs1"]) =
         fixed["rs1"] % Power(RRanges["rs1"][2] - RRanges["rs1"][1])
  BY <1>10, <1>11, <1>12, <1>17
<1>19. RRanges["funct7"][2] - RRanges["funct7"][1] = 7 /\ Power(7) = 128
  BY <1>12, Powers DEF Power
<1>20. Extract(word, RRanges["funct7"]) =
         fixed["funct7"] % Power(RRanges["funct7"][2] - RRanges["funct7"][1])
  BY <1>10, <1>11, <1>12, <1>19
<1>21. \A e \in DOMAIN fixed \cap layout :
         Extract(word, RRanges[e]) =
           fixed[e] % Power(RRanges[e][2] - RRanges[e][1])
  BY Zenon, <1>9, <1>14, <1>16, <1>18, <1>20
<1>22. IsPlus(fixed, insn.cls.defaults, insn.kwargs)
  BY <1>3, <1>4, <1>7
<1>23. HasFields(insn, word, fixed)
  BY Zenon, <1>3, <1>4, <1>21 DEF HasFields
<1>24. Fixed(insn, word)
  BY Zenon, <1>22, <1>23, FixedIs
<1> QED BY <1>2, <1>24

LEMMA RetFixed ==
  ASSUME NEW given, NEW word, word = value(Insns.RET, given), word # Refused
  PROVE  Fixed(Insns.RET, word)
<1> DEFINE kwargs == [opcode |-> 103, funct3 |-> 0, rd |-> Reg("zero"), rs1 |-> Reg("ra"),
      imm |-> 0]
           defaults == [opcode |-> 19]
           layout == {"opcode", "rd", "funct3", "rs1", "imm"}
<1>1. PICK insn : insn = Insn(I, kwargs, <<>>, <<>>)
  OBVIOUS
<1>2. insn = Insns.RET
  BY <1>1, RetForm
<1>3. insn.cls = I /\ insn.kwargs = kwargs /\ insn.xfrms = <<>>
  BY <1>1, InsnParts
<1>4. ToSet(I.layout) = layout /\ I.ranges = IRanges /\ I.defaults = defaults
  BY Formats, IIs
<1>5. DOMAIN defaults = {"opcode"} /\ DOMAIN kwargs = {"opcode", "funct3", "rd", "rs1", "imm"}
  OBVIOUS
<1>6. /\ defaults["opcode"] = 19
      /\ kwargs["opcode"] = 103
      /\ kwargs["funct3"] = 0
      /\ kwargs["rd"] = 0
      /\ kwargs["rs1"] = 1
      /\ kwargs["imm"] = 0
  BY RegValues
<1> HIDE DEF kwargs, defaults
<1>7. PICK fixed : IsPlus(fixed, defaults, kwargs)
  BY PlusIs
<1>8. /\ DOMAIN fixed = DOMAIN defaults \cup DOMAIN kwargs
      /\ \A e \in DOMAIN kwargs : fixed[e] = kwargs[e]
      /\ \A e \in DOMAIN defaults : e \notin DOMAIN kwargs => fixed[e] = defaults[e]
  BY <1>7 DEF IsPlus
<1>9. DOMAIN fixed \cap layout = {"opcode", "rd", "funct3", "rs1", "imm"}
  BY <1>5, <1>8
<1>10. /\ fixed["opcode"] = 103
       /\ fixed["rd"] = 0
       /\ fixed["funct3"] = 0
       /\ fixed["rs1"] = 1
       /\ fixed["imm"] = 0
  BY <1>5, <1>6, <1>8
<1>11. /\ Extract(word, <<0, 7>>) = 103
       /\ Extract(word, <<7, 12>>) = 0
       /\ Extract(word, <<12, 15>>) = 0
       /\ Extract(word, <<15, 20>>) = 1
       /\ Extract(word, <<20, 32>>) = 0
  BY RetLine
<1>12. /\ IRanges["opcode"] = <<0, 7>>
       /\ IRanges["rd"] = <<7, 12>>
       /\ IRanges["funct3"] = <<12, 15>>
       /\ IRanges["rs1"] = <<15, 20>>
       /\ IRanges["imm"] = <<20, 32>>
  BY DEF IRanges
<1>13. IRanges["opcode"][2] - IRanges["opcode"][1] = 7 /\ Power(7) = 128
  BY <1>12, Powers DEF Power
<1>14. Extract(word, IRanges["opcode"]) =
         fixed["opcode"] % Power(IRanges["opcode"][2] - IRanges["opcode"][1])
  BY <1>10, <1>11, <1>12, <1>13
<1>15. IRanges["rd"][2] - IRanges["rd"][1] = 5 /\ Power(5) = 32
  BY <1>12, Powers DEF Power
<1>16. Extract(word, IRanges["rd"]) =
         fixed["rd"] % Power(IRanges["rd"][2] - IRanges["rd"][1])
  BY <1>10, <1>11, <1>12, <1>15
<1>17. IRanges["funct3"][2] - IRanges["funct3"][1] = 3 /\ Power(3) = 8
  BY <1>12, Powers DEF Power
<1>18. Extract(word, IRanges["funct3"]) =
         fixed["funct3"] % Power(IRanges["funct3"][2] - IRanges["funct3"][1])
  BY <1>10, <1>11, <1>12, <1>17
<1>19. IRanges["rs1"][2] - IRanges["rs1"][1] = 5 /\ Power(5) = 32
  BY <1>12, Powers DEF Power
<1>20. Extract(word, IRanges["rs1"]) =
         fixed["rs1"] % Power(IRanges["rs1"][2] - IRanges["rs1"][1])
  BY <1>10, <1>11, <1>12, <1>19
<1>21. IRanges["imm"][2] - IRanges["imm"][1] = 12 /\ Power(12) = 4096
  BY <1>12, Powers DEF Power
<1>22. Extract(word, IRanges["imm"]) =
         fixed["imm"] % Power(IRanges["imm"][2] - IRanges["imm"][1])
  BY <1>10, <1>11, <1>12, <1>21
<1>23. \A e \in DOMAIN fixed \cap layout :
         Extract(word, IRanges[e]) =
           fixed[e] % Power(IRanges[e][2] - IRanges[e][1])
  BY Zenon, <1>9, <1>14, <1>16, <1>18, <1>20, <1>22
<1>24. IsPlus(fixed, insn.cls.defaults, insn.kwargs)
  BY <1>3, <1>4, <1>7
<1>25. HasFields(insn, word, fixed)
  BY Zenon, <1>3, <1>4, <1>23 DEF HasFields
<1>26. Fixed(insn, word)
  BY Zenon, <1>24, <1>25, FixedIs
<1> QED BY <1>2, <1>26

LEMMA MvFixed ==
  ASSUME NEW given, NEW word, word = value(Insns.MV, given), word # Refused,
         {"rd", "rs1"} \subseteq DOMAIN given, given["rd"] \in 0 .. 31, given["rs1"] \in 0 .. 31
  PROVE  Fixed(Insns.MV, word)
<1> DEFINE kwargs == [funct3 |-> 0, imm |-> 0]
           defaults == [opcode |-> 19]
           layout == {"opcode", "rd", "funct3", "rs1", "imm"}
<1>1. PICK insn : insn = Insn(I, kwargs, <<>>, <<"rd", "rs1">>)
  OBVIOUS
<1>2. insn = Insns.MV
  BY <1>1, MvForm
<1>3. insn.cls = I /\ insn.kwargs = kwargs /\ insn.xfrms = <<>>
  BY <1>1, InsnParts
<1>4. ToSet(I.layout) = layout /\ I.ranges = IRanges /\ I.defaults = defaults
  BY Formats, IIs
<1>5. DOMAIN defaults = {"opcode"} /\ DOMAIN kwargs = {"funct3", "imm"}
  OBVIOUS
<1>6. /\ defaults["opcode"] = 19
      /\ kwargs["funct3"] = 0
      /\ kwargs["imm"] = 0
  OBVIOUS
<1> HIDE DEF kwargs, defaults
<1>7. PICK fixed : IsPlus(fixed, defaults, kwargs)
  BY PlusIs
<1>8. /\ DOMAIN fixed = DOMAIN defaults \cup DOMAIN kwargs
      /\ \A e \in DOMAIN kwargs : fixed[e] = kwargs[e]
      /\ \A e \in DOMAIN defaults : e \notin DOMAIN kwargs => fixed[e] = defaults[e]
  BY <1>7 DEF IsPlus
<1>9. DOMAIN fixed \cap layout = {"opcode", "funct3", "imm"}
  BY <1>5, <1>8
<1>10. /\ fixed["opcode"] = 19
       /\ fixed["funct3"] = 0
       /\ fixed["imm"] = 0
  BY <1>5, <1>6, <1>8
<1>11. /\ Extract(word, <<0, 7>>) = 19
       /\ Extract(word, <<12, 15>>) = 0
       /\ Extract(word, <<20, 32>>) = 0
  BY MvLine
<1>12. /\ IRanges["opcode"] = <<0, 7>>
       /\ IRanges["funct3"] = <<12, 15>>
       /\ IRanges["imm"] = <<20, 32>>
  BY DEF IRanges
<1>13. IRanges["opcode"][2] - IRanges["opcode"][1] = 7 /\ Power(7) = 128
  BY <1>12, Powers DEF Power
<1>14. Extract(word, IRanges["opcode"]) =
         fixed["opcode"] % Power(IRanges["opcode"][2] - IRanges["opcode"][1])
  BY <1>10, <1>11, <1>12, <1>13
<1>15. IRanges["funct3"][2] - IRanges["funct3"][1] = 3 /\ Power(3) = 8
  BY <1>12, Powers DEF Power
<1>16. Extract(word, IRanges["funct3"]) =
         fixed["funct3"] % Power(IRanges["funct3"][2] - IRanges["funct3"][1])
  BY <1>10, <1>11, <1>12, <1>15
<1>17. IRanges["imm"][2] - IRanges["imm"][1] = 12 /\ Power(12) = 4096
  BY <1>12, Powers DEF Power
<1>18. Extract(word, IRanges["imm"]) =
         fixed["imm"] % Power(IRanges["imm"][2] - IRanges["imm"][1])
  BY <1>10, <1>11, <1>12, <1>17
<1>19. \A e \in DOMAIN fixed \cap layout :
         Extract(word, IRanges[e]) =
           fixed[e] % Power(IRanges[e][2] - IRanges[e][1])
  BY Zenon, <1>9, <1>14, <1>16, <1>18
<1>20. IsPlus(fixed, insn.cls.defaults, insn.kwargs)
  BY <1>3, <1>4, <1>7
<1>21. HasFields(insn, word, fixed)
  BY Zenon, <1>3, <1>4, <1>19 DEF HasFields
<1>22. Fixed(insn, word)
  BY Zenon, <1>20, <1>21, FixedIs
<1> QED BY <1>2, <1>22

LEMMA SeqzFixed ==
  ASSUME NEW given, NEW word, word = value(Insns.SEQZ, given), word # Refused,
         {"rd", "rs1"} \subseteq DOMAIN given, given["rd"] \in 0 .. 31, given["rs1"] \in 0 .. 31
  PROVE  Fixed(Insns.SEQZ, word)
<1> DEFINE kwargs == [funct3 |-> 3, imm |-> 1]
           defaults == [opcode |-> 19]
           layout == {"opcode", "rd", "funct3", "rs1", "imm"}
<1>1. PICK insn : insn = Insn(I, kwargs, <<>>, <<"rd", "rs1">>)
  OBVIOUS
<1>2. insn = Insns.SEQZ
  BY <1>1, SeqzForm
<1>3. insn.cls = I /\ insn.kwargs = kwargs /\ insn.xfrms = <<>>
  BY <1>1, InsnParts
<1>4. ToSet(I.layout) = layout /\ I.ranges = IRanges /\ I.defaults = defaults
  BY Formats, IIs
<1>5. DOMAIN defaults = {"opcode"} /\ DOMAIN kwargs = {"funct3", "imm"}
  OBVIOUS
<1>6. /\ defaults["opcode"] = 19
      /\ kwargs["funct3"] = 3
      /\ kwargs["imm"] = 1
  OBVIOUS
<1> HIDE DEF kwargs, defaults
<1>7. PICK fixed : IsPlus(fixed, defaults, kwargs)
  BY PlusIs
<1>8. /\ DOMAIN fixed = DOMAIN defaults \cup DOMAIN kwargs
      /\ \A e \in DOMAIN kwargs : fixed[e] = kwargs[e]
      /\ \A e \in DOMAIN defaults : e \notin DOMAIN kwargs => fixed[e] = defaults[e]
  BY <1>7 DEF IsPlus
<1>9. DOMAIN fixed \cap layout = {"opcode", "funct3", "imm"}
  BY <1>5, <1>8
<1>10. /\ fixed["opcode"] = 19
       /\ fixed["funct3"] = 3
       /\ fixed["imm"] = 1
  BY <1>5, <1>6, <1>8
<1>11. /\ Extract(word, <<0, 7>>) = 19
       /\ Extract(word, <<12, 15>>) = 3
       /\ Extract(word, <<20, 32>>) = 1
  BY SeqzLine
<1>12. /\ IRanges["opcode"] = <<0, 7>>
       /\ IRanges["funct3"] = <<12, 15>>
       /\ IRanges["imm"] = <<20, 32>>
  BY DEF IRanges
<1>13. IRanges["opcode"][2] - IRanges["opcode"][1] = 7 /\ Power(7) = 128
  BY <1>12, Powers DEF Power
<1>14. Extract(word, IRanges["opcode"]) =
         fixed["opcode"] % Power(IRanges["opcode"][2] - IRanges["opcode"][1])
  BY <1>10, <1>11, <1>12, <1>13
<1>15. IRanges["funct3"][2] - IRanges["funct3"][1] = 3 /\ Power(3) = 8
  BY <1>12, Powers DEF Power
<1>16. Extract(word, IRanges["funct3"]) =
         fixed["funct3"] % Power(IRanges["funct3"][2] - IRanges["funct3"][1])
  BY <1>10, <1>11, <1>12, <1>15
<1>17. IRanges["imm"][2] - IRanges["imm"][1] = 12 /\ Power(12) = 4096
  BY <1>12, Powers DEF Power
<1>18. Extract(word, IRanges["imm"]) =
         fixed["imm"] % Power(IRanges["imm"][2] - IRanges["imm"][1])
  BY <1>10, <1>11, <1>12, <1>17
<1>19. \A e \in DOMAIN fixed \cap layout :
         Extract(word, IRanges[e]) =
           fixed[e] % Power(IRanges[e][2] - IRanges[e][1])
  BY Zenon, <1>9, <1>14, <1>16, <1>18
<1>20. IsPlus(fixed, insn.cls.defaults, insn.kwargs)
  BY <1>3, <1>4, <1>7
<1>21. HasFields(insn, word, fixed)
  BY Zenon, <1>3, <1>4, <1>19 DEF HasFields
<1>22. Fixed(insn, word)
  BY Zenon, <1>20, <1>21, FixedIs
<1> QED BY <1>2, <1>22

LEMMA NotFixed ==
  ASSUME NEW given, NEW word, word = value(Insns.NOT, given), word # Refused,
         {"rd", "rs1"} \subseteq DOMAIN given, given["rd"] \in 0 .. 31, given["rs1"] \in 0 .. 31
  PROVE  Fixed(Insns.NOT, word)
<1> DEFINE kwargs == [funct3 |-> 4, imm |-> -1]
           defaults == [opcode |-> 19]
           layout == {"opcode", "rd", "funct3", "rs1", "imm"}
<1>1. PICK insn : insn = Insn(I, kwargs, <<>>, <<"rd", "rs1">>)
  OBVIOUS
<1>2. insn = Insns.NOT
  BY <1>1, NotForm
<1>3. insn.cls = I /\ insn.kwargs = kwargs /\ insn.xfrms = <<>>
  BY <1>1, InsnParts
<1>4. ToSet(I.layout) = layout /\ I.ranges = IRanges /\ I.defaults = defaults
  BY Formats, IIs
<1>5. DOMAIN defaults = {"opcode"} /\ DOMAIN kwargs = {"funct3", "imm"}
  OBVIOUS
<1>6. /\ defaults["opcode"] = 19
      /\ kwargs["funct3"] = 4
      /\ kwargs["imm"] = -1
  OBVIOUS
<1> HIDE DEF kwargs, defaults
<1>7. PICK fixed : IsPlus(fixed, defaults, kwargs)
  BY PlusIs
<1>8. /\ DOMAIN fixed = DOMAIN defaults \cup DOMAIN kwargs
      /\ \A e \in DOMAIN kwargs : fixed[e] = kwargs[e]
      /\ \A e \in DOMAIN defaults : e \notin DOMAIN kwargs => fixed[e] = defaults[e]
  BY <1>7 DEF IsPlus
<1>9. DOMAIN fixed \cap layout = {"opcode", "funct3", "imm"}
  BY <1>5, <1>8
<1>10. /\ fixed["opcode"] = 19
       /\ fixed["funct3"] = 4
       /\ fixed["imm"] = -1
  BY <1>5, <1>6, <1>8
<1>11. /\ Extract(word, <<0, 7>>) = 19
       /\ Extract(word, <<12, 15>>) = 4
       /\ Extract(word, <<20, 32>>) = 4095
  BY NotLine
<1>12. /\ IRanges["opcode"] = <<0, 7>>
       /\ IRanges["funct3"] = <<12, 15>>
       /\ IRanges["imm"] = <<20, 32>>
  BY DEF IRanges
<1>13. IRanges["opcode"][2] - IRanges["opcode"][1] = 7 /\ Power(7) = 128
  BY <1>12, Powers DEF Power
<1>14. Extract(word, IRanges["opcode"]) =
         fixed["opcode"] % Power(IRanges["opcode"][2] - IRanges["opcode"][1])
  BY <1>10, <1>11, <1>12, <1>13
<1>15. IRanges["funct3"][2] - IRanges["funct3"][1] = 3 /\ Power(3) = 8
  BY <1>12, Powers DEF Power
<1>16. Extract(word, IRanges["funct3"]) =
         fixed["funct3"] % Power(IRanges["funct3"][2] - IRanges["funct3"][1])
  BY <1>10, <1>11, <1>12, <1>15
<1>17. IRanges["imm"][2] - IRanges["imm"][1] = 12 /\ Power(12) = 4096
  BY <1>12, Powers DEF Power
<1>18. PICK minus \in Int : minus = fixed["imm"] /\ minus + 1 = 0
  BY <1>10
<1>19. (minus % 4096) = 4095
  BY SMT, <1>18
<1>20. Extract(word, IRanges["imm"]) =
         fixed["imm"] % Power(IRanges["imm"][2] - IRanges["imm"][1])
  BY <1>10, <1>11, <1>12, <1>17, <1>18, <1>19
<1>21. \A e \in DOMAIN fixed \cap layout :
         Extract(word, IRanges[e]) =
           fixed[e] % Power(IRanges[e][2] - IRanges[e][1])
  BY Zenon, <1>9, <1>14, <1>16, <1>20
<1>22. IsPlus(fixed, insn.cls.defaults, insn.kwargs)
  BY <1>3, <1>4, <1>7
<1>23. HasFields(insn, word, fixed)
  BY Zenon, <1>3, <1>4, <1>21 DEF HasFields
<1>24. Fixed(insn, word)
  BY Zenon, <1>22, <1>23, FixedIs
<1> QED BY <1>2, <1>24

LEMMA NopFixed ==
  ASSUME NEW given, NEW word, word = value(Insns.NOP, given), word # Refused
  PROVE  Fixed(Insns.NOP, word)
<1> DEFINE kwargs == [funct3 |-> 0, rd |-> Reg("zero"), rs1 |-> Reg("zero"), imm |-> 0]
           defaults == [opcode |-> 19]
           layout == {"opcode", "rd", "funct3", "rs1", "imm"}
<1>1. PICK insn : insn = Insn(I, kwargs, <<>>, <<>>)
  OBVIOUS
<1>2. insn = Insns.NOP
  BY <1>1, NopForm
<1>3. insn.cls = I /\ insn.kwargs = kwargs /\ insn.xfrms = <<>>
  BY <1>1, InsnParts
<1>4. ToSet(I.layout) = layout /\ I.ranges = IRanges /\ I.defaults = defaults
  BY Formats, IIs
<1>5. DOMAIN defaults = {"opcode"} /\ DOMAIN kwargs = {"funct3", "rd", "rs1", "imm"}
  OBVIOUS
<1>6. /\ defaults["opcode"] = 19
      /\ kwargs["funct3"] = 0
      /\ kwargs["rd"] = 0
      /\ kwargs["rs1"] = 0
      /\ kwargs["imm"] = 0
  BY RegValues
<1> HIDE DEF kwargs, defaults
<1>7. PICK fixed : IsPlus(fixed, defaults, kwargs)
  BY PlusIs
<1>8. /\ DOMAIN fixed = DOMAIN defaults \cup DOMAIN kwargs
      /\ \A e \in DOMAIN kwargs : fixed[e] = kwargs[e]
      /\ \A e \in DOMAIN defaults : e \notin DOMAIN kwargs => fixed[e] = defaults[e]
  BY <1>7 DEF IsPlus
<1>9. DOMAIN fixed \cap layout = {"opcode", "rd", "funct3", "rs1", "imm"}
  BY <1>5, <1>8
<1>10. /\ fixed["opcode"] = 19
       /\ fixed["rd"] = 0
       /\ fixed["funct3"] = 0
       /\ fixed["rs1"] = 0
       /\ fixed["imm"] = 0
  BY <1>5, <1>6, <1>8
<1>11. /\ Extract(word, <<0, 7>>) = 19
       /\ Extract(word, <<7, 12>>) = 0
       /\ Extract(word, <<12, 15>>) = 0
       /\ Extract(word, <<15, 20>>) = 0
       /\ Extract(word, <<20, 32>>) = 0
  BY NopLine
<1>12. /\ IRanges["opcode"] = <<0, 7>>
       /\ IRanges["rd"] = <<7, 12>>
       /\ IRanges["funct3"] = <<12, 15>>
       /\ IRanges["rs1"] = <<15, 20>>
       /\ IRanges["imm"] = <<20, 32>>
  BY DEF IRanges
<1>13. IRanges["opcode"][2] - IRanges["opcode"][1] = 7 /\ Power(7) = 128
  BY <1>12, Powers DEF Power
<1>14. Extract(word, IRanges["opcode"]) =
         fixed["opcode"] % Power(IRanges["opcode"][2] - IRanges["opcode"][1])
  BY <1>10, <1>11, <1>12, <1>13
<1>15. IRanges["rd"][2] - IRanges["rd"][1] = 5 /\ Power(5) = 32
  BY <1>12, Powers DEF Power
<1>16. Extract(word, IRanges["rd"]) =
         fixed["rd"] % Power(IRanges["rd"][2] - IRanges["rd"][1])
  BY <1>10, <1>11, <1>12, <1>15
<1>17. IRanges["funct3"][2] - IRanges["funct3"][1] = 3 /\ Power(3) = 8
  BY <1>12, Powers DEF Power
<1>18. Extract(word, IRanges["funct3"]) =
         fixed["funct3"] % Power(IRanges["funct3"][2] - IRanges["funct3"][1])
  BY <1>10, <1>11, <1>12, <1>17
<1>19. IRanges["rs1"][2] - IRanges["rs1"][1] = 5 /\ Power(5) = 32
  BY <1>12, Powers DEF Power
<1>20. Extract(word, IRanges["rs1"]) =
         fixed["rs1"] % Power(IRanges["rs1"][2] - IRanges["rs1"][1])
  BY <1>10, <1>11, <1>12, <1>19
<1>21. IRanges["imm"][2] - IRanges["imm"][1] = 12 /\ Power(12) = 4096
  BY <1>12, Powers DEF Power
<1>22. Extract(word, IRanges["imm"]) =
         fixed["imm"] % Power(IRanges["imm"][2] - IRanges["imm"][1])
  BY <1>10, <1>11, <1>12, <1>21
<1>23. \A e \in DOMAIN fixed \cap layout :
         Extract(word, IRanges[e]) =
           fixed[e] % Power(IRanges[e][2] - IRanges[e][1])
  BY Zenon, <1>9, <1>14, <1>16, <1>18, <1>20, <1>22
<1>24. IsPlus(fixed, insn.cls.defaults, insn.kwargs)
  BY <1>3, <1>4, <1>7
<1>25. HasFields(insn, word, fixed)
  BY Zenon, <1>3, <1>4, <1>23 DEF HasFields
<1>26. Fixed(insn, word)
  BY Zenon, <1>24, <1>25, FixedIs
<1> QED BY <1>2, <1>26

LEMMA JFixed ==
  ASSUME NEW given, NEW word, word = value(Insns.J_, given), word # Refused,
         {"imm"} \subseteq DOMAIN given, given["imm"] \in Int
  PROVE  Fixed(Insns.J_, word)
<1> DEFINE kwargs == [rd |-> Reg("zero")]
           defaults == [opcode |-> 111]
           layout == {"opcode", "rd", "imm19_12", "imm11", "imm10_1", "imm20"}
<1>1. PICK insn : insn = Insn(J, kwargs, <<ImmXfrm(J)>>, <<"imm">>)
  OBVIOUS
<1>2. insn = Insns.J_
  BY <1>1, JForm
<1>3. insn.cls = J /\ insn.kwargs = kwargs /\ insn.xfrms = <<ImmXfrm(J)>>
  BY <1>1, InsnParts
<1>4. ToSet(J.layout) = layout /\ J.ranges = JRanges /\ J.defaults = defaults
  BY Formats, JIs
<1>5. DOMAIN defaults = {"opcode"} /\ DOMAIN kwargs = {"rd"}
  OBVIOUS
<1>6. /\ defaults["opcode"] = 111
      /\ kwargs["rd"] = 0
  BY RegValues
<1> HIDE DEF kwargs, defaults
<1>7. PICK fixed : IsPlus(fixed, defaults, kwargs)
  BY PlusIs
<1>8. /\ DOMAIN fixed = DOMAIN defaults \cup DOMAIN kwargs
      /\ \A e \in DOMAIN kwargs : fixed[e] = kwargs[e]
      /\ \A e \in DOMAIN defaults : e \notin DOMAIN kwargs => fixed[e] = defaults[e]
  BY <1>7 DEF IsPlus
<1>9. DOMAIN fixed \cap layout = {"opcode", "rd"}
  BY <1>5, <1>8
<1>10. /\ fixed["opcode"] = 111
       /\ fixed["rd"] = 0
  BY <1>5, <1>6, <1>8
<1>11. /\ Extract(word, <<0, 7>>) = 111
       /\ Extract(word, <<7, 12>>) = 0
  BY JLine
<1>12. /\ JRanges["opcode"] = <<0, 7>>
       /\ JRanges["rd"] = <<7, 12>>
  BY DEF JRanges
<1>13. JRanges["opcode"][2] - JRanges["opcode"][1] = 7 /\ Power(7) = 128
  BY <1>12, Powers DEF Power
<1>14. Extract(word, JRanges["opcode"]) =
         fixed["opcode"] % Power(JRanges["opcode"][2] - JRanges["opcode"][1])
  BY <1>10, <1>11, <1>12, <1>13
<1>15. JRanges["rd"][2] - JRanges["rd"][1] = 5 /\ Power(5) = 32
  BY <1>12, Powers DEF Power
<1>16. Extract(word, JRanges["rd"]) =
         fixed["rd"] % Power(JRanges["rd"][2] - JRanges["rd"][1])
  BY <1>10, <1>11, <1>12, <1>15
<1>17. \A e \in DOMAIN fixed \cap layout :
         Extract(word, JRanges[e]) =
           fixed[e] % Power(JRanges[e][2] - JRanges[e][1])
  BY Zenon, <1>9, <1>14, <1>16
<1>18. IsPlus(fixed, insn.cls.defaults, insn.kwargs)
  BY <1>3, <1>4, <1>7
<1>19. HasFields(insn, word, fixed)
  BY Zenon, <1>3, <1>4, <1>17 DEF HasFields
<1>20. Fixed(insn, word)
  BY Zenon, <1>18, <1>19, FixedIs
<1> QED BY <1>2, <1>20
-----------------------------------------------------------------------------
(* What the hart reads. *)

\* The fields of a word in each format.
LEMMA Decodes ==
  ASSUME NEW word
  PROVE  /\ decode(R, word).opcode = Extract(word, <<0, 7>>)
         /\ decode(R, word).rd = Extract(word, <<7, 12>>)
         /\ decode(R, word).funct3 = Extract(word, <<12, 15>>)
         /\ decode(R, word).rs1 = Extract(word, <<15, 20>>)
         /\ decode(R, word).rs2 = Extract(word, <<20, 25>>)
         /\ decode(R, word).funct7 = Extract(word, <<25, 32>>)
         /\ decode(I, word).opcode = Extract(word, <<0, 7>>)
         /\ decode(I, word).rd = Extract(word, <<7, 12>>)
         /\ decode(I, word).funct3 = Extract(word, <<12, 15>>)
         /\ decode(I, word).rs1 = Extract(word, <<15, 20>>)
         /\ decode(I, word).imm = Extract(word, <<20, 32>>)
         /\ decode(S, word).opcode = Extract(word, <<0, 7>>)
         /\ decode(S, word).imm4_0 = Extract(word, <<7, 12>>)
         /\ decode(S, word).funct3 = Extract(word, <<12, 15>>)
         /\ decode(S, word).rs1 = Extract(word, <<15, 20>>)
         /\ decode(S, word).rs2 = Extract(word, <<20, 25>>)
         /\ decode(S, word).imm11_5 = Extract(word, <<25, 32>>)
         /\ decode(B, word).opcode = Extract(word, <<0, 7>>)
         /\ decode(B, word).imm11 = Extract(word, <<7, 8>>)
         /\ decode(B, word).imm4_1 = Extract(word, <<8, 12>>)
         /\ decode(B, word).funct3 = Extract(word, <<12, 15>>)
         /\ decode(B, word).rs1 = Extract(word, <<15, 20>>)
         /\ decode(B, word).rs2 = Extract(word, <<20, 25>>)
         /\ decode(B, word).imm10_5 = Extract(word, <<25, 31>>)
         /\ decode(B, word).imm12 = Extract(word, <<31, 32>>)
         /\ decode(U, word).opcode = Extract(word, <<0, 7>>)
         /\ decode(U, word).rd = Extract(word, <<7, 12>>)
         /\ decode(U, word).imm = Extract(word, <<12, 32>>)
         /\ decode(J, word).opcode = Extract(word, <<0, 7>>)
         /\ decode(J, word).rd = Extract(word, <<7, 12>>)
         /\ decode(J, word).imm19_12 = Extract(word, <<12, 20>>)
         /\ decode(J, word).imm11 = Extract(word, <<20, 21>>)
         /\ decode(J, word).imm10_1 = Extract(word, <<21, 31>>)
         /\ decode(J, word).imm20 = Extract(word, <<31, 32>>)
<1>1. /\ decode(R, word).opcode = Extract(word, <<0, 7>>)
      /\ decode(R, word).rd = Extract(word, <<7, 12>>)
      /\ decode(R, word).funct3 = Extract(word, <<12, 15>>)
      /\ decode(R, word).rs1 = Extract(word, <<15, 20>>)
      /\ decode(R, word).rs2 = Extract(word, <<20, 25>>)
      /\ decode(R, word).funct7 = Extract(word, <<25, 32>>)
  <2>1. /\ RRanges["opcode"] = <<0, 7>>
        /\ RRanges["rd"] = <<7, 12>>
        /\ RRanges["funct3"] = <<12, 15>>
        /\ RRanges["rs1"] = <<15, 20>>
        /\ RRanges["rs2"] = <<20, 25>>
        /\ RRanges["funct7"] = <<25, 32>>
    BY DEF RRanges
  <2>2. ToSet(R.layout) = {"opcode", "rd", "funct3", "rs1", "rs2", "funct7"} /\ R.ranges = RRanges
    BY Formats
  <2> QED BY <2>1, <2>2 DEF decode
<1>2. /\ decode(I, word).opcode = Extract(word, <<0, 7>>)
      /\ decode(I, word).rd = Extract(word, <<7, 12>>)
      /\ decode(I, word).funct3 = Extract(word, <<12, 15>>)
      /\ decode(I, word).rs1 = Extract(word, <<15, 20>>)
      /\ decode(I, word).imm = Extract(word, <<20, 32>>)
  <2>1. /\ IRanges["opcode"] = <<0, 7>>
        /\ IRanges["rd"] = <<7, 12>>
        /\ IRanges["funct3"] = <<12, 15>>
        /\ IRanges["rs1"] = <<15, 20>>
        /\ IRanges["imm"] = <<20, 32>>
    BY DEF IRanges
  <2>2. ToSet(I.layout) = {"opcode", "rd", "funct3", "rs1", "imm"} /\ I.ranges = IRanges
    BY Formats
  <2> QED BY <2>1, <2>2 DEF decode
<1>3. /\ decode(S, word).opcode = Extract(word, <<0, 7>>)
      /\ decode(S, word).imm4_0 = Extract(word, <<7, 12>>)
      /\ decode(S, word).funct3 = Extract(word, <<12, 15>>)
      /\ decode(S, word).rs1 = Extract(word, <<15, 20>>)
      /\ decode(S, word).rs2 = Extract(word, <<20, 25>>)
      /\ decode(S, word).imm11_5 = Extract(word, <<25, 32>>)
  <2>1. /\ SRanges["opcode"] = <<0, 7>>
        /\ SRanges["imm4_0"] = <<7, 12>>
        /\ SRanges["funct3"] = <<12, 15>>
        /\ SRanges["rs1"] = <<15, 20>>
        /\ SRanges["rs2"] = <<20, 25>>
        /\ SRanges["imm11_5"] = <<25, 32>>
    BY DEF SRanges
  <2>2. ToSet(S.layout) = {"opcode", "imm4_0", "funct3", "rs1", "rs2", "imm11_5"} /\
          S.ranges = SRanges
    BY Formats
  <2> QED BY <2>1, <2>2 DEF decode
<1>4. /\ decode(B, word).opcode = Extract(word, <<0, 7>>)
      /\ decode(B, word).imm11 = Extract(word, <<7, 8>>)
      /\ decode(B, word).imm4_1 = Extract(word, <<8, 12>>)
      /\ decode(B, word).funct3 = Extract(word, <<12, 15>>)
      /\ decode(B, word).rs1 = Extract(word, <<15, 20>>)
      /\ decode(B, word).rs2 = Extract(word, <<20, 25>>)
      /\ decode(B, word).imm10_5 = Extract(word, <<25, 31>>)
      /\ decode(B, word).imm12 = Extract(word, <<31, 32>>)
  <2>1. /\ BRanges["opcode"] = <<0, 7>>
        /\ BRanges["imm11"] = <<7, 8>>
        /\ BRanges["imm4_1"] = <<8, 12>>
        /\ BRanges["funct3"] = <<12, 15>>
        /\ BRanges["rs1"] = <<15, 20>>
        /\ BRanges["rs2"] = <<20, 25>>
        /\ BRanges["imm10_5"] = <<25, 31>>
        /\ BRanges["imm12"] = <<31, 32>>
    BY DEF BRanges
  <2>2. ToSet(B.layout) = {"opcode", "imm11", "imm4_1", "funct3", "rs1", "rs2", "imm10_5",
          "imm12"} /\ B.ranges = BRanges
    BY Formats
  <2> QED BY <2>1, <2>2 DEF decode
<1>5. /\ decode(U, word).opcode = Extract(word, <<0, 7>>)
      /\ decode(U, word).rd = Extract(word, <<7, 12>>)
      /\ decode(U, word).imm = Extract(word, <<12, 32>>)
  <2>1. /\ URanges["opcode"] = <<0, 7>>
        /\ URanges["rd"] = <<7, 12>>
        /\ URanges["imm"] = <<12, 32>>
    BY DEF URanges
  <2>2. ToSet(U.layout) = {"opcode", "rd", "imm"} /\ U.ranges = URanges
    BY Formats
  <2> QED BY <2>1, <2>2 DEF decode
<1>6. /\ decode(J, word).opcode = Extract(word, <<0, 7>>)
      /\ decode(J, word).rd = Extract(word, <<7, 12>>)
      /\ decode(J, word).imm19_12 = Extract(word, <<12, 20>>)
      /\ decode(J, word).imm11 = Extract(word, <<20, 21>>)
      /\ decode(J, word).imm10_1 = Extract(word, <<21, 31>>)
      /\ decode(J, word).imm20 = Extract(word, <<31, 32>>)
  <2>1. /\ JRanges["opcode"] = <<0, 7>>
        /\ JRanges["rd"] = <<7, 12>>
        /\ JRanges["imm19_12"] = <<12, 20>>
        /\ JRanges["imm11"] = <<20, 21>>
        /\ JRanges["imm10_1"] = <<21, 31>>
        /\ JRanges["imm20"] = <<31, 32>>
    BY DEF JRanges
  <2>2. ToSet(J.layout) = {"opcode", "rd", "imm19_12", "imm11", "imm10_1", "imm20"} /\
          J.ranges = JRanges
    BY Formats
  <2> QED BY <2>1, <2>2 DEF decode
<1> QED BY <1>1, <1>2, <1>3, <1>4, <1>5, <1>6

\* The opcodes, and the immediate that the hart makes for each.
LEMMA HartImmIs ==
  ASSUME NEW word
  PROVE  /\ Extract(word, <<0, 7>>) \in {23, 55} => HartImm(word) = Extract(word, <<12, 32>>)
         /\ Extract(word, <<0, 7>>) = 35 => HartImm(word) =
              c2(12, Extract(word, <<7, 12>>) + 32 * Extract(word, <<25, 32>>))
         /\ Extract(word, <<0, 7>>) = 99 => HartImm(word) =
              c2(13, 2 * Extract(word, <<8, 12>>) + 32 * Extract(word, <<25, 31>>)
                      + 2048 * Extract(word, <<7, 8>>) + 4096 * Extract(word, <<31, 32>>))
         /\ Extract(word, <<0, 7>>) = 111 => HartImm(word) =
              c2(21, 2 * Extract(word, <<21, 31>>) + 2048 * Extract(word, <<20, 21>>)
                      + 4096 * Extract(word, <<12, 20>>) + 2^20 * Extract(word, <<31, 32>>))
         /\ Extract(word, <<0, 7>>) \in {3, 19, 103} =>
              HartImm(word) = c2(12, Extract(word, <<20, 32>>))
<1>1. /\ Opcode.LUI = 55 /\ Opcode.AUIPC = 23 /\ Opcode.STORE = 35 /\ Opcode.BRANCH = 99
      /\ Opcode.JAL = 111
  BY DEF Opcode
<1>2. PICK opcode : opcode = decode(I, word).opcode /\ opcode = Extract(word, <<0, 7>>)
  BY Zenon, Decodes
<1>3. 2^5 = 32 /\ 2^11 = 2048 /\ 2^12 = 4096
  BY SMT, Powers
<1>4. opcode \in {23, 55} => HartImm(word) = Extract(word, <<12, 32>>)
  <2>1. /\ decode(U, word).imm = Extract(word, <<12, 32>>)
    BY Zenon, Decodes
  <2> QED BY SMT, <1>1, <1>2, <1>3, <2>1 DEF HartImm
<1>5. opcode = 35 => HartImm(word) = c2(12, Extract(word, <<7, 12>>) +
        32 * Extract(word, <<25, 32>>))
  <2>1. /\ decode(S, word).imm4_0 = Extract(word, <<7, 12>>)
        /\ decode(S, word).imm11_5 = Extract(word, <<25, 32>>)
    BY Zenon, Decodes
  <2> QED BY SMT, <1>1, <1>2, <1>3, <2>1 DEF HartImm
<1>6. opcode = 99 => HartImm(word) = c2(13, 2 * Extract(word, <<8, 12>>) +
        32 * Extract(word, <<25, 31>>) + 2048 * Extract(word, <<7, 8>>) +
        4096 * Extract(word, <<31, 32>>))
  <2>1. /\ decode(B, word).imm11 = Extract(word, <<7, 8>>)
        /\ decode(B, word).imm4_1 = Extract(word, <<8, 12>>)
        /\ decode(B, word).imm10_5 = Extract(word, <<25, 31>>)
        /\ decode(B, word).imm12 = Extract(word, <<31, 32>>)
    BY Zenon, Decodes
  <2> QED BY SMT, <1>1, <1>2, <1>3, <2>1 DEF HartImm
<1>7. opcode = 111 => HartImm(word) = c2(21, 2 * Extract(word, <<21, 31>>) +
        2048 * Extract(word, <<20, 21>>) + 4096 * Extract(word, <<12, 20>>) +
        2^20 * Extract(word, <<31, 32>>))
  <2>1. /\ decode(J, word).imm19_12 = Extract(word, <<12, 20>>)
        /\ decode(J, word).imm11 = Extract(word, <<20, 21>>)
        /\ decode(J, word).imm10_1 = Extract(word, <<21, 31>>)
        /\ decode(J, word).imm20 = Extract(word, <<31, 32>>)
    BY Zenon, Decodes
  <2> QED BY SMT, <1>1, <1>2, <1>3, <2>1 DEF HartImm, HartImmJ
<1>8. opcode \in {3, 19, 103} => HartImm(word) = c2(12, Extract(word, <<20, 32>>))
  <2>1. /\ decode(I, word).imm = Extract(word, <<20, 32>>)
    BY Zenon, Decodes
  <2> QED BY SMT, <1>1, <1>2, <1>3, <2>1 DEF HartImm
<1> QED BY SMT, <1>2, <1>4, <1>5, <1>6, <1>7, <1>8

\* A number without the sign's bit is itself.
LEMMA SmallSigned == ASSUME NEW v \in Nat, v < 2048 PROVE c2(12, v) = v
<1>1. 2^11 = 2048
  BY SMT, Powers
<1>2. Bit(v, 12 - 1) = 0
  BY SMT, <1>1 DEF Bit
<1> QED BY <1>2 DEF c2

\* The pieces of an immediate, put together.
LEMMA JoinedS ==
  ASSUME NEW imm \in Int
  PROVE  ((imm % 32) + 32 * ((imm \div 32) % 128)) = imm % 4096
OBVIOUS

JoinsB(imm) ==
  (2 * ((imm \div 2) % 16) + 32 * ((imm \div 32) % 64)
      + 2048 * ((imm \div 2048) % 2) + 4096 * ((imm \div 4096) % 2))
       = (imm - (imm % 2)) % 8192

LEMMA JoinedB ==
  ASSUME NEW imm \in Int
  PROVE  JoinsB(imm)
<1>1. PICK q0, q1, q2, q3, q4 :
        /\ q0 = imm \div 2
        /\ q1 = imm \div 32
        /\ q2 = imm \div 2048
        /\ q3 = imm \div 4096
        /\ q4 = imm \div 8192
  OBVIOUS
<1>2. q0 \in Int /\ q1 \in Int /\ q2 \in Int /\ q3 \in Int /\ q4 \in Int /\ (imm % 2) \in 0 .. 1
  BY SMT, <1>1
<1>3. imm = 2 * q0 + (imm % 2)
  BY SMT, <1>1, <1>2
<1>4. q1 = q0 \div 16
  BY SMT, <1>1
<1>5. q0 = 16 * q1 + (q0 % 16) /\ (q0 % 16) \in Nat /\ (q0 % 16) < 16
  BY SMT, <1>2, <1>4
<1>6. q2 = q1 \div 64
  BY SMT, <1>1
<1>7. q1 = 64 * q2 + (q1 % 64) /\ (q1 % 64) \in Nat /\ (q1 % 64) < 64
  BY SMT, <1>2, <1>6
<1>8. q3 = q2 \div 2
  BY SMT, <1>1
<1>9. q2 = 2 * q3 + (q2 % 2) /\ (q2 % 2) \in Nat /\ (q2 % 2) < 2
  BY SMT, <1>2, <1>8
<1>10. q4 = q3 \div 2
  BY SMT, <1>1
<1>11. q3 = 2 * q4 + (q3 % 2) /\ (q3 % 2) \in Nat /\ (q3 % 2) < 2
  BY SMT, <1>2, <1>10
<1>12. PICK sum : sum = 2 * (q0 % 16) + 32 * (q1 % 64) + 2048 * (q2 % 2) + 4096 * (q3 % 2)
  OBVIOUS
<1>13. sum \in Nat /\ sum < 8192 /\ (imm - (imm % 2)) = 8192 * q4 + sum
  BY SMT, <1>2, <1>12, <1>3, <1>5, <1>7, <1>9, <1>11
<1>14. ((imm - (imm % 2)) % 8192) = sum
  BY SMT, <1>2, <1>13
<1> QED BY SMT, <1>1, <1>2, <1>12, <1>14 DEF JoinsB

JoinsJ(imm) ==
  (2 * ((imm \div 2) % 1024) + 2048 * ((imm \div 2048) % 2)
      + 4096 * ((imm \div 4096) % 256) + 1048576 * ((imm \div 1048576) % 2))
       = (imm - (imm % 2)) % 2097152

LEMMA JoinedJ ==
  ASSUME NEW imm \in Int
  PROVE  JoinsJ(imm)
<1>1. PICK q0, q1, q2, q3, q4 :
        /\ q0 = imm \div 2
        /\ q1 = imm \div 2048
        /\ q2 = imm \div 4096
        /\ q3 = imm \div 1048576
        /\ q4 = imm \div 2097152
  OBVIOUS
<1>2. q0 \in Int /\ q1 \in Int /\ q2 \in Int /\ q3 \in Int /\ q4 \in Int /\ (imm % 2) \in 0 .. 1
  BY SMT, <1>1
<1>3. imm = 2 * q0 + (imm % 2)
  BY SMT, <1>1, <1>2
<1>4. q1 = q0 \div 1024
  BY SMT, <1>1
<1>5. q0 = 1024 * q1 + (q0 % 1024) /\ (q0 % 1024) \in Nat /\ (q0 % 1024) < 1024
  BY SMT, <1>2, <1>4
<1>6. q2 = q1 \div 2
  BY SMT, <1>1
<1>7. q1 = 2 * q2 + (q1 % 2) /\ (q1 % 2) \in Nat /\ (q1 % 2) < 2
  BY SMT, <1>2, <1>6
<1>8. q3 = q2 \div 256
  BY SMT, <1>1
<1>9. q2 = 256 * q3 + (q2 % 256) /\ (q2 % 256) \in Nat /\ (q2 % 256) < 256
  BY SMT, <1>2, <1>8
<1>10. q4 = q3 \div 2
  BY SMT, <1>1
<1>11. q3 = 2 * q4 + (q3 % 2) /\ (q3 % 2) \in Nat /\ (q3 % 2) < 2
  BY SMT, <1>2, <1>10
<1>12. PICK sum : sum = 2 * (q0 % 1024) + 2048 * (q1 % 2) + 4096 * (q2 % 256) + 1048576 * (q3 % 2)
  OBVIOUS
<1>13. sum \in Nat /\ sum < 2097152 /\ (imm - (imm % 2)) = 2097152 * q4 + sum
  BY SMT, <1>2, <1>12, <1>3, <1>5, <1>7, <1>9, <1>11
<1>14. ((imm - (imm % 2)) % 2097152) = sum
  BY SMT, <1>2, <1>13
<1> QED BY SMT, <1>1, <1>2, <1>12, <1>14 DEF JoinsJ

\* The hart reads the arguments in the word.
HartReads(name, args, word) ==
  LET r == decode(R, word)
      named(e) == e \in DOMAIN args
  IN /\ named("imm") \/ named("shamt") \/ named("rs1off") =>
          HartImm(word) = Asked(name, args)
     /\ named("rs1off") => r.rs1 = args.rs1off[2]
     /\ \A e \in {"rd", "rs1", "rs2"} : named(e) => r[e] = args[e]
-----------------------------------------------------------------------------
LEMMA SignedPowers == 2^12 = 4096 /\ 2^13 = 8192 /\ 2^20 = 2 * 524288 /\ 2^21 = 2 * 2^20
BY SMT, Powers, TwoPowers

\* The immediate asked for, by the arguments and the name.
Placed == {"LUI", "AUIPC", "JAL", "J_", "BEQ", "BNE", "BLT", "BGE", "BLTU", "BGEU"}

\* The immediate a line asks for, by what it is given as.
LEMMA AskedShamt ==
  ASSUME NEW name, NEW args, name \notin Placed,
         "shamt" \in DOMAIN args, "rs1off" \notin DOMAIN args
  PROVE  Asked(name, args) = args["shamt"] + (IF name = "SRAI" THEN 1024 ELSE 0)
<1>1. PICK asked : asked = args["shamt"] + (IF name = "SRAI" THEN 1024 ELSE 0)
  OBVIOUS
<1>2. Asked(name, args) = asked
  BY SMT, <1>1 DEF Asked, Placed
<1> QED BY SMT, <1>1, <1>2

LEMMA AskedIs ==
  ASSUME NEW name, NEW args, "shamt" \notin DOMAIN args
  PROVE  /\ name \notin Placed =>
              /\ "rs1off" \in DOMAIN args => Asked(name, args) = c2(12, args["rs1off"][1] % 4096)
              /\ "rs1off" \notin DOMAIN args => Asked(name, args) = c2(12, args["imm"] % 4096)
         /\ "rs1off" \notin DOMAIN args =>
              /\ name \in {"LUI", "AUIPC"} => Asked(name, args) = args["imm"] % 2^20
              /\ name \in {"JAL", "J_"} =>
                   Asked(name, args) = c2(21, (args["imm"] - (args["imm"] % 2)) % 2^21)
              /\ name \in {"BEQ", "BNE", "BLT", "BGE", "BLTU", "BGEU"} =>
                   Asked(name, args) = c2(13, (args["imm"] - (args["imm"] % 2)) % 8192)
<1> DEFINE off == "rs1off" \in DOMAIN args
<1>1. CASE name \notin Placed /\ off
  BY SMT, <1>1, SignedPowers DEF Asked, Placed
<1>2. CASE name \notin Placed /\ ~off
  BY SMT, <1>2, SignedPowers DEF Asked, Placed
<1>3. CASE name \in {"LUI", "AUIPC"} /\ ~off
  BY SMT, <1>3 DEF Asked, Placed
<1>4. CASE name \in {"JAL", "J_"} /\ ~off
  BY SMT, <1>4 DEF Asked, Placed
<1>5. CASE name \in {"BEQ", "BNE", "BLT", "BGE", "BLTU", "BGEU"} /\ ~off
  BY SMT, <1>5, SignedPowers DEF Asked, Placed
<1> QED BY SMT, <1>1, <1>2, <1>3, <1>4, <1>5 DEF Placed

\* XHart, for each family X: the hart reads in the word what the line says.
LEMMA OpHart ==
  ASSUME NEW funct3 \in 0 .. 7,
         NEW name \in {"ADD", "SLL", "SLT", "SLTU", "XOR", "SRL", "OR", "AND"}, NEW given,
         NEW word, word = value(Op(funct3, 0), given), word # Refused,
         DOMAIN given = {"rd", "rs1", "rs2"}, given["rd"] \in 0 .. 31,
         given["rs1"] \in 0 .. 31, given["rs2"] \in 0 .. 31
  PROVE  HartReads(name, given, word)
<1>1. /\ Extract(word, <<0, 7>>) = 51
      /\ Extract(word, <<7, 12>>) = given["rd"]
      /\ Extract(word, <<12, 15>>) = funct3
      /\ Extract(word, <<15, 20>>) = given["rs1"]
      /\ Extract(word, <<20, 25>>) = given["rs2"]
      /\ Extract(word, <<25, 32>>) = 0
  BY SMT, OpLine
<1>2. /\ decode(R, word).rd = Extract(word, <<7, 12>>)
      /\ decode(R, word).rs1 = Extract(word, <<15, 20>>)
      /\ decode(R, word).rs2 = Extract(word, <<20, 25>>)
  BY Zenon, Decodes
<1>3. DOMAIN given = {"rd", "rs1", "rs2"}
  OBVIOUS
<1> QED BY SMT, <1>1, <1>2, <1>3 DEF HartReads

LEMMA OpNegateHart ==
  ASSUME NEW funct3 \in 0 .. 7, NEW name \in {"SUB", "SRA"}, NEW given, NEW word,
         word = value(Op(funct3, F7Negate), given), word # Refused,
         DOMAIN given = {"rd", "rs1", "rs2"}, given["rd"] \in 0 .. 31,
         given["rs1"] \in 0 .. 31, given["rs2"] \in 0 .. 31
  PROVE  HartReads(name, given, word)
<1>1. /\ Extract(word, <<0, 7>>) = 51
      /\ Extract(word, <<7, 12>>) = given["rd"]
      /\ Extract(word, <<12, 15>>) = funct3
      /\ Extract(word, <<15, 20>>) = given["rs1"]
      /\ Extract(word, <<20, 25>>) = given["rs2"]
      /\ Extract(word, <<25, 32>>) = 32
  BY SMT, OpNegateLine
<1>2. /\ decode(R, word).rd = Extract(word, <<7, 12>>)
      /\ decode(R, word).rs1 = Extract(word, <<15, 20>>)
      /\ decode(R, word).rs2 = Extract(word, <<20, 25>>)
  BY Zenon, Decodes
<1>3. DOMAIN given = {"rd", "rs1", "rs2"}
  OBVIOUS
<1> QED BY SMT, <1>1, <1>2, <1>3 DEF HartReads

LEMMA OpImmHart ==
  ASSUME NEW funct3 \in 0 .. 7, NEW name \in {"ADDI", "SLTI", "SLTIU", "XORI", "ORI", "ANDI"},
         NEW given, NEW word, word = value(OpImm(funct3), given), word # Refused,
         DOMAIN given = {"rd", "rs1", "imm"}, given["rd"] \in 0 .. 31,
         given["rs1"] \in 0 .. 31, given["imm"] \in Int
  PROVE  HartReads(name, given, word)
<1>1. /\ Extract(word, <<0, 7>>) = 19
      /\ Extract(word, <<7, 12>>) = given["rd"]
      /\ Extract(word, <<12, 15>>) = funct3
      /\ Extract(word, <<15, 20>>) = given["rs1"]
      /\ Extract(word, <<20, 32>>) = given["imm"] % 4096
  BY SMT, OpImmLine
<1>2. /\ decode(R, word).rd = Extract(word, <<7, 12>>)
      /\ decode(R, word).rs1 = Extract(word, <<15, 20>>)
      /\ decode(R, word).rs2 = Extract(word, <<20, 25>>)
  BY Zenon, Decodes
<1>3. DOMAIN given = {"rd", "rs1", "imm"}
  OBVIOUS
<1>4. HartImm(word) = c2(12, Extract(word, <<20, 32>>))
  BY SMT, <1>1, HartImmIs
<1>5. Asked(name, given) = c2(12, given["imm"] % 4096)
  BY SMT, <1>3, AskedIs DEF Placed
<1>6. HartImm(word) = Asked(name, given)
  BY SMT, <1>1, <1>4, <1>5
<1> QED BY SMT, <1>1, <1>2, <1>6, <1>3 DEF HartReads

LEMMA ShiftHart ==
  ASSUME NEW funct3 \in 0 .. 7, NEW p, p \in {0, F7Negate},
         NEW name \in {"SLLI", "SRLI", "SRAI"}, p = IF name = "SRAI" THEN F7Negate ELSE 0,
         NEW given, NEW word, word = value(Shift(funct3, p), given), word # Refused,
         DOMAIN given = {"rd", "rs1", "shamt"}, given["rd"] \in 0 .. 31,
         given["rs1"] \in 0 .. 31, given["shamt"] \in Int
  PROVE  HartReads(name, given, word)
<1>1. /\ Extract(word, <<0, 7>>) = 19
      /\ Extract(word, <<7, 12>>) = given["rd"]
      /\ Extract(word, <<12, 15>>) = funct3
      /\ Extract(word, <<15, 20>>) = given["rs1"]
      /\ Extract(word, <<20, 32>>) = p * 32 + given["shamt"]
      /\ given["shamt"] \in 0 .. 31
  BY SMT, ShiftLine
<1>2. /\ decode(R, word).rd = Extract(word, <<7, 12>>)
      /\ decode(R, word).rs1 = Extract(word, <<15, 20>>)
      /\ decode(R, word).rs2 = Extract(word, <<20, 25>>)
  BY Zenon, Decodes
<1>3. DOMAIN given = {"rd", "rs1", "shamt"}
  OBVIOUS
<1>4. HartImm(word) = c2(12, Extract(word, <<20, 32>>))
  BY SMT, <1>1, HartImmIs
<1>5. Asked(name, given) = given["shamt"] + (IF name = "SRAI" THEN 1024 ELSE 0)
  BY SMT, <1>3, AskedShamt DEF Placed
<1>6. (p * 32 + given["shamt"]) \in Nat /\ p * 32 + given["shamt"] < 2048
      /\ p * 32 + given["shamt"] = given["shamt"] + (IF name = "SRAI" THEN 1024 ELSE 0)
  BY SMT, <1>1 DEF F7Negate
<1>7. PICK v : v = p * 32 + given["shamt"]
  OBVIOUS
<1>8. v \in Nat /\ v < 2048
  BY Zenon, <1>6, <1>7
<1>9. c2(12, v) = v
  BY <1>8, SmallSigned
<1>10. HartImm(word) = Asked(name, given)
  BY SMT, <1>1, <1>4, <1>5, <1>6, <1>7, <1>9
<1> QED BY SMT, <1>1, <1>2, <1>10, <1>3 DEF HartReads

LEMMA LoadHart ==
  ASSUME NEW funct3 \in 0 .. 7, NEW name \in {"LB", "LH", "LW", "LBU", "LHU"}, NEW given,
         NEW word, word = value(Load(funct3), given), word # Refused,
         DOMAIN given = {"rd", "rs1off"}, given["rd"] \in 0 .. 31, given["rs1off"][1] \in Int,
         given["rs1off"][2] \in 0 .. 31
  PROVE  HartReads(name, given, word)
<1>1. /\ Extract(word, <<0, 7>>) = 3
      /\ Extract(word, <<7, 12>>) = given["rd"]
      /\ Extract(word, <<12, 15>>) = funct3
      /\ Extract(word, <<15, 20>>) = given["rs1off"][2]
      /\ Extract(word, <<20, 32>>) = given["rs1off"][1] % 4096
  BY SMT, LoadLine
<1>2. /\ decode(R, word).rd = Extract(word, <<7, 12>>)
      /\ decode(R, word).rs1 = Extract(word, <<15, 20>>)
      /\ decode(R, word).rs2 = Extract(word, <<20, 25>>)
  BY Zenon, Decodes
<1>3. DOMAIN given = {"rd", "rs1off"}
  OBVIOUS
<1>4. HartImm(word) = c2(12, Extract(word, <<20, 32>>))
  BY SMT, <1>1, HartImmIs
<1>5. Asked(name, given) = c2(12, given["rs1off"][1] % 4096)
  BY SMT, <1>3, AskedIs DEF Placed
<1>6. HartImm(word) = Asked(name, given)
  BY SMT, <1>1, <1>4, <1>5
<1> QED BY SMT, <1>1, <1>2, <1>6, <1>3 DEF HartReads

LEMMA FenceHart ==
  ASSUME NEW name \in {"FENCE"}, NEW given, NEW word, word = value(Fence(0), given),
         word # Refused, DOMAIN given = {"pred", "succ"},
         given["pred"] \subseteq ToSet(FenceLetter), given["succ"] \subseteq ToSet(FenceLetter)
  PROVE  HartReads(name, given, word)
<1>1. DOMAIN given = {"pred", "succ"}
  OBVIOUS
<1> QED BY SMT, <1>1 DEF HartReads

LEMMA SystemHart ==
  ASSUME NEW funct \in 0 .. 8, NEW name \in {"ECALL", "EBREAK"}, NEW given, NEW word,
         word = value(System(funct), given), word # Refused, DOMAIN given = {}
  PROVE  HartReads(name, given, word)
<1>1. DOMAIN given = {}
  OBVIOUS
<1> QED BY SMT, <1>1 DEF HartReads

LEMMA StoreHart ==
  ASSUME NEW funct3 \in 0 .. 7, NEW name \in {"SB", "SH", "SW"}, NEW given, NEW word,
         word = value(Store(funct3), given), word # Refused, DOMAIN given = {"rs2", "rs1off"},
         given["rs2"] \in 0 .. 31, given["rs1off"][1] \in Int, given["rs1off"][2] \in 0 .. 31
  PROVE  HartReads(name, given, word)
<1>1. /\ Extract(word, <<0, 7>>) = 35
      /\ Extract(word, <<7, 12>>) = given["rs1off"][1] % 32
      /\ Extract(word, <<12, 15>>) = funct3
      /\ Extract(word, <<15, 20>>) = given["rs1off"][2]
      /\ Extract(word, <<20, 25>>) = given["rs2"]
      /\ Extract(word, <<25, 32>>) = (given["rs1off"][1] \div 32) % 128
  BY SMT, StoreLine
<1>2. /\ decode(R, word).rd = Extract(word, <<7, 12>>)
      /\ decode(R, word).rs1 = Extract(word, <<15, 20>>)
      /\ decode(R, word).rs2 = Extract(word, <<20, 25>>)
  BY Zenon, Decodes
<1>3. DOMAIN given = {"rs2", "rs1off"}
  OBVIOUS
<1>4. HartImm(word) = c2(12, Extract(word, <<7, 12>>) + 32 * Extract(word, <<25, 32>>))
  BY SMT, <1>1, HartImmIs
<1>5. Asked(name, given) = c2(12, given["rs1off"][1] % 4096)
  BY SMT, <1>3, AskedIs DEF Placed
<1>6. PICK asked \in Int : asked = given["rs1off"][1]
  OBVIOUS
<1>7. ((asked % 32) + 32 * ((asked \div 32) % 128)) = asked % 4096
  BY JoinedS
<1>8. HartImm(word) = Asked(name, given)
  BY SMT, <1>1, <1>4, <1>5, <1>6, <1>7, Powers, SignedPowers
<1> QED BY SMT, <1>1, <1>2, <1>8, <1>3 DEF HartReads

LEMMA BranchHart ==
  ASSUME NEW funct3 \in 0 .. 7, NEW name \in {"BEQ", "BNE", "BLT", "BGE", "BLTU", "BGEU"},
         NEW given, NEW word, word = value(Branch(funct3), given), word # Refused,
         DOMAIN given = {"rs1", "rs2", "imm"}, given["rs1"] \in 0 .. 31,
         given["rs2"] \in 0 .. 31, given["imm"] \in Int
  PROVE  HartReads(name, given, word)
<1>1. /\ Extract(word, <<0, 7>>) = 99
      /\ Extract(word, <<7, 8>>) = (given["imm"] \div 2048) % 2
      /\ Extract(word, <<8, 12>>) = (given["imm"] \div 2) % 16
      /\ Extract(word, <<12, 15>>) = funct3
      /\ Extract(word, <<15, 20>>) = given["rs1"]
      /\ Extract(word, <<20, 25>>) = given["rs2"]
      /\ Extract(word, <<25, 31>>) = (given["imm"] \div 32) % 64
      /\ Extract(word, <<31, 32>>) = (given["imm"] \div 4096) % 2
  BY SMT, BranchLine
<1>2. /\ decode(R, word).rd = Extract(word, <<7, 12>>)
      /\ decode(R, word).rs1 = Extract(word, <<15, 20>>)
      /\ decode(R, word).rs2 = Extract(word, <<20, 25>>)
  BY Zenon, Decodes
<1>3. DOMAIN given = {"rs1", "rs2", "imm"}
  OBVIOUS
<1>4. HartImm(word) = c2(13, 2 * Extract(word, <<8, 12>>) + 32 * Extract(word, <<25, 31>>) +
        2048 * Extract(word, <<7, 8>>) + 4096 * Extract(word, <<31, 32>>))
  BY SMT, <1>1, HartImmIs
<1>5. Asked(name, given) = c2(13, (given["imm"] - (given["imm"] % 2)) % 8192)
  BY SMT, <1>3, AskedIs DEF Placed
<1>6. PICK asked \in Int : asked = given["imm"]
  OBVIOUS
<1>7. JoinsB(asked)
  BY Zenon, JoinedB
<1>8. (2 * ((asked \div 2) % 16) + 32 * ((asked \div 32) % 64)
       + 2048 * ((asked \div 2048) % 2) + 4096 * ((asked \div 4096) % 2)) =
         (asked - (asked % 2)) % 8192
  BY SMT, <1>7 DEF JoinsB
<1>9. HartImm(word) = Asked(name, given)
  BY SMT, <1>1, <1>4, <1>5, <1>6, <1>8, Powers, SignedPowers
<1> QED BY SMT, <1>1, <1>2, <1>9, <1>3 DEF HartReads

LEMMA UpperHart ==
  ASSUME NEW opcode, opcode \in {23, 55}, NEW name \in {"LUI", "AUIPC"}, NEW given, NEW word,
         word = value(Upper(opcode), given), word # Refused, DOMAIN given = {"rd", "imm"},
         given["rd"] \in 0 .. 31, given["imm"] \in Int
  PROVE  HartReads(name, given, word)
<1>1. /\ Extract(word, <<0, 7>>) = opcode
      /\ Extract(word, <<7, 12>>) = given["rd"]
      /\ Extract(word, <<12, 32>>) = given["imm"] % 2^20
  BY SMT, UpperLine
<1>2. /\ decode(R, word).rd = Extract(word, <<7, 12>>)
      /\ decode(R, word).rs1 = Extract(word, <<15, 20>>)
      /\ decode(R, word).rs2 = Extract(word, <<20, 25>>)
  BY Zenon, Decodes
<1>3. DOMAIN given = {"rd", "imm"}
  OBVIOUS
<1>4. HartImm(word) = Extract(word, <<12, 32>>)
  BY SMT, <1>1, HartImmIs
<1>5. Asked(name, given) = given["imm"] % 2^20
  BY SMT, <1>3, AskedIs DEF Placed
<1>6. HartImm(word) = Asked(name, given)
  BY SMT, <1>1, <1>4, <1>5
<1> QED BY SMT, <1>1, <1>2, <1>6, <1>3 DEF HartReads

LEMMA JalrHart ==
  ASSUME NEW name \in {"JALR"}, NEW given, NEW word, word = value(Jalr, given), word # Refused,
         DOMAIN given = {"rd", "rs1", "imm"}, given["rd"] \in 0 .. 31,
         given["rs1"] \in 0 .. 31, given["imm"] \in Int
  PROVE  HartReads(name, given, word)
<1>1. /\ Extract(word, <<0, 7>>) = 103
      /\ Extract(word, <<7, 12>>) = given["rd"]
      /\ Extract(word, <<12, 15>>) = 0
      /\ Extract(word, <<15, 20>>) = given["rs1"]
      /\ Extract(word, <<20, 32>>) = given["imm"] % 4096
  BY SMT, JalrLine
<1>2. /\ decode(R, word).rd = Extract(word, <<7, 12>>)
      /\ decode(R, word).rs1 = Extract(word, <<15, 20>>)
      /\ decode(R, word).rs2 = Extract(word, <<20, 25>>)
  BY Zenon, Decodes
<1>3. DOMAIN given = {"rd", "rs1", "imm"}
  OBVIOUS
<1>4. HartImm(word) = c2(12, Extract(word, <<20, 32>>))
  BY SMT, <1>1, HartImmIs
<1>5. Asked(name, given) = c2(12, given["imm"] % 4096)
  BY SMT, <1>3, AskedIs DEF Placed
<1>6. HartImm(word) = Asked(name, given)
  BY SMT, <1>1, <1>4, <1>5
<1> QED BY SMT, <1>1, <1>2, <1>6, <1>3 DEF HartReads

LEMMA JalHart ==
  ASSUME NEW name \in {"JAL"}, NEW given, NEW word, word = value(Jal, given), word # Refused,
         DOMAIN given = {"rd", "imm"}, given["rd"] \in 0 .. 31, given["imm"] \in Int
  PROVE  HartReads(name, given, word)
<1>1. /\ Extract(word, <<0, 7>>) = 111
      /\ Extract(word, <<7, 12>>) = given["rd"]
      /\ Extract(word, <<12, 20>>) = (given["imm"] \div 4096) % 256
      /\ Extract(word, <<20, 21>>) = (given["imm"] \div 2048) % 2
      /\ Extract(word, <<21, 31>>) = (given["imm"] \div 2) % 1024
      /\ Extract(word, <<31, 32>>) = (given["imm"] \div 1048576) % 2
  BY SMT, JalLine
<1>2. /\ decode(R, word).rd = Extract(word, <<7, 12>>)
      /\ decode(R, word).rs1 = Extract(word, <<15, 20>>)
      /\ decode(R, word).rs2 = Extract(word, <<20, 25>>)
  BY Zenon, Decodes
<1>3. DOMAIN given = {"rd", "imm"}
  OBVIOUS
<1>4. HartImm(word) = c2(21, 2 * Extract(word, <<21, 31>>) + 2048 * Extract(word, <<20, 21>>) +
        4096 * Extract(word, <<12, 20>>) + 2^20 * Extract(word, <<31, 32>>))
  BY SMT, <1>1, HartImmIs
<1>5. Asked(name, given) = c2(21, (given["imm"] - (given["imm"] % 2)) % 2^21)
  BY SMT, <1>3, AskedIs DEF Placed
<1>6. PICK asked \in Int : asked = given["imm"]
  OBVIOUS
<1>7. JoinsJ(asked)
  BY Zenon, JoinedJ
<1>8. (2 * ((asked \div 2) % 1024) + 2048 * ((asked \div 2048) % 2)
       + 4096 * ((asked \div 4096) % 256) + 1048576 * ((asked \div 1048576) % 2)) =
         (asked - (asked % 2)) % 2097152
  BY SMT, <1>7 DEF JoinsJ
<1>9. HartImm(word) = Asked(name, given)
  BY SMT, <1>1, <1>4, <1>5, <1>6, <1>8, Powers, SignedPowers
<1> QED BY SMT, <1>1, <1>2, <1>9, <1>3 DEF HartReads

LEMMA FenceTSOHart ==
  ASSUME NEW name \in {"FENCE_TSO"}, NEW given, NEW word, word = value(Insns.FENCE_TSO, given),
         word # Refused, DOMAIN given = {}
  PROVE  HartReads(name, given, word)
<1>1. DOMAIN given = {}
  OBVIOUS
<1> QED BY SMT, <1>1 DEF HartReads

LEMMA SnezHart ==
  ASSUME NEW name \in {"SNEZ"}, NEW given, NEW word, word = value(Insns.SNEZ, given),
         word # Refused, DOMAIN given = {"rd", "rs2"}, given["rd"] \in 0 .. 31,
         given["rs2"] \in 0 .. 31
  PROVE  HartReads(name, given, word)
<1>1. /\ Extract(word, <<0, 7>>) = 51
      /\ Extract(word, <<7, 12>>) = given["rd"]
      /\ Extract(word, <<12, 15>>) = 3
      /\ Extract(word, <<15, 20>>) = 0
      /\ Extract(word, <<20, 25>>) = given["rs2"]
      /\ Extract(word, <<25, 32>>) = 0
  BY SMT, SnezLine
<1>2. /\ decode(R, word).rd = Extract(word, <<7, 12>>)
      /\ decode(R, word).rs1 = Extract(word, <<15, 20>>)
      /\ decode(R, word).rs2 = Extract(word, <<20, 25>>)
  BY Zenon, Decodes
<1>3. DOMAIN given = {"rd", "rs2"}
  OBVIOUS
<1> QED BY SMT, <1>1, <1>2, <1>3 DEF HartReads

LEMMA RetHart ==
  ASSUME NEW name \in {"RET"}, NEW given, NEW word, word = value(Insns.RET, given),
         word # Refused, DOMAIN given = {}
  PROVE  HartReads(name, given, word)
<1>1. DOMAIN given = {}
  OBVIOUS
<1> QED BY SMT, <1>1 DEF HartReads

LEMMA MvHart ==
  ASSUME NEW name \in {"MV"}, NEW given, NEW word, word = value(Insns.MV, given),
         word # Refused, DOMAIN given = {"rd", "rs1"}, given["rd"] \in 0 .. 31,
         given["rs1"] \in 0 .. 31
  PROVE  HartReads(name, given, word)
<1>1. /\ Extract(word, <<0, 7>>) = 19
      /\ Extract(word, <<7, 12>>) = given["rd"]
      /\ Extract(word, <<12, 15>>) = 0
      /\ Extract(word, <<15, 20>>) = given["rs1"]
      /\ Extract(word, <<20, 32>>) = 0
  BY SMT, MvLine
<1>2. /\ decode(R, word).rd = Extract(word, <<7, 12>>)
      /\ decode(R, word).rs1 = Extract(word, <<15, 20>>)
      /\ decode(R, word).rs2 = Extract(word, <<20, 25>>)
  BY Zenon, Decodes
<1>3. DOMAIN given = {"rd", "rs1"}
  OBVIOUS
<1> QED BY SMT, <1>1, <1>2, <1>3 DEF HartReads

LEMMA SeqzHart ==
  ASSUME NEW name \in {"SEQZ"}, NEW given, NEW word, word = value(Insns.SEQZ, given),
         word # Refused, DOMAIN given = {"rd", "rs1"}, given["rd"] \in 0 .. 31,
         given["rs1"] \in 0 .. 31
  PROVE  HartReads(name, given, word)
<1>1. /\ Extract(word, <<0, 7>>) = 19
      /\ Extract(word, <<7, 12>>) = given["rd"]
      /\ Extract(word, <<12, 15>>) = 3
      /\ Extract(word, <<15, 20>>) = given["rs1"]
      /\ Extract(word, <<20, 32>>) = 1
  BY SMT, SeqzLine
<1>2. /\ decode(R, word).rd = Extract(word, <<7, 12>>)
      /\ decode(R, word).rs1 = Extract(word, <<15, 20>>)
      /\ decode(R, word).rs2 = Extract(word, <<20, 25>>)
  BY Zenon, Decodes
<1>3. DOMAIN given = {"rd", "rs1"}
  OBVIOUS
<1> QED BY SMT, <1>1, <1>2, <1>3 DEF HartReads

LEMMA NotHart ==
  ASSUME NEW name \in {"NOT"}, NEW given, NEW word, word = value(Insns.NOT, given),
         word # Refused, DOMAIN given = {"rd", "rs1"}, given["rd"] \in 0 .. 31,
         given["rs1"] \in 0 .. 31
  PROVE  HartReads(name, given, word)
<1>1. /\ Extract(word, <<0, 7>>) = 19
      /\ Extract(word, <<7, 12>>) = given["rd"]
      /\ Extract(word, <<12, 15>>) = 4
      /\ Extract(word, <<15, 20>>) = given["rs1"]
      /\ Extract(word, <<20, 32>>) = 4095
  BY SMT, NotLine
<1>2. /\ decode(R, word).rd = Extract(word, <<7, 12>>)
      /\ decode(R, word).rs1 = Extract(word, <<15, 20>>)
      /\ decode(R, word).rs2 = Extract(word, <<20, 25>>)
  BY Zenon, Decodes
<1>3. DOMAIN given = {"rd", "rs1"}
  OBVIOUS
<1> QED BY SMT, <1>1, <1>2, <1>3 DEF HartReads

LEMMA NopHart ==
  ASSUME NEW name \in {"NOP"}, NEW given, NEW word, word = value(Insns.NOP, given),
         word # Refused, DOMAIN given = {}
  PROVE  HartReads(name, given, word)
<1>1. DOMAIN given = {}
  OBVIOUS
<1> QED BY SMT, <1>1 DEF HartReads

LEMMA JHart ==
  ASSUME NEW name \in {"J_"}, NEW given, NEW word, word = value(Insns.J_, given),
         word # Refused, DOMAIN given = {"imm"}, given["imm"] \in Int
  PROVE  HartReads(name, given, word)
<1>1. /\ Extract(word, <<0, 7>>) = 111
      /\ Extract(word, <<7, 12>>) = 0
      /\ Extract(word, <<12, 20>>) = (given["imm"] \div 4096) % 256
      /\ Extract(word, <<20, 21>>) = (given["imm"] \div 2048) % 2
      /\ Extract(word, <<21, 31>>) = (given["imm"] \div 2) % 1024
      /\ Extract(word, <<31, 32>>) = (given["imm"] \div 1048576) % 2
  BY SMT, JLine
<1>2. /\ decode(R, word).rd = Extract(word, <<7, 12>>)
      /\ decode(R, word).rs1 = Extract(word, <<15, 20>>)
      /\ decode(R, word).rs2 = Extract(word, <<20, 25>>)
  BY Zenon, Decodes
<1>3. DOMAIN given = {"imm"}
  OBVIOUS
<1>4. HartImm(word) = c2(21, 2 * Extract(word, <<21, 31>>) + 2048 * Extract(word, <<20, 21>>) +
        4096 * Extract(word, <<12, 20>>) + 2^20 * Extract(word, <<31, 32>>))
  BY SMT, <1>1, HartImmIs
<1>5. Asked(name, given) = c2(21, (given["imm"] - (given["imm"] % 2)) % 2^21)
  BY SMT, <1>3, AskedIs DEF Placed
<1>6. PICK asked \in Int : asked = given["imm"]
  OBVIOUS
<1>7. JoinsJ(asked)
  BY Zenon, JoinedJ
<1>8. (2 * ((asked \div 2) % 1024) + 2048 * ((asked \div 2048) % 2)
       + 4096 * ((asked \div 4096) % 256) + 1048576 * ((asked \div 1048576) % 2)) =
         (asked - (asked % 2)) % 2097152
  BY SMT, <1>7 DEF JoinsJ
<1>9. HartImm(word) = Asked(name, given)
  BY SMT, <1>1, <1>4, <1>5, <1>6, <1>8, Powers, SignedPowers
<1> QED BY SMT, <1>1, <1>2, <1>9, <1>3 DEF HartReads
-----------------------------------------------------------------------------
(* The instructions, one by one. *)

Funct3 ==
  [ADD |-> 0, SUB |-> 0, SLL |-> 1, SLT |-> 2, SLTU |-> 3, XOR |-> 4, SRL |-> 5, SRA |-> 5,
   OR |-> 6, AND |-> 7, ADDI |-> 0, SLTI |-> 2, SLTIU |-> 3, XORI |-> 4, ORI |-> 6, ANDI |-> 7,
   SLLI |-> 1, SRLI |-> 5, SRAI |-> 5, LB |-> 0, LH |-> 1, LW |-> 2, LBU |-> 4, LHU |-> 5,
   SB |-> 0, SH |-> 1, SW |-> 2, BEQ |-> 0, BNE |-> 1, BLT |-> 4, BGE |-> 5, BLTU |-> 6,
   BGEU |-> 7]

OpNames == <<"ADD", "SLL", "SLT", "SLTU", "XOR", "SRL", "OR", "AND">>
OpImmNames == <<"ADDI", "SLLI", "SLTI", "SLTIU", "XORI", "SRLI", "ORI", "ANDI">>
LoadNames == <<"LB", "LH", "LW", "none", "LBU", "LHU">>
StoreNames == <<"SB", "SH", "SW">>
BranchNames == <<"BEQ", "BNE", "none", "none", "BLT", "BGE", "BLTU", "BGEU">>

\* The instruction that is read in a word, if there is one: of the shifts to the right
\* SRLI, and never a special case.
Reading(word) ==
  LET opcode == Extract(word, <<0, 7>>)
      funct3 == Extract(word, <<12, 15>>)
  IN CASE opcode = 51 /\ Extract(word, <<25, 32>>) = 0 -> OpNames[funct3 + 1]
       [] opcode = 51 /\ Extract(word, <<25, 32>>) # 0 -> IF funct3 = 0 THEN "SUB" ELSE "SRA"
       [] opcode = 19 -> OpImmNames[funct3 + 1]
       [] opcode = 3 -> LoadNames[funct3 + 1]
       [] opcode = 35 -> StoreNames[funct3 + 1]
       [] opcode = 99 -> BranchNames[funct3 + 1]
       [] opcode = 15 -> "FENCE"
       [] opcode = 23 -> "AUIPC"
       [] opcode = 55 -> "LUI"
       [] opcode = 103 -> "JALR"
       [] opcode = 111 -> "JAL"
       [] opcode = 115 -> IF Extract(word, <<20, 32>>) = 0 THEN "ECALL" ELSE "EBREAK"

\* The instruction that is read in the words of each.
BaseOf == [SRAI |-> "SRLI", FENCE_TSO |-> "FENCE", SNEZ |-> "SLTU", RET |-> "JALR",
  MV |-> "ADDI", SEQZ |-> "SLTIU", NOT |-> "XORI", NOP |-> "ADDI", J_ |-> "JAL"]

Base(name) == IF name \in DOMAIN BaseOf THEN BaseOf[name] ELSE name

\* The instruction as which the word of each is read.
LEMMA BaseIs ==
  ASSUME NEW name
  PROVE  /\ name = "SRAI" => Base(name) = "SRLI"
         /\ name = "FENCE_TSO" => Base(name) = "FENCE"
         /\ name = "SNEZ" => Base(name) = "SLTU"
         /\ name = "RET" => Base(name) = "JALR"
         /\ name = "MV" => Base(name) = "ADDI"
         /\ name = "SEQZ" => Base(name) = "SLTIU"
         /\ name = "NOT" => Base(name) = "XORI"
         /\ name = "NOP" => Base(name) = "ADDI"
         /\ name = "J_" => Base(name) = "JAL"
         /\ name \notin SpecialCases \cup {"SRAI"} => Base(name) = name
BY SMT DEF Base, BaseOf, SpecialCases

\* The operands of a line are of their kinds.
LEMMA OperandIs ==
  ASSUME NEW name, NEW given, Asks(name, given), NEW e \in ToSet(Insns[name].asm_args)
  PROVE  /\ e \in {"rd", "rs1", "rs2"} => given[e] \in 0 .. 31
         /\ e = "rs1off" => given[e][1] \in Int /\ given[e][2] \in 0 .. 31
         /\ e \in {"pred", "succ"} => given[e] \subseteq ToSet(FenceLetter)
         /\ e \in {"imm", "shamt"} => given[e] \in Int
<1>1. given[e] \in Operand(e)
  BY DEF Asks
<1>2. CASE e \in {"rd", "rs1", "rs2"}
  BY SMT, <1>1, <1>2 DEF Operand
<1>3. CASE e = "rs1off"
  <2>1. given[e] \in Int \X (0 .. 31)
    BY SMT, <1>1, <1>3 DEF Operand
  <2> QED BY <1>3, <2>1
<1>4. CASE e \in {"pred", "succ"}
  <2>1. given[e] \in SUBSET ToSet(FenceLetter)
    BY SMT, <1>1, <1>4 DEF Operand
  <2> QED BY <1>4, <2>1
<1>5. CASE e \in {"imm", "shamt"}
  BY SMT, <1>1, <1>5 DEF Operand
<1> QED BY <1>2, <1>3, <1>4, <1>5

\* XNamed, XAsks and XRead, for each family X: the instructions of that name; the operands
\* that they ask for, and get; and as which instruction their words are read.
LEMMA OpNamed ==
  ASSUME NEW name \in {"ADD", "SLL", "SLT", "SLTU", "XOR", "SRL", "OR", "AND"}
  PROVE  /\ Insns[name] = Op(Funct3[name], 0)
         /\ Insns[name].asm_args = <<"rd", "rs1", "rs2">>
         /\ ToSet(Insns[name].asm_args) = {"rd", "rs1", "rs2"}
<1>1. /\ Insns["ADD"] = Op(0, 0)
      /\ Insns["SLL"] = Op(1, 0)
      /\ Insns["SLT"] = Op(2, 0)
      /\ Insns["SLTU"] = Op(3, 0)
      /\ Insns["XOR"] = Op(4, 0)
      /\ Insns["SRL"] = Op(5, 0)
      /\ Insns["OR"] = Op(6, 0)
      /\ Insns["AND"] = Op(7, 0)
  BY DEF Insns
<1>2. /\ Funct3["ADD"] = 0
      /\ Funct3["SLL"] = 1
      /\ Funct3["SLT"] = 2
      /\ Funct3["SLTU"] = 3
      /\ Funct3["XOR"] = 4
      /\ Funct3["SRL"] = 5
      /\ Funct3["OR"] = 6
      /\ Funct3["AND"] = 7
  BY DEF Funct3
<1>3. PICK funct3 : funct3 = Funct3[name]
  OBVIOUS
<1>4. Insns[name] = Op(funct3, 0)
  BY <1>1, <1>2, <1>3
<1>5. PICK insn : insn = Insn(R, [funct3 |-> funct3], <<>>, <<"rd", "rs1", "rs2">>)
  OBVIOUS
<1>6. insn = Op(funct3, 0)
  BY <1>5, OpForm
<1>7. insn.asm_args = <<"rd", "rs1", "rs2">>
  BY <1>5, InsnParts
<1>8. ToSet(<<"rd", "rs1", "rs2">>) = {"rd", "rs1", "rs2"}
  BY DEF ToSet
<1> QED BY <1>3, <1>4, <1>6, <1>7, <1>8

LEMMA OpAsks ==
  ASSUME NEW name \in {"ADD", "SLL", "SLT", "SLTU", "XOR", "SRL", "OR", "AND"}, NEW given,
    Asks(name, given)
  PROVE  /\ {"rd", "rs1", "rs2"} \subseteq DOMAIN given
         /\ given["rd"] \in 0 .. 31
         /\ given["rs1"] \in 0 .. 31
         /\ given["rs2"] \in 0 .. 31
<1>1. ToSet(Insns[name].asm_args) = {"rd", "rs1", "rs2"}
  BY OpNamed
<1>2. {"rd", "rs1", "rs2"} \subseteq DOMAIN given
  BY <1>1 DEF Asks
<1>3. given["rd"] \in 0 .. 31
  BY <1>1, OperandIs
<1>4. given["rs1"] \in 0 .. 31
  BY <1>1, OperandIs
<1>5. given["rs2"] \in 0 .. 31
  BY <1>1, OperandIs
<1> QED BY <1>2, <1>3, <1>4, <1>5

LEMMA OpRead ==
  ASSUME NEW name \in {"ADD", "SLL", "SLT", "SLTU", "XOR", "SRL", "OR", "AND"}, NEW word,
         NEW funct3, funct3 = Funct3[name], Extract(word, <<0, 7>>) = 51,
         Extract(word, <<12, 15>>) = funct3, Extract(word, <<25, 32>>) = 0
  PROVE  Reading(word) = Base(name)
<1>1. CASE name = "ADD"
  <2>1. /\ Extract(word, <<0, 7>>) = 51
        /\ Extract(word, <<12, 15>>) = 0
        /\ Extract(word, <<25, 32>>) = 0
    BY SMT, <1>1 DEF Funct3
  <2>2. Reading(word) = "ADD"
    BY SMT, <2>1 DEF Reading, OpNames
  <2>3. Base(name) = "ADD"
    BY SMT, <1>1, BaseIs DEF SpecialCases
  <2> QED BY Zenon, <2>2, <2>3
<1>2. CASE name = "SLL"
  <2>1. /\ Extract(word, <<0, 7>>) = 51
        /\ Extract(word, <<12, 15>>) = 1
        /\ Extract(word, <<25, 32>>) = 0
    BY SMT, <1>2 DEF Funct3
  <2>2. Reading(word) = "SLL"
    BY SMT, <2>1 DEF Reading, OpNames
  <2>3. Base(name) = "SLL"
    BY SMT, <1>2, BaseIs DEF SpecialCases
  <2> QED BY Zenon, <2>2, <2>3
<1>3. CASE name = "SLT"
  <2>1. /\ Extract(word, <<0, 7>>) = 51
        /\ Extract(word, <<12, 15>>) = 2
        /\ Extract(word, <<25, 32>>) = 0
    BY SMT, <1>3 DEF Funct3
  <2>2. Reading(word) = "SLT"
    BY SMT, <2>1 DEF Reading, OpNames
  <2>3. Base(name) = "SLT"
    BY SMT, <1>3, BaseIs DEF SpecialCases
  <2> QED BY Zenon, <2>2, <2>3
<1>4. CASE name = "SLTU"
  <2>1. /\ Extract(word, <<0, 7>>) = 51
        /\ Extract(word, <<12, 15>>) = 3
        /\ Extract(word, <<25, 32>>) = 0
    BY SMT, <1>4 DEF Funct3
  <2>2. Reading(word) = "SLTU"
    BY SMT, <2>1 DEF Reading, OpNames
  <2>3. Base(name) = "SLTU"
    BY SMT, <1>4, BaseIs DEF SpecialCases
  <2> QED BY Zenon, <2>2, <2>3
<1>5. CASE name = "XOR"
  <2>1. /\ Extract(word, <<0, 7>>) = 51
        /\ Extract(word, <<12, 15>>) = 4
        /\ Extract(word, <<25, 32>>) = 0
    BY SMT, <1>5 DEF Funct3
  <2>2. Reading(word) = "XOR"
    BY SMT, <2>1 DEF Reading, OpNames
  <2>3. Base(name) = "XOR"
    BY SMT, <1>5, BaseIs DEF SpecialCases
  <2> QED BY Zenon, <2>2, <2>3
<1>6. CASE name = "SRL"
  <2>1. /\ Extract(word, <<0, 7>>) = 51
        /\ Extract(word, <<12, 15>>) = 5
        /\ Extract(word, <<25, 32>>) = 0
    BY SMT, <1>6 DEF Funct3
  <2>2. Reading(word) = "SRL"
    BY SMT, <2>1 DEF Reading, OpNames
  <2>3. Base(name) = "SRL"
    BY SMT, <1>6, BaseIs DEF SpecialCases
  <2> QED BY Zenon, <2>2, <2>3
<1>7. CASE name = "OR"
  <2>1. /\ Extract(word, <<0, 7>>) = 51
        /\ Extract(word, <<12, 15>>) = 6
        /\ Extract(word, <<25, 32>>) = 0
    BY SMT, <1>7 DEF Funct3
  <2>2. Reading(word) = "OR"
    BY SMT, <2>1 DEF Reading, OpNames
  <2>3. Base(name) = "OR"
    BY SMT, <1>7, BaseIs DEF SpecialCases
  <2> QED BY Zenon, <2>2, <2>3
<1>8. CASE name = "AND"
  <2>1. /\ Extract(word, <<0, 7>>) = 51
        /\ Extract(word, <<12, 15>>) = 7
        /\ Extract(word, <<25, 32>>) = 0
    BY SMT, <1>8 DEF Funct3
  <2>2. Reading(word) = "AND"
    BY SMT, <2>1 DEF Reading, OpNames
  <2>3. Base(name) = "AND"
    BY SMT, <1>8, BaseIs DEF SpecialCases
  <2> QED BY Zenon, <2>2, <2>3
<1> QED BY Zenon, <1>1, <1>2, <1>3, <1>4, <1>5, <1>6, <1>7, <1>8

LEMMA OpNegateNamed ==
  ASSUME NEW name \in {"SUB", "SRA"}
  PROVE  /\ Insns[name] = Op(Funct3[name], F7Negate)
         /\ Insns[name].asm_args = <<"rd", "rs1", "rs2">>
         /\ ToSet(Insns[name].asm_args) = {"rd", "rs1", "rs2"}
<1>1. /\ Insns["SUB"] = Op(0, F7Negate)
      /\ Insns["SRA"] = Op(5, F7Negate)
  BY DEF Insns
<1>2. /\ Funct3["SUB"] = 0
      /\ Funct3["SRA"] = 5
  BY DEF Funct3
<1>3. PICK funct3 : funct3 = Funct3[name]
  OBVIOUS
<1>4. Insns[name] = Op(funct3, F7Negate)
  BY <1>1, <1>2, <1>3
<1>5. PICK insn : insn = Insn(R, [funct3 |-> funct3, funct7 |-> 32], <<>>, <<"rd", "rs1", "rs2">>)
  OBVIOUS
<1>6. insn = Op(funct3, F7Negate)
  BY <1>5, OpNegateForm
<1>7. insn.asm_args = <<"rd", "rs1", "rs2">>
  BY <1>5, InsnParts
<1>8. ToSet(<<"rd", "rs1", "rs2">>) = {"rd", "rs1", "rs2"}
  BY DEF ToSet
<1> QED BY <1>3, <1>4, <1>6, <1>7, <1>8

LEMMA OpNegateAsks ==
  ASSUME NEW name \in {"SUB", "SRA"}, NEW given, Asks(name, given)
  PROVE  /\ {"rd", "rs1", "rs2"} \subseteq DOMAIN given
         /\ given["rd"] \in 0 .. 31
         /\ given["rs1"] \in 0 .. 31
         /\ given["rs2"] \in 0 .. 31
<1>1. ToSet(Insns[name].asm_args) = {"rd", "rs1", "rs2"}
  BY OpNegateNamed
<1>2. {"rd", "rs1", "rs2"} \subseteq DOMAIN given
  BY <1>1 DEF Asks
<1>3. given["rd"] \in 0 .. 31
  BY <1>1, OperandIs
<1>4. given["rs1"] \in 0 .. 31
  BY <1>1, OperandIs
<1>5. given["rs2"] \in 0 .. 31
  BY <1>1, OperandIs
<1> QED BY <1>2, <1>3, <1>4, <1>5

LEMMA OpNegateRead ==
  ASSUME NEW name \in {"SUB", "SRA"}, NEW word, NEW funct3, funct3 = Funct3[name],
         Extract(word, <<0, 7>>) = 51, Extract(word, <<12, 15>>) = funct3,
         Extract(word, <<25, 32>>) = 32
  PROVE  Reading(word) = Base(name)
<1>1. CASE name = "SUB"
  <2>1. /\ Extract(word, <<0, 7>>) = 51
        /\ Extract(word, <<12, 15>>) = 0
        /\ Extract(word, <<25, 32>>) = 32
    BY SMT, <1>1 DEF Funct3
  <2>2. Reading(word) = "SUB"
    BY SMT, <2>1 DEF Reading
  <2>3. Base(name) = "SUB"
    BY SMT, <1>1, BaseIs DEF SpecialCases
  <2> QED BY Zenon, <2>2, <2>3
<1>2. CASE name = "SRA"
  <2>1. /\ Extract(word, <<0, 7>>) = 51
        /\ Extract(word, <<12, 15>>) = 5
        /\ Extract(word, <<25, 32>>) = 32
    BY SMT, <1>2 DEF Funct3
  <2>2. Reading(word) = "SRA"
    BY SMT, <2>1 DEF Reading
  <2>3. Base(name) = "SRA"
    BY SMT, <1>2, BaseIs DEF SpecialCases
  <2> QED BY Zenon, <2>2, <2>3
<1> QED BY Zenon, <1>1, <1>2

LEMMA OpImmNamed ==
  ASSUME NEW name \in {"ADDI", "SLTI", "SLTIU", "XORI", "ORI", "ANDI"}
  PROVE  /\ Insns[name] = OpImm(Funct3[name])
         /\ Insns[name].asm_args = <<"rd", "rs1", "imm">>
         /\ ToSet(Insns[name].asm_args) = {"rd", "rs1", "imm"}
<1>1. /\ Insns["ADDI"] = OpImm(0)
      /\ Insns["SLTI"] = OpImm(2)
      /\ Insns["SLTIU"] = OpImm(3)
      /\ Insns["XORI"] = OpImm(4)
      /\ Insns["ORI"] = OpImm(6)
      /\ Insns["ANDI"] = OpImm(7)
  BY DEF Insns
<1>2. /\ Funct3["ADDI"] = 0
      /\ Funct3["SLTI"] = 2
      /\ Funct3["SLTIU"] = 3
      /\ Funct3["XORI"] = 4
      /\ Funct3["ORI"] = 6
      /\ Funct3["ANDI"] = 7
  BY DEF Funct3
<1>3. PICK funct3 : funct3 = Funct3[name]
  OBVIOUS
<1>4. Insns[name] = OpImm(funct3)
  BY <1>1, <1>2, <1>3
<1>5. PICK insn : insn = Insn(I, [funct3 |-> funct3], <<>>, <<"rd", "rs1", "imm">>)
  OBVIOUS
<1>6. insn = OpImm(funct3)
  BY <1>5, OpImmForm
<1>7. insn.asm_args = <<"rd", "rs1", "imm">>
  BY <1>5, InsnParts
<1>8. ToSet(<<"rd", "rs1", "imm">>) = {"rd", "rs1", "imm"}
  BY DEF ToSet
<1> QED BY <1>3, <1>4, <1>6, <1>7, <1>8

LEMMA OpImmAsks ==
  ASSUME NEW name \in {"ADDI", "SLTI", "SLTIU", "XORI", "ORI", "ANDI"}, NEW given,
    Asks(name, given)
  PROVE  /\ {"rd", "rs1", "imm"} \subseteq DOMAIN given
         /\ given["rd"] \in 0 .. 31
         /\ given["rs1"] \in 0 .. 31
         /\ given["imm"] \in Int
<1>1. ToSet(Insns[name].asm_args) = {"rd", "rs1", "imm"}
  BY OpImmNamed
<1>2. {"rd", "rs1", "imm"} \subseteq DOMAIN given
  BY <1>1 DEF Asks
<1>3. given["rd"] \in 0 .. 31
  BY <1>1, OperandIs
<1>4. given["rs1"] \in 0 .. 31
  BY <1>1, OperandIs
<1>5. given["imm"] \in Int
  BY <1>1, OperandIs
<1> QED BY <1>2, <1>3, <1>4, <1>5

LEMMA OpImmRead ==
  ASSUME NEW name \in {"ADDI", "SLTI", "SLTIU", "XORI", "ORI", "ANDI"}, NEW word,
         NEW funct3, funct3 = Funct3[name], Extract(word, <<0, 7>>) = 19,
         Extract(word, <<12, 15>>) = funct3
  PROVE  Reading(word) = Base(name)
<1>1. CASE name = "ADDI"
  <2>1. /\ Extract(word, <<0, 7>>) = 19
        /\ Extract(word, <<12, 15>>) = 0
    BY SMT, <1>1 DEF Funct3
  <2>2. Reading(word) = "ADDI"
    BY SMT, <2>1 DEF Reading, OpImmNames
  <2>3. Base(name) = "ADDI"
    BY SMT, <1>1, BaseIs DEF SpecialCases
  <2> QED BY Zenon, <2>2, <2>3
<1>2. CASE name = "SLTI"
  <2>1. /\ Extract(word, <<0, 7>>) = 19
        /\ Extract(word, <<12, 15>>) = 2
    BY SMT, <1>2 DEF Funct3
  <2>2. Reading(word) = "SLTI"
    BY SMT, <2>1 DEF Reading, OpImmNames
  <2>3. Base(name) = "SLTI"
    BY SMT, <1>2, BaseIs DEF SpecialCases
  <2> QED BY Zenon, <2>2, <2>3
<1>3. CASE name = "SLTIU"
  <2>1. /\ Extract(word, <<0, 7>>) = 19
        /\ Extract(word, <<12, 15>>) = 3
    BY SMT, <1>3 DEF Funct3
  <2>2. Reading(word) = "SLTIU"
    BY SMT, <2>1 DEF Reading, OpImmNames
  <2>3. Base(name) = "SLTIU"
    BY SMT, <1>3, BaseIs DEF SpecialCases
  <2> QED BY Zenon, <2>2, <2>3
<1>4. CASE name = "XORI"
  <2>1. /\ Extract(word, <<0, 7>>) = 19
        /\ Extract(word, <<12, 15>>) = 4
    BY SMT, <1>4 DEF Funct3
  <2>2. Reading(word) = "XORI"
    BY SMT, <2>1 DEF Reading, OpImmNames
  <2>3. Base(name) = "XORI"
    BY SMT, <1>4, BaseIs DEF SpecialCases
  <2> QED BY Zenon, <2>2, <2>3
<1>5. CASE name = "ORI"
  <2>1. /\ Extract(word, <<0, 7>>) = 19
        /\ Extract(word, <<12, 15>>) = 6
    BY SMT, <1>5 DEF Funct3
  <2>2. Reading(word) = "ORI"
    BY SMT, <2>1 DEF Reading, OpImmNames
  <2>3. Base(name) = "ORI"
    BY SMT, <1>5, BaseIs DEF SpecialCases
  <2> QED BY Zenon, <2>2, <2>3
<1>6. CASE name = "ANDI"
  <2>1. /\ Extract(word, <<0, 7>>) = 19
        /\ Extract(word, <<12, 15>>) = 7
    BY SMT, <1>6 DEF Funct3
  <2>2. Reading(word) = "ANDI"
    BY SMT, <2>1 DEF Reading, OpImmNames
  <2>3. Base(name) = "ANDI"
    BY SMT, <1>6, BaseIs DEF SpecialCases
  <2> QED BY Zenon, <2>2, <2>3
<1> QED BY Zenon, <1>1, <1>2, <1>3, <1>4, <1>5, <1>6

LEMMA ShiftNamed ==
  ASSUME NEW name \in {"SLLI", "SRLI", "SRAI"}
  PROVE  /\ Insns[name] = Shift(Funct3[name], IF name = "SRAI" THEN F7Negate ELSE 0)
         /\ Insns[name].asm_args = <<"rd", "rs1", "shamt">>
         /\ ToSet(Insns[name].asm_args) = {"rd", "rs1", "shamt"}
<1>1. /\ Insns["SLLI"] = Shift(1, 0)
      /\ Insns["SRLI"] = Shift(5, 0)
      /\ Insns["SRAI"] = Shift(5, F7Negate)
  BY DEF Insns
<1>2. /\ Funct3["SLLI"] = 1
      /\ Funct3["SRLI"] = 5
      /\ Funct3["SRAI"] = 5
  BY DEF Funct3
<1>3. PICK funct3, p : funct3 = Funct3[name] /\ p = (IF name = "SRAI" THEN F7Negate ELSE 0)
  OBVIOUS
<1>4. Insns[name] = Shift(funct3, p)
  BY <1>1, <1>2, <1>3
<1>5. PICK insn : insn = Insn(I, [funct3 |-> funct3], <<ShamtXfrm(p)>>, <<"rd", "rs1", "shamt">>)
  OBVIOUS
<1>6. insn = Shift(funct3, p)
  BY <1>5, ShiftForm
<1>7. insn.asm_args = <<"rd", "rs1", "shamt">>
  BY <1>5, InsnParts
<1>8. ToSet(<<"rd", "rs1", "shamt">>) = {"rd", "rs1", "shamt"}
  BY DEF ToSet
<1> QED BY <1>3, <1>4, <1>6, <1>7, <1>8

LEMMA ShiftAsks ==
  ASSUME NEW name \in {"SLLI", "SRLI", "SRAI"}, NEW given, Asks(name, given)
  PROVE  /\ {"rd", "rs1", "shamt"} \subseteq DOMAIN given
         /\ given["rd"] \in 0 .. 31
         /\ given["rs1"] \in 0 .. 31
         /\ given["shamt"] \in Int
<1>1. ToSet(Insns[name].asm_args) = {"rd", "rs1", "shamt"}
  BY ShiftNamed
<1>2. {"rd", "rs1", "shamt"} \subseteq DOMAIN given
  BY <1>1 DEF Asks
<1>3. given["rd"] \in 0 .. 31
  BY <1>1, OperandIs
<1>4. given["rs1"] \in 0 .. 31
  BY <1>1, OperandIs
<1>5. given["shamt"] \in Int
  BY <1>1, OperandIs
<1> QED BY <1>2, <1>3, <1>4, <1>5

LEMMA ShiftRead ==
  ASSUME NEW name \in {"SLLI", "SRLI", "SRAI"}, NEW word, NEW funct3, funct3 = Funct3[name],
         Extract(word, <<0, 7>>) = 19, Extract(word, <<12, 15>>) = funct3
  PROVE  Reading(word) = Base(name)
<1>1. CASE name = "SLLI"
  <2>1. /\ Extract(word, <<0, 7>>) = 19
        /\ Extract(word, <<12, 15>>) = 1
    BY SMT, <1>1 DEF Funct3
  <2>2. Reading(word) = "SLLI"
    BY SMT, <2>1 DEF Reading, OpImmNames
  <2>3. Base(name) = "SLLI"
    BY SMT, <1>1, BaseIs DEF SpecialCases
  <2> QED BY Zenon, <2>2, <2>3
<1>2. CASE name = "SRLI"
  <2>1. /\ Extract(word, <<0, 7>>) = 19
        /\ Extract(word, <<12, 15>>) = 5
    BY SMT, <1>2 DEF Funct3
  <2>2. Reading(word) = "SRLI"
    BY SMT, <2>1 DEF Reading, OpImmNames
  <2>3. Base(name) = "SRLI"
    BY SMT, <1>2, BaseIs DEF SpecialCases
  <2> QED BY Zenon, <2>2, <2>3
<1>3. CASE name = "SRAI"
  <2>1. /\ Extract(word, <<0, 7>>) = 19
        /\ Extract(word, <<12, 15>>) = 5
    BY SMT, <1>3 DEF Funct3
  <2>2. Reading(word) = "SRLI"
    BY SMT, <2>1 DEF Reading, OpImmNames
  <2>3. Base(name) = "SRLI"
    BY SMT, <1>3, BaseIs DEF SpecialCases
  <2> QED BY Zenon, <2>2, <2>3
<1> QED BY Zenon, <1>1, <1>2, <1>3

LEMMA LoadNamed ==
  ASSUME NEW name \in {"LB", "LH", "LW", "LBU", "LHU"}
  PROVE  /\ Insns[name] = Load(Funct3[name])
         /\ Insns[name].asm_args = <<"rd", "rs1off">>
         /\ ToSet(Insns[name].asm_args) = {"rd", "rs1off"}
<1>1. /\ Insns["LB"] = Load(0)
      /\ Insns["LH"] = Load(1)
      /\ Insns["LW"] = Load(2)
      /\ Insns["LBU"] = Load(4)
      /\ Insns["LHU"] = Load(5)
  BY DEF Insns
<1>2. /\ Funct3["LB"] = 0
      /\ Funct3["LH"] = 1
      /\ Funct3["LW"] = 2
      /\ Funct3["LBU"] = 4
      /\ Funct3["LHU"] = 5
  BY DEF Funct3
<1>3. PICK funct3 : funct3 = Funct3[name]
  OBVIOUS
<1>4. Insns[name] = Load(funct3)
  BY <1>1, <1>2, <1>3
<1>5. PICK insn : insn = Insn(I, [opcode |-> 3, funct3 |-> funct3], <<RS1OffXfrm>>, <<"rd",
      "rs1off">>)
  OBVIOUS
<1>6. insn = Load(funct3)
  BY <1>5, LoadForm
<1>7. insn.asm_args = <<"rd", "rs1off">>
  BY <1>5, InsnParts
<1>8. ToSet(<<"rd", "rs1off">>) = {"rd", "rs1off"}
  BY DEF ToSet
<1> QED BY <1>3, <1>4, <1>6, <1>7, <1>8

LEMMA LoadAsks ==
  ASSUME NEW name \in {"LB", "LH", "LW", "LBU", "LHU"}, NEW given, Asks(name, given)
  PROVE  /\ {"rd", "rs1off"} \subseteq DOMAIN given
         /\ given["rd"] \in 0 .. 31
         /\ given["rs1off"][1] \in Int
         /\ given["rs1off"][2] \in 0 .. 31
<1>1. ToSet(Insns[name].asm_args) = {"rd", "rs1off"}
  BY LoadNamed
<1>2. {"rd", "rs1off"} \subseteq DOMAIN given
  BY <1>1 DEF Asks
<1>3. given["rd"] \in 0 .. 31
  BY <1>1, OperandIs
<1>4. given["rs1off"][1] \in Int /\ given["rs1off"][2] \in 0 .. 31
  BY <1>1, OperandIs
<1> QED BY <1>2, <1>3, <1>4

LEMMA LoadRead ==
  ASSUME NEW name \in {"LB", "LH", "LW", "LBU", "LHU"}, NEW word,
         NEW funct3, funct3 = Funct3[name], Extract(word, <<0, 7>>) = 3,
         Extract(word, <<12, 15>>) = funct3
  PROVE  Reading(word) = Base(name)
<1>1. CASE name = "LB"
  <2>1. /\ Extract(word, <<0, 7>>) = 3
        /\ Extract(word, <<12, 15>>) = 0
    BY SMT, <1>1 DEF Funct3
  <2>2. Reading(word) = "LB"
    BY SMT, <2>1 DEF Reading, LoadNames
  <2>3. Base(name) = "LB"
    BY SMT, <1>1, BaseIs DEF SpecialCases
  <2> QED BY Zenon, <2>2, <2>3
<1>2. CASE name = "LH"
  <2>1. /\ Extract(word, <<0, 7>>) = 3
        /\ Extract(word, <<12, 15>>) = 1
    BY SMT, <1>2 DEF Funct3
  <2>2. Reading(word) = "LH"
    BY SMT, <2>1 DEF Reading, LoadNames
  <2>3. Base(name) = "LH"
    BY SMT, <1>2, BaseIs DEF SpecialCases
  <2> QED BY Zenon, <2>2, <2>3
<1>3. CASE name = "LW"
  <2>1. /\ Extract(word, <<0, 7>>) = 3
        /\ Extract(word, <<12, 15>>) = 2
    BY SMT, <1>3 DEF Funct3
  <2>2. Reading(word) = "LW"
    BY SMT, <2>1 DEF Reading, LoadNames
  <2>3. Base(name) = "LW"
    BY SMT, <1>3, BaseIs DEF SpecialCases
  <2> QED BY Zenon, <2>2, <2>3
<1>4. CASE name = "LBU"
  <2>1. /\ Extract(word, <<0, 7>>) = 3
        /\ Extract(word, <<12, 15>>) = 4
    BY SMT, <1>4 DEF Funct3
  <2>2. Reading(word) = "LBU"
    BY SMT, <2>1 DEF Reading, LoadNames
  <2>3. Base(name) = "LBU"
    BY SMT, <1>4, BaseIs DEF SpecialCases
  <2> QED BY Zenon, <2>2, <2>3
<1>5. CASE name = "LHU"
  <2>1. /\ Extract(word, <<0, 7>>) = 3
        /\ Extract(word, <<12, 15>>) = 5
    BY SMT, <1>5 DEF Funct3
  <2>2. Reading(word) = "LHU"
    BY SMT, <2>1 DEF Reading, LoadNames
  <2>3. Base(name) = "LHU"
    BY SMT, <1>5, BaseIs DEF SpecialCases
  <2> QED BY Zenon, <2>2, <2>3
<1> QED BY Zenon, <1>1, <1>2, <1>3, <1>4, <1>5

LEMMA FenceNamed ==
  ASSUME NEW name \in {"FENCE"}
  PROVE  /\ Insns[name] = Fence(0)
         /\ Insns[name].asm_args = <<"pred", "succ">>
         /\ ToSet(Insns[name].asm_args) = {"pred", "succ"}
<1>1. /\ Insns["FENCE"] = Fence(0)
  BY DEF Insns
<1>2. Insns[name] = Fence(0)
  BY <1>1
<1>3. PICK insn : insn = Insn(I, [opcode |-> 15, funct3 |-> 0, rd |-> 0, rs1 |-> 0],
      <<FenceXfrm(0)>>, <<"pred", "succ">>)
  OBVIOUS
<1>4. insn = Fence(0)
  BY <1>3, FenceForm
<1>5. insn.asm_args = <<"pred", "succ">>
  BY <1>3, InsnParts
<1>6. ToSet(<<"pred", "succ">>) = {"pred", "succ"}
  BY DEF ToSet
<1> QED BY <1>2, <1>4, <1>5, <1>6

LEMMA FenceAsks ==
  ASSUME NEW name \in {"FENCE"}, NEW given, Asks(name, given)
  PROVE  /\ {"pred", "succ"} \subseteq DOMAIN given
         /\ given["pred"] \subseteq ToSet(FenceLetter)
         /\ given["succ"] \subseteq ToSet(FenceLetter)
<1>1. ToSet(Insns[name].asm_args) = {"pred", "succ"}
  BY FenceNamed
<1>2. {"pred", "succ"} \subseteq DOMAIN given
  BY <1>1 DEF Asks
<1>3. given["pred"] \subseteq ToSet(FenceLetter)
  BY <1>1, OperandIs
<1>4. given["succ"] \subseteq ToSet(FenceLetter)
  BY <1>1, OperandIs
<1> QED BY <1>2, <1>3, <1>4

LEMMA FenceRead ==
  ASSUME NEW name \in {"FENCE"}, NEW word, Extract(word, <<0, 7>>) = 15,
         Extract(word, <<12, 15>>) = 0
  PROVE  Reading(word) = Base(name)
<1>1. CASE name = "FENCE"
  <2>1. /\ Extract(word, <<0, 7>>) = 15
        /\ Extract(word, <<12, 15>>) = 0
    BY SMT, <1>1
  <2>2. Reading(word) = "FENCE"
    BY SMT, <2>1 DEF Reading
  <2>3. Base(name) = "FENCE"
    BY SMT, <1>1, BaseIs DEF SpecialCases
  <2> QED BY Zenon, <2>2, <2>3
<1> QED BY Zenon, <1>1

LEMMA SystemNamed ==
  ASSUME NEW name \in {"ECALL", "EBREAK"}
  PROVE  /\ Insns[name] = System(IF name = "ECALL" THEN 0 ELSE 8)
         /\ Insns[name].asm_args = <<>>
         /\ ToSet(Insns[name].asm_args) = {}
<1>1. /\ Insns["ECALL"] = System(0)
      /\ Insns["EBREAK"] = System(8)
  BY DEF Insns
<1>2. PICK funct : funct = (IF name = "ECALL" THEN 0 ELSE 8)
  OBVIOUS
<1>3. Insns[name] = System(funct)
  BY <1>1, <1>2
<1>4. PICK insn : insn = Insn(I, [opcode |-> 115, rd |-> 0, rs1 |-> 0, funct |-> funct],
      <<SystemXfrm>>, <<>>)
  OBVIOUS
<1>5. insn = System(funct)
  BY <1>4, SystemForm
<1>6. insn.asm_args = <<>>
  BY <1>4, InsnParts
<1>7. ToSet(<<>>) = {}
  BY DEF ToSet
<1> QED BY <1>2, <1>3, <1>5, <1>6, <1>7

LEMMA SystemAsks ==
  ASSUME NEW name \in {"ECALL", "EBREAK"}, NEW given, Asks(name, given)
  PROVE  /\ {"funct"} \cap DOMAIN given = {}
<1>1. ToSet(Insns[name].asm_args) = {}
  BY SystemNamed
<1>2. PICK funct : funct = (IF name = "ECALL" THEN 0 ELSE 8)
  OBVIOUS
<1>3. PICK insn : insn = Insn(I, [opcode |-> 115, rd |-> 0, rs1 |-> 0, funct |-> funct],
      <<SystemXfrm>>, <<>>)
  OBVIOUS
<1>4. Insns[name] = System(funct)
  BY <1>2, SystemNamed
<1>5. insn = System(funct)
  BY <1>3, SystemForm
<1>6. insn.cls = I /\ insn.kwargs = [opcode |-> 115, rd |-> 0, rs1 |-> 0, funct |-> funct]
  BY <1>3, InsnParts
<1>7. ToSet(I.layout) = {"opcode", "rd", "funct3", "rs1", "imm"}
  BY Formats
<1>8. {"funct"} \cap DOMAIN given = {}
  BY <1>4, <1>5, <1>6, <1>7 DEF Asks
<1> QED BY <1>8

LEMMA SystemRead ==
  ASSUME NEW name \in {"ECALL", "EBREAK"}, NEW word,
         NEW funct, funct = (IF name = "ECALL" THEN 0 ELSE 8), Extract(word, <<0, 7>>) = 115,
         Extract(word, <<12, 15>>) = funct % 8, Extract(word, <<20, 32>>) = funct \div 8
  PROVE  Reading(word) = Base(name)
<1>1. CASE name = "ECALL"
  <2>1. /\ Extract(word, <<0, 7>>) = 115
        /\ Extract(word, <<12, 15>>) = 0
        /\ Extract(word, <<20, 32>>) = 0
    BY SMT, <1>1
  <2>2. Reading(word) = "ECALL"
    BY SMT, <2>1 DEF Reading
  <2>3. Base(name) = "ECALL"
    BY SMT, <1>1, BaseIs DEF SpecialCases
  <2> QED BY Zenon, <2>2, <2>3
<1>2. CASE name = "EBREAK"
  <2>1. /\ Extract(word, <<0, 7>>) = 115
        /\ Extract(word, <<12, 15>>) = 0
        /\ Extract(word, <<20, 32>>) = 1
    BY SMT, <1>2
  <2>2. Reading(word) = "EBREAK"
    BY SMT, <2>1 DEF Reading
  <2>3. Base(name) = "EBREAK"
    BY SMT, <1>2, BaseIs DEF SpecialCases
  <2> QED BY Zenon, <2>2, <2>3
<1> QED BY Zenon, <1>1, <1>2

LEMMA StoreNamed ==
  ASSUME NEW name \in {"SB", "SH", "SW"}
  PROVE  /\ Insns[name] = Store(Funct3[name])
         /\ Insns[name].asm_args = <<"rs2", "rs1off">>
         /\ ToSet(Insns[name].asm_args) = {"rs2", "rs1off"}
<1>1. /\ Insns["SB"] = Store(0)
      /\ Insns["SH"] = Store(1)
      /\ Insns["SW"] = Store(2)
  BY DEF Insns
<1>2. /\ Funct3["SB"] = 0
      /\ Funct3["SH"] = 1
      /\ Funct3["SW"] = 2
  BY DEF Funct3
<1>3. PICK funct3 : funct3 = Funct3[name]
  OBVIOUS
<1>4. Insns[name] = Store(funct3)
  BY <1>1, <1>2, <1>3
<1>5. PICK insn : insn = Insn(S, [funct3 |-> funct3], <<RS1OffXfrm, ImmXfrm(S)>>, <<"rs2",
      "rs1off">>)
  OBVIOUS
<1>6. insn = Store(funct3)
  BY <1>5, StoreForm
<1>7. insn.asm_args = <<"rs2", "rs1off">>
  BY <1>5, InsnParts
<1>8. ToSet(<<"rs2", "rs1off">>) = {"rs2", "rs1off"}
  BY DEF ToSet
<1> QED BY <1>3, <1>4, <1>6, <1>7, <1>8

LEMMA StoreAsks ==
  ASSUME NEW name \in {"SB", "SH", "SW"}, NEW given, Asks(name, given)
  PROVE  /\ {"rs2", "rs1off"} \subseteq DOMAIN given
         /\ given["rs2"] \in 0 .. 31
         /\ given["rs1off"][1] \in Int
         /\ given["rs1off"][2] \in 0 .. 31
<1>1. ToSet(Insns[name].asm_args) = {"rs2", "rs1off"}
  BY StoreNamed
<1>2. {"rs2", "rs1off"} \subseteq DOMAIN given
  BY <1>1 DEF Asks
<1>3. given["rs2"] \in 0 .. 31
  BY <1>1, OperandIs
<1>4. given["rs1off"][1] \in Int /\ given["rs1off"][2] \in 0 .. 31
  BY <1>1, OperandIs
<1> QED BY <1>2, <1>3, <1>4

LEMMA StoreRead ==
  ASSUME NEW name \in {"SB", "SH", "SW"}, NEW word, NEW funct3, funct3 = Funct3[name],
         Extract(word, <<0, 7>>) = 35, Extract(word, <<12, 15>>) = funct3
  PROVE  Reading(word) = Base(name)
<1>1. CASE name = "SB"
  <2>1. /\ Extract(word, <<0, 7>>) = 35
        /\ Extract(word, <<12, 15>>) = 0
    BY SMT, <1>1 DEF Funct3
  <2>2. Reading(word) = "SB"
    BY SMT, <2>1 DEF Reading, StoreNames
  <2>3. Base(name) = "SB"
    BY SMT, <1>1, BaseIs DEF SpecialCases
  <2> QED BY Zenon, <2>2, <2>3
<1>2. CASE name = "SH"
  <2>1. /\ Extract(word, <<0, 7>>) = 35
        /\ Extract(word, <<12, 15>>) = 1
    BY SMT, <1>2 DEF Funct3
  <2>2. Reading(word) = "SH"
    BY SMT, <2>1 DEF Reading, StoreNames
  <2>3. Base(name) = "SH"
    BY SMT, <1>2, BaseIs DEF SpecialCases
  <2> QED BY Zenon, <2>2, <2>3
<1>3. CASE name = "SW"
  <2>1. /\ Extract(word, <<0, 7>>) = 35
        /\ Extract(word, <<12, 15>>) = 2
    BY SMT, <1>3 DEF Funct3
  <2>2. Reading(word) = "SW"
    BY SMT, <2>1 DEF Reading, StoreNames
  <2>3. Base(name) = "SW"
    BY SMT, <1>3, BaseIs DEF SpecialCases
  <2> QED BY Zenon, <2>2, <2>3
<1> QED BY Zenon, <1>1, <1>2, <1>3

LEMMA BranchNamed ==
  ASSUME NEW name \in {"BEQ", "BNE", "BLT", "BGE", "BLTU", "BGEU"}
  PROVE  /\ Insns[name] = Branch(Funct3[name])
         /\ Insns[name].asm_args = <<"rs1", "rs2", "imm">>
         /\ ToSet(Insns[name].asm_args) = {"rs1", "rs2", "imm"}
<1>1. /\ Insns["BEQ"] = Branch(0)
      /\ Insns["BNE"] = Branch(1)
      /\ Insns["BLT"] = Branch(4)
      /\ Insns["BGE"] = Branch(5)
      /\ Insns["BLTU"] = Branch(6)
      /\ Insns["BGEU"] = Branch(7)
  BY DEF Insns
<1>2. /\ Funct3["BEQ"] = 0
      /\ Funct3["BNE"] = 1
      /\ Funct3["BLT"] = 4
      /\ Funct3["BGE"] = 5
      /\ Funct3["BLTU"] = 6
      /\ Funct3["BGEU"] = 7
  BY DEF Funct3
<1>3. PICK funct3 : funct3 = Funct3[name]
  OBVIOUS
<1>4. Insns[name] = Branch(funct3)
  BY <1>1, <1>2, <1>3
<1>5. PICK insn : insn = Insn(B, [funct3 |-> funct3], <<ImmXfrm(B)>>, <<"rs1", "rs2", "imm">>)
  OBVIOUS
<1>6. insn = Branch(funct3)
  BY <1>5, BranchForm
<1>7. insn.asm_args = <<"rs1", "rs2", "imm">>
  BY <1>5, InsnParts
<1>8. ToSet(<<"rs1", "rs2", "imm">>) = {"rs1", "rs2", "imm"}
  BY DEF ToSet
<1> QED BY <1>3, <1>4, <1>6, <1>7, <1>8

LEMMA BranchAsks ==
  ASSUME NEW name \in {"BEQ", "BNE", "BLT", "BGE", "BLTU", "BGEU"}, NEW given, Asks(name, given)
  PROVE  /\ {"rs1", "rs2", "imm"} \subseteq DOMAIN given
         /\ given["rs1"] \in 0 .. 31
         /\ given["rs2"] \in 0 .. 31
         /\ given["imm"] \in Int
<1>1. ToSet(Insns[name].asm_args) = {"rs1", "rs2", "imm"}
  BY BranchNamed
<1>2. {"rs1", "rs2", "imm"} \subseteq DOMAIN given
  BY <1>1 DEF Asks
<1>3. given["rs1"] \in 0 .. 31
  BY <1>1, OperandIs
<1>4. given["rs2"] \in 0 .. 31
  BY <1>1, OperandIs
<1>5. given["imm"] \in Int
  BY <1>1, OperandIs
<1> QED BY <1>2, <1>3, <1>4, <1>5

LEMMA BranchRead ==
  ASSUME NEW name \in {"BEQ", "BNE", "BLT", "BGE", "BLTU", "BGEU"}, NEW word,
         NEW funct3, funct3 = Funct3[name], Extract(word, <<0, 7>>) = 99,
         Extract(word, <<12, 15>>) = funct3
  PROVE  Reading(word) = Base(name)
<1>1. CASE name = "BEQ"
  <2>1. /\ Extract(word, <<0, 7>>) = 99
        /\ Extract(word, <<12, 15>>) = 0
    BY SMT, <1>1 DEF Funct3
  <2>2. Reading(word) = "BEQ"
    BY SMT, <2>1 DEF Reading, BranchNames
  <2>3. Base(name) = "BEQ"
    BY SMT, <1>1, BaseIs DEF SpecialCases
  <2> QED BY Zenon, <2>2, <2>3
<1>2. CASE name = "BNE"
  <2>1. /\ Extract(word, <<0, 7>>) = 99
        /\ Extract(word, <<12, 15>>) = 1
    BY SMT, <1>2 DEF Funct3
  <2>2. Reading(word) = "BNE"
    BY SMT, <2>1 DEF Reading, BranchNames
  <2>3. Base(name) = "BNE"
    BY SMT, <1>2, BaseIs DEF SpecialCases
  <2> QED BY Zenon, <2>2, <2>3
<1>3. CASE name = "BLT"
  <2>1. /\ Extract(word, <<0, 7>>) = 99
        /\ Extract(word, <<12, 15>>) = 4
    BY SMT, <1>3 DEF Funct3
  <2>2. Reading(word) = "BLT"
    BY SMT, <2>1 DEF Reading, BranchNames
  <2>3. Base(name) = "BLT"
    BY SMT, <1>3, BaseIs DEF SpecialCases
  <2> QED BY Zenon, <2>2, <2>3
<1>4. CASE name = "BGE"
  <2>1. /\ Extract(word, <<0, 7>>) = 99
        /\ Extract(word, <<12, 15>>) = 5
    BY SMT, <1>4 DEF Funct3
  <2>2. Reading(word) = "BGE"
    BY SMT, <2>1 DEF Reading, BranchNames
  <2>3. Base(name) = "BGE"
    BY SMT, <1>4, BaseIs DEF SpecialCases
  <2> QED BY Zenon, <2>2, <2>3
<1>5. CASE name = "BLTU"
  <2>1. /\ Extract(word, <<0, 7>>) = 99
        /\ Extract(word, <<12, 15>>) = 6
    BY SMT, <1>5 DEF Funct3
  <2>2. Reading(word) = "BLTU"
    BY SMT, <2>1 DEF Reading, BranchNames
  <2>3. Base(name) = "BLTU"
    BY SMT, <1>5, BaseIs DEF SpecialCases
  <2> QED BY Zenon, <2>2, <2>3
<1>6. CASE name = "BGEU"
  <2>1. /\ Extract(word, <<0, 7>>) = 99
        /\ Extract(word, <<12, 15>>) = 7
    BY SMT, <1>6 DEF Funct3
  <2>2. Reading(word) = "BGEU"
    BY SMT, <2>1 DEF Reading, BranchNames
  <2>3. Base(name) = "BGEU"
    BY SMT, <1>6, BaseIs DEF SpecialCases
  <2> QED BY Zenon, <2>2, <2>3
<1> QED BY Zenon, <1>1, <1>2, <1>3, <1>4, <1>5, <1>6

LEMMA UpperNamed ==
  ASSUME NEW name \in {"LUI", "AUIPC"}
  PROVE  /\ Insns[name] = Upper(IF name = "LUI" THEN 55 ELSE 23)
         /\ Insns[name].asm_args = <<"rd", "imm">>
         /\ ToSet(Insns[name].asm_args) = {"rd", "imm"}
<1>1. /\ Insns["LUI"] = Upper(55)
      /\ Insns["AUIPC"] = Upper(23)
  BY DEF Insns, Opcode
<1>2. PICK opcode : opcode = (IF name = "LUI" THEN 55 ELSE 23)
  OBVIOUS
<1>3. Insns[name] = Upper(opcode)
  BY <1>1, <1>2
<1>4. PICK insn : insn = Insn(U, [opcode |-> opcode], <<CheckXfrm>>, <<"rd", "imm">>)
  OBVIOUS
<1>5. insn = Upper(opcode)
  BY <1>4, UpperForm
<1>6. insn.asm_args = <<"rd", "imm">>
  BY <1>4, InsnParts
<1>7. ToSet(<<"rd", "imm">>) = {"rd", "imm"}
  BY DEF ToSet
<1> QED BY <1>2, <1>3, <1>5, <1>6, <1>7

LEMMA UpperAsks ==
  ASSUME NEW name \in {"LUI", "AUIPC"}, NEW given, Asks(name, given)
  PROVE  /\ {"rd", "imm"} \subseteq DOMAIN given
         /\ given["rd"] \in 0 .. 31
         /\ given["imm"] \in Int
<1>1. ToSet(Insns[name].asm_args) = {"rd", "imm"}
  BY UpperNamed
<1>2. {"rd", "imm"} \subseteq DOMAIN given
  BY <1>1 DEF Asks
<1>3. given["rd"] \in 0 .. 31
  BY <1>1, OperandIs
<1>4. given["imm"] \in Int
  BY <1>1, OperandIs
<1> QED BY <1>2, <1>3, <1>4

LEMMA UpperRead ==
  ASSUME NEW name \in {"LUI", "AUIPC"}, NEW word,
         NEW opcode, opcode = (IF name = "LUI" THEN 55 ELSE 23),
         Extract(word, <<0, 7>>) = opcode
  PROVE  Reading(word) = Base(name)
<1>1. CASE name = "LUI"
  <2>1. /\ Extract(word, <<0, 7>>) = 55
    BY SMT, <1>1
  <2>2. Reading(word) = "LUI"
    BY SMT, <2>1 DEF Reading
  <2>3. Base(name) = "LUI"
    BY SMT, <1>1, BaseIs DEF SpecialCases
  <2> QED BY Zenon, <2>2, <2>3
<1>2. CASE name = "AUIPC"
  <2>1. /\ Extract(word, <<0, 7>>) = 23
    BY SMT, <1>2
  <2>2. Reading(word) = "AUIPC"
    BY SMT, <2>1 DEF Reading
  <2>3. Base(name) = "AUIPC"
    BY SMT, <1>2, BaseIs DEF SpecialCases
  <2> QED BY Zenon, <2>2, <2>3
<1> QED BY Zenon, <1>1, <1>2

LEMMA JalrNamed ==
  ASSUME NEW name \in {"JALR"}
  PROVE  /\ Insns[name] = Jalr
         /\ Insns[name].asm_args = <<"rd", "rs1", "imm">>
         /\ ToSet(Insns[name].asm_args) = {"rd", "rs1", "imm"}
<1>1. /\ Insns["JALR"] = Jalr
  BY DEF Insns
<1>2. Insns[name] = Jalr
  BY <1>1
<1>3. PICK insn : insn = Insn(I, [opcode |-> 103, funct3 |-> 0], <<>>, <<"rd", "rs1", "imm">>)
  OBVIOUS
<1>4. insn = Jalr
  BY <1>3, JalrForm
<1>5. insn.asm_args = <<"rd", "rs1", "imm">>
  BY <1>3, InsnParts
<1>6. ToSet(<<"rd", "rs1", "imm">>) = {"rd", "rs1", "imm"}
  BY DEF ToSet
<1> QED BY <1>2, <1>4, <1>5, <1>6

LEMMA JalrAsks ==
  ASSUME NEW name \in {"JALR"}, NEW given, Asks(name, given)
  PROVE  /\ {"rd", "rs1", "imm"} \subseteq DOMAIN given
         /\ given["rd"] \in 0 .. 31
         /\ given["rs1"] \in 0 .. 31
         /\ given["imm"] \in Int
<1>1. ToSet(Insns[name].asm_args) = {"rd", "rs1", "imm"}
  BY JalrNamed
<1>2. {"rd", "rs1", "imm"} \subseteq DOMAIN given
  BY <1>1 DEF Asks
<1>3. given["rd"] \in 0 .. 31
  BY <1>1, OperandIs
<1>4. given["rs1"] \in 0 .. 31
  BY <1>1, OperandIs
<1>5. given["imm"] \in Int
  BY <1>1, OperandIs
<1> QED BY <1>2, <1>3, <1>4, <1>5

LEMMA JalrRead ==
  ASSUME NEW name \in {"JALR"}, NEW word, Extract(word, <<0, 7>>) = 103,
         Extract(word, <<12, 15>>) = 0
  PROVE  Reading(word) = Base(name)
<1>1. CASE name = "JALR"
  <2>1. /\ Extract(word, <<0, 7>>) = 103
        /\ Extract(word, <<12, 15>>) = 0
    BY SMT, <1>1
  <2>2. Reading(word) = "JALR"
    BY SMT, <2>1 DEF Reading
  <2>3. Base(name) = "JALR"
    BY SMT, <1>1, BaseIs DEF SpecialCases
  <2> QED BY Zenon, <2>2, <2>3
<1> QED BY Zenon, <1>1

LEMMA JalNamed ==
  ASSUME NEW name \in {"JAL"}
  PROVE  /\ Insns[name] = Jal
         /\ Insns[name].asm_args = <<"rd", "imm">>
         /\ ToSet(Insns[name].asm_args) = {"rd", "imm"}
<1>1. /\ Insns["JAL"] = Jal
  BY DEF Insns
<1>2. Insns[name] = Jal
  BY <1>1
<1>3. PICK insn : insn = Insn(J, <<>>, <<ImmXfrm(J)>>, <<"rd", "imm">>)
  OBVIOUS
<1>4. insn = Jal
  BY <1>3, JalForm
<1>5. insn.asm_args = <<"rd", "imm">>
  BY <1>3, InsnParts
<1>6. ToSet(<<"rd", "imm">>) = {"rd", "imm"}
  BY DEF ToSet
<1> QED BY <1>2, <1>4, <1>5, <1>6

LEMMA JalAsks ==
  ASSUME NEW name \in {"JAL"}, NEW given, Asks(name, given)
  PROVE  /\ {"rd", "imm"} \subseteq DOMAIN given
         /\ given["rd"] \in 0 .. 31
         /\ given["imm"] \in Int
<1>1. ToSet(Insns[name].asm_args) = {"rd", "imm"}
  BY JalNamed
<1>2. {"rd", "imm"} \subseteq DOMAIN given
  BY <1>1 DEF Asks
<1>3. given["rd"] \in 0 .. 31
  BY <1>1, OperandIs
<1>4. given["imm"] \in Int
  BY <1>1, OperandIs
<1> QED BY <1>2, <1>3, <1>4

LEMMA JalRead ==
  ASSUME NEW name \in {"JAL"}, NEW word, Extract(word, <<0, 7>>) = 111
  PROVE  Reading(word) = Base(name)
<1>1. CASE name = "JAL"
  <2>1. /\ Extract(word, <<0, 7>>) = 111
    BY SMT, <1>1
  <2>2. Reading(word) = "JAL"
    BY SMT, <2>1 DEF Reading
  <2>3. Base(name) = "JAL"
    BY SMT, <1>1, BaseIs DEF SpecialCases
  <2> QED BY Zenon, <2>2, <2>3
<1> QED BY Zenon, <1>1

LEMMA FenceTSONamed ==
  ASSUME NEW name \in {"FENCE_TSO"}
  PROVE  /\ Insns[name] = Insns.FENCE_TSO
         /\ Insns[name].asm_args = <<>>
         /\ ToSet(Insns[name].asm_args) = {}
<1>1. /\ Insns["FENCE_TSO"] = Insns.FENCE_TSO
  BY DEF Insns
<1>2. Insns[name] = Insns.FENCE_TSO
  BY <1>1
<1>3. PICK insn : insn = Insn(I, [opcode |-> 15, funct3 |-> 0, rd |-> 0, rs1 |-> 0,
      pred |-> {"r", "w"}, succ |-> {"r", "w"}], <<FenceXfrm(8)>>, <<>>)
  OBVIOUS
<1>4. insn = Insns.FENCE_TSO
  BY <1>3, FenceTSOForm
<1>5. insn.asm_args = <<>>
  BY <1>3, InsnParts
<1>6. ToSet(<<>>) = {}
  BY DEF ToSet
<1> QED BY <1>2, <1>4, <1>5, <1>6

LEMMA FenceTSOAsks ==
  ASSUME NEW name \in {"FENCE_TSO"}, NEW given, Asks(name, given)
  PROVE  /\ {"pred", "succ"} \cap DOMAIN given = {}
<1>1. ToSet(Insns[name].asm_args) = {}
  BY FenceTSONamed
<1>2. PICK insn : insn = Insn(I, [opcode |-> 15, funct3 |-> 0, rd |-> 0, rs1 |-> 0,
      pred |-> {"r", "w"}, succ |-> {"r", "w"}], <<FenceXfrm(8)>>, <<>>)
  OBVIOUS
<1>3. Insns[name] = Insns.FENCE_TSO
  BY FenceTSONamed
<1>4. insn = Insns.FENCE_TSO
  BY <1>2, FenceTSOForm
<1>5. insn.cls = I /\ insn.kwargs = [opcode |-> 15, funct3 |-> 0, rd |-> 0, rs1 |-> 0,
        pred |-> {"r", "w"}, succ |-> {"r", "w"}]
  BY <1>2, InsnParts
<1>6. ToSet(I.layout) = {"opcode", "rd", "funct3", "rs1", "imm"}
  BY Formats
<1>7. {"pred", "succ"} \cap DOMAIN given = {}
  BY <1>3, <1>4, <1>5, <1>6 DEF Asks
<1> QED BY <1>7

LEMMA FenceTSORead ==
  ASSUME NEW name \in {"FENCE_TSO"}, NEW word, Extract(word, <<0, 7>>) = 15,
         Extract(word, <<12, 15>>) = 0
  PROVE  Reading(word) = Base(name)
<1>1. CASE name = "FENCE_TSO"
  <2>1. /\ Extract(word, <<0, 7>>) = 15
        /\ Extract(word, <<12, 15>>) = 0
    BY SMT, <1>1
  <2>2. Reading(word) = "FENCE"
    BY SMT, <2>1 DEF Reading
  <2>3. Base(name) = "FENCE"
    BY SMT, <1>1, BaseIs DEF SpecialCases
  <2> QED BY Zenon, <2>2, <2>3
<1> QED BY Zenon, <1>1

LEMMA SnezNamed ==
  ASSUME NEW name \in {"SNEZ"}
  PROVE  /\ Insns[name] = Insns.SNEZ
         /\ Insns[name].asm_args = <<"rd", "rs2">>
         /\ ToSet(Insns[name].asm_args) = {"rd", "rs2"}
<1>1. /\ Insns["SNEZ"] = Insns.SNEZ
  BY DEF Insns
<1>2. Insns[name] = Insns.SNEZ
  BY <1>1
<1>3. PICK insn : insn = Insn(R, [funct3 |-> 3, rs1 |-> Reg("zero")], <<>>, <<"rd", "rs2">>)
  OBVIOUS
<1>4. insn = Insns.SNEZ
  BY <1>3, SnezForm
<1>5. insn.asm_args = <<"rd", "rs2">>
  BY <1>3, InsnParts
<1>6. ToSet(<<"rd", "rs2">>) = {"rd", "rs2"}
  BY DEF ToSet
<1> QED BY <1>2, <1>4, <1>5, <1>6

LEMMA SnezAsks ==
  ASSUME NEW name \in {"SNEZ"}, NEW given, Asks(name, given)
  PROVE  /\ {"rd", "rs2"} \subseteq DOMAIN given
         /\ given["rd"] \in 0 .. 31
         /\ given["rs2"] \in 0 .. 31
<1>1. ToSet(Insns[name].asm_args) = {"rd", "rs2"}
  BY SnezNamed
<1>2. {"rd", "rs2"} \subseteq DOMAIN given
  BY <1>1 DEF Asks
<1>3. given["rd"] \in 0 .. 31
  BY <1>1, OperandIs
<1>4. given["rs2"] \in 0 .. 31
  BY <1>1, OperandIs
<1> QED BY <1>2, <1>3, <1>4

LEMMA SnezRead ==
  ASSUME NEW name \in {"SNEZ"}, NEW word, Extract(word, <<0, 7>>) = 51,
         Extract(word, <<12, 15>>) = 3, Extract(word, <<25, 32>>) = 0
  PROVE  Reading(word) = Base(name)
<1>1. CASE name = "SNEZ"
  <2>1. /\ Extract(word, <<0, 7>>) = 51
        /\ Extract(word, <<12, 15>>) = 3
        /\ Extract(word, <<25, 32>>) = 0
    BY SMT, <1>1
  <2>2. Reading(word) = "SLTU"
    BY SMT, <2>1 DEF Reading, OpNames
  <2>3. Base(name) = "SLTU"
    BY SMT, <1>1, BaseIs DEF SpecialCases
  <2> QED BY Zenon, <2>2, <2>3
<1> QED BY Zenon, <1>1

LEMMA RetNamed ==
  ASSUME NEW name \in {"RET"}
  PROVE  /\ Insns[name] = Insns.RET
         /\ Insns[name].asm_args = <<>>
         /\ ToSet(Insns[name].asm_args) = {}
<1>1. /\ Insns["RET"] = Insns.RET
  BY DEF Insns
<1>2. Insns[name] = Insns.RET
  BY <1>1
<1>3. PICK insn : insn = Insn(I, [opcode |-> 103, funct3 |-> 0, rd |-> Reg("zero"),
      rs1 |-> Reg("ra"), imm |-> 0], <<>>, <<>>)
  OBVIOUS
<1>4. insn = Insns.RET
  BY <1>3, RetForm
<1>5. insn.asm_args = <<>>
  BY <1>3, InsnParts
<1>6. ToSet(<<>>) = {}
  BY DEF ToSet
<1> QED BY <1>2, <1>4, <1>5, <1>6

LEMMA RetRead ==
  ASSUME NEW name \in {"RET"}, NEW word, Extract(word, <<0, 7>>) = 103,
         Extract(word, <<12, 15>>) = 0
  PROVE  Reading(word) = Base(name)
<1>1. CASE name = "RET"
  <2>1. /\ Extract(word, <<0, 7>>) = 103
        /\ Extract(word, <<12, 15>>) = 0
    BY SMT, <1>1
  <2>2. Reading(word) = "JALR"
    BY SMT, <2>1 DEF Reading
  <2>3. Base(name) = "JALR"
    BY SMT, <1>1, BaseIs DEF SpecialCases
  <2> QED BY Zenon, <2>2, <2>3
<1> QED BY Zenon, <1>1

LEMMA MvNamed ==
  ASSUME NEW name \in {"MV"}
  PROVE  /\ Insns[name] = Insns.MV
         /\ Insns[name].asm_args = <<"rd", "rs1">>
         /\ ToSet(Insns[name].asm_args) = {"rd", "rs1"}
<1>1. /\ Insns["MV"] = Insns.MV
  BY DEF Insns
<1>2. Insns[name] = Insns.MV
  BY <1>1
<1>3. PICK insn : insn = Insn(I, [funct3 |-> 0, imm |-> 0], <<>>, <<"rd", "rs1">>)
  OBVIOUS
<1>4. insn = Insns.MV
  BY <1>3, MvForm
<1>5. insn.asm_args = <<"rd", "rs1">>
  BY <1>3, InsnParts
<1>6. ToSet(<<"rd", "rs1">>) = {"rd", "rs1"}
  BY DEF ToSet
<1> QED BY <1>2, <1>4, <1>5, <1>6

LEMMA MvAsks ==
  ASSUME NEW name \in {"MV"}, NEW given, Asks(name, given)
  PROVE  /\ {"rd", "rs1"} \subseteq DOMAIN given
         /\ given["rd"] \in 0 .. 31
         /\ given["rs1"] \in 0 .. 31
<1>1. ToSet(Insns[name].asm_args) = {"rd", "rs1"}
  BY MvNamed
<1>2. {"rd", "rs1"} \subseteq DOMAIN given
  BY <1>1 DEF Asks
<1>3. given["rd"] \in 0 .. 31
  BY <1>1, OperandIs
<1>4. given["rs1"] \in 0 .. 31
  BY <1>1, OperandIs
<1> QED BY <1>2, <1>3, <1>4

LEMMA MvRead ==
  ASSUME NEW name \in {"MV"}, NEW word, Extract(word, <<0, 7>>) = 19,
         Extract(word, <<12, 15>>) = 0
  PROVE  Reading(word) = Base(name)
<1>1. CASE name = "MV"
  <2>1. /\ Extract(word, <<0, 7>>) = 19
        /\ Extract(word, <<12, 15>>) = 0
    BY SMT, <1>1
  <2>2. Reading(word) = "ADDI"
    BY SMT, <2>1 DEF Reading, OpImmNames
  <2>3. Base(name) = "ADDI"
    BY SMT, <1>1, BaseIs DEF SpecialCases
  <2> QED BY Zenon, <2>2, <2>3
<1> QED BY Zenon, <1>1

LEMMA SeqzNamed ==
  ASSUME NEW name \in {"SEQZ"}
  PROVE  /\ Insns[name] = Insns.SEQZ
         /\ Insns[name].asm_args = <<"rd", "rs1">>
         /\ ToSet(Insns[name].asm_args) = {"rd", "rs1"}
<1>1. /\ Insns["SEQZ"] = Insns.SEQZ
  BY DEF Insns
<1>2. Insns[name] = Insns.SEQZ
  BY <1>1
<1>3. PICK insn : insn = Insn(I, [funct3 |-> 3, imm |-> 1], <<>>, <<"rd", "rs1">>)
  OBVIOUS
<1>4. insn = Insns.SEQZ
  BY <1>3, SeqzForm
<1>5. insn.asm_args = <<"rd", "rs1">>
  BY <1>3, InsnParts
<1>6. ToSet(<<"rd", "rs1">>) = {"rd", "rs1"}
  BY DEF ToSet
<1> QED BY <1>2, <1>4, <1>5, <1>6

LEMMA SeqzAsks ==
  ASSUME NEW name \in {"SEQZ"}, NEW given, Asks(name, given)
  PROVE  /\ {"rd", "rs1"} \subseteq DOMAIN given
         /\ given["rd"] \in 0 .. 31
         /\ given["rs1"] \in 0 .. 31
<1>1. ToSet(Insns[name].asm_args) = {"rd", "rs1"}
  BY SeqzNamed
<1>2. {"rd", "rs1"} \subseteq DOMAIN given
  BY <1>1 DEF Asks
<1>3. given["rd"] \in 0 .. 31
  BY <1>1, OperandIs
<1>4. given["rs1"] \in 0 .. 31
  BY <1>1, OperandIs
<1> QED BY <1>2, <1>3, <1>4

LEMMA SeqzRead ==
  ASSUME NEW name \in {"SEQZ"}, NEW word, Extract(word, <<0, 7>>) = 19,
         Extract(word, <<12, 15>>) = 3
  PROVE  Reading(word) = Base(name)
<1>1. CASE name = "SEQZ"
  <2>1. /\ Extract(word, <<0, 7>>) = 19
        /\ Extract(word, <<12, 15>>) = 3
    BY SMT, <1>1
  <2>2. Reading(word) = "SLTIU"
    BY SMT, <2>1 DEF Reading, OpImmNames
  <2>3. Base(name) = "SLTIU"
    BY SMT, <1>1, BaseIs DEF SpecialCases
  <2> QED BY Zenon, <2>2, <2>3
<1> QED BY Zenon, <1>1

LEMMA NotNamed ==
  ASSUME NEW name \in {"NOT"}
  PROVE  /\ Insns[name] = Insns.NOT
         /\ Insns[name].asm_args = <<"rd", "rs1">>
         /\ ToSet(Insns[name].asm_args) = {"rd", "rs1"}
<1>1. /\ Insns["NOT"] = Insns.NOT
  BY DEF Insns
<1>2. Insns[name] = Insns.NOT
  BY <1>1
<1>3. PICK insn : insn = Insn(I, [funct3 |-> 4, imm |-> -1], <<>>, <<"rd", "rs1">>)
  OBVIOUS
<1>4. insn = Insns.NOT
  BY <1>3, NotForm
<1>5. insn.asm_args = <<"rd", "rs1">>
  BY <1>3, InsnParts
<1>6. ToSet(<<"rd", "rs1">>) = {"rd", "rs1"}
  BY DEF ToSet
<1> QED BY <1>2, <1>4, <1>5, <1>6

LEMMA NotAsks ==
  ASSUME NEW name \in {"NOT"}, NEW given, Asks(name, given)
  PROVE  /\ {"rd", "rs1"} \subseteq DOMAIN given
         /\ given["rd"] \in 0 .. 31
         /\ given["rs1"] \in 0 .. 31
<1>1. ToSet(Insns[name].asm_args) = {"rd", "rs1"}
  BY NotNamed
<1>2. {"rd", "rs1"} \subseteq DOMAIN given
  BY <1>1 DEF Asks
<1>3. given["rd"] \in 0 .. 31
  BY <1>1, OperandIs
<1>4. given["rs1"] \in 0 .. 31
  BY <1>1, OperandIs
<1> QED BY <1>2, <1>3, <1>4

LEMMA NotRead ==
  ASSUME NEW name \in {"NOT"}, NEW word, Extract(word, <<0, 7>>) = 19,
         Extract(word, <<12, 15>>) = 4
  PROVE  Reading(word) = Base(name)
<1>1. CASE name = "NOT"
  <2>1. /\ Extract(word, <<0, 7>>) = 19
        /\ Extract(word, <<12, 15>>) = 4
    BY SMT, <1>1
  <2>2. Reading(word) = "XORI"
    BY SMT, <2>1 DEF Reading, OpImmNames
  <2>3. Base(name) = "XORI"
    BY SMT, <1>1, BaseIs DEF SpecialCases
  <2> QED BY Zenon, <2>2, <2>3
<1> QED BY Zenon, <1>1

LEMMA NopNamed ==
  ASSUME NEW name \in {"NOP"}
  PROVE  /\ Insns[name] = Insns.NOP
         /\ Insns[name].asm_args = <<>>
         /\ ToSet(Insns[name].asm_args) = {}
<1>1. /\ Insns["NOP"] = Insns.NOP
  BY DEF Insns
<1>2. Insns[name] = Insns.NOP
  BY <1>1
<1>3. PICK insn : insn = Insn(I, [funct3 |-> 0, rd |-> Reg("zero"), rs1 |-> Reg("zero"),
      imm |-> 0], <<>>, <<>>)
  OBVIOUS
<1>4. insn = Insns.NOP
  BY <1>3, NopForm
<1>5. insn.asm_args = <<>>
  BY <1>3, InsnParts
<1>6. ToSet(<<>>) = {}
  BY DEF ToSet
<1> QED BY <1>2, <1>4, <1>5, <1>6

LEMMA NopRead ==
  ASSUME NEW name \in {"NOP"}, NEW word, Extract(word, <<0, 7>>) = 19,
         Extract(word, <<12, 15>>) = 0
  PROVE  Reading(word) = Base(name)
<1>1. CASE name = "NOP"
  <2>1. /\ Extract(word, <<0, 7>>) = 19
        /\ Extract(word, <<12, 15>>) = 0
    BY SMT, <1>1
  <2>2. Reading(word) = "ADDI"
    BY SMT, <2>1 DEF Reading, OpImmNames
  <2>3. Base(name) = "ADDI"
    BY SMT, <1>1, BaseIs DEF SpecialCases
  <2> QED BY Zenon, <2>2, <2>3
<1> QED BY Zenon, <1>1

LEMMA JNamed ==
  ASSUME NEW name \in {"J_"}
  PROVE  /\ Insns[name] = Insns.J_
         /\ Insns[name].asm_args = <<"imm">>
         /\ ToSet(Insns[name].asm_args) = {"imm"}
<1>1. /\ Insns["J_"] = Insns.J_
  BY DEF Insns
<1>2. Insns[name] = Insns.J_
  BY <1>1
<1>3. PICK insn : insn = Insn(J, [rd |-> Reg("zero")], <<ImmXfrm(J)>>, <<"imm">>)
  OBVIOUS
<1>4. insn = Insns.J_
  BY <1>3, JForm
<1>5. insn.asm_args = <<"imm">>
  BY <1>3, InsnParts
<1>6. ToSet(<<"imm">>) = {"imm"}
  BY DEF ToSet
<1> QED BY <1>2, <1>4, <1>5, <1>6

LEMMA JAsks ==
  ASSUME NEW name \in {"J_"}, NEW given, Asks(name, given)
  PROVE  /\ {"imm"} \subseteq DOMAIN given
         /\ given["imm"] \in Int
<1>1. ToSet(Insns[name].asm_args) = {"imm"}
  BY JNamed
<1>2. {"imm"} \subseteq DOMAIN given
  BY <1>1 DEF Asks
<1>3. given["imm"] \in Int
  BY <1>1, OperandIs
<1> QED BY <1>2, <1>3

LEMMA JRead ==
  ASSUME NEW name \in {"J_"}, NEW word, Extract(word, <<0, 7>>) = 111
  PROVE  Reading(word) = Base(name)
<1>1. CASE name = "J_"
  <2>1. /\ Extract(word, <<0, 7>>) = 111
    BY SMT, <1>1
  <2>2. Reading(word) = "JAL"
    BY SMT, <2>1 DEF Reading
  <2>3. Base(name) = "JAL"
    BY SMT, <1>1, BaseIs DEF SpecialCases
  <2> QED BY Zenon, <2>2, <2>3
<1> QED BY Zenon, <1>1
-----------------------------------------------------------------------------
\* The words that there are of the instructions.
Legit(word) ==
  LET opcode == Extract(word, <<0, 7>>)  funct3 == Extract(word, <<12, 15>>)
      imm == Extract(word, <<20, 32>>)   funct7 == Extract(word, <<25, 32>>)
  IN /\ word \in SUBSET (0 .. 31)
     /\ opcode \in {3, 15, 19, 23, 35, 51, 55, 99, 103, 111, 115}
     /\ opcode = 51 => funct7 = 0 \/ (funct7 = 32 /\ funct3 \in {0, 5})
     /\ opcode = 19 /\ funct3 = 1 => imm \in 0 .. 31
     /\ opcode = 19 /\ funct3 = 5 => imm \in 0 .. 31 \/ imm - 1024 \in 0 .. 31
     /\ opcode = 3 => funct3 \in {0, 1, 2, 4, 5}
     /\ opcode = 35 => funct3 \in {0, 1, 2}
     /\ opcode = 99 => funct3 \in {0, 1, 4, 5, 6, 7}
     /\ opcode \in {15, 103, 115} => funct3 = 0
     /\ opcode \in {15, 115} => Extract(word, <<7, 12>>) = 0 /\ Extract(word, <<15, 20>>) = 0
     /\ opcode = 15 => \/ imm = 2099
                       \/ (imm \div 256) = 0 /\ (imm % 16) \in 1 .. 15 /\
                         ((imm \div 16) % 16) \in 1 .. 15
     /\ opcode = 115 => imm \in {0, 1}

\* What a word says of the line it comes from.
Holds(name, given, word) ==
  /\ word \in SUBSET (0 .. 31)
  /\ Legit(word)
  /\ Fixed(Insns[name], word)
  /\ Reading(word) = Base(name)
  /\ name # "NOT" => match_value(Insns[name], word) # NoMatch
  /\ DOMAIN given = ToSet(Insns[name].asm_args) => HartReads(name, given, word)
  /\ name = "SLLI" => Extract(word, <<20, 32>>) \in 0 .. 31
  /\ name = "FENCE" =>
       /\ (Extract(word, <<20, 32>>) % 16) \in 1 .. 15
       /\ ((Extract(word, <<20, 32>>) \div 16) % 16) \in 1 .. 15
  /\ name = "FENCE_TSO" => Extract(word, <<20, 32>>) = 2099

\* XHolds, for each family X: the fields fixed are there, the hart reads the operands, the
\* word matches, and is read as the instruction that it is.
LEMMA OpHolds ==
  ASSUME NEW name \in {"ADD", "SLL", "SLT", "SLTU", "XOR", "SRL", "OR", "AND"}, NEW given,
    Asks(name, given), NEW word,
         word = value(Insns[name], given), word # Refused
  PROVE  Holds(name, given, word)
<1>1. PICK funct3 : funct3 = Funct3[name]
  OBVIOUS
<1>2. /\ Funct3["ADD"] = 0
      /\ Funct3["SLL"] = 1
      /\ Funct3["SLT"] = 2
      /\ Funct3["SLTU"] = 3
      /\ Funct3["XOR"] = 4
      /\ Funct3["SRL"] = 5
      /\ Funct3["OR"] = 6
      /\ Funct3["AND"] = 7
  BY DEF Funct3
<1>3. funct3 \in 0 .. 7
  BY SMT, <1>1, <1>2
<1>4. Insns[name] = Op(funct3, 0) /\ ToSet(Insns[name].asm_args) = {"rd", "rs1", "rs2"}
  BY <1>1, OpNamed
<1>5. /\ {"rd", "rs1", "rs2"} \subseteq DOMAIN given
      /\ given["rd"] \in 0 .. 31
      /\ given["rs1"] \in 0 .. 31
      /\ given["rs2"] \in 0 .. 31
  BY OpAsks
<1>6. word = value(Op(funct3, 0), given)
  BY <1>4
<1>7. /\ word \in SUBSET (0 .. 31)
      /\ Extract(word, <<0, 7>>) = 51
      /\ Extract(word, <<7, 12>>) = given["rd"]
      /\ Extract(word, <<12, 15>>) = funct3
      /\ Extract(word, <<15, 20>>) = given["rs1"]
      /\ Extract(word, <<20, 25>>) = given["rs2"]
      /\ Extract(word, <<25, 32>>) = 0
  BY SMT, <1>3, <1>5, <1>6, OpLine
<1>8. Fixed(Insns[name], word)
  BY SMT, <1>3, <1>5, <1>6, <1>4, OpFixed
<1>9. Reading(word) = Base(name)
  BY SMT, <1>1, <1>3, <1>7, OpRead
<1>10. match_value(Insns[name], word) # NoMatch
  BY SMT, <1>3, <1>5, <1>4, <1>7, OpMatch
<1>11. ASSUME DOMAIN given = ToSet(Insns[name].asm_args) PROVE HartReads(name, given, word)
  <2>1. DOMAIN given = {"rd", "rs1", "rs2"}
    BY Zenon, <1>11, <1>4
  <2> QED BY SMTT(20), <2>1, <1>1, <1>3, <1>5, <1>6, OpHart
<1>12. Legit(word)
  BY SMT, <1>1, <1>2, <1>3, <1>5, <1>7 DEF Legit
<1> QED BY SMT, <1>7, <1>8, <1>9, <1>10, <1>11, <1>12 DEF Holds

LEMMA OpNegateHolds ==
  ASSUME NEW name \in {"SUB", "SRA"}, NEW given, Asks(name, given), NEW word,
         word = value(Insns[name], given), word # Refused
  PROVE  Holds(name, given, word)
<1>1. PICK funct3 : funct3 = Funct3[name]
  OBVIOUS
<1>2. /\ Funct3["SUB"] = 0
      /\ Funct3["SRA"] = 5
  BY DEF Funct3
<1>3. funct3 \in 0 .. 7
  BY SMT, <1>1, <1>2
<1>4. Insns[name] = Op(funct3, F7Negate) /\ ToSet(Insns[name].asm_args) = {"rd", "rs1", "rs2"}
  BY <1>1, OpNegateNamed
<1>5. /\ {"rd", "rs1", "rs2"} \subseteq DOMAIN given
      /\ given["rd"] \in 0 .. 31
      /\ given["rs1"] \in 0 .. 31
      /\ given["rs2"] \in 0 .. 31
  BY OpNegateAsks
<1>6. word = value(Op(funct3, F7Negate), given)
  BY <1>4
<1>7. /\ word \in SUBSET (0 .. 31)
      /\ Extract(word, <<0, 7>>) = 51
      /\ Extract(word, <<7, 12>>) = given["rd"]
      /\ Extract(word, <<12, 15>>) = funct3
      /\ Extract(word, <<15, 20>>) = given["rs1"]
      /\ Extract(word, <<20, 25>>) = given["rs2"]
      /\ Extract(word, <<25, 32>>) = 32
  BY SMT, <1>3, <1>5, <1>6, OpNegateLine
<1>8. Fixed(Insns[name], word)
  BY SMT, <1>3, <1>5, <1>6, <1>4, OpNegateFixed
<1>9. Reading(word) = Base(name)
  BY SMT, <1>1, <1>3, <1>7, OpNegateRead
<1>10. match_value(Insns[name], word) # NoMatch
  BY SMT, <1>3, <1>5, <1>4, <1>7, OpNegateMatch
<1>11. ASSUME DOMAIN given = ToSet(Insns[name].asm_args) PROVE HartReads(name, given, word)
  <2>1. DOMAIN given = {"rd", "rs1", "rs2"}
    BY Zenon, <1>11, <1>4
  <2> QED BY SMTT(20), <2>1, <1>1, <1>3, <1>5, <1>6, OpNegateHart
<1>12. Legit(word)
  BY SMT, <1>1, <1>2, <1>3, <1>5, <1>7 DEF Legit
<1> QED BY SMT, <1>7, <1>8, <1>9, <1>10, <1>11, <1>12 DEF Holds

LEMMA OpImmHolds ==
  ASSUME NEW name \in {"ADDI", "SLTI", "SLTIU", "XORI", "ORI", "ANDI"}, NEW given,
    Asks(name, given), NEW word,
         word = value(Insns[name], given), word # Refused
  PROVE  Holds(name, given, word)
<1>1. PICK funct3 : funct3 = Funct3[name]
  OBVIOUS
<1>2. /\ Funct3["ADDI"] = 0
      /\ Funct3["SLTI"] = 2
      /\ Funct3["SLTIU"] = 3
      /\ Funct3["XORI"] = 4
      /\ Funct3["ORI"] = 6
      /\ Funct3["ANDI"] = 7
  BY DEF Funct3
<1>3. funct3 \in 0 .. 7
  BY SMT, <1>1, <1>2
<1>4. Insns[name] = OpImm(funct3) /\ ToSet(Insns[name].asm_args) = {"rd", "rs1", "imm"}
  BY <1>1, OpImmNamed
<1>5. /\ {"rd", "rs1", "imm"} \subseteq DOMAIN given
      /\ given["rd"] \in 0 .. 31
      /\ given["rs1"] \in 0 .. 31
      /\ given["imm"] \in Int
  BY OpImmAsks
<1>6. word = value(OpImm(funct3), given)
  BY <1>4
<1>7. /\ word \in SUBSET (0 .. 31)
      /\ Extract(word, <<0, 7>>) = 19
      /\ Extract(word, <<7, 12>>) = given["rd"]
      /\ Extract(word, <<12, 15>>) = funct3
      /\ Extract(word, <<15, 20>>) = given["rs1"]
      /\ Extract(word, <<20, 32>>) = given["imm"] % 4096
  BY SMT, <1>3, <1>5, <1>6, OpImmLine
<1>8. Fixed(Insns[name], word)
  BY SMT, <1>3, <1>5, <1>6, <1>4, OpImmFixed
<1>9. Reading(word) = Base(name)
  BY SMT, <1>1, <1>3, <1>7, OpImmRead
<1>10. match_value(Insns[name], word) # NoMatch
  BY SMT, <1>3, <1>5, <1>4, <1>7, OpImmMatch
<1>11. ASSUME DOMAIN given = ToSet(Insns[name].asm_args) PROVE HartReads(name, given, word)
  <2>1. DOMAIN given = {"rd", "rs1", "imm"}
    BY Zenon, <1>11, <1>4
  <2> QED BY SMTT(20), <2>1, <1>1, <1>3, <1>5, <1>6, OpImmHart
<1>12. Legit(word)
  BY SMT, <1>1, <1>2, <1>3, <1>5, <1>7 DEF Legit
<1> QED BY SMT, <1>7, <1>8, <1>9, <1>10, <1>11, <1>12 DEF Holds

LEMMA ShiftHolds ==
  ASSUME NEW name \in {"SLLI", "SRLI", "SRAI"}, NEW given, Asks(name, given), NEW word,
         word = value(Insns[name], given), word # Refused
  PROVE  Holds(name, given, word)
<1>1. PICK funct3, p : funct3 = Funct3[name] /\ p = (IF name = "SRAI" THEN F7Negate ELSE 0)
  OBVIOUS
<1>2. /\ Funct3["SLLI"] = 1
      /\ Funct3["SRLI"] = 5
      /\ Funct3["SRAI"] = 5
  BY DEF Funct3
<1>3. funct3 \in 0 .. 7
  BY SMT, <1>1, <1>2
<1>4. p \in {0, F7Negate}
  BY <1>1
<1>5. Insns[name] = Shift(funct3, p) /\ ToSet(Insns[name].asm_args) = {"rd", "rs1", "shamt"}
  BY <1>1, ShiftNamed
<1>6. /\ {"rd", "rs1", "shamt"} \subseteq DOMAIN given
      /\ given["rd"] \in 0 .. 31
      /\ given["rs1"] \in 0 .. 31
      /\ given["shamt"] \in Int
  BY ShiftAsks
<1>7. word = value(Shift(funct3, p), given)
  BY <1>5
<1>8. /\ word \in SUBSET (0 .. 31)
      /\ Extract(word, <<0, 7>>) = 19
      /\ Extract(word, <<7, 12>>) = given["rd"]
      /\ Extract(word, <<12, 15>>) = funct3
      /\ Extract(word, <<15, 20>>) = given["rs1"]
      /\ Extract(word, <<20, 32>>) = p * 32 + given["shamt"]
      /\ given["shamt"] \in 0 .. 31
  BY SMT, <1>3, <1>4, <1>6, <1>7, ShiftLine
<1>9. Fixed(Insns[name], word)
  BY SMT, <1>3, <1>4, <1>6, <1>7, <1>5, ShiftFixed
<1>10. Reading(word) = Base(name)
  BY SMT, <1>1, <1>3, <1>4, <1>8, ShiftRead
<1>11. match_value(Insns[name], word) # NoMatch
  BY SMT, <1>3, <1>4, <1>6, <1>5, <1>8, ShiftMatch
<1>12. ASSUME DOMAIN given = ToSet(Insns[name].asm_args) PROVE HartReads(name, given, word)
  <2>1. DOMAIN given = {"rd", "rs1", "shamt"}
    BY Zenon, <1>12, <1>5
  <2> QED BY SMTT(20), <2>1, <1>1, <1>3, <1>4, <1>6, <1>7, ShiftHart
<1>13. name = "SLLI" => Extract(word, <<20, 32>>) \in 0 .. 31
  BY SMT, <1>1, <1>3, <1>4, <1>8 DEF F7Negate
<1>14. Legit(word)
  BY SMT, <1>1, <1>2, <1>3, <1>4, <1>6, <1>8 DEF Legit, F7Negate
<1> QED BY SMT, <1>8, <1>9, <1>10, <1>11, <1>12, <1>13, <1>14 DEF Holds

LEMMA LoadHolds ==
  ASSUME NEW name \in {"LB", "LH", "LW", "LBU", "LHU"}, NEW given, Asks(name, given), NEW word,
         word = value(Insns[name], given), word # Refused
  PROVE  Holds(name, given, word)
<1>1. PICK funct3 : funct3 = Funct3[name]
  OBVIOUS
<1>2. /\ Funct3["LB"] = 0
      /\ Funct3["LH"] = 1
      /\ Funct3["LW"] = 2
      /\ Funct3["LBU"] = 4
      /\ Funct3["LHU"] = 5
  BY DEF Funct3
<1>3. funct3 \in 0 .. 7
  BY SMT, <1>1, <1>2
<1>4. Insns[name] = Load(funct3) /\ ToSet(Insns[name].asm_args) = {"rd", "rs1off"}
  BY <1>1, LoadNamed
<1>5. /\ {"rd", "rs1off"} \subseteq DOMAIN given
      /\ given["rd"] \in 0 .. 31
      /\ given["rs1off"][1] \in Int
      /\ given["rs1off"][2] \in 0 .. 31
  BY LoadAsks
<1>6. word = value(Load(funct3), given)
  BY <1>4
<1>7. /\ word \in SUBSET (0 .. 31)
      /\ Extract(word, <<0, 7>>) = 3
      /\ Extract(word, <<7, 12>>) = given["rd"]
      /\ Extract(word, <<12, 15>>) = funct3
      /\ Extract(word, <<15, 20>>) = given["rs1off"][2]
      /\ Extract(word, <<20, 32>>) = given["rs1off"][1] % 4096
  BY SMT, <1>3, <1>5, <1>6, LoadLine
<1>8. Fixed(Insns[name], word)
  BY SMT, <1>3, <1>5, <1>6, <1>4, LoadFixed
<1>9. Reading(word) = Base(name)
  BY SMT, <1>1, <1>3, <1>7, LoadRead
<1>10. match_value(Insns[name], word) # NoMatch
  BY SMT, <1>3, <1>5, <1>4, <1>7, LoadMatch
<1>11. ASSUME DOMAIN given = ToSet(Insns[name].asm_args) PROVE HartReads(name, given, word)
  <2>1. DOMAIN given = {"rd", "rs1off"}
    BY Zenon, <1>11, <1>4
  <2> QED BY SMTT(20), <2>1, <1>1, <1>3, <1>5, <1>6, LoadHart
<1>12. Legit(word)
  BY SMT, <1>1, <1>2, <1>3, <1>5, <1>7 DEF Legit
<1> QED BY SMT, <1>7, <1>8, <1>9, <1>10, <1>11, <1>12 DEF Holds

LEMMA FenceHolds ==
  ASSUME NEW name \in {"FENCE"}, NEW given, Asks(name, given), NEW word,
         word = value(Insns[name], given), word # Refused
  PROVE  Holds(name, given, word)
<1>1. Insns[name] = Fence(0) /\ ToSet(Insns[name].asm_args) = {"pred", "succ"}
  BY FenceNamed
<1>2. /\ {"pred", "succ"} \subseteq DOMAIN given
      /\ given["pred"] \subseteq ToSet(FenceLetter)
      /\ given["succ"] \subseteq ToSet(FenceLetter)
  BY FenceAsks
<1>3. word = value(Fence(0), given)
  BY <1>1
<1>4. /\ word \in SUBSET (0 .. 31)
      /\ Extract(word, <<0, 7>>) = 15
      /\ Extract(word, <<7, 12>>) = 0
      /\ Extract(word, <<12, 15>>) = 0
      /\ Extract(word, <<15, 20>>) = 0
      /\ Extract(word, <<20, 32>>) = fence_arg(given["succ"]) + 16 * fence_arg(given["pred"])
      /\ fence_arg(given["pred"]) \in 1 .. 15
      /\ fence_arg(given["succ"]) \in 1 .. 15
  BY SMT, <1>2, <1>3, FenceLine
<1>5. Fixed(Insns[name], word)
  BY SMT, <1>2, <1>3, <1>1, FenceFixed
<1>6. Reading(word) = Base(name)
  BY SMT, <1>4, FenceRead
<1>7. match_value(Insns[name], word) # NoMatch
  BY SMT, <1>2, <1>1, <1>4, FenceMatch
<1>8. ASSUME DOMAIN given = ToSet(Insns[name].asm_args) PROVE HartReads(name, given, word)
  <2>1. DOMAIN given = {"pred", "succ"}
    BY Zenon, <1>8, <1>1
  <2> QED BY SMTT(20), <2>1, <1>2, <1>3, FenceHart
<1>9. PICK s, o : s = fence_arg(given["succ"]) /\ o = fence_arg(given["pred"])
  OBVIOUS
<1>10. (Extract(word, <<20, 32>>) % 16) \in 1 .. 15
       /\ ((Extract(word, <<20, 32>>) \div 16) % 16) \in 1 .. 15
  BY SMT, <1>4, <1>9
<1>11. PICK imm : imm = Extract(word, <<20, 32>>)
  OBVIOUS
<1>12. (imm \div 256) = 0 /\ (imm % 16) \in 1 .. 15 /\ ((imm \div 16) % 16) \in 1 .. 15
  BY SMT, <1>4, <1>9, <1>11
<1>13. Legit(word)
  BY SMT, <1>4, <1>11, <1>12 DEF Legit
<1> QED BY SMT, <1>4, <1>5, <1>6, <1>7, <1>8, <1>10, <1>13 DEF Holds

LEMMA SystemHolds ==
  ASSUME NEW name \in {"ECALL", "EBREAK"}, NEW given, Asks(name, given), NEW word,
         word = value(Insns[name], given), word # Refused
  PROVE  Holds(name, given, word)
<1>1. PICK funct : funct = (IF name = "ECALL" THEN 0 ELSE 8)
  OBVIOUS
<1>2. funct \in 0 .. 8
  BY <1>1
<1>3. Insns[name] = System(funct) /\ ToSet(Insns[name].asm_args) = {}
  BY <1>1, SystemNamed
<1>4. /\ {"funct"} \cap DOMAIN given = {}
  BY SystemAsks
<1>5. word = value(System(funct), given)
  BY <1>3
<1>6. /\ word \in SUBSET (0 .. 31)
      /\ Extract(word, <<0, 7>>) = 115
      /\ Extract(word, <<7, 12>>) = 0
      /\ Extract(word, <<12, 15>>) = funct % 8
      /\ Extract(word, <<15, 20>>) = 0
      /\ Extract(word, <<20, 32>>) = funct \div 8
  BY SMT, <1>2, <1>4, <1>5, SystemLine
<1>7. Fixed(Insns[name], word)
  BY SMT, <1>2, <1>4, <1>5, <1>3, SystemFixed
<1>8. Reading(word) = Base(name)
  BY SMT, <1>1, <1>2, <1>6, SystemRead
<1>9. match_value(Insns[name], word) # NoMatch
  BY SMT, <1>2, <1>4, <1>3, <1>6, SystemMatch
<1>10. DOMAIN given = ToSet(Insns[name].asm_args) => HartReads(name, given, word)
  BY SMT, <1>3 DEF HartReads
<1>11. Legit(word)
  BY SMT, <1>1, <1>2, <1>4, <1>6 DEF Legit
<1> QED BY SMT, <1>6, <1>7, <1>8, <1>9, <1>10, <1>11 DEF Holds

LEMMA StoreHolds ==
  ASSUME NEW name \in {"SB", "SH", "SW"}, NEW given, Asks(name, given), NEW word,
         word = value(Insns[name], given), word # Refused
  PROVE  Holds(name, given, word)
<1>1. PICK funct3 : funct3 = Funct3[name]
  OBVIOUS
<1>2. /\ Funct3["SB"] = 0
      /\ Funct3["SH"] = 1
      /\ Funct3["SW"] = 2
  BY DEF Funct3
<1>3. funct3 \in 0 .. 7
  BY SMT, <1>1, <1>2
<1>4. Insns[name] = Store(funct3) /\ ToSet(Insns[name].asm_args) = {"rs2", "rs1off"}
  BY <1>1, StoreNamed
<1>5. /\ {"rs2", "rs1off"} \subseteq DOMAIN given
      /\ given["rs2"] \in 0 .. 31
      /\ given["rs1off"][1] \in Int
      /\ given["rs1off"][2] \in 0 .. 31
  BY StoreAsks
<1>6. word = value(Store(funct3), given)
  BY <1>4
<1>7. /\ word \in SUBSET (0 .. 31)
      /\ Extract(word, <<0, 7>>) = 35
      /\ Extract(word, <<7, 12>>) = given["rs1off"][1] % 32
      /\ Extract(word, <<12, 15>>) = funct3
      /\ Extract(word, <<15, 20>>) = given["rs1off"][2]
      /\ Extract(word, <<20, 25>>) = given["rs2"]
      /\ Extract(word, <<25, 32>>) = (given["rs1off"][1] \div 32) % 128
  BY SMT, <1>3, <1>5, <1>6, StoreLine
<1>8. Fixed(Insns[name], word)
  BY SMT, <1>3, <1>5, <1>6, <1>4, StoreFixed
<1>9. Reading(word) = Base(name)
  BY SMT, <1>1, <1>3, <1>7, StoreRead
<1>10. match_value(Insns[name], word) # NoMatch
  BY SMT, <1>3, <1>5, <1>4, <1>7, StoreMatch
<1>11. ASSUME DOMAIN given = ToSet(Insns[name].asm_args) PROVE HartReads(name, given, word)
  <2>1. DOMAIN given = {"rs2", "rs1off"}
    BY Zenon, <1>11, <1>4
  <2> QED BY SMTT(20), <2>1, <1>1, <1>3, <1>5, <1>6, StoreHart
<1>12. Legit(word)
  BY SMT, <1>1, <1>2, <1>3, <1>5, <1>7 DEF Legit
<1> QED BY SMT, <1>7, <1>8, <1>9, <1>10, <1>11, <1>12 DEF Holds

LEMMA BranchHolds ==
  ASSUME NEW name \in {"BEQ", "BNE", "BLT", "BGE", "BLTU", "BGEU"}, NEW given,
    Asks(name, given), NEW word,
         word = value(Insns[name], given), word # Refused
  PROVE  Holds(name, given, word)
<1>1. PICK funct3 : funct3 = Funct3[name]
  OBVIOUS
<1>2. /\ Funct3["BEQ"] = 0
      /\ Funct3["BNE"] = 1
      /\ Funct3["BLT"] = 4
      /\ Funct3["BGE"] = 5
      /\ Funct3["BLTU"] = 6
      /\ Funct3["BGEU"] = 7
  BY DEF Funct3
<1>3. funct3 \in 0 .. 7
  BY SMT, <1>1, <1>2
<1>4. Insns[name] = Branch(funct3) /\ ToSet(Insns[name].asm_args) = {"rs1", "rs2", "imm"}
  BY <1>1, BranchNamed
<1>5. /\ {"rs1", "rs2", "imm"} \subseteq DOMAIN given
      /\ given["rs1"] \in 0 .. 31
      /\ given["rs2"] \in 0 .. 31
      /\ given["imm"] \in Int
  BY BranchAsks
<1>6. word = value(Branch(funct3), given)
  BY <1>4
<1>7. /\ word \in SUBSET (0 .. 31)
      /\ Extract(word, <<0, 7>>) = 99
      /\ Extract(word, <<7, 8>>) = (given["imm"] \div 2048) % 2
      /\ Extract(word, <<8, 12>>) = (given["imm"] \div 2) % 16
      /\ Extract(word, <<12, 15>>) = funct3
      /\ Extract(word, <<15, 20>>) = given["rs1"]
      /\ Extract(word, <<20, 25>>) = given["rs2"]
      /\ Extract(word, <<25, 31>>) = (given["imm"] \div 32) % 64
      /\ Extract(word, <<31, 32>>) = (given["imm"] \div 4096) % 2
  BY SMT, <1>3, <1>5, <1>6, BranchLine
<1>8. Fixed(Insns[name], word)
  BY SMT, <1>3, <1>5, <1>6, <1>4, BranchFixed
<1>9. Reading(word) = Base(name)
  BY SMT, <1>1, <1>3, <1>7, BranchRead
<1>10. match_value(Insns[name], word) # NoMatch
  BY SMT, <1>3, <1>5, <1>4, <1>7, BranchMatch
<1>11. ASSUME DOMAIN given = ToSet(Insns[name].asm_args) PROVE HartReads(name, given, word)
  <2>1. DOMAIN given = {"rs1", "rs2", "imm"}
    BY Zenon, <1>11, <1>4
  <2> QED BY SMTT(20), <2>1, <1>1, <1>3, <1>5, <1>6, BranchHart
<1>12. Legit(word)
  BY SMT, <1>1, <1>2, <1>3, <1>5, <1>7 DEF Legit
<1> QED BY SMT, <1>7, <1>8, <1>9, <1>10, <1>11, <1>12 DEF Holds

LEMMA UpperHolds ==
  ASSUME NEW name \in {"LUI", "AUIPC"}, NEW given, Asks(name, given), NEW word,
         word = value(Insns[name], given), word # Refused
  PROVE  Holds(name, given, word)
<1>1. PICK opcode : opcode = (IF name = "LUI" THEN 55 ELSE 23)
  OBVIOUS
<1>2. opcode \in {23, 55}
  BY <1>1
<1>3. Insns[name] = Upper(opcode) /\ ToSet(Insns[name].asm_args) = {"rd", "imm"}
  BY <1>1, UpperNamed
<1>4. /\ {"rd", "imm"} \subseteq DOMAIN given
      /\ given["rd"] \in 0 .. 31
      /\ given["imm"] \in Int
  BY UpperAsks
<1>5. word = value(Upper(opcode), given)
  BY <1>3
<1>6. /\ word \in SUBSET (0 .. 31)
      /\ Extract(word, <<0, 7>>) = opcode
      /\ Extract(word, <<7, 12>>) = given["rd"]
      /\ Extract(word, <<12, 32>>) = given["imm"] % 2^20
  BY SMT, <1>2, <1>4, <1>5, UpperLine
<1>7. Fixed(Insns[name], word)
  BY SMT, <1>2, <1>4, <1>5, <1>3, UpperFixed
<1>8. Reading(word) = Base(name)
  BY SMT, <1>1, <1>2, <1>6, UpperRead
<1>9. match_value(Insns[name], word) # NoMatch
  BY SMT, <1>2, <1>4, <1>3, <1>6, UpperMatch
<1>10. ASSUME DOMAIN given = ToSet(Insns[name].asm_args) PROVE HartReads(name, given, word)
  <2>1. DOMAIN given = {"rd", "imm"}
    BY Zenon, <1>10, <1>3
  <2> QED BY SMTT(20), <2>1, <1>1, <1>2, <1>4, <1>5, UpperHart
<1>11. Legit(word)
  BY SMT, <1>1, <1>2, <1>4, <1>6 DEF Legit
<1> QED BY SMT, <1>6, <1>7, <1>8, <1>9, <1>10, <1>11 DEF Holds

LEMMA JalrHolds ==
  ASSUME NEW name \in {"JALR"}, NEW given, Asks(name, given), NEW word,
         word = value(Insns[name], given), word # Refused
  PROVE  Holds(name, given, word)
<1>1. Insns[name] = Jalr /\ ToSet(Insns[name].asm_args) = {"rd", "rs1", "imm"}
  BY JalrNamed
<1>2. /\ {"rd", "rs1", "imm"} \subseteq DOMAIN given
      /\ given["rd"] \in 0 .. 31
      /\ given["rs1"] \in 0 .. 31
      /\ given["imm"] \in Int
  BY JalrAsks
<1>3. word = value(Jalr, given)
  BY <1>1
<1>4. /\ word \in SUBSET (0 .. 31)
      /\ Extract(word, <<0, 7>>) = 103
      /\ Extract(word, <<7, 12>>) = given["rd"]
      /\ Extract(word, <<12, 15>>) = 0
      /\ Extract(word, <<15, 20>>) = given["rs1"]
      /\ Extract(word, <<20, 32>>) = given["imm"] % 4096
  BY SMT, <1>2, <1>3, JalrLine
<1>5. Fixed(Insns[name], word)
  BY SMT, <1>2, <1>3, <1>1, JalrFixed
<1>6. Reading(word) = Base(name)
  BY SMT, <1>4, JalrRead
<1>7. match_value(Insns[name], word) # NoMatch
  BY SMT, <1>2, <1>1, <1>4, JalrMatch
<1>8. ASSUME DOMAIN given = ToSet(Insns[name].asm_args) PROVE HartReads(name, given, word)
  <2>1. DOMAIN given = {"rd", "rs1", "imm"}
    BY Zenon, <1>8, <1>1
  <2> QED BY SMTT(20), <2>1, <1>2, <1>3, JalrHart
<1>9. Legit(word)
  BY SMT, <1>2, <1>4 DEF Legit
<1> QED BY SMT, <1>4, <1>5, <1>6, <1>7, <1>8, <1>9 DEF Holds

LEMMA JalHolds ==
  ASSUME NEW name \in {"JAL"}, NEW given, Asks(name, given), NEW word,
         word = value(Insns[name], given), word # Refused
  PROVE  Holds(name, given, word)
<1>1. Insns[name] = Jal /\ ToSet(Insns[name].asm_args) = {"rd", "imm"}
  BY JalNamed
<1>2. /\ {"rd", "imm"} \subseteq DOMAIN given
      /\ given["rd"] \in 0 .. 31
      /\ given["imm"] \in Int
  BY JalAsks
<1>3. word = value(Jal, given)
  BY <1>1
<1>4. /\ word \in SUBSET (0 .. 31)
      /\ Extract(word, <<0, 7>>) = 111
      /\ Extract(word, <<7, 12>>) = given["rd"]
      /\ Extract(word, <<12, 20>>) = (given["imm"] \div 4096) % 256
      /\ Extract(word, <<20, 21>>) = (given["imm"] \div 2048) % 2
      /\ Extract(word, <<21, 31>>) = (given["imm"] \div 2) % 1024
      /\ Extract(word, <<31, 32>>) = (given["imm"] \div 1048576) % 2
  BY SMT, <1>2, <1>3, JalLine
<1>5. Fixed(Insns[name], word)
  BY SMT, <1>2, <1>3, <1>1, JalFixed
<1>6. Reading(word) = Base(name)
  BY SMT, <1>4, JalRead
<1>7. match_value(Insns[name], word) # NoMatch
  BY SMT, <1>2, <1>1, <1>4, JalMatch
<1>8. ASSUME DOMAIN given = ToSet(Insns[name].asm_args) PROVE HartReads(name, given, word)
  <2>1. DOMAIN given = {"rd", "imm"}
    BY Zenon, <1>8, <1>1
  <2> QED BY SMTT(20), <2>1, <1>2, <1>3, JalHart
<1>9. Legit(word)
  BY SMT, <1>2, <1>4 DEF Legit
<1> QED BY SMT, <1>4, <1>5, <1>6, <1>7, <1>8, <1>9 DEF Holds

LEMMA FenceTSOHolds ==
  ASSUME NEW name \in {"FENCE_TSO"}, NEW given, Asks(name, given), NEW word,
         word = value(Insns[name], given), word # Refused
  PROVE  Holds(name, given, word)
<1>1. Insns[name] = Insns.FENCE_TSO /\ ToSet(Insns[name].asm_args) = {}
  BY FenceTSONamed
<1>2. /\ {"pred", "succ"} \cap DOMAIN given = {}
  BY FenceTSOAsks
<1>3. word = value(Insns.FENCE_TSO, given)
  BY <1>1
<1>4. /\ word \in SUBSET (0 .. 31)
      /\ Extract(word, <<0, 7>>) = 15
      /\ Extract(word, <<7, 12>>) = 0
      /\ Extract(word, <<12, 15>>) = 0
      /\ Extract(word, <<15, 20>>) = 0
      /\ Extract(word, <<20, 32>>) = 2099
  BY SMT, <1>2, <1>3, FenceTSOLine
<1>5. Fixed(Insns[name], word)
  BY SMT, <1>2, <1>3, <1>1, FenceTSOFixed
<1>6. Reading(word) = Base(name)
  BY SMT, <1>4, FenceTSORead
<1>7. match_value(Insns[name], word) # NoMatch
  BY SMT, <1>2, <1>1, <1>4, FenceTSOMatch
<1>8. ASSUME DOMAIN given = ToSet(Insns[name].asm_args) PROVE HartReads(name, given, word)
  <2>1. DOMAIN given = {}
    BY Zenon, <1>8, <1>1
  <2> QED BY SMTT(20), <2>1, <1>2, <1>3, FenceTSOHart
<1>9. Legit(word)
  BY SMT, <1>2, <1>4 DEF Legit
<1> QED BY SMT, <1>4, <1>5, <1>6, <1>7, <1>8, <1>9 DEF Holds

LEMMA SnezHolds ==
  ASSUME NEW name \in {"SNEZ"}, NEW given, Asks(name, given), NEW word,
         word = value(Insns[name], given), word # Refused
  PROVE  Holds(name, given, word)
<1>1. Insns[name] = Insns.SNEZ /\ ToSet(Insns[name].asm_args) = {"rd", "rs2"}
  BY SnezNamed
<1>2. /\ {"rd", "rs2"} \subseteq DOMAIN given
      /\ given["rd"] \in 0 .. 31
      /\ given["rs2"] \in 0 .. 31
  BY SnezAsks
<1>3. word = value(Insns.SNEZ, given)
  BY <1>1
<1>4. /\ word \in SUBSET (0 .. 31)
      /\ Extract(word, <<0, 7>>) = 51
      /\ Extract(word, <<7, 12>>) = given["rd"]
      /\ Extract(word, <<12, 15>>) = 3
      /\ Extract(word, <<15, 20>>) = 0
      /\ Extract(word, <<20, 25>>) = given["rs2"]
      /\ Extract(word, <<25, 32>>) = 0
  BY SMT, <1>2, <1>3, SnezLine
<1>5. Fixed(Insns[name], word)
  BY SMT, <1>2, <1>3, <1>1, SnezFixed
<1>6. Reading(word) = Base(name)
  BY SMT, <1>4, SnezRead
<1>7. match_value(Insns[name], word) # NoMatch
  BY SMT, <1>2, <1>1, <1>4, SnezMatch
<1>8. ASSUME DOMAIN given = ToSet(Insns[name].asm_args) PROVE HartReads(name, given, word)
  <2>1. DOMAIN given = {"rd", "rs2"}
    BY Zenon, <1>8, <1>1
  <2> QED BY SMTT(20), <2>1, <1>2, <1>3, SnezHart
<1>9. Legit(word)
  BY SMT, <1>2, <1>4 DEF Legit
<1> QED BY SMT, <1>4, <1>5, <1>6, <1>7, <1>8, <1>9 DEF Holds

LEMMA RetHolds ==
  ASSUME NEW name \in {"RET"}, NEW given, Asks(name, given), NEW word,
         word = value(Insns[name], given), word # Refused
  PROVE  Holds(name, given, word)
<1>1. Insns[name] = Insns.RET /\ ToSet(Insns[name].asm_args) = {}
  BY RetNamed
<1>2. word = value(Insns.RET, given)
  BY <1>1
<1>3. /\ word \in SUBSET (0 .. 31)
      /\ Extract(word, <<0, 7>>) = 103
      /\ Extract(word, <<7, 12>>) = 0
      /\ Extract(word, <<12, 15>>) = 0
      /\ Extract(word, <<15, 20>>) = 1
      /\ Extract(word, <<20, 32>>) = 0
  BY SMT, <1>2, RetLine
<1>4. Fixed(Insns[name], word)
  BY SMT, <1>2, <1>1, RetFixed
<1>5. Reading(word) = Base(name)
  BY SMT, <1>3, RetRead
<1>6. match_value(Insns[name], word) # NoMatch
  BY SMT, <1>1, <1>3, RetMatch
<1>7. ASSUME DOMAIN given = ToSet(Insns[name].asm_args) PROVE HartReads(name, given, word)
  <2>1. DOMAIN given = {}
    BY Zenon, <1>7, <1>1
  <2> QED BY SMTT(20), <2>1, <1>2, RetHart
<1>8. Legit(word)
  BY SMT, <1>3 DEF Legit
<1> QED BY SMT, <1>3, <1>4, <1>5, <1>6, <1>7, <1>8 DEF Holds

LEMMA MvHolds ==
  ASSUME NEW name \in {"MV"}, NEW given, Asks(name, given), NEW word,
         word = value(Insns[name], given), word # Refused
  PROVE  Holds(name, given, word)
<1>1. Insns[name] = Insns.MV /\ ToSet(Insns[name].asm_args) = {"rd", "rs1"}
  BY MvNamed
<1>2. /\ {"rd", "rs1"} \subseteq DOMAIN given
      /\ given["rd"] \in 0 .. 31
      /\ given["rs1"] \in 0 .. 31
  BY MvAsks
<1>3. word = value(Insns.MV, given)
  BY <1>1
<1>4. /\ word \in SUBSET (0 .. 31)
      /\ Extract(word, <<0, 7>>) = 19
      /\ Extract(word, <<7, 12>>) = given["rd"]
      /\ Extract(word, <<12, 15>>) = 0
      /\ Extract(word, <<15, 20>>) = given["rs1"]
      /\ Extract(word, <<20, 32>>) = 0
  BY SMT, <1>2, <1>3, MvLine
<1>5. Fixed(Insns[name], word)
  BY SMT, <1>2, <1>3, <1>1, MvFixed
<1>6. Reading(word) = Base(name)
  BY SMT, <1>4, MvRead
<1>7. match_value(Insns[name], word) # NoMatch
  BY SMT, <1>2, <1>1, <1>4, MvMatch
<1>8. ASSUME DOMAIN given = ToSet(Insns[name].asm_args) PROVE HartReads(name, given, word)
  <2>1. DOMAIN given = {"rd", "rs1"}
    BY Zenon, <1>8, <1>1
  <2> QED BY SMTT(20), <2>1, <1>2, <1>3, MvHart
<1>9. Legit(word)
  BY SMT, <1>2, <1>4 DEF Legit
<1> QED BY SMT, <1>4, <1>5, <1>6, <1>7, <1>8, <1>9 DEF Holds

LEMMA SeqzHolds ==
  ASSUME NEW name \in {"SEQZ"}, NEW given, Asks(name, given), NEW word,
         word = value(Insns[name], given), word # Refused
  PROVE  Holds(name, given, word)
<1>1. Insns[name] = Insns.SEQZ /\ ToSet(Insns[name].asm_args) = {"rd", "rs1"}
  BY SeqzNamed
<1>2. /\ {"rd", "rs1"} \subseteq DOMAIN given
      /\ given["rd"] \in 0 .. 31
      /\ given["rs1"] \in 0 .. 31
  BY SeqzAsks
<1>3. word = value(Insns.SEQZ, given)
  BY <1>1
<1>4. /\ word \in SUBSET (0 .. 31)
      /\ Extract(word, <<0, 7>>) = 19
      /\ Extract(word, <<7, 12>>) = given["rd"]
      /\ Extract(word, <<12, 15>>) = 3
      /\ Extract(word, <<15, 20>>) = given["rs1"]
      /\ Extract(word, <<20, 32>>) = 1
  BY SMT, <1>2, <1>3, SeqzLine
<1>5. Fixed(Insns[name], word)
  BY SMT, <1>2, <1>3, <1>1, SeqzFixed
<1>6. Reading(word) = Base(name)
  BY SMT, <1>4, SeqzRead
<1>7. match_value(Insns[name], word) # NoMatch
  BY SMT, <1>2, <1>1, <1>4, SeqzMatch
<1>8. ASSUME DOMAIN given = ToSet(Insns[name].asm_args) PROVE HartReads(name, given, word)
  <2>1. DOMAIN given = {"rd", "rs1"}
    BY Zenon, <1>8, <1>1
  <2> QED BY SMTT(20), <2>1, <1>2, <1>3, SeqzHart
<1>9. Legit(word)
  BY SMT, <1>2, <1>4 DEF Legit
<1> QED BY SMT, <1>4, <1>5, <1>6, <1>7, <1>8, <1>9 DEF Holds

LEMMA NotHolds ==
  ASSUME NEW name \in {"NOT"}, NEW given, Asks(name, given), NEW word,
         word = value(Insns[name], given), word # Refused
  PROVE  Holds(name, given, word)
<1>1. Insns[name] = Insns.NOT /\ ToSet(Insns[name].asm_args) = {"rd", "rs1"}
  BY NotNamed
<1>2. /\ {"rd", "rs1"} \subseteq DOMAIN given
      /\ given["rd"] \in 0 .. 31
      /\ given["rs1"] \in 0 .. 31
  BY NotAsks
<1>3. word = value(Insns.NOT, given)
  BY <1>1
<1>4. /\ word \in SUBSET (0 .. 31)
      /\ Extract(word, <<0, 7>>) = 19
      /\ Extract(word, <<7, 12>>) = given["rd"]
      /\ Extract(word, <<12, 15>>) = 4
      /\ Extract(word, <<15, 20>>) = given["rs1"]
      /\ Extract(word, <<20, 32>>) = 4095
  BY SMT, <1>2, <1>3, NotLine
<1>5. Fixed(Insns[name], word)
  BY SMT, <1>2, <1>3, <1>1, NotFixed
<1>6. Reading(word) = Base(name)
  BY SMT, <1>4, NotRead
<1>7. ASSUME DOMAIN given = ToSet(Insns[name].asm_args) PROVE HartReads(name, given, word)
  <2>1. DOMAIN given = {"rd", "rs1"}
    BY Zenon, <1>7, <1>1
  <2> QED BY SMTT(20), <2>1, <1>2, <1>3, NotHart
<1>8. Legit(word)
  BY SMT, <1>2, <1>4 DEF Legit
<1> QED BY SMT, <1>4, <1>5, <1>6, <1>7, <1>8 DEF Holds

LEMMA NopHolds ==
  ASSUME NEW name \in {"NOP"}, NEW given, Asks(name, given), NEW word,
         word = value(Insns[name], given), word # Refused
  PROVE  Holds(name, given, word)
<1>1. Insns[name] = Insns.NOP /\ ToSet(Insns[name].asm_args) = {}
  BY NopNamed
<1>2. word = value(Insns.NOP, given)
  BY <1>1
<1>3. /\ word \in SUBSET (0 .. 31)
      /\ Extract(word, <<0, 7>>) = 19
      /\ Extract(word, <<7, 12>>) = 0
      /\ Extract(word, <<12, 15>>) = 0
      /\ Extract(word, <<15, 20>>) = 0
      /\ Extract(word, <<20, 32>>) = 0
  BY SMT, <1>2, NopLine
<1>4. Fixed(Insns[name], word)
  BY SMT, <1>2, <1>1, NopFixed
<1>5. Reading(word) = Base(name)
  BY SMT, <1>3, NopRead
<1>6. match_value(Insns[name], word) # NoMatch
  BY SMT, <1>1, <1>3, NopMatch
<1>7. ASSUME DOMAIN given = ToSet(Insns[name].asm_args) PROVE HartReads(name, given, word)
  <2>1. DOMAIN given = {}
    BY Zenon, <1>7, <1>1
  <2> QED BY SMTT(20), <2>1, <1>2, NopHart
<1>8. Legit(word)
  BY SMT, <1>3 DEF Legit
<1> QED BY SMT, <1>3, <1>4, <1>5, <1>6, <1>7, <1>8 DEF Holds

LEMMA JHolds ==
  ASSUME NEW name \in {"J_"}, NEW given, Asks(name, given), NEW word,
         word = value(Insns[name], given), word # Refused
  PROVE  Holds(name, given, word)
<1>1. Insns[name] = Insns.J_ /\ ToSet(Insns[name].asm_args) = {"imm"}
  BY JNamed
<1>2. /\ {"imm"} \subseteq DOMAIN given
      /\ given["imm"] \in Int
  BY JAsks
<1>3. word = value(Insns.J_, given)
  BY <1>1
<1>4. /\ word \in SUBSET (0 .. 31)
      /\ Extract(word, <<0, 7>>) = 111
      /\ Extract(word, <<7, 12>>) = 0
      /\ Extract(word, <<12, 20>>) = (given["imm"] \div 4096) % 256
      /\ Extract(word, <<20, 21>>) = (given["imm"] \div 2048) % 2
      /\ Extract(word, <<21, 31>>) = (given["imm"] \div 2) % 1024
      /\ Extract(word, <<31, 32>>) = (given["imm"] \div 1048576) % 2
  BY SMT, <1>2, <1>3, JLine
<1>5. Fixed(Insns[name], word)
  BY SMT, <1>2, <1>3, <1>1, JFixed
<1>6. Reading(word) = Base(name)
  BY SMT, <1>4, JRead
<1>7. match_value(Insns[name], word) # NoMatch
  BY SMT, <1>2, <1>1, <1>4, JMatch
<1>8. ASSUME DOMAIN given = ToSet(Insns[name].asm_args) PROVE HartReads(name, given, word)
  <2>1. DOMAIN given = {"imm"}
    BY Zenon, <1>8, <1>1
  <2> QED BY SMTT(20), <2>1, <1>2, <1>3, JHart
<1>9. Legit(word)
  BY SMT, <1>2, <1>4 DEF Legit
<1> QED BY SMT, <1>4, <1>5, <1>6, <1>7, <1>8, <1>9 DEF Holds

\* XMatched, for each family X: a word that it matches is read as one of it.
LEMMA OpMatched ==
  ASSUME NEW name \in {"ADD", "SLL", "SLT", "SLTU", "XOR", "SRL", "OR", "AND"}, NEW word,
    match_value(Insns[name], word) # NoMatch
  PROVE  Reading(word) = Base(name)
<1>1. PICK funct3 : funct3 = Funct3[name]
  OBVIOUS
<1>2. Insns[name] = Op(funct3, 0)
  BY <1>1, OpNamed
<1>3. /\ Extract(word, <<0, 7>>) = 51
      /\ Extract(word, <<12, 15>>) = funct3
      /\ Extract(word, <<25, 32>>) = 0
  BY SMT, <1>2, OpMatch
<1> QED BY SMT, <1>1, <1>3, OpRead

LEMMA OpNegateMatched ==
  ASSUME NEW name \in {"SUB", "SRA"}, NEW word, match_value(Insns[name], word) # NoMatch
  PROVE  Reading(word) = Base(name)
<1>1. PICK funct3 : funct3 = Funct3[name]
  OBVIOUS
<1>2. Insns[name] = Op(funct3, F7Negate)
  BY <1>1, OpNegateNamed
<1>3. /\ Extract(word, <<0, 7>>) = 51
      /\ Extract(word, <<12, 15>>) = funct3
      /\ Extract(word, <<25, 32>>) = 32
  BY SMT, <1>2, OpNegateMatch
<1> QED BY SMT, <1>1, <1>3, OpNegateRead

LEMMA OpImmMatched ==
  ASSUME NEW name \in {"ADDI", "SLTI", "SLTIU", "XORI", "ORI", "ANDI"}, NEW word,
    match_value(Insns[name], word) # NoMatch
  PROVE  Reading(word) = Base(name)
<1>1. PICK funct3 : funct3 = Funct3[name]
  OBVIOUS
<1>2. Insns[name] = OpImm(funct3)
  BY <1>1, OpImmNamed
<1>3. /\ Extract(word, <<0, 7>>) = 19
      /\ Extract(word, <<12, 15>>) = funct3
  BY SMT, <1>2, OpImmMatch
<1> QED BY SMT, <1>1, <1>3, OpImmRead

LEMMA ShiftMatched ==
  ASSUME NEW name \in {"SLLI", "SRLI", "SRAI"}, NEW word, match_value(Insns[name], word) # NoMatch
  PROVE  Reading(word) = Base(name)
<1>1. PICK funct3, p : funct3 = Funct3[name] /\ p = (IF name = "SRAI" THEN F7Negate ELSE 0)
  OBVIOUS
<1>2. Insns[name] = Shift(funct3, p)
  BY <1>1, ShiftNamed
<1>3. /\ Extract(word, <<0, 7>>) = 19
      /\ Extract(word, <<12, 15>>) = funct3
  BY SMT, <1>2, ShiftMatch
<1> QED BY SMT, <1>1, <1>3, ShiftRead

LEMMA LoadMatched ==
  ASSUME NEW name \in {"LB", "LH", "LW", "LBU", "LHU"}, NEW word,
    match_value(Insns[name], word) # NoMatch
  PROVE  Reading(word) = Base(name)
<1>1. PICK funct3 : funct3 = Funct3[name]
  OBVIOUS
<1>2. Insns[name] = Load(funct3)
  BY <1>1, LoadNamed
<1>3. /\ Extract(word, <<0, 7>>) = 3
      /\ Extract(word, <<12, 15>>) = funct3
  BY SMT, <1>2, LoadMatch
<1> QED BY SMT, <1>1, <1>3, LoadRead

LEMMA FenceMatched ==
  ASSUME NEW name \in {"FENCE"}, NEW word, match_value(Insns[name], word) # NoMatch
  PROVE  Reading(word) = Base(name)
<1>1. Insns[name] = Fence(0)
  BY FenceNamed
<1>2. /\ Extract(word, <<0, 7>>) = 15
      /\ Extract(word, <<7, 12>>) = 0
      /\ Extract(word, <<12, 15>>) = 0
      /\ Extract(word, <<15, 20>>) = 0
      /\ (Extract(word, <<20, 32>>) \div 256) = 0
  BY SMT, <1>1, FenceMatch
<1> QED BY SMT, <1>2, FenceRead

LEMMA SystemMatched ==
  ASSUME NEW name \in {"ECALL", "EBREAK"}, NEW word, match_value(Insns[name], word) # NoMatch
  PROVE  Reading(word) = Base(name)
<1>1. PICK funct : funct = (IF name = "ECALL" THEN 0 ELSE 8)
  OBVIOUS
<1>2. Insns[name] = System(funct)
  BY <1>1, SystemNamed
<1>3. /\ Extract(word, <<0, 7>>) = 115
      /\ Extract(word, <<7, 12>>) = 0
      /\ Extract(word, <<12, 15>>) = funct % 8
      /\ Extract(word, <<15, 20>>) = 0
      /\ Extract(word, <<20, 32>>) = funct \div 8
  BY SMT, <1>2, SystemMatch
<1> QED BY SMT, <1>1, <1>3, SystemRead

LEMMA StoreMatched ==
  ASSUME NEW name \in {"SB", "SH", "SW"}, NEW word, match_value(Insns[name], word) # NoMatch
  PROVE  Reading(word) = Base(name)
<1>1. PICK funct3 : funct3 = Funct3[name]
  OBVIOUS
<1>2. Insns[name] = Store(funct3)
  BY <1>1, StoreNamed
<1>3. /\ Extract(word, <<0, 7>>) = 35
      /\ Extract(word, <<12, 15>>) = funct3
  BY SMT, <1>2, StoreMatch
<1> QED BY SMT, <1>1, <1>3, StoreRead

LEMMA BranchMatched ==
  ASSUME NEW name \in {"BEQ", "BNE", "BLT", "BGE", "BLTU", "BGEU"}, NEW word,
    match_value(Insns[name], word) # NoMatch
  PROVE  Reading(word) = Base(name)
<1>1. PICK funct3 : funct3 = Funct3[name]
  OBVIOUS
<1>2. Insns[name] = Branch(funct3)
  BY <1>1, BranchNamed
<1>3. /\ Extract(word, <<0, 7>>) = 99
      /\ Extract(word, <<12, 15>>) = funct3
  BY SMT, <1>2, BranchMatch
<1> QED BY SMT, <1>1, <1>3, BranchRead

LEMMA UpperMatched ==
  ASSUME NEW name \in {"LUI", "AUIPC"}, NEW word, match_value(Insns[name], word) # NoMatch
  PROVE  Reading(word) = Base(name)
<1>1. PICK opcode : opcode = (IF name = "LUI" THEN 55 ELSE 23)
  OBVIOUS
<1>2. Insns[name] = Upper(opcode)
  BY <1>1, UpperNamed
<1>3. /\ Extract(word, <<0, 7>>) = opcode
  BY SMT, <1>2, UpperMatch
<1> QED BY SMT, <1>1, <1>3, UpperRead

LEMMA JalrMatched ==
  ASSUME NEW name \in {"JALR"}, NEW word, match_value(Insns[name], word) # NoMatch
  PROVE  Reading(word) = Base(name)
<1>1. Insns[name] = Jalr
  BY JalrNamed
<1>2. /\ Extract(word, <<0, 7>>) = 103
      /\ Extract(word, <<12, 15>>) = 0
  BY SMT, <1>1, JalrMatch
<1> QED BY SMT, <1>2, JalrRead

LEMMA JalMatched ==
  ASSUME NEW name \in {"JAL"}, NEW word, match_value(Insns[name], word) # NoMatch
  PROVE  Reading(word) = Base(name)
<1>1. Insns[name] = Jal
  BY JalNamed
<1>2. /\ Extract(word, <<0, 7>>) = 111
  BY SMT, <1>1, JalMatch
<1> QED BY SMT, <1>2, JalRead

LEMMA FenceTSOMatched ==
  ASSUME NEW name \in {"FENCE_TSO"}, NEW word, match_value(Insns[name], word) # NoMatch
  PROVE  Reading(word) = Base(name)
<1>1. Insns[name] = Insns.FENCE_TSO
  BY FenceTSONamed
<1>2. /\ Extract(word, <<0, 7>>) = 15
      /\ Extract(word, <<7, 12>>) = 0
      /\ Extract(word, <<12, 15>>) = 0
      /\ Extract(word, <<15, 20>>) = 0
      /\ Extract(word, <<20, 32>>) = 2099
  BY SMT, <1>1, FenceTSOMatch
<1> QED BY SMT, <1>2, FenceTSORead

LEMMA SnezMatched ==
  ASSUME NEW name \in {"SNEZ"}, NEW word, match_value(Insns[name], word) # NoMatch
  PROVE  Reading(word) = Base(name)
<1>1. Insns[name] = Insns.SNEZ
  BY SnezNamed
<1>2. /\ Extract(word, <<0, 7>>) = 51
      /\ Extract(word, <<12, 15>>) = 3
      /\ Extract(word, <<15, 20>>) = 0
      /\ Extract(word, <<25, 32>>) = 0
  BY SMT, <1>1, SnezMatch
<1> QED BY SMT, <1>2, SnezRead

LEMMA RetMatched ==
  ASSUME NEW name \in {"RET"}, NEW word, match_value(Insns[name], word) # NoMatch
  PROVE  Reading(word) = Base(name)
<1>1. Insns[name] = Insns.RET
  BY RetNamed
<1>2. /\ Extract(word, <<0, 7>>) = 103
      /\ Extract(word, <<7, 12>>) = 0
      /\ Extract(word, <<12, 15>>) = 0
      /\ Extract(word, <<15, 20>>) = 1
      /\ Extract(word, <<20, 32>>) = 0
  BY SMT, <1>1, RetMatch
<1> QED BY SMT, <1>2, RetRead

LEMMA MvMatched ==
  ASSUME NEW name \in {"MV"}, NEW word, match_value(Insns[name], word) # NoMatch
  PROVE  Reading(word) = Base(name)
<1>1. Insns[name] = Insns.MV
  BY MvNamed
<1>2. /\ Extract(word, <<0, 7>>) = 19
      /\ Extract(word, <<12, 15>>) = 0
      /\ Extract(word, <<20, 32>>) = 0
  BY SMT, <1>1, MvMatch
<1> QED BY SMT, <1>2, MvRead

LEMMA SeqzMatched ==
  ASSUME NEW name \in {"SEQZ"}, NEW word, match_value(Insns[name], word) # NoMatch
  PROVE  Reading(word) = Base(name)
<1>1. Insns[name] = Insns.SEQZ
  BY SeqzNamed
<1>2. /\ Extract(word, <<0, 7>>) = 19
      /\ Extract(word, <<12, 15>>) = 3
      /\ Extract(word, <<20, 32>>) = 1
  BY SMT, <1>1, SeqzMatch
<1> QED BY SMT, <1>2, SeqzRead

LEMMA NopMatched ==
  ASSUME NEW name \in {"NOP"}, NEW word, match_value(Insns[name], word) # NoMatch
  PROVE  Reading(word) = Base(name)
<1>1. Insns[name] = Insns.NOP
  BY NopNamed
<1>2. /\ Extract(word, <<0, 7>>) = 19
      /\ Extract(word, <<7, 12>>) = 0
      /\ Extract(word, <<12, 15>>) = 0
      /\ Extract(word, <<15, 20>>) = 0
      /\ Extract(word, <<20, 32>>) = 0
  BY SMT, <1>1, NopMatch
<1> QED BY SMT, <1>2, NopRead

LEMMA JMatched ==
  ASSUME NEW name \in {"J_"}, NEW word, match_value(Insns[name], word) # NoMatch
  PROVE  Reading(word) = Base(name)
<1>1. Insns[name] = Insns.J_
  BY JNamed
<1>2. /\ Extract(word, <<0, 7>>) = 111
      /\ Extract(word, <<7, 12>>) = 0
  BY SMT, <1>1, JMatch
<1> QED BY SMT, <1>2, JRead
-----------------------------------------------------------------------------
\* The names of all instructions, each of which is in a family.
LEMMA InsnNames ==
  DOMAIN Insns = {"ADD", "SLL", "SLT", "SLTU", "XOR", "SRL", "OR", "AND", "SUB", "SRA", "ADDI",
    "SLTI", "SLTIU", "XORI", "ORI", "ANDI", "SLLI", "SRLI", "SRAI", "LB", "LH", "LW", "LBU",
    "LHU", "FENCE", "ECALL", "EBREAK", "SB", "SH", "SW", "BEQ", "BNE", "BLT", "BGE", "BLTU",
    "BGEU", "LUI", "AUIPC", "JALR", "JAL", "FENCE_TSO", "SNEZ", "RET", "MV", "SEQZ", "NOT",
    "NOP", "J_"}
BY DEF Insns

\* And so for every instruction.
LEMMA LineHolds ==
  ASSUME NEW name \in DOMAIN Insns, NEW given, Asks(name, given), NEW word,
         word = value(Insns[name], given), word # Refused
  PROVE  Holds(name, given, word)
<1>1. CASE name \in {"ADD", "SLL", "SLT", "SLTU", "XOR", "SRL", "OR", "AND"}
  BY Zenon, <1>1, OpHolds
<1>2. CASE name \in {"SUB", "SRA"}
  BY Zenon, <1>2, OpNegateHolds
<1>3. CASE name \in {"ADDI", "SLTI", "SLTIU", "XORI", "ORI", "ANDI"}
  BY Zenon, <1>3, OpImmHolds
<1>4. CASE name \in {"SLLI", "SRLI", "SRAI"}
  BY Zenon, <1>4, ShiftHolds
<1>5. CASE name \in {"LB", "LH", "LW", "LBU", "LHU"}
  BY Zenon, <1>5, LoadHolds
<1>6. CASE name \in {"FENCE"}
  BY Zenon, <1>6, FenceHolds
<1>7. CASE name \in {"ECALL", "EBREAK"}
  BY Zenon, <1>7, SystemHolds
<1>8. CASE name \in {"SB", "SH", "SW"}
  BY Zenon, <1>8, StoreHolds
<1>9. CASE name \in {"BEQ", "BNE", "BLT", "BGE", "BLTU", "BGEU"}
  BY Zenon, <1>9, BranchHolds
<1>10. CASE name \in {"LUI", "AUIPC"}
  BY Zenon, <1>10, UpperHolds
<1>11. CASE name \in {"JALR"}
  BY Zenon, <1>11, JalrHolds
<1>12. CASE name \in {"JAL"}
  BY Zenon, <1>12, JalHolds
<1>13. CASE name \in {"FENCE_TSO"}
  BY Zenon, <1>13, FenceTSOHolds
<1>14. CASE name \in {"SNEZ"}
  BY Zenon, <1>14, SnezHolds
<1>15. CASE name \in {"RET"}
  BY Zenon, <1>15, RetHolds
<1>16. CASE name \in {"MV"}
  BY Zenon, <1>16, MvHolds
<1>17. CASE name \in {"SEQZ"}
  BY Zenon, <1>17, SeqzHolds
<1>18. CASE name \in {"NOT"}
  BY Zenon, <1>18, NotHolds
<1>19. CASE name \in {"NOP"}
  BY Zenon, <1>19, NopHolds
<1>20. CASE name \in {"J_"}
  BY Zenon, <1>20, JHolds
<1>21. name \in {"ADD", "SLL", "SLT", "SLTU", "XOR", "SRL", "OR", "AND", "SUB", "SRA", "ADDI",
         "SLTI", "SLTIU", "XORI", "ORI", "ANDI", "SLLI", "SRLI", "SRAI", "LB", "LH", "LW",
         "LBU", "LHU", "FENCE", "ECALL", "EBREAK", "SB", "SH", "SW", "BEQ", "BNE", "BLT", "BGE",
         "BLTU", "BGEU", "LUI", "AUIPC", "JALR", "JAL", "FENCE_TSO", "SNEZ", "RET", "MV",
         "SEQZ", "NOT", "NOP", "J_"}
  BY Zenon, InsnNames
<1> QED BY SMT, <1>1, <1>2, <1>3, <1>4, <1>5, <1>6, <1>7, <1>8, <1>9, <1>10, <1>11, <1>12,
      <1>13, <1>14, <1>15, <1>16, <1>17, <1>18, <1>19, <1>20, <1>21

\* A match tells what is read in a word.
LEMMA MatchReads ==
  ASSUME NEW name \in DOMAIN Insns, NEW word, match_value(Insns[name], word) # NoMatch
  PROVE  Reading(word) = Base(name)
<1>1. CASE name \in {"ADD", "SLL", "SLT", "SLTU", "XOR", "SRL", "OR", "AND"}
  BY Zenon, <1>1, OpMatched
<1>2. CASE name \in {"SUB", "SRA"}
  BY Zenon, <1>2, OpNegateMatched
<1>3. CASE name \in {"ADDI", "SLTI", "SLTIU", "XORI", "ORI", "ANDI"}
  BY Zenon, <1>3, OpImmMatched
<1>4. CASE name \in {"SLLI", "SRLI", "SRAI"}
  BY Zenon, <1>4, ShiftMatched
<1>5. CASE name \in {"LB", "LH", "LW", "LBU", "LHU"}
  BY Zenon, <1>5, LoadMatched
<1>6. CASE name \in {"FENCE"}
  BY Zenon, <1>6, FenceMatched
<1>7. CASE name \in {"ECALL", "EBREAK"}
  BY Zenon, <1>7, SystemMatched
<1>8. CASE name \in {"SB", "SH", "SW"}
  BY Zenon, <1>8, StoreMatched
<1>9. CASE name \in {"BEQ", "BNE", "BLT", "BGE", "BLTU", "BGEU"}
  BY Zenon, <1>9, BranchMatched
<1>10. CASE name \in {"LUI", "AUIPC"}
  BY Zenon, <1>10, UpperMatched
<1>11. CASE name \in {"JALR"}
  BY Zenon, <1>11, JalrMatched
<1>12. CASE name \in {"JAL"}
  BY Zenon, <1>12, JalMatched
<1>13. CASE name \in {"FENCE_TSO"}
  BY Zenon, <1>13, FenceTSOMatched
<1>14. CASE name \in {"SNEZ"}
  BY Zenon, <1>14, SnezMatched
<1>15. CASE name \in {"RET"}
  BY Zenon, <1>15, RetMatched
<1>16. CASE name \in {"MV"}
  BY Zenon, <1>16, MvMatched
<1>17. CASE name \in {"SEQZ"}
  BY Zenon, <1>17, SeqzMatched
<1>18. CASE name = "NOT"
  BY Zenon, <1>18, NotNever
<1>19. CASE name \in {"NOP"}
  BY Zenon, <1>19, NopMatched
<1>20. CASE name \in {"J_"}
  BY Zenon, <1>20, JMatched
<1>21. name \in {"ADD", "SLL", "SLT", "SLTU", "XOR", "SRL", "OR", "AND", "SUB", "SRA", "ADDI",
         "SLTI", "SLTIU", "XORI", "ORI", "ANDI", "SLLI", "SRLI", "SRAI", "LB", "LH", "LW",
         "LBU", "LHU", "FENCE", "ECALL", "EBREAK", "SB", "SH", "SW", "BEQ", "BNE", "BLT", "BGE",
         "BLTU", "BGEU", "LUI", "AUIPC", "JALR", "JAL", "FENCE_TSO", "SNEZ", "RET", "MV",
         "SEQZ", "NOT", "NOP", "J_"}
  BY Zenon, InsnNames
<1> QED BY SMT, <1>1, <1>2, <1>3, <1>4, <1>5, <1>6, <1>7, <1>8, <1>9, <1>10, <1>11, <1>12,
      <1>13, <1>14, <1>15, <1>16, <1>17, <1>18, <1>19, <1>20, <1>21

\* A match gives the arguments that make the word.
LEMMA MatchInverts ==
  ASSUME NEW name \in DOMAIN Insns \ {"SRLI", "SRAI"}, NEW word \in SUBSET (0 .. 31), NEW found,
         found = match_value(Insns[name], word), found # NoMatch,
         name = "SLLI" => found["shamt"] \in 0 .. 31,
         name = "FENCE" => found["pred"] # {} /\ found["succ"] # {}
  PROVE  value(Insns[name], found) = word
<1>1. CASE name \in {"ADD", "SLL", "SLT", "SLTU", "XOR", "SRL", "OR", "AND"}
  <2>1. PICK funct3 : funct3 = Funct3[name]
    OBVIOUS
  <2>2. Insns[name] = Op(funct3, 0)
    BY Zenon, <1>1, <2>1, OpNamed
  <2> QED BY SMT, <1>1, <2>2, OpInverts
<1>2. CASE name \in {"SUB", "SRA"}
  <2>1. PICK funct3 : funct3 = Funct3[name]
    OBVIOUS
  <2>2. Insns[name] = Op(funct3, F7Negate)
    BY Zenon, <1>2, <2>1, OpNegateNamed
  <2> QED BY SMT, <1>2, <2>2, OpNegateInverts
<1>3. CASE name \in {"ADDI", "SLTI", "SLTIU", "XORI", "ORI", "ANDI"}
  <2>1. PICK funct3 : funct3 = Funct3[name]
    OBVIOUS
  <2>2. Insns[name] = OpImm(funct3)
    BY Zenon, <1>3, <2>1, OpImmNamed
  <2> QED BY SMT, <1>3, <2>2, OpImmInverts
<1>4. CASE name \in {"SLLI"}
  <2>1. PICK funct3 : funct3 = Funct3[name]
    OBVIOUS
  <2>2. Insns[name] = Shift(funct3, 0)
    BY SMT, <1>4, <2>1, ShiftNamed
  <2> QED BY SMT, <1>4, <2>2, ShiftInverts
<1>5. CASE name \in {"LB", "LH", "LW", "LBU", "LHU"}
  <2>1. PICK funct3 : funct3 = Funct3[name]
    OBVIOUS
  <2>2. Insns[name] = Load(funct3)
    BY Zenon, <1>5, <2>1, LoadNamed
  <2> QED BY SMT, <1>5, <2>2, LoadInverts
<1>6. CASE name \in {"FENCE"}
  <2>1. Insns[name] = Fence(0)
    BY Zenon, <1>6, FenceNamed
  <2> QED BY SMT, <1>6, <2>1, FenceInverts
<1>7. CASE name \in {"ECALL", "EBREAK"}
  <2>1. PICK funct : funct = (IF name = "ECALL" THEN 0 ELSE 8)
    OBVIOUS
  <2>2. Insns[name] = System(funct)
    BY Zenon, <1>7, <2>1, SystemNamed
  <2> QED BY SMT, <1>7, <2>2, SystemInverts
<1>8. CASE name \in {"SB", "SH", "SW"}
  <2>1. PICK funct3 : funct3 = Funct3[name]
    OBVIOUS
  <2>2. Insns[name] = Store(funct3)
    BY Zenon, <1>8, <2>1, StoreNamed
  <2> QED BY SMT, <1>8, <2>2, StoreInverts
<1>9. CASE name \in {"BEQ", "BNE", "BLT", "BGE", "BLTU", "BGEU"}
  <2>1. PICK funct3 : funct3 = Funct3[name]
    OBVIOUS
  <2>2. Insns[name] = Branch(funct3)
    BY Zenon, <1>9, <2>1, BranchNamed
  <2> QED BY SMT, <1>9, <2>2, BranchInverts
<1>10. CASE name \in {"LUI", "AUIPC"}
  <2>1. PICK opcode : opcode = (IF name = "LUI" THEN 55 ELSE 23)
    OBVIOUS
  <2>2. Insns[name] = Upper(opcode)
    BY Zenon, <1>10, <2>1, UpperNamed
  <2> QED BY SMT, <1>10, <2>2, UpperInverts
<1>11. CASE name \in {"JALR"}
  <2>1. Insns[name] = Jalr
    BY Zenon, <1>11, JalrNamed
  <2> QED BY SMT, <1>11, <2>1, JalrInverts
<1>12. CASE name \in {"JAL"}
  <2>1. Insns[name] = Jal
    BY Zenon, <1>12, JalNamed
  <2> QED BY SMT, <1>12, <2>1, JalInverts
<1>13. CASE name \in {"FENCE_TSO"}
  <2>1. Insns[name] = Insns.FENCE_TSO
    BY Zenon, <1>13, FenceTSONamed
  <2> QED BY SMT, <1>13, <2>1, FenceTSOInverts
<1>14. CASE name \in {"SNEZ"}
  <2>1. Insns[name] = Insns.SNEZ
    BY Zenon, <1>14, SnezNamed
  <2> QED BY SMT, <1>14, <2>1, SnezInverts
<1>15. CASE name \in {"RET"}
  <2>1. Insns[name] = Insns.RET
    BY Zenon, <1>15, RetNamed
  <2> QED BY SMT, <1>15, <2>1, RetInverts
<1>16. CASE name \in {"MV"}
  <2>1. Insns[name] = Insns.MV
    BY Zenon, <1>16, MvNamed
  <2> QED BY SMT, <1>16, <2>1, MvInverts
<1>17. CASE name \in {"SEQZ"}
  <2>1. Insns[name] = Insns.SEQZ
    BY Zenon, <1>17, SeqzNamed
  <2> QED BY SMT, <1>17, <2>1, SeqzInverts
<1>18. CASE name = "NOT"
  BY Zenon, <1>18, NotNever
<1>19. CASE name \in {"NOP"}
  <2>1. Insns[name] = Insns.NOP
    BY Zenon, <1>19, NopNamed
  <2> QED BY SMT, <1>19, <2>1, NopInverts
<1>20. CASE name \in {"J_"}
  <2>1. Insns[name] = Insns.J_
    BY Zenon, <1>20, JNamed
  <2> QED BY SMT, <1>20, <2>1, JInverts
<1>21. name \in {"ADD", "SLL", "SLT", "SLTU", "XOR", "SRL", "OR", "AND", "SUB", "SRA", "ADDI",
         "SLTI", "SLTIU", "XORI", "ORI", "ANDI", "SLLI", "SRLI", "SRAI", "LB", "LH", "LW",
         "LBU", "LHU", "FENCE", "ECALL", "EBREAK", "SB", "SH", "SW", "BEQ", "BNE", "BLT", "BGE",
         "BLTU", "BGEU", "LUI", "AUIPC", "JALR", "JAL", "FENCE_TSO", "SNEZ", "RET", "MV",
         "SEQZ", "NOT", "NOP", "J_"}
  BY Zenon, InsnNames
<1> QED BY SMT, <1>1, <1>2, <1>3, <1>4, <1>5, <1>6, <1>7, <1>8, <1>9, <1>10, <1>11, <1>12,
      <1>13, <1>14, <1>15, <1>16, <1>17, <1>18, <1>19, <1>20, <1>21

-----------------------------------------------------------------------------
(* Lines. *)

\* The words are those of the line.
AsmInv == line \in Lines /\ words \in {<<>>, Assembled(line.name, line.args)}

\* AsmInv is inductive: lines stay as they are and are assembled once.
LEMMA AsmInvInit == AsmInit => AsmInv
BY DEF AsmInit, AsmInv

LEMMA AsmInvNext == AsmInv /\ [AsmNext]_asmVars => AsmInv'
<1> SUFFICES ASSUME AsmInv, [AsmNext]_asmVars PROVE AsmInv'
  OBVIOUS
<1>1. CASE Assemble
  BY <1>1 DEF AsmInv, Assemble
<1>2. CASE Disassemble
  BY <1>2 DEF AsmInv, Disassemble
<1>3. CASE Reassemble
  BY <1>3 DEF AsmInv, Reassemble
<1>4. CASE UNCHANGED asmVars
  BY <1>4 DEF AsmInv, asmVars
<1> QED BY <1>1, <1>2, <1>3, <1>4 DEF AsmNext

LEMMA AsmInvAlways == AsmSpec => []AsmInv
BY AsmInvInit, AsmInvNext, PTL DEF AsmSpec

\* What an assembled line says.
LEMMA AssembledHolds ==
  ASSUME AsmInv, IsAssembled
  PROVE  /\ line.name \in DOMAIN Insns
         /\ words[1] = value(Insns[line.name], line.args)
         /\ words[1] # Refused
         /\ Holds(line.name, line.args, words[1])
<1>1. line.name \in DOMAIN Insns /\ Asks(line.name, line.args)
  BY LinesAssumption DEF AsmInv, IsAssembled
<1>2. PICK word : word = value(Insns[line.name], line.args)
  OBVIOUS
<1>3. words = <<word>>
  BY <1>2 DEF AsmInv, IsAssembled, Assembled
<1>4. words[1] = word /\ word # Refused
  BY <1>3 DEF IsAssembled
<1>5. Holds(line.name, line.args, word)
  BY Zenon, <1>1, <1>2, <1>4, LineHolds
<1> QED BY Zenon, <1>1, <1>2, <1>4, <1>5

LEMMA FixedStay == AsmInv => FixedFieldsStay
<1> SUFFICES ASSUME AsmInv, IsAssembled PROVE Fixed(Insns[line.name], words[1])
  BY Zenon DEF FixedFieldsStay, Fixed
<1> QED BY Zenon, AssembledHolds DEF Holds

\* A field that an instruction fixes is what it fixes in the word of every line, whatever
\* arguments the line gives (LinesAssumption says which it may).
THEOREM KeepsFixedFields == AsmSpec => []FixedFieldsStay
BY AsmInvAlways, FixedStay, PTL

LEMMA HartReadsLine == AsmInv => HartReadsTheLine
<1> SUFFICES ASSUME AsmInv, IsAssembled, AsAsked PROVE HartReads(line.name, line.args, words[1])
  BY Zenon DEF HartReadsTheLine, HartReads
<1>1. Holds(line.name, line.args, words[1])
  BY Zenon, AssembledHolds
<1>2. DOMAIN line.args = ToSet(Insns[line.name].asm_args)
  BY Zenon DEF AsAsked
<1> QED BY Zenon, <1>1, <1>2 DEF Holds

\* The hart reads in the word of a line the operands that the line was written with.
THEOREM HartReadsWhatIsWritten == AsmSpec => []HartReadsTheLine
BY AsmInvAlways, HartReadsLine, PTL

LEMMA ReadsOne == AsmInv => OneReading
<1> SUFFICES ASSUME AsmInv, IsAssembled, NEW n \in DOMAIN Insns \ {"SRLI", "SRAI"}
             PROVE  LET matches == match_value(Insns[n], words[1]) # NoMatch
                    IN /\ n = line.name /\ n # "NOT" => matches
                       /\ n # line.name /\ n \notin SpecialCases /\ line.name \notin SpecialCases
                            => ~matches
  BY Zenon DEF OneReading
<1>1. line.name \in DOMAIN Insns /\ Holds(line.name, line.args, words[1])
  BY Zenon, AssembledHolds
<1>2. Reading(words[1]) = Base(line.name)
  BY Zenon, <1>1 DEF Holds
<1>3. line.name # "NOT" => match_value(Insns[line.name], words[1]) # NoMatch
  BY Zenon, <1>1 DEF Holds
<1>4. match_value(Insns[n], words[1]) # NoMatch => Reading(words[1]) = Base(n)
  BY Zenon, MatchReads
<1>5. n \notin SpecialCases => Base(n) = n
  BY Zenon, BaseIs
<1>6. line.name \notin SpecialCases => Base(line.name) \in {line.name, "SRLI"}
  BY Zenon, BaseIs
<1> QED BY Zenon, <1>2, <1>3, <1>4, <1>5, <1>6

\* The word of a line matches its instruction, and no other that is not a special case.
THEOREM ReadsOneWay == AsmSpec => []OneReading
BY AsmInvAlways, ReadsOne, PTL

LEMMA Inverts == AsmInv => MatchesInvert
<1> SUFFICES ASSUME AsmInv, IsAssembled, NEW n \in DOMAIN Insns \ {"SRLI", "SRAI"},
                    match_value(Insns[n], words[1]) # NoMatch
             PROVE  value(Insns[n], match_value(Insns[n], words[1])) = words[1]
  BY Zenon DEF MatchesInvert
<1>1. line.name \in DOMAIN Insns /\ Holds(line.name, line.args, words[1])
  BY Zenon, AssembledHolds
<1>2. PICK word : word = words[1]
  OBVIOUS
<1>3. /\ word \in SUBSET (0 .. 31)
      /\ Reading(word) = Base(line.name)
      /\ line.name = "SLLI" => Extract(word, <<20, 32>>) \in 0 .. 31
      /\ line.name = "FENCE" =>
           /\ (Extract(word, <<20, 32>>) % 16) \in 1 .. 15
           /\ ((Extract(word, <<20, 32>>) \div 16) % 16) \in 1 .. 15
      /\ line.name = "FENCE_TSO" => Extract(word, <<20, 32>>) = 2099
  BY SMT, <1>1, <1>2 DEF Holds
<1>4. Reading(word) = Base(n)
  BY Zenon, <1>2, MatchReads
<1>5. PICK found : found = match_value(Insns[n], word)
  OBVIOUS
<1>6. ASSUME n = "SLLI" PROVE found["shamt"] \in 0 .. 31
  <2>1. Base(n) = "SLLI"
    BY SMT, <1>6, BaseIs DEF SpecialCases
  <2>2. line.name = "SLLI"
    BY SMT, <1>3, <1>4, <2>1 DEF Base, BaseOf
  <2>3. PICK funct3 : funct3 = 1
    OBVIOUS
  <2>4. Insns[n] = Shift(funct3, 0)
    BY SMT, <1>6, <2>3 DEF Insns
  <2>5. found["shamt"] = Extract(word, <<20, 32>>)
    BY SMT, <1>2, <1>5, <2>4, ShiftMatch
  <2> QED BY SMT, <1>3, <2>2, <2>5
<1>7. ASSUME n = "FENCE" PROVE found["pred"] # {} /\ found["succ"] # {}
  <2>1. Base(n) = "FENCE"
    BY SMT, <1>7, BaseIs DEF SpecialCases
  <2>2. line.name \in {"FENCE", "FENCE_TSO"}
    BY SMT, <1>3, <1>4, <2>1 DEF Base, BaseOf
  <2>3. Insns[n] = Fence(0)
    BY SMT, <1>7, FenceNamed
  <2>4. /\ (Extract(word, <<20, 32>>) \div 256) = 0
        /\ found["pred"] = arg_fence((Extract(word, <<20, 32>>) \div 16) % 16)
        /\ found["succ"] = arg_fence(Extract(word, <<20, 32>>) % 16)
    BY SMT, <1>2, <1>5, <2>3, FenceMatch
  <2>5. line.name # "FENCE_TSO"
    BY SMT, <1>3, <2>4
  <2>6. PICK s, o : s = Extract(word, <<20, 32>>) % 16 /\
        o = (Extract(word, <<20, 32>>) \div 16) % 16
    OBVIOUS
  <2>7. s \in 1 .. 15 /\ o \in 1 .. 15
    BY Zenon, <1>3, <2>2, <2>5, <2>6
  <2>8. fence_arg(arg_fence(s)) = s /\ fence_arg(arg_fence(o)) = o
    BY <2>7, FenceNumber
  <2>9. arg_fence(s) # {} /\ arg_fence(o) # {}
    BY <2>7, <2>8, NoLetters
  <2> QED BY Zenon, <2>4, <2>6, <2>9
<1>8. value(Insns[n], found) = word
  BY SMT, <1>2, <1>3, <1>5, <1>6, <1>7, MatchInverts
<1> QED BY Zenon, <1>2, <1>5, <1>8

\* Whatever matches the word of a line gives arguments with which it makes that word.
THEOREM MatchesAreInverse == AsmSpec => []MatchesInvert
BY AsmInvAlways, Inverts, PTL
-----------------------------------------------------------------------------
(* LI. *)

\* The sum of what the words add: those numbers that grow by it.
LEMMA LoadedIs ==
  ASSUME NEW n \in Nat, Len(words) = n, NEW f, f = [k \in 0 .. n |-> f[k]], f[0] = 0,
         \A k \in 1 .. n : f[k] = f[k - 1] + Adds(words[k])
  PROVE  LoadedByWords = f[n]
<1> DEFINE sum[k \in 0 .. Len(words)] == IF k = 0 THEN 0 ELSE sum[k - 1] + Adds(words[k])
<1>1. f = [k \in 0 .. Len(words) |-> IF k = 0 THEN 0 ELSE f[k - 1] + Adds(words[k])]
  <2>1. \A k \in 0 .. n : f[k] = IF k = 0 THEN 0 ELSE f[k - 1] + Adds(words[k])
    <3> SUFFICES ASSUME NEW k \in 0 .. n
                 PROVE  f[k] = IF k = 0 THEN 0 ELSE f[k - 1] + Adds(words[k])
      OBVIOUS
    <3>1. k # 0 => k \in 1 .. n
      OBVIOUS
    <3> QED BY <3>1
  <2> QED BY <2>1
<1>2. \E g : g = [k \in 0 .. Len(words) |-> IF k = 0 THEN 0 ELSE g[k - 1] + Adds(words[k])]
  BY <1>1
<1>3. sum = [k \in 0 .. Len(words) |-> IF k = 0 THEN 0 ELSE sum[k - 1] + Adds(words[k])]
  BY <1>2
<1>4. LoadedByWords = sum[n]
  BY DEF LoadedByWords
<1> HIDE DEF sum
<1> DEFINE T == {k \in Nat : k <= n => sum[k] = f[k]}
<1>5. T = Nat
  <2>1. 0 \in T
    BY <1>3
  <2>2. ASSUME NEW k \in T PROVE k + 1 \in T
    <3>1. CASE k + 1 <= n
      <4>1. k + 1 \in 1 .. n /\ k + 1 \in 0 .. n /\ k + 1 - 1 = k /\ k \in 0 .. n
        BY <3>1
      <4>2. sum[k + 1] = sum[k] + Adds(words[k + 1])
        BY <1>3, <4>1
      <4>3. f[k + 1] = f[k] + Adds(words[k + 1])
        <5>1. PICK i \in 1 .. n : i = k + 1 /\ i - 1 = k
          BY <4>1
        <5> QED BY <5>1
      <4>4. sum[k] = f[k]
        BY <3>1
      <4> QED BY <4>2, <4>3, <4>4
    <3>2. CASE ~(k + 1 <= n)
      BY <3>2
    <3> QED BY <3>1, <3>2
  <2>3. T \in SUBSET Nat
    OBVIOUS
  <2> HIDE DEF T
  <2> QED BY <2>1, <2>2, <2>3, SetInduction
<1>6. n \in T
  BY <1>5
<1>7. sum[n] = f[n]
  BY <1>6
<1> QED BY <1>4, <1>7

\* The sum, for each number of pieces.
LEMMA LoadedOne ==
  ASSUME Len(words) = 1, NEW a \in Int, a = Adds(words[1])
  PROVE  LoadedByWords = a
<1>1. PICK n \in Nat : n = 1
  OBVIOUS
<1> DEFINE f == [k \in 0 .. n |-> IF k = 0 THEN 0 ELSE a]
<1>2. f = [k \in 0 .. n |-> f[k]] /\ f[0] = 0 /\ f[1] = a
  BY <1>1
<1>3. ASSUME NEW k \in 1 .. n PROVE f[k] = f[k - 1] + Adds(words[k])
  <2>1. k = 1 /\ k - 1 = 0
    BY <1>1
  <2> QED BY <1>2, <2>1
<1> HIDE DEF f
<1>4. LoadedByWords = f[n]
  BY <1>1, <1>2, <1>3, LoadedIs
<1> QED BY <1>1, <1>2, <1>4

LEMMA LoadedTwo ==
  ASSUME Len(words) = 2, NEW a \in Int, a = Adds(words[1]), NEW b \in Int, b = Adds(words[2])
  PROVE  LoadedByWords = a + b
<1>1. PICK n \in Nat : n = 2
  OBVIOUS
<1> DEFINE f == [k \in 0 .. n |-> IF k = 0 THEN 0 ELSE IF k = 1 THEN a ELSE a + b]
<1>2. f = [k \in 0 .. n |-> f[k]] /\ f[0] = 0 /\ f[1] = a /\ f[2] = a + b
  BY <1>1
<1>3. ASSUME NEW k \in 1 .. n PROVE f[k] = f[k - 1] + Adds(words[k])
  <2>1. CASE k = 1
    <3>1. k - 1 = 0
      BY <2>1
    <3> QED BY <1>2, <2>1, <3>1
  <2>2. CASE k = 2
    <3>1. k - 1 = 1
      BY <2>2
    <3> QED BY <1>2, <2>2, <3>1
  <2> QED BY <1>1, <2>1, <2>2
<1> HIDE DEF f
<1>4. LoadedByWords = f[n]
  BY <1>1, <1>2, <1>3, LoadedIs
<1> QED BY <1>1, <1>2, <1>4

LEMMA LoadedThree ==
  ASSUME Len(words) = 3, NEW a \in Int, a = Adds(words[1]), NEW b \in Int, b = Adds(words[2]),
         NEW c \in Int, c = Adds(words[3])
  PROVE  LoadedByWords = a + b + c
<1>1. PICK n \in Nat : n = 3
  OBVIOUS
<1> DEFINE f == [k \in 0 .. n |-> IF k = 0 THEN 0 ELSE IF k = 1 THEN a
                                  ELSE IF k = 2 THEN a + b ELSE a + b + c]
<1>2. f = [k \in 0 .. n |-> f[k]] /\ f[0] = 0 /\ f[1] = a /\ f[2] = a + b /\ f[3] = a + b + c
  BY <1>1
<1>3. ASSUME NEW k \in 1 .. n PROVE f[k] = f[k - 1] + Adds(words[k])
  <2>1. CASE k = 1
    <3>1. k - 1 = 0
      BY <2>1
    <3> QED BY <1>2, <2>1, <3>1
  <2>2. CASE k = 2
    <3>1. k - 1 = 1
      BY <2>2
    <3> QED BY <1>2, <2>2, <3>1
  <2>3. CASE k = 3
    <3>1. k - 1 = 2
      BY <2>3
    <3> QED BY <1>2, <2>3, <3>1
  <2> QED BY <1>1, <2>1, <2>2, <2>3
<1> HIDE DEF f
<1>4. LoadedByWords = f[n]
  BY <1>1, <1>2, <1>3, LoadedIs
<1> QED BY <1>1, <1>2, <1>4

\* The signed numbers of 12 and of 20 bits.
LEMMA TwelveBits ==
  ASSUME NEW v \in Nat, v < 4096
  PROVE  c2(12, v) = IF v < 2048 THEN v ELSE v - 4096
<1>1. 2^11 = 2048 /\ 2^12 = 4096
  BY SMT, Powers
<1>2. PICK b : b = Bit(v, 12 - 1) /\ b = (v \div 2048) % 2
  BY SMT, <1>1 DEF Bit
<1>3. b = 1 <=> v >= 2048
  BY SMT, <1>2
<1> QED BY SMT, <1>1, <1>2, <1>3 DEF c2

LEMMA TwentyBits ==
  ASSUME NEW v \in Int PROVE c2(20, v % 2^20) \in Int
<1>1. PICK cut : cut = v % 2^20
  OBVIOUS
<1>2. 2^20 \in Nat \ {0}
  BY SMT, TwoPowers
<1>3. cut \in Int
  BY SMT, <1>1, <1>2
<1> QED BY SMT, <1>1, <1>2, <1>3 DEF c2

\* What a piece adds: LUI's, and ADDI's.
High(hi) == c2(20, hi % 2^20) * 4096
Lower(lo) == IF lo < 2048 THEN lo ELSE lo - 4096

ADDIWord(rd, rs1, lo) == value(Insns.ADDI, [rd |-> rd, rs1 |-> rs1, imm |-> lo])

\* What the pieces of LI add to the register.
LEMMA LUIAdds ==
  ASSUME NEW rd \in 0 .. 31, NEW hi \in Int, NEW word,
         word = value(Insns.LUI, [rd |-> rd, imm |-> hi]), word # Refused
  PROVE  Adds(word) = High(hi)
<1>1. PICK opcode, given : opcode = 55 /\ given = [rd |-> rd, imm |-> hi]
  OBVIOUS
<1>2. /\ {"rd", "imm"} \subseteq DOMAIN given
      /\ given["rd"] \in 0 .. 31 /\ given["imm"] \in Int /\ given["imm"] = hi
  BY <1>1
<1>3. Insns.LUI = Upper(opcode)
  BY <1>1 DEF Insns, Opcode
<1>4. word = value(Upper(opcode), given)
  BY <1>1, <1>3
<1>5. Extract(word, <<0, 7>>) = 55 /\ Extract(word, <<12, 32>>) = hi % 2^20
  BY SMT, <1>1, <1>2, <1>4, UpperLine
<1>6. decode(I, word).opcode = 55
  BY Zenon, <1>5, Decodes
<1>7. HartImm(word) = hi % 2^20
  BY SMT, <1>5, HartImmIs
<1>8. PICK part : part = c2(20, hi % 2^20)
  OBVIOUS
<1>9. part \in Int
  BY Zenon, <1>8, TwentyBits
<1>10. c2(20, HartImm(word)) = part
  BY Zenon, <1>7, <1>8
<1>11. Adds(word) = part * 4096
  BY SMT, <1>6, <1>9, <1>10 DEF Adds, Opcode
<1> QED BY SMT, <1>8, <1>11 DEF High

LEMMA ADDIAdds ==
  ASSUME NEW rd \in 0 .. 31, NEW rs1 \in 0 .. 31, NEW lo \in Low,
         ADDIWord(rd, rs1, lo) # Refused
  PROVE  Adds(ADDIWord(rd, rs1, lo)) = Lower(lo)
<1>1. PICK funct3, given : funct3 = 0 /\ given = [rd |-> rd, rs1 |-> rs1, imm |-> lo]
  OBVIOUS
<1> DEFINE word == ADDIWord(rd, rs1, lo)
<1>0. lo \in Nat /\ lo < 4096
  BY SMT DEF Low
<1>2. /\ {"rd", "rs1", "imm"} \subseteq DOMAIN given
      /\ given["rd"] \in 0 .. 31 /\ given["rs1"] \in 0 .. 31
      /\ given["imm"] \in Int /\ given["imm"] = lo
  BY <1>0, <1>1
<1>3. Insns.ADDI = OpImm(funct3)
  BY <1>1 DEF Insns
<1>4. word = value(OpImm(funct3), given) /\ word # Refused
  BY <1>1, <1>3 DEF ADDIWord
<1> HIDE DEF word
<1>5. Extract(word, <<0, 7>>) = 19 /\ Extract(word, <<20, 32>>) = lo % 4096
  BY SMT, <1>1, <1>2, <1>4, OpImmLine
<1>6. decode(I, word).opcode = 19
  <2>1. decode(I, word).opcode = Extract(word, <<0, 7>>)
    BY Zenon, Decodes
  <2> QED BY SMT, <1>5, <2>1
<1>7. HartImm(word) = c2(12, lo % 4096)
  BY SMT, <1>5, HartImmIs
<1>8. lo % 4096 = lo
  BY SMT, <1>0
<1>9. Adds(word) = c2(12, lo)
  BY SMT, <1>6, <1>7, <1>8 DEF Adds, Opcode
<1>10. Adds(word) = Lower(lo)
  BY SMT, <1>0, <1>9, TwelveBits DEF Lower
<1> QED BY Zenon, <1>10 DEF word

LEMMA Halves ==
  ASSUME NEW lo \in Low, lo >= 2048
  PROVE  /\ (lo \div 2) \in 1024 .. 2047
         /\ ((lo \div 2) + (lo % 2)) \in 1024 .. 2048
         /\ (lo \div 2) + ((lo \div 2) + (lo % 2)) = lo
         /\ (lo \div 2) + (lo % 2) = 2048 <=> lo = 4095
BY DEF Low

LEMMA LILoadsExactly == AsmInv => LIExact
<1> SUFFICES ASSUME AsmInv, LIDone PROVE LIExact
  BY DEF LIExact
<1>1. line.name = "LI" /\ line.args \in [rd : 0 .. 31, imm : Int \X Low]
  BY LinesAssumption DEF AsmInv, LIDone
<1>2. PICK rd \in 0 .. 31, hi \in Int, lo \in Low :
        line.args.rd = rd /\ line.args.imm[1] = hi /\ line.args.imm[2] = lo
  <2>1. line.args.rd \in 0 .. 31 /\ line.args.imm \in Int \X Low
    BY <1>1
  <2> QED BY <2>1
<1>13. rd \in 0 .. 31 /\ hi \in Int /\ lo \in Low
  BY <1>2
<1>3. PICK pieces : pieces = LI(hi, lo)
  OBVIOUS
<1>4. words = [k \in DOMAIN pieces |-> LIPiece(rd, pieces, k)]
  BY <1>1, <1>2, <1>3 DEF AsmInv, LIDone, Assembled
<1>5. \A k \in DOMAIN words : words[k] # Refused
  BY <1>4 DEF LIDone, ToSet
<1>6. PICK high : high = c2(20, hi % 2^20)
  OBVIOUS
<1>7. high \in Int
  BY Zenon, <1>6, TwentyBits
<1>8. lo \in Nat /\ lo < 4096
  BY DEF Low
<1>9. LIExact <=> (LoadedByWords = high * 4096 + lo <=> ~Mistaken(hi, lo))
  BY SMT, <1>2, <1>6 DEF LIExact
<1>10. CASE hi = 0
  <2>1. pieces = <<Piece("ADDI", lo)>>
    BY <1>3, <1>10 DEF LI
  <2>2. PICK word : word = LIPiece(rd, pieces, 1)
    OBVIOUS
  <2>3. Len(words) = 1 /\ words[1] = word /\ word # Refused
    BY <1>4, <1>5, <2>1, <2>2
  <2>8. PICK zero \in 0 .. 31 : zero = 0
    OBVIOUS
  <2>4. word = ADDIWord(rd, zero, lo)
    BY <2>1, <2>2, <2>8, RegValues DEF LIPiece, Piece, ADDIWord
  <2>9. zero \in 0 .. 31
    BY <2>8
  <2>5. Adds(word) = Lower(lo)
    BY Zenon, <1>13, <2>3, <2>4, <2>9, ADDIAdds
  <2>6. LoadedByWords = IF lo < 2048 THEN lo ELSE lo - 4096
    BY <1>8, <2>3, <2>5, LoadedOne DEF Lower
  <2>7. high = 0
    <3>1. PICK n : n = 2^20 /\ n \in Nat \ {0}
      BY SMT, TwoPowers
    <3>2. hi % n = 0
      BY <1>10, <3>1
    <3>3. Bit(0, 20 - 1) = 0
      <4>1. 2^19 \in Nat \ {0}
        BY SMT, TwoPowers
      <4> QED BY <4>1 DEF Bit
    <3> QED BY <1>6, <3>1, <3>2, <3>3 DEF c2
  <2> QED BY <1>8, <1>9, <1>10, <2>6, <2>7 DEF Mistaken
<1>11. CASE hi # 0 /\ lo < 2048
  <2>1. pieces = <<Piece("LUI", hi), Piece("ADDI", lo)>>
    BY <1>3, <1>11 DEF LI
  <2>2. PICK word, more : word = LIPiece(rd, pieces, 1) /\ more = LIPiece(rd, pieces, 2)
    OBVIOUS
  <2>3. Len(words) = 2 /\ words[1] = word /\ words[2] = more /\ word # Refused /\ more # Refused
    BY <1>4, <1>5, <2>1, <2>2
  <2>4. word = value(Insns.LUI, [rd |-> rd, imm |-> hi])
    BY <2>1, <2>2 DEF LIPiece, Piece
  <2>5. more = ADDIWord(rd, rd, lo)
    BY <2>1, <2>2 DEF LIPiece, Piece, ADDIWord
  <2>6. Adds(word) = high * 4096
    <3>1. Adds(word) = High(hi)
      BY Zenon, <1>13, <2>3, <2>4, LUIAdds
    <3> QED BY SMT, <1>6, <3>1 DEF High
  <2>7. Adds(more) = lo
    <3>1. Adds(more) = Lower(lo)
      BY Zenon, <1>13, <2>3, <2>5, ADDIAdds
    <3> QED BY SMT, <1>11, <3>1 DEF Lower
  <2>8. LoadedByWords = high * 4096 + lo
    BY <1>7, <1>8, <2>3, <2>6, <2>7, LoadedTwo
  <2> QED BY <1>8, <1>9, <1>11, <2>8 DEF Mistaken
<1>12. CASE hi # 0 /\ lo >= 2048
  <2>1. PICK half, rest : half = lo \div 2 /\ rest = (lo \div 2) + (lo % 2)
    OBVIOUS
  <2>2. /\ half \in 1024 .. 2047 /\ rest \in 1024 .. 2048
        /\ half + rest = lo /\ (rest = 2048 <=> lo = 4095)
    <3>1. /\ (lo \div 2) \in 1024 .. 2047
          /\ ((lo \div 2) + (lo % 2)) \in 1024 .. 2048
          /\ (lo \div 2) + ((lo \div 2) + (lo % 2)) = lo
          /\ (lo \div 2) + (lo % 2) = 2048 <=> lo = 4095
      BY <1>12, <1>13, Halves
    <3> QED BY SMT, <2>1, <3>1
  <2>3. pieces = <<Piece("LUI", hi), Piece("ADDI", half), Piece("ADDI", rest)>>
    BY <1>3, <1>8, <1>12, <2>1 DEF LI
  <2>4. PICK word, more, last : /\ word = LIPiece(rd, pieces, 1)
                                /\ more = LIPiece(rd, pieces, 2)
                                /\ last = LIPiece(rd, pieces, 3)
    OBVIOUS
  <2>5. /\ Len(words) = 3 /\ words[1] = word /\ words[2] = more /\ words[3] = last
        /\ word # Refused /\ more # Refused /\ last # Refused
    BY <1>4, <1>5, <2>3, <2>4
  <2>6. word = value(Insns.LUI, [rd |-> rd, imm |-> hi])
    BY <2>3, <2>4 DEF LIPiece, Piece
  <2>7. more = ADDIWord(rd, rd, half)
    BY <2>3, <2>4 DEF LIPiece, Piece, ADDIWord
  <2>8. last = ADDIWord(rd, rd, rest)
    BY <2>3, <2>4 DEF LIPiece, Piece, ADDIWord
  <2>9. Adds(word) = high * 4096
    <3>1. Adds(word) = High(hi)
      BY Zenon, <1>13, <2>5, <2>6, LUIAdds
    <3> QED BY SMT, <1>6, <3>1 DEF High
  <2>13. half \in Low /\ rest \in Low
    BY SMT, <2>2 DEF Low
  <2>10. Adds(more) = half
    <3>1. Adds(more) = Lower(half)
      BY Zenon, <1>13, <2>13, <2>5, <2>7, ADDIAdds
    <3> QED BY SMT, <2>2, <3>1 DEF Lower
  <2>11. Adds(last) = Lower(rest)
    BY Zenon, <1>13, <2>13, <2>5, <2>8, ADDIAdds
  <2>12. LoadedByWords = high * 4096 + half + (IF rest < 2048 THEN rest ELSE rest - 4096)
    BY <1>7, <2>2, <2>5, <2>9, <2>10, <2>11, LoadedThree DEF Lower
  <2> QED BY <1>7, <1>8, <1>9, <1>12, <2>2, <2>12 DEF Mistaken
<1> QED BY <1>8, <1>10, <1>11, <1>12

\* LI loads its immediate if and only if it is not one of those that are Mistaken.
THEOREM LIIsExact == AsmSpec => []LIExact
BY AsmInvAlways, LILoadsExactly, PTL
=============================================================================
