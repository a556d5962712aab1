------------------------------ MODULE StParser ------------------------------
(***************************************************************************)
(* The parser of the test language: it is fed a file's lines, and collects *)
(* a result, a name and a body, for each section that a label begins.      *)
(*                                                                         *)
(* A body is a mutable list that the parser and its results share: bodies  *)
(* are the lists there are, and test_body and the results name them by     *)
(* their place.  Of a statement, a body keeps the line's number.           *)
(***************************************************************************)
EXTENDS Integers, Sequences

CONSTANTS Labels,
          None     \* no name, no body

ASSUME NoneAssumption == None \notin Labels \cup Nat

\* A label is no other kind of line.
ASSUME LabelAssumption == Labels \cap {"blank", "stmt", "junk"} = {}

\* What a line may be to parse(): nothing but blanks and a comment, a label, a pragma
\* or an op, or no statement.
Line == {"blank", "stmt", "junk"} \cup Labels

VARIABLES begun, test_name, test_body, lineno, results, bodies

parserVars == <<begun, test_name, test_body, lineno, results, bodies>>

ParserInit ==
  /\ begun = FALSE
  /\ test_name = None /\ test_body = None
  /\ lineno = 0
  /\ results = <<>> /\ bodies = <<>>
-----------------------------------------------------------------------------
Result(name, body) == [name |-> name, body |-> body]

Fished == IF test_name = None THEN results ELSE Append(results, Result(test_name, test_body))

\* Mutant: blank lines are not counted.
SkipUncounted(line) == line = "blank" /\ UNCHANGED parserVars

Skip(line) ==
  /\ line = "blank"
  /\ lineno' = lineno + 1
  /\ UNCHANGED <<begun, test_name, test_body, results, bodies>>

\* An exception, after the line is counted: what is no statement does not parse, and no
\* statement may come before a label.
Refuse(line) ==
  /\ line = "junk" \/ (line = "stmt" /\ ~begun)
  /\ lineno' = lineno + 1
  /\ UNCHANGED <<begun, test_name, test_body, results, bodies>>

Statement(line) ==
  /\ line = "stmt" /\ begun
  /\ lineno' = lineno + 1
  /\ bodies' = [bodies EXCEPT ![test_body] = Append(@, lineno')]
  /\ UNCHANGED <<begun, test_name, test_body, results>>

\* The first label is matched twice: it names a body, and then ends it, empty, and
\* begins another.
FirstLabel(line) ==
  /\ line \in Labels /\ ~begun
  /\ lineno' = lineno + 1
  /\ begun' = TRUE
  /\ bodies' = bodies \o <<<<>>, <<>>>>
  /\ results' = Append(results, Result(line, Len(bodies) + 1))
  /\ test_name' = line /\ test_body' = Len(bodies) + 2

\* Mutant: the body is cleared, not made anew.
NextLabelClears(line) ==
  /\ line \in Labels /\ begun
  /\ lineno' = lineno + 1
  /\ results' = Fished
  /\ bodies' = [bodies EXCEPT ![test_body] = <<>>]
  /\ test_name' = line
  /\ UNCHANGED <<begun, test_body>>

NextLabel(line) ==
  /\ line \in Labels /\ begun
  /\ lineno' = lineno + 1
  /\ results' = Fished
  /\ bodies' = Append(bodies, <<>>)
  /\ test_name' = line /\ test_body' = Len(bodies) + 1
  /\ UNCHANGED begun

Feed(line) ==
  Skip(line) \/ Refuse(line) \/ Statement(line) \/ FirstLabel(line) \/ NextLabel(line)

\* The end of a list of lines.
Fish ==
  /\ results' = Fished
  /\ UNCHANGED <<begun, test_name, test_body, lineno, bodies>>

ParserNext == Fish \/ \E line \in Line : Feed(line)
=============================================================================
