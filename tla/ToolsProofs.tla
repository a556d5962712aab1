----------------------------- MODULE ToolsProofs ----------------------------
(***************************************************************************)
(* Of the tools beside the hart, the parser of the test language and the   *)
(* disassembler that traces.  Whatever lines the parser is fed, it lists   *)
(* the tests that the lines say, and keeps the results it has given.       *)
(* Whatever is assembled, what is said of it assembles to it again.        *)
(*                                                                         *)
(* The parser's invariant: TestsAreSections speaks of the end of a list    *)
(* alone; in between, the last section is not among the results yet, and   *)
(* its body is the one the parser adds to.                                 *)
(***************************************************************************)
EXTENDS StHistory, AssemblerProofs

TypeInv ==
  /\ begun \in BOOLEAN /\ fished \in Nat /\ at_end \in BOOLEAN
  /\ fed \in Seq(Line) /\ lineno = Len(fed)
  /\ bodies \in Seq(Seq(Nat))
  /\ results \in Seq([name : Labels, body : Nat])
  /\ \A i \in DOMAIN results : results[i].body \in 1 .. Len(bodies)

\* Before the first label there is nothing.
Fresh ==
  /\ test_name = None /\ results = <<>> /\ bodies = <<>>
  /\ LabelsFed = {}

\* From there on the last body is that of the section the lines are in, and the results
\* of other names are those of sections that are over.
Underway ==
  /\ test_name \in Labels /\ test_body = Len(bodies) /\ bodies # <<>>
  /\ \E b \in DOMAIN fed : fed[b] = test_name /\ \A j \in DOMAIN fed : j > b => fed[j] \notin Labels
  /\ Lists(bodies[test_body], Section(test_name))
  /\ {results[i].name : i \in DOMAIN results} \cup {test_name} = LabelsFed
  /\ \A i \in DOMAIN results :
       /\ results[i].body = test_body => results[i].name = test_name /\ fished > 0
       /\ IsTest(i) /\ results[i].name # test_name =>
            Lists(Body(results[i]), Section(results[i].name))
  /\ at_end => results # <<>> /\ results[Len(results)] = Result(test_name, test_body)

ParserInv ==
  /\ TypeInv
  /\ ~begun => Fresh
  /\ begun => Underway

LEMMA LineKinds ==
  /\ "blank" \notin Labels /\ "stmt" \notin Labels /\ "junk" \notin Labels /\ None \notin Labels
BY LabelAssumption, NoneAssumption

LEMMA InvInit == StHistoryInit => ParserInv
<1> SUFFICES ASSUME StHistoryInit PROVE ParserInv
  OBVIOUS
<1> USE DEF StHistoryInit, ParserInit
<1>1. TypeInv
  <2>1. fed \in Seq(Line) /\ bodies \in Seq(Seq(Nat)) /\ results \in Seq([name : Labels, body : Nat])
    OBVIOUS
  <2>2. Len(fed) = 0 /\ DOMAIN results = {}
    OBVIOUS
  <2> QED BY <2>1, <2>2 DEF TypeInv
<1>2. LabelsFed = {}
  BY DEF LabelsFed
<1>3. Fresh
  BY <1>2 DEF Fresh
<1> QED BY <1>1, <1>3 DEF ParserInv

LEMMA FedGrows ==
  ASSUME fed \in Seq(Line), NEW l \in Line, fed' = Append(fed, l)
  PROVE  /\ Len(fed') = Len(fed) + 1 /\ Len(fed) \in Nat
         /\ DOMAIN fed = 1 .. Len(fed) /\ DOMAIN fed' = 1 .. Len(fed) + 1
         /\ fed' \in Seq(Line)
         /\ fed'[Len(fed) + 1] = l /\ \A k \in 1 .. Len(fed) : fed'[k] = fed[k]
         /\ LabelsFed' = LabelsFed \cup ({l} \cap Labels)
<1>1. /\ Len(fed') = Len(fed) + 1 /\ Len(fed) \in Nat
      /\ DOMAIN fed = 1 .. Len(fed) /\ DOMAIN fed' = 1 .. Len(fed) + 1
      /\ fed' \in Seq(Line)
      /\ fed'[Len(fed) + 1] = l /\ \A k \in 1 .. Len(fed) : fed'[k] = fed[k]
  OBVIOUS
<1>2. LabelsFed' = LabelsFed \cup ({l} \cap Labels)
  BY <1>1 DEF LabelsFed
<1> QED BY <1>1, <1>2

\* A line that is no label leaves the other sections as they are.
LEMMA SectionsStay ==
  ASSUME fed \in Seq(Line), NEW l \in Line, fed' = Append(fed, l), l \notin Labels,
         NEW c \in DOMAIN fed, fed[c] \in Labels, \A j \in DOMAIN fed : j > c => fed[j] \notin Labels,
         NEW name \in Labels
  PROVE  Section(name)' = IF l = "stmt" /\ name = fed[c]
                            THEN Section(name) \cup {Len(fed) + 1} ELSE Section(name)
<1>1. PICK n \in Nat :
        /\ n = Len(fed) /\ Len(fed') = n + 1
        /\ DOMAIN fed = 1 .. n /\ DOMAIN fed' = 1 .. n + 1
        /\ fed'[n + 1] = l /\ \A k \in 1 .. n : fed'[k] = fed[k]
  BY FedGrows
<1>2. \A b \in 1 .. n : Begins(b, name)' <=> Begins(b, name)
  BY <1>1 DEF Begins
<1>3. ~Begins(n + 1, name)'
  BY <1>1 DEF Begins
<1>4. \A b, k \in 1 .. n : Follows(k, b)' <=> Follows(k, b)
  <2> SUFFICES ASSUME NEW b \in 1 .. n, NEW k \in 1 .. n
               PROVE  Follows(k, b)' <=> Follows(k, b)
    OBVIOUS
  <2>1. fed'[k] = fed[k] /\ \A j \in b + 1 .. k : fed'[j] = fed[j]
    BY <1>1
  <2> QED BY <2>1 DEF Follows
<1>5. \A b \in 1 .. n : Begins(b, name) =>
        (Follows(n + 1, b)' <=> l = "stmt" /\ name = fed[c])
  <2> SUFFICES ASSUME NEW b \in 1 .. n, Begins(b, name)
               PROVE  Follows(n + 1, b)' <=> l = "stmt" /\ name = fed[c]
    OBVIOUS
  <2>1. b <= c /\ fed[b] = name
    BY <1>1 DEF Begins
  <2>2. name = fed[c] => b = c
    BY <1>1, <2>1 DEF Begins
  <2>3. name # fed[c] => ~Follows(n + 1, b)'
    BY <1>1, <2>1 DEF Follows
  <2>4. name = fed[c] => (Follows(n + 1, b)' <=> l = "stmt")
    BY <1>1, <2>2 DEF Follows
  <2> QED BY <2>3, <2>4
<1>6. name = fed[c] => Begins(c, name)
  BY <1>1 DEF Begins
<1>7. ASSUME NEW k \in 1 .. n + 1
      PROVE  k \in Section(name)' <=>
               (k \in Section(name)) \/ (k = n + 1 /\ l = "stmt" /\ name = fed[c])
  <2>1. k \in Section(name)' <=> \E b \in 1 .. n + 1 : Begins(b, name)' /\ Follows(k, b)'
    BY <1>1 DEF Section
  <2>2. k \in Section(name)' <=> \E b \in 1 .. n : Begins(b, name) /\ Follows(k, b)'
    BY <1>1, <1>2, <1>3, <2>1
  <2>3. CASE k = n + 1
    <3>1. k \notin Section(name)
      BY <1>1, <2>3 DEF Section
    <3> QED BY <1>1, <1>5, <1>6, <2>2, <2>3, <3>1
  <2>4. CASE k \in 1 .. n
    <3>1. k \in Section(name) <=> \E b \in 1 .. n : Begins(b, name) /\ Follows(k, b)
      BY <1>1, <2>4 DEF Section
    <3> QED BY <1>1, <1>4, <2>2, <2>4, <3>1
  <2> QED BY <1>1, <2>3, <2>4
<1>8. Section(name)' \subseteq 1 .. n + 1 /\ Section(name) \subseteq 1 .. n
  BY <1>1 DEF Section
<1>9. \A k : k \in Section(name)' <=>
               (k \in Section(name)) \/ (k = n + 1 /\ l = "stmt" /\ name = fed[c])
  BY <1>1, <1>7, <1>8
<1> QED BY <1>1, <1>9

\* A label begins a section of its own, and leaves those of other names.
LEMMA SectionBegins ==
  ASSUME fed \in Seq(Line), NEW l \in Labels, fed' = Append(fed, l), NEW name \in Labels
  PROVE  Section(name)' = IF name = l THEN {} ELSE Section(name)
<1>1. PICK n \in Nat :
        /\ n = Len(fed) /\ Len(fed') = n + 1
        /\ DOMAIN fed = 1 .. n /\ DOMAIN fed' = 1 .. n + 1
        /\ fed'[n + 1] = l /\ \A k \in 1 .. n : fed'[k] = fed[k]
  BY FedGrows DEF Line
<1>2. \A b \in 1 .. n + 1 : Begins(b, name)' <=>
         IF name = l THEN b = n + 1 ELSE b # n + 1 /\ Begins(b, name)
  BY <1>1 DEF Begins
<1>3. \A b, k \in 1 .. n : Follows(k, b)' <=> Follows(k, b)
  <2> SUFFICES ASSUME NEW b \in 1 .. n, NEW k \in 1 .. n
               PROVE  Follows(k, b)' <=> Follows(k, b)
    OBVIOUS
  <2>1. fed'[k] = fed[k] /\ \A j \in b + 1 .. k : fed'[j] = fed[j]
    BY <1>1
  <2> QED BY <2>1 DEF Follows
<1>4. \A b \in 1 .. n + 1 : ~Follows(n + 1, b)' /\ \A k \in 1 .. n : ~Follows(k, n + 1)'
  BY <1>1 DEF Follows
<1>5. \A k \in 1 .. n + 1 : k \in Section(name)' <=> name # l /\ k \in Section(name)
  <2> SUFFICES ASSUME NEW k \in 1 .. n + 1
               PROVE  k \in Section(name)' <=> name # l /\ k \in Section(name)
    OBVIOUS
  <2>1. k \in Section(name)' <=> \E b \in 1 .. n + 1 : Begins(b, name)' /\ Follows(k, b)'
    BY <1>1 DEF Section
  <2>2. CASE k = n + 1
    <3>1. k \notin Section(name)
      BY <1>1, <2>2 DEF Section
    <3> QED BY <1>1, <1>4, <2>1, <2>2, <3>1
  <2>3. CASE k \in 1 .. n
    <3>1. k \in Section(name) <=> \E b \in 1 .. n : Begins(b, name) /\ Follows(k, b)
      BY <1>1, <2>3 DEF Section
    <3>2. CASE name = l
      BY <1>1, <1>2, <1>4, <2>1, <2>3, <3>2
    <3>3. CASE name # l
      <4>1. k \in Section(name)' <=> \E b \in 1 .. n : Begins(b, name) /\ Follows(k, b)'
        BY <1>1, <1>2, <2>1, <3>3
      <4> QED BY <1>3, <2>3, <3>1, <3>3, <4>1
    <3> QED BY <3>2, <3>3
  <2> QED BY <1>1, <2>2, <2>3
<1>6. Section(name)' \subseteq 1 .. n + 1 /\ Section(name) \subseteq 1 .. n
  BY <1>1 DEF Section
<1>7. \A k : k \in Section(name)' <=> name # l /\ k \in Section(name)
  BY <1>1, <1>5, <1>6
<1> QED BY <1>7

LEMMA ResultTypes ==
  ASSUME TypeInv
  PROVE  /\ DOMAIN results = 1 .. Len(results) /\ Len(results) \in Nat
         /\ DOMAIN bodies = 1 .. Len(bodies) /\ Len(bodies) \in Nat
         /\ \A i \in DOMAIN results :
              results[i].name \in Labels /\ results[i].body \in 1 .. Len(bodies)
<1>1. \A i \in DOMAIN results : results[i] \in [name : Labels, body : Nat]
  <2>1. PICK Rs : Rs = [name : Labels, body : Nat]
    OBVIOUS
  <2>2. results \in Seq(Rs)
    BY <2>1 DEF TypeInv
  <2>3. \A i \in DOMAIN results : results[i] \in Rs
    BY <2>2
  <2> QED BY <2>1, <2>3
<1>2. \A i \in DOMAIN results : results[i].name \in Labels
  BY <1>1
<1> QED BY <1>2 DEF TypeInv

\* Lines that are passed over.
LEMMA PassedOver ==
  ASSUME ParserInv, NEW l \in Line, FeedRecorded(l), Skip(l) \/ Refuse(l)
  PROVE  ParserInv'
<1> USE DEF FeedRecorded
<1>1. /\ l \notin Labels /\ (l = "stmt" => ~begun)
      /\ lineno' = lineno + 1 /\ UNCHANGED <<begun, test_name, test_body, results, bodies, fished>>
      /\ fed' = Append(fed, l) /\ ~at_end' /\ at_end' \in BOOLEAN
  BY LineKinds DEF Skip, Refuse
<1>2. fed \in Seq(Line) /\ TypeInv
  BY DEF ParserInv, TypeInv
<1>3. /\ Len(fed') = Len(fed) + 1 /\ fed' \in Seq(Line)
      /\ DOMAIN fed = 1 .. Len(fed) /\ DOMAIN fed' = 1 .. Len(fed) + 1 /\ Len(fed) \in Nat
      /\ fed'[Len(fed) + 1] = l /\ \A k \in 1 .. Len(fed) : fed'[k] = fed[k]
      /\ LabelsFed' = LabelsFed
  BY <1>1, <1>2, FedGrows
<1>4. TypeInv'
  BY <1>1, <1>2, <1>3 DEF TypeInv
<1>5. ASSUME ~begun PROVE Fresh'
  BY <1>1, <1>3, <1>5 DEF ParserInv, Fresh
<1>6. ASSUME begun PROVE Underway'
  <2>1. Underway
    BY <1>6 DEF ParserInv
  <2>2. PICK b \in DOMAIN fed : /\ fed[b] = test_name
                               /\ \A j \in DOMAIN fed : j > b => fed[j] \notin Labels
    BY <2>1 DEF Underway
  <2>3. \A name \in Labels : Section(name)' = Section(name)
    BY <1>1, <1>2, <1>6, <2>1, <2>2, SectionsStay DEF Underway
  <2>4. b \in DOMAIN fed' /\ fed'[b] = test_name'
        /\ \A j \in DOMAIN fed' : j > b => fed'[j] \notin Labels
    BY <1>1, <1>3, <2>2
  <2>5. \A i \in DOMAIN results : results[i].name \in Labels
    BY <1>2, ResultTypes
  <2>6. Lists(bodies'[test_body'], Section(test_name)')
    BY <1>1, <2>1, <2>3 DEF Underway, Lists
  <2>7. \A i \in DOMAIN results' : IsTest(i)' <=> IsTest(i)
    BY <1>1 DEF IsTest
  <2>8. ASSUME NEW i \in DOMAIN results', IsTest(i)', results'[i].name # test_name'
        PROVE  Lists(Body(results[i])', Section(results[i].name)')
    <3>1. Lists(Body(results[i]), Section(results[i].name))
      BY <1>1, <2>1, <2>7, <2>8 DEF Underway
    <3>2. Body(results[i])' = Body(results[i])
      BY <1>1 DEF Body
    <3>3. Section(results[i].name)' = Section(results[i].name)
      <4>1. PICK name \in Labels : results[i].name = name /\ results'[i].name = name
        BY <1>1, <2>5
      <4>2. Section(results[i].name)' = Section(name)'
        BY <4>1 DEF Section, Begins, Follows
      <4> QED BY <2>3, <4>1, <4>2
    <3> QED BY <3>1, <3>2, <3>3 DEF Lists
  <2> QED BY <1>1, <1>3, <2>1, <2>4, <2>6, <2>8 DEF Underway
<1> QED BY <1>1, <1>4, <1>5, <1>6, <1>2 DEF ParserInv, TypeInv

\* A statement is listed in the body of its section, after those before it.
LEMMA Listed ==
  ASSUME NEW seq \in Seq(Nat), NEW set, Lists(seq, set), NEW n \in Nat, set \subseteq 1 .. n
  PROVE  Lists(Append(seq, n + 1), set \cup {n + 1})
<1> DEFINE m == Len(seq)
           next == Append(seq, n + 1)
<1>1. /\ m \in Nat /\ DOMAIN seq = 1 .. m /\ DOMAIN next = 1 .. m + 1
      /\ next[m + 1] = n + 1 /\ \A i \in 1 .. m : next[i] = seq[i]
  OBVIOUS
<1>2. \A i \in 1 .. m : seq[i] \in set
  BY <1>1 DEF Lists
<1>3. \A i \in 1 .. m : seq[i] \in 1 .. n
  BY <1>2
<1> HIDE DEF m, next
<1>4. {next[i] : i \in DOMAIN next} = set \cup {n + 1}
  BY <1>1 DEF Lists
<1>5. \A i, j \in DOMAIN next : i < j => next[i] < next[j]
  <2> SUFFICES ASSUME NEW i \in 1 .. m + 1, NEW j \in 1 .. m + 1, i < j
               PROVE  next[i] < next[j]
    BY <1>1
  <2>1. CASE j = m + 1
    BY <1>1, <1>3, <2>1
  <2>2. CASE j \in 1 .. m
    BY <1>1, <2>2 DEF Lists
  <2> QED BY <1>1, <2>1, <2>2
<1> QED BY <1>4, <1>5 DEF Lists, next

LEMMA StatementListed ==
  ASSUME ParserInv, NEW l \in Line, FeedRecorded(l), Statement(l)
  PROVE  ParserInv'
<1> USE DEF FeedRecorded
<1>1. /\ l = "stmt" /\ begun /\ lineno' = lineno + 1
      /\ bodies' = [bodies EXCEPT ![test_body] = Append(@, lineno')]
      /\ UNCHANGED <<begun, test_name, test_body, results, fished>>
      /\ fed' = Append(fed, l) /\ ~at_end' /\ at_end' \in BOOLEAN
  BY DEF Statement
<1>2. fed \in Seq(Line) /\ TypeInv /\ lineno = Len(fed) /\ Underway /\ l \notin Labels
  BY <1>1, LineKinds DEF ParserInv, TypeInv
<1>3. /\ Len(fed') = Len(fed) + 1 /\ fed' \in Seq(Line)
      /\ DOMAIN fed = 1 .. Len(fed) /\ DOMAIN fed' = 1 .. Len(fed) + 1 /\ Len(fed) \in Nat
      /\ fed'[Len(fed) + 1] = l /\ \A k \in 1 .. Len(fed) : fed'[k] = fed[k]
      /\ LabelsFed' = LabelsFed
  BY <1>2, FedGrows, <1>1
<1>4. /\ test_body \in DOMAIN bodies /\ bodies[test_body] \in Seq(Nat)
      /\ DOMAIN bodies = 1 .. Len(bodies) /\ Len(bodies) \in Nat
  BY <1>2 DEF TypeInv, Underway
<1>5. /\ bodies' \in Seq(Seq(Nat)) /\ Len(bodies') = Len(bodies)
      /\ bodies'[test_body] = Append(bodies[test_body], Len(fed) + 1)
      /\ \A t \in DOMAIN bodies : t # test_body => bodies'[t] = bodies[t]
  <2>1. Append(bodies[test_body], lineno') \in Seq(Nat) /\ lineno' = Len(fed) + 1
    BY <1>1, <1>2, <1>3, <1>4
  <2>2. PICK Ts : Ts = Seq(Nat)
    OBVIOUS
  <2>3. bodies \in Seq(Ts) /\ Append(bodies[test_body], lineno') \in Ts
    BY <1>2, <2>1, <2>2 DEF TypeInv
  <2>4. bodies' \in Seq(Ts) /\ Len(bodies') = Len(bodies)
    BY <1>1, <1>4, <2>3
  <2> QED BY <1>1, <1>4, <2>1, <2>2, <2>4
<1>6. TypeInv'
  BY <1>1, <1>2, <1>3, <1>5 DEF TypeInv
<1>7. PICK b \in DOMAIN fed : /\ fed[b] = test_name
                             /\ \A j \in DOMAIN fed : j > b => fed[j] \notin Labels
  BY <1>2 DEF Underway
<1>8. \A name \in Labels :
        Section(name)' = IF name = test_name THEN Section(name) \cup {Len(fed) + 1} ELSE Section(name)
  BY <1>1, <1>2, <1>7, SectionsStay DEF Underway
<1>9. b \in DOMAIN fed' /\ fed'[b] = test_name'
      /\ \A j \in DOMAIN fed' : j > b => fed'[j] \notin Labels
  BY <1>1, <1>2, <1>3, <1>7
<1>10. Lists(bodies'[test_body'], Section(test_name)')
  <2>1. Section(test_name) \subseteq 1 .. Len(fed)
    BY <1>3 DEF Section
  <2>2. Lists(Append(bodies[test_body], Len(fed) + 1), Section(test_name) \cup {Len(fed) + 1})
    BY <1>2, <1>3, <1>4, <2>1, Listed DEF Underway
  <2>3. PICK name \in Labels : name = test_name /\ test_name' = name
    BY <1>1, <1>2 DEF Underway
  <2>4. Section(test_name)' = Section(name)'
    BY <2>3 DEF Section, Begins, Follows
  <2>5. Section(test_name)' = Section(test_name) \cup {Len(fed) + 1}
    BY <1>8, <2>3, <2>4
  <2> QED BY <1>1, <1>5, <2>2, <2>5
<1>11. \A i \in DOMAIN results' : IsTest(i)' <=> IsTest(i)
  BY <1>1 DEF IsTest
<1>12. ASSUME NEW i \in DOMAIN results', IsTest(i)', results'[i].name # test_name'
       PROVE  Lists(Body(results[i])', Section(results[i].name)')
  <2>1. i \in DOMAIN results /\ results[i].name # test_name /\ results[i].body # test_body
    BY <1>1, <1>2, <1>12 DEF Underway
  <2>2. Lists(Body(results[i]), Section(results[i].name))
    BY <1>2, <1>11, <1>12, <2>1 DEF Underway
  <2>3. Body(results[i])' = Body(results[i])
    BY <1>1, <1>2, <1>4, <1>5, <2>1, ResultTypes DEF Body
  <2>4. PICK name \in Labels : results[i].name = name /\ results'[i].name = name
    BY <1>1, <1>2, <2>1, ResultTypes
  <2>5. Section(results[i].name)' = Section(name)'
    BY <2>4 DEF Section, Begins, Follows
  <2>6. Section(results[i].name)' = Section(results[i].name)
    BY <1>8, <2>1, <2>4, <2>5
  <2> QED BY <2>2, <2>3, <2>6 DEF Lists
<1>13. test_name' \in Labels /\ test_body' = Len(bodies') /\ bodies' # <<>>
  BY <1>1, <1>2, <1>4, <1>5 DEF Underway
<1>14. Underway'
  BY <1>1, <1>2, <1>3, <1>9, <1>10, <1>12, <1>13 DEF Underway
<1> QED BY <1>1, <1>6, <1>14 DEF ParserInv

\* What a label or the end of a list adds to the results.
LEMMA OneMore ==
  ASSUME TypeInv, Underway, results' = Fished
  PROVE  /\ DOMAIN results = 1 .. Len(results) /\ Len(results) \in Nat
         /\ DOMAIN results' = 1 .. Len(results) + 1 /\ Len(results') = Len(results) + 1
         /\ results' \in Seq([name : Labels, body : Nat]) /\ results' # <<>>
         /\ \A i \in DOMAIN results : results'[i] = results[i]
         /\ results'[Len(results) + 1] = Result(test_name, test_body)
         /\ \A i \in DOMAIN results :
              IsTest(i)' => IsTest(i) /\ results[i].name # test_name
         /\ {results'[i].name : i \in DOMAIN results'} = LabelsFed
<1>1. test_name \in Labels /\ test_body \in Nat /\ test_name # None
  BY LineKinds DEF TypeInv, Underway
<1>2. PICK Rs : Rs = [name : Labels, body : Nat]
  OBVIOUS
<1>3. PICK r : r = Result(test_name, test_body)
  OBVIOUS
<1>4. r \in Rs /\ r.name = test_name /\ results \in Seq(Rs) /\ results' = Append(results, r)
  BY <1>1, <1>2, <1>3 DEF Result, Fished, TypeInv
<1>5. PICK n \in Nat : n = Len(results)
  BY <1>4
<1>6. /\ DOMAIN results = 1 .. n /\ DOMAIN results' = 1 .. n + 1 /\ Len(results') = n + 1
      /\ results' \in Seq(Rs) /\ results' # <<>>
      /\ results'[n + 1] = r /\ \A i \in 1 .. n : results'[i] = results[i]
  BY <1>4, <1>5
<1>7. \A i \in 1 .. n : IsTest(i)' => IsTest(i) /\ results[i].name # test_name
  <2> SUFFICES ASSUME NEW i \in 1 .. n, IsTest(i)'
               PROVE  IsTest(i) /\ results[i].name # test_name
    OBVIOUS
  <2>1. \A j \in 1 .. n + 1 : j > i => results'[j].name # results'[i].name
    BY <1>6 DEF IsTest
  <2>2. n + 1 \in 1 .. n + 1 /\ n + 1 > i
    OBVIOUS
  <2>3. results[i].name # test_name
    BY <1>4, <1>6, <2>1, <2>2
  <2>4. \A j \in 1 .. n : j > i => results[j].name # results[i].name
    BY <1>6, <2>1
  <2> QED BY <1>6, <2>3, <2>4 DEF IsTest
<1>8. {results'[i].name : i \in 1 .. n + 1} = {results[i].name : i \in 1 .. n} \cup {test_name}
  BY <1>4, <1>6
<1> QED BY <1>2, <1>3, <1>5, <1>6, <1>7, <1>8 DEF Underway

\* The first label.
LEMMA FirstBegins ==
  ASSUME ParserInv, NEW l \in Line, FeedRecorded(l), FirstLabel(l)
  PROVE  ParserInv'
<1> USE DEF FeedRecorded
<1>1. /\ l \in Labels /\ ~begun /\ begun' = TRUE /\ lineno' = lineno + 1
      /\ fed' = Append(fed, l) /\ at_end' = FALSE /\ fished' = fished
      /\ TypeInv /\ Fresh /\ fed \in Seq(Line)
  BY DEF FirstLabel, ParserInv, TypeInv
<1>2. /\ bodies' = <<<<>>, <<>>>> /\ results' = <<Result(l, 1)>>
      /\ test_name' = l /\ test_body' = 2
  BY <1>1 DEF FirstLabel, Fresh
<1>3. PICK n \in Nat :
        /\ n = Len(fed) /\ Len(fed') = n + 1 /\ fed' \in Seq(Line)
        /\ DOMAIN fed = 1 .. n /\ DOMAIN fed' = 1 .. n + 1
        /\ fed'[n + 1] = l /\ LabelsFed' = LabelsFed \cup ({l} \cap Labels)
  BY <1>1, FedGrows
<1>4. /\ DOMAIN results' = {1} /\ results'[1].name = l /\ results'[1].body = 1
      /\ Len(bodies') = 2 /\ bodies'[2] = <<>> /\ bodies' \in Seq(Seq(Nat)) /\ bodies' # <<>>
  <2>1. results'[1] = Result(l, 1) /\ DOMAIN results' = {1}
    BY <1>2
  <2>2. \A Ts : <<>> \in Ts => <<<<>>, <<>>>> \in Seq(Ts)
    OBVIOUS
  <2>3. <<>> \in Seq(Nat)
    OBVIOUS
  <2> QED BY <1>2, <2>1, <2>2, <2>3 DEF Result
<1>5. results' \in Seq([name : Labels, body : Nat])
  <2>1. Result(l, 1) \in [name : Labels, body : Nat]
    BY <1>1 DEF Result
  <2>2. \A Rs, r : r \in Rs => <<r>> \in Seq(Rs)
    OBVIOUS
  <2> QED BY <1>2, <2>1, <2>2
<1>6. TypeInv'
  <2>1. begun' \in BOOLEAN /\ at_end' \in BOOLEAN
    BY <1>1
  <2>2. fished' \in Nat /\ lineno' = Len(fed')
    BY <1>1, <1>3 DEF TypeInv
  <2>3. \A i \in DOMAIN results' : results'[i].body \in 1 .. Len(bodies')
    BY <1>4
  <2> QED BY <1>3, <1>4, <1>5, <2>1, <2>2, <2>3 DEF TypeInv
<1>7. Lists(bodies'[test_body'], Section(test_name)')
  <2>1. PICK name \in Labels : name = l /\ test_name' = name
    BY <1>1, <1>2
  <2>2. Section(test_name)' = Section(name)'
    BY <2>1 DEF Section, Begins, Follows
  <2>3. Section(name)' = {}
    BY <1>1, <2>1, SectionBegins
  <2>4. Lists(<<>>, {})
    BY DEF Lists
  <2> QED BY <1>2, <1>4, <2>2, <2>3, <2>4
<1>8. LabelsFed' = {l}
  BY <1>1, <1>3 DEF Fresh
<1>9. Underway'
  <2>1. n + 1 \in DOMAIN fed' /\ fed'[n + 1] = test_name'
        /\ \A j \in DOMAIN fed' : j > n + 1 => fed'[j] \notin Labels
    BY <1>2, <1>3
  <2>2. {results'[i].name : i \in DOMAIN results'} \cup {test_name'} = LabelsFed'
    BY <1>2, <1>4, <1>8
  <2>3. \A i \in DOMAIN results' : results'[i].body # test_body' /\ results'[i].name = test_name'
    BY <1>2, <1>4
  <2> QED BY <1>1, <1>2, <1>4, <1>7, <2>1, <2>2, <2>3 DEF Underway
<1> QED BY <1>1, <1>6, <1>9 DEF ParserInv

\* A label after others: it ends a section, and that of its own name, if there was one.
LEMMA LabelEnds ==
  ASSUME ParserInv, NEW l \in Line, FeedRecorded(l), NextLabel(l)
  PROVE  ParserInv'
<1> USE DEF FeedRecorded
<1>1. /\ l \in Labels /\ begun /\ begun' = begun /\ lineno' = lineno + 1
      /\ results' = Fished /\ bodies' = Append(bodies, <<>>)
      /\ test_name' = l /\ test_body' = Len(bodies) + 1
      /\ fed' = Append(fed, l) /\ at_end' = FALSE /\ fished' = fished
      /\ TypeInv /\ Underway /\ fed \in Seq(Line)
  BY DEF NextLabel, ParserInv, TypeInv
<1>2. PICK n \in Nat :
        /\ n = Len(fed) /\ Len(fed') = n + 1 /\ fed' \in Seq(Line)
        /\ DOMAIN fed = 1 .. n /\ DOMAIN fed' = 1 .. n + 1
        /\ fed'[n + 1] = l /\ LabelsFed' = LabelsFed \cup ({l} \cap Labels)
  BY <1>1, FedGrows
<1>3. PICK m \in Nat : m = Len(bodies) /\ DOMAIN bodies = 1 .. m
  BY <1>1, ResultTypes
<1>4. /\ Len(bodies') = m + 1 /\ bodies'[m + 1] = <<>> /\ bodies' # <<>>
      /\ bodies' \in Seq(Seq(Nat)) /\ \A t \in 1 .. m : bodies'[t] = bodies[t]
  <2>1. <<>> \in Seq(Nat)
    OBVIOUS
  <2>2. PICK Ts : Ts = Seq(Nat)
    OBVIOUS
  <2>3. bodies \in Seq(Ts) /\ <<>> \in Ts
    BY <1>1, <2>1, <2>2 DEF TypeInv
  <2>4. bodies' \in Seq(Ts) /\ Len(bodies') = m + 1 /\ bodies'[m + 1] = <<>>
        /\ \A t \in 1 .. m : bodies'[t] = bodies[t]
    BY <1>1, <1>3, <2>3
  <2> QED BY <2>2, <2>4
<1>5. PICK k \in Nat :
        /\ k = Len(results) /\ DOMAIN results = 1 .. k /\ DOMAIN results' = 1 .. k + 1
        /\ results' \in Seq([name : Labels, body : Nat])
        /\ \A i \in 1 .. k : results'[i] = results[i]
        /\ results'[k + 1] = Result(test_name, test_body)
        /\ \A i \in 1 .. k : IsTest(i)' => IsTest(i) /\ results[i].name # test_name
        /\ {results'[i].name : i \in DOMAIN results'} = LabelsFed
  BY <1>1, OneMore
<1>6. \A i \in 1 .. k : results[i].name \in Labels /\ results[i].body \in 1 .. m
  BY <1>1, <1>3, <1>5, ResultTypes
<1>7. test_name \in Labels /\ test_body = m /\ m \in 1 .. m
  BY <1>1, <1>3 DEF Underway
<1>8. /\ results'[k + 1].name = test_name /\ results'[k + 1].body = test_body
  BY <1>5 DEF Result
<1>9. \A i \in 1 .. k + 1 : results'[i].name \in Labels /\ results'[i].body \in 1 .. m
  BY <1>5, <1>6, <1>7, <1>8
<1>10. TypeInv'
  <2>1. begun' \in BOOLEAN /\ at_end' \in BOOLEAN
    BY <1>1 DEF TypeInv
  <2>2. fished' \in Nat /\ lineno' = Len(fed')
    BY <1>1, <1>2 DEF TypeInv
  <2>3. \A i \in DOMAIN results' : results'[i].body \in 1 .. Len(bodies')
    BY <1>4, <1>5, <1>9
  <2> QED BY <1>2, <1>4, <1>5, <2>1, <2>2, <2>3 DEF TypeInv
<1>11. \A name \in Labels : Section(name)' = IF name = l THEN {} ELSE Section(name)
  BY <1>1, SectionBegins
<1>12. Lists(bodies'[test_body'], Section(test_name)')
  <2>1. PICK name \in Labels : name = l /\ test_name' = name
    BY <1>1
  <2>2. Section(test_name)' = Section(name)'
    BY <2>1 DEF Section, Begins, Follows
  <2>3. Section(name)' = {}
    BY <1>11, <2>1
  <2>4. Lists(<<>>, {})
    BY DEF Lists
  <2> QED BY <1>1, <1>3, <1>4, <2>2, <2>3, <2>4
<1>13. ASSUME NEW i \in 1 .. k + 1, IsTest(i)', results'[i].name # l
       PROVE  Lists(Body(results[i])', Section(results[i].name)')
  <2>1. Lists(Body(results'[i]), Section(results'[i].name))
    <3>1. CASE i = k + 1
      BY <1>1, <1>8, <3>1 DEF Underway, Body
    <3>2. CASE i \in 1 .. k
      BY <1>1, <1>5, <1>13, <3>2 DEF Underway
    <3> QED BY <3>1, <3>2
  <2>2. Body(results[i])' = Body(results'[i])
    BY <1>4, <1>9 DEF Body
  <2>3. PICK name \in Labels : results'[i].name = name
    BY <1>9
  <2>4. Section(results[i].name)' = Section(name)'
    BY <2>3 DEF Section, Begins, Follows
  <2>5. Section(results[i].name)' = Section(results'[i].name)
    BY <1>11, <1>13, <2>3, <2>4
  <2> QED BY <2>1, <2>2, <2>5 DEF Lists
<1>14. Underway'
  <2>1. n + 1 \in DOMAIN fed' /\ fed'[n + 1] = test_name'
        /\ \A j \in DOMAIN fed' : j > n + 1 => fed'[j] \notin Labels
    BY <1>1, <1>2
  <2>2. {results'[i].name : i \in DOMAIN results'} \cup {test_name'} = LabelsFed'
    BY <1>1, <1>2, <1>5
  <2>3. \A i \in DOMAIN results' : results'[i].body # test_body'
    BY <1>1, <1>3, <1>5, <1>9
  <2> QED BY <1>1, <1>3, <1>4, <1>5, <1>12, <1>13, <2>1, <2>2, <2>3 DEF Underway
<1> QED BY <1>1, <1>10, <1>14 DEF ParserInv

\* The end of a list.
LEMMA ListEnds ==
  ASSUME ParserInv, FishRecorded
  PROVE  ParserInv'
<1>1. /\ results' = Fished /\ fished' = fished + 1 /\ at_end' = TRUE
      /\ UNCHANGED <<begun, test_name, test_body, lineno, bodies, fed>>
      /\ TypeInv /\ fished \in Nat
  BY DEF FishRecorded, Fish, ParserInv, TypeInv
<1>2. LabelsFed' = LabelsFed /\ \A name : Section(name)' = Section(name)
  BY <1>1 DEF LabelsFed, Section, Begins, Follows
<1>3. CASE ~begun
  <2>1. Fresh /\ results' = results
    BY <1>1, <1>3 DEF ParserInv, Fresh, Fished
  <2> QED BY <1>1, <1>2, <1>3, <2>1 DEF ParserInv, TypeInv, Fresh
<1>4. CASE begun
  <2>1. Underway
    BY <1>4 DEF ParserInv
  <2>2. PICK k \in Nat :
          /\ k = Len(results) /\ DOMAIN results = 1 .. k /\ DOMAIN results' = 1 .. k + 1
          /\ Len(results') = k + 1 /\ results' # <<>>
          /\ results' \in Seq([name : Labels, body : Nat])
          /\ \A i \in 1 .. k : results'[i] = results[i]
          /\ results'[k + 1] = Result(test_name, test_body)
          /\ \A i \in 1 .. k : IsTest(i)' => IsTest(i) /\ results[i].name # test_name
          /\ {results'[i].name : i \in DOMAIN results'} = LabelsFed
    BY <1>1, <2>1, OneMore
  <2>3. results'[k + 1].name = test_name /\ results'[k + 1].body = test_body
    BY <2>2 DEF Result
  <2>4. /\ test_name \in Labels /\ test_name \in LabelsFed
        /\ test_body \in 1 .. Len(bodies) /\ fished' > 0
    BY <1>1, <2>1, ResultTypes DEF Underway
  <2>5. \A i \in 1 .. k + 1 :
          /\ results'[i].body \in 1 .. Len(bodies)
          /\ results'[i].body = test_body => results'[i].name = test_name
    <3>1. \A i \in 1 .. k :
            /\ results[i].body \in 1 .. Len(bodies)
            /\ results[i].body = test_body => results[i].name = test_name
      BY <1>1, <2>1, <2>2, ResultTypes DEF Underway
    <3> QED BY <2>2, <2>3, <2>4, <3>1
  <2>6. TypeInv'
    BY <1>1, <2>2, <2>5 DEF TypeInv
  <2>7. ASSUME NEW i \in 1 .. k + 1, IsTest(i)', results'[i].name # test_name
        PROVE  Lists(Body(results[i])', Section(results[i].name)')
    <3>1. i \in 1 .. k /\ IsTest(i) /\ results'[i] = results[i] /\ results[i].name # test_name
      BY <2>2, <2>3, <2>7
    <3>2. Lists(Body(results[i]), Section(results[i].name))
      BY <2>1, <2>2, <3>1 DEF Underway
    <3>3. Body(results[i])' = Body(results[i])
      BY <1>1, <3>1 DEF Body
    <3>4. PICK name : name = results[i].name /\ results'[i].name = name
      BY <3>1
    <3>5. Section(results[i].name)' = Section(name)'
      BY <3>4 DEF Section, Begins, Follows
    <3> QED BY <1>2, <3>2, <3>3, <3>4, <3>5 DEF Lists
  <2>8. Lists(bodies'[test_body'], Section(test_name)')
    <3>1. Section(test_name)' = Section(test_name)
      BY <1>1 DEF Section, Begins, Follows
    <3> QED BY <1>1, <2>1, <3>1 DEF Underway
  <2>9. Underway'
    BY <1>1, <1>2, <2>1, <2>2, <2>4, <2>5, <2>7, <2>8 DEF Underway
  <2> QED BY <1>1, <1>4, <2>6, <2>9 DEF ParserInv
<1> QED BY <1>3, <1>4

\* ParserInv is inductive.
LEMMA ParserStep == ParserInv /\ [StHistoryNext]_stHistoryVars => ParserInv'
<1> SUFFICES ASSUME ParserInv, [StHistoryNext]_stHistoryVars PROVE ParserInv'
  OBVIOUS
<1>1. CASE FishRecorded
  BY <1>1, ListEnds
<1>2. ASSUME NEW l \in Line, FeedRecorded(l) PROVE ParserInv'
  BY <1>2, PassedOver, StatementListed, FirstBegins, LabelEnds DEF FeedRecorded, Feed
<1>3. CASE UNCHANGED stHistoryVars
  <2>1. /\ fed' = fed /\ fished' = fished /\ at_end' = at_end /\ begun' = begun
        /\ test_name' = test_name /\ test_body' = test_body /\ lineno' = lineno
        /\ results' = results /\ bodies' = bodies
    BY <1>3 DEF stHistoryVars, parserVars
  <2>2. TypeInv' <=> TypeInv
    BY <2>1 DEF TypeInv
  <2>3. Fresh' <=> Fresh
    BY <2>1 DEF Fresh, LabelsFed
  <2>4. Underway' <=> Underway
    BY <2>1 DEF Underway, LabelsFed, Lists, Section, Begins, Follows, IsTest, Body, Result
  <2> QED BY <2>1, <2>2, <2>3, <2>4 DEF ParserInv
<1> QED BY <1>1, <1>2, <1>3 DEF StHistoryNext

\* At the end of a list the last result is that of the section the lines are in.
LEMMA AtEnd == ParserInv => TestsAreSections
<1> SUFFICES ASSUME ParserInv, at_end PROVE
      /\ {results[i].name : i \in DOMAIN results} = LabelsFed
      /\ \A i \in DOMAIN results : IsTest(i) => Lists(Body(results[i]), Section(results[i].name))
  BY DEF TestsAreSections
<1>1. CASE ~begun
  BY <1>1 DEF ParserInv, Fresh
<1>2. CASE begun
  <2>1. Underway /\ TypeInv
    BY <1>2 DEF ParserInv
  <2>2. PICK n \in Nat : n = Len(results) /\ DOMAIN results = 1 .. n
    BY <2>1, ResultTypes
  <2>3. n \in 1 .. n /\ results[n] = Result(test_name, test_body)
    BY <2>1, <2>2 DEF Underway, TypeInv
  <2>4. results[n].name = test_name /\ results[n].body = test_body
    BY <2>3 DEF Result
  <2>5. {results[i].name : i \in DOMAIN results} = LabelsFed
    BY <2>1, <2>2, <2>3, <2>4 DEF Underway
  <2>6. ASSUME NEW i \in DOMAIN results, IsTest(i)
        PROVE  Lists(Body(results[i]), Section(results[i].name))
    <3>1. CASE results[i].name = test_name
      <4>1. i = n
        BY <2>2, <2>3, <2>4, <2>6, <3>1 DEF IsTest
      <4> QED BY <2>1, <2>4, <4>1 DEF Underway, Body
    <3>2. CASE results[i].name # test_name
      BY <2>1, <2>6, <3>2 DEF Underway
    <3> QED BY <3>1, <3>2
  <2> QED BY <2>5, <2>6
<1> QED BY <1>1, <1>2

\* At the end of every list the tests are the sections of the lines so far, whatever
\* they are and however many: the body of each is its statements, in their order.
THEOREM ListsTheTests == StHistorySpec => []TestsAreSections
<1>1. StHistorySpec => []ParserInv
  BY InvInit, ParserStep, PTL DEF StHistorySpec
<1> QED BY <1>1, AtEnd, PTL

\* A step adds to results, and to no body that a result names but the last one's.
LEMMA KeepStep ==
  ASSUME ParserInv, StHistoryNext, NEW i \in DOMAIN results
  PROVE  /\ results'[i] = results[i]
         /\ Body(results[i])' # Body(results[i]) => results[i].body = test_body /\ fished > 0
<1>1. TypeInv /\ (~begun => Fresh) /\ (begun => Underway)
  BY DEF ParserInv
<1>2. PICK m \in Nat : m = Len(bodies) /\ DOMAIN bodies = 1 .. m /\ results[i].body \in 1 .. m
  BY <1>1, ResultTypes
<1>3. begun
  BY <1>1 DEF Fresh
<1>4. CASE bodies' = bodies /\ results'[i] = results[i]
  BY <1>4 DEF Body
<1>6. CASE FishRecorded
  <2>1. results' = Fished /\ bodies' = bodies
    BY <1>6 DEF FishRecorded, Fish
  <2>2. results'[i] = results[i]
    BY <1>1, <1>3, <2>1, OneMore
  <2> QED BY <1>4, <2>1, <2>2
<1>7. ASSUME NEW l \in Line, FeedRecorded(l)
      PROVE  /\ results'[i] = results[i]
             /\ Body(results[i])' # Body(results[i]) => results[i].body = test_body /\ fished > 0
  <2>1. CASE Skip(l) \/ Refuse(l)
    BY <1>4, <2>1 DEF Skip, Refuse
  <2>2. CASE Statement(l)
    <3>1. results' = results /\ bodies' = [bodies EXCEPT ![test_body] = Append(@, lineno')]
      BY <2>2 DEF Statement
    <3>2. results[i].body # test_body => bodies'[results[i].body] = bodies[results[i].body]
      BY <1>2, <3>1
    <3> QED BY <1>1, <1>3, <3>1, <3>2 DEF Body, Underway
  <2>3. CASE NextLabel(l)
    <3>1. results' = Fished /\ bodies' = Append(bodies, <<>>)
      BY <2>3 DEF NextLabel
    <3>2. results'[i] = results[i]
      BY <1>1, <1>3, <3>1, OneMore
    <3>3. bodies'[results[i].body] = bodies[results[i].body]
      <4>1. \A Ts : \A t \in Seq(Ts) : \A k \in DOMAIN t : Append(t, <<>>)[k] = t[k]
        OBVIOUS
      <4> QED BY <1>1, <1>2, <3>1, <4>1 DEF TypeInv
    <3> QED BY <3>2, <3>3 DEF Body
  <2> QED BY <1>3, <1>7, <2>1, <2>2, <2>3 DEF FeedRecorded, Feed, FirstLabel
<1> QED BY <1>6, <1>7 DEF StHistoryNext

\* No step changes a result, nor what it lists, but for the last one after the end of a
\* list: bodies are shared with the parser, but it adds only to its own.
THEOREM KeepsTheResults == StHistorySpec => ResultsKeep
<1>1. StHistorySpec => []ParserInv
  BY InvInit, ParserStep, PTL DEF StHistorySpec
<1>2. ParserInv /\ [StHistoryNext]_stHistoryVars =>
        [\A i \in DOMAIN results :
           /\ results'[i] = results[i]
           /\ Body(results[i])' # Body(results[i]) =>
                results[i].body = test_body /\ fished > 0]_stHistoryVars
  BY KeepStep
<1> QED BY <1>1, <1>2, PTL DEF StHistorySpec, ResultsKeep
-----------------------------------------------------------------------------
(* Texts. *)

\* A text is assembled with its operands in the places of the arguments.
LEMMA FromNone ==
  ASSUME NEW name, name # "LI", Insns[name].asm_args = <<>>
  PROVE  \E args : /\ DOMAIN args = {}
                   /\ FromText(Text(name, <<>>)) = <<value(Insns[name], args)>>
<1> DEFINE text == Text(name, <<>>)
           names == Insns[text.name].asm_args
           args == [e \in ToSet(names) |-> text.operands[CHOOSE i \in DOMAIN names : names[i] =
             e]]
<1>1. text.name = name /\ text.operands = <<>>
  BY DEF Text
<1>2. names = <<>> /\ Len(names) = 0 /\ Len(text.operands) = 0
  BY <1>1
<1>3. DOMAIN args = {}
  BY <1>2 DEF ToSet
<1>4. FromText(text) = <<value(Insns[name], args)>>
  BY <1>1, <1>2 DEF FromText, Assembled
<1> QED BY <1>3, <1>4

LEMMA FromOne ==
  ASSUME NEW name, name # "LI", NEW e1,
         Insns[name].asm_args = <<e1>>, NEW a
  PROVE  \E args : /\ DOMAIN args = {e1}
                   /\ args[e1] = a
                   /\ FromText(Text(name, <<a>>)) = <<value(Insns[name], args)>>
<1> DEFINE text == Text(name, <<a>>)
           names == Insns[text.name].asm_args
           at(e) == CHOOSE i \in DOMAIN names : names[i] = e
           args == [e \in ToSet(names) |-> text.operands[at(e)]]
<1>1. text.name = name /\ text.operands = <<a>>
  BY DEF Text
<1>2. names = <<e1>> /\ Len(names) = 1 /\ Len(text.operands) = 1 /\ DOMAIN names = 1 .. 1
  BY <1>1
<1>3. FromText(text) = <<value(Insns[name], args)>>
  BY <1>1, <1>2 DEF FromText, Assembled
<1>4. ToSet(names) = {e1}
  BY <1>2 DEF ToSet
<1>5. ASSUME NEW i \in 1 .. 1 PROVE at(names[i]) = i
  <2>1. \A j \in 1 .. 1 : names[j] = names[i] <=> j = i
    BY <1>2
  <2> QED BY <1>2, <2>1
<1>6. at(e1) = 1
  BY <1>2, <1>5
<1> HIDE DEF at, names
<1>7. DOMAIN args = {e1} /\ args[e1] = a
  BY <1>1, <1>4, <1>6
<1> QED BY <1>3, <1>7 DEF text

LEMMA FromTwo ==
  ASSUME NEW name, name # "LI", NEW e1, NEW e2, e1 # e2,
         Insns[name].asm_args = <<e1, e2>>, NEW a, NEW b
  PROVE  \E args : /\ DOMAIN args = {e1, e2}
                   /\ args[e1] = a /\ args[e2] = b
                   /\ FromText(Text(name, <<a, b>>)) = <<value(Insns[name], args)>>
<1> DEFINE text == Text(name, <<a, b>>)
           names == Insns[text.name].asm_args
           at(e) == CHOOSE i \in DOMAIN names : names[i] = e
           args == [e \in ToSet(names) |-> text.operands[at(e)]]
<1>1. text.name = name /\ text.operands = <<a, b>>
  BY DEF Text
<1>2. names = <<e1, e2>> /\ Len(names) = 2 /\ Len(text.operands) = 2 /\ DOMAIN names = 1 .. 2
  BY <1>1
<1>3. FromText(text) = <<value(Insns[name], args)>>
  BY <1>1, <1>2 DEF FromText, Assembled
<1>4. ToSet(names) = {e1, e2}
  BY <1>2 DEF ToSet
<1>5. ASSUME NEW i \in 1 .. 2 PROVE at(names[i]) = i
  <2>1. \A j \in 1 .. 2 : names[j] = names[i] <=> j = i
    BY <1>2
  <2> QED BY <1>2, <2>1
<1>6. at(e1) = 1 /\ at(e2) = 2
  BY <1>2, <1>5
<1> HIDE DEF at, names
<1>7. DOMAIN args = {e1, e2} /\ args[e1] = a /\ args[e2] = b
  BY <1>1, <1>4, <1>6
<1> QED BY <1>3, <1>7 DEF text

LEMMA FromThree ==
  ASSUME NEW name, name # "LI", NEW e1, NEW e2, NEW e3, e1 # e2, e1 # e3, e2 # e3,
         Insns[name].asm_args = <<e1, e2, e3>>, NEW a, NEW b, NEW c
  PROVE  \E args : /\ DOMAIN args = {e1, e2, e3}
                   /\ args[e1] = a /\ args[e2] = b /\ args[e3] = c
                   /\ FromText(Text(name, <<a, b, c>>)) = <<value(Insns[name], args)>>
<1> DEFINE text == Text(name, <<a, b, c>>)
           names == Insns[text.name].asm_args
           at(e) == CHOOSE i \in DOMAIN names : names[i] = e
           args == [e \in ToSet(names) |-> text.operands[at(e)]]
<1>1. text.name = name /\ text.operands = <<a, b, c>>
  BY DEF Text
<1>2. names = <<e1, e2, e3>> /\ Len(names) = 3 /\ Len(text.operands) = 3 /\ DOMAIN names = 1 .. 3
  BY <1>1
<1>3. FromText(text) = <<value(Insns[name], args)>>
  BY <1>1, <1>2 DEF FromText, Assembled
<1>4. ToSet(names) = {e1, e2, e3}
  BY <1>2 DEF ToSet
<1>5. ASSUME NEW i \in 1 .. 3 PROVE at(names[i]) = i
  <2>1. \A j \in 1 .. 3 : names[j] = names[i] <=> j = i
    BY <1>2
  <2> QED BY <1>2, <2>1
<1>6. at(e1) = 1 /\ at(e2) = 2 /\ at(e3) = 3
  BY <1>2, <1>5
<1> HIDE DEF at, names
<1>7. DOMAIN args = {e1, e2, e3} /\ args[e1] = a /\ args[e2] = b /\ args[e3] = c
  BY <1>1, <1>4, <1>6
<1> QED BY <1>3, <1>7 DEF text

-----------------------------------------------------------------------------
\* The word is assembled again from a text with its fields.
LEMMA OpFrom ==
  ASSUME NEW name \in {"ADD", "SLL", "SLT", "SLTU", "XOR", "SRL", "OR", "AND"}, NEW rd,
         NEW rs1, NEW rs2
  PROVE  \E args : /\ DOMAIN args = {"rd", "rs1", "rs2"}
                   /\ args["rd"] = rd
                   /\ args["rs1"] = rs1
                   /\ args["rs2"] = rs2
                   /\ FromText(Text(name, <<rd, rs1, rs2>>)) = <<value(Insns[name], args)>>
<1>1. Insns[name].asm_args = <<"rd", "rs1", "rs2">> /\ name # "LI"
  BY OpNamed
<1> QED BY <1>1, FromThree

LEMMA OpAgain ==
  ASSUME NEW name \in {"ADD", "SLL", "SLT", "SLTU", "XOR", "SRL", "OR", "AND"},
         NEW word \in SUBSET (0 .. 31), NEW rd, rd = Extract(word, <<7, 12>>),
         NEW rs1, rs1 = Extract(word, <<15, 20>>), NEW rs2, rs2 = Extract(word, <<20, 25>>),
         Extract(word, <<0, 7>>) = 51, Extract(word, <<12, 15>>) = Funct3[name],
         Extract(word, <<25, 32>>) = 0
  PROVE  FromText(Text(name, <<rd, rs1, rs2>>)) = <<word>>
<1>1. PICK funct3 : funct3 = Funct3[name]
  OBVIOUS
<1>2. Insns[name] = Op(funct3, 0) /\ Insns[name].asm_args = <<"rd", "rs1", "rs2">> /\ name # "LI"
  BY <1>1, OpNamed
<1>3. PICK args :
        /\ DOMAIN args = {"rd", "rs1", "rs2"}
        /\ args["rd"] = rd
        /\ args["rs1"] = rs1
        /\ args["rs2"] = rs2
        /\ FromText(Text(name, <<rd, rs1, rs2>>)) = <<value(Insns[name], args)>>
  BY OpFrom
<1>4. /\ Extract(word, <<0, 7>>) \in Nat /\ Extract(word, <<0, 7>>) < 128
      /\ Extract(word, <<7, 12>>) \in Nat /\ Extract(word, <<7, 12>>) < 32
      /\ Extract(word, <<12, 15>>) \in Nat /\ Extract(word, <<12, 15>>) < 8
      /\ Extract(word, <<15, 20>>) \in Nat /\ Extract(word, <<15, 20>>) < 32
      /\ Extract(word, <<20, 25>>) \in Nat /\ Extract(word, <<20, 25>>) < 32
      /\ Extract(word, <<25, 32>>) \in Nat /\ Extract(word, <<25, 32>>) < 128
  BY SMT, FieldRange
<1>5. value(Op(funct3, 0), args) =
        RWord(51, args["rd"], funct3, args["rs1"], args["rs2"], 0)
  BY <1>3, OpValue
<1>6. value(Op(funct3, 0), args) =
        RWord(51, rd, funct3, rs1, rs2, 0)
  BY <1>5, <1>3
<1>7. /\ (51 % 128) = Extract(word, <<0, 7>>)
      /\ (rd % 32) = Extract(word, <<7, 12>>)
      /\ (funct3 % 8) = Extract(word, <<12, 15>>)
      /\ (rs1 % 32) = Extract(word, <<15, 20>>)
      /\ (rs2 % 32) = Extract(word, <<20, 25>>)
      /\ (0 % 128) = Extract(word, <<25, 32>>)
  BY SMT, <1>1, <1>4
<1>8. /\ 51 \in Int
      /\ rd \in Int
      /\ funct3 \in Int
      /\ rs1 \in Int
      /\ rs2 \in Int
      /\ 0 \in Int
  BY SMT, <1>1, <1>4
<1>9. RWord(51, rd, funct3, rs1, rs2, 0) = word
  BY <1>7, <1>8, ROfFields
<1> QED BY <1>2, <1>3, <1>6, <1>9

LEMMA OpNegateFrom ==
  ASSUME NEW name \in {"SUB", "SRA"}, NEW rd, NEW rs1, NEW rs2
  PROVE  \E args : /\ DOMAIN args = {"rd", "rs1", "rs2"}
                   /\ args["rd"] = rd
                   /\ args["rs1"] = rs1
                   /\ args["rs2"] = rs2
                   /\ FromText(Text(name, <<rd, rs1, rs2>>)) = <<value(Insns[name], args)>>
<1>1. Insns[name].asm_args = <<"rd", "rs1", "rs2">> /\ name # "LI"
  BY OpNegateNamed
<1> QED BY <1>1, FromThree

LEMMA OpNegateAgain ==
  ASSUME NEW name \in {"SUB", "SRA"}, NEW word \in SUBSET (0 .. 31),
         NEW rd, rd = Extract(word, <<7, 12>>), NEW rs1, rs1 = Extract(word, <<15, 20>>),
         NEW rs2, rs2 = Extract(word, <<20, 25>>), Extract(word, <<0, 7>>) = 51,
         Extract(word, <<12, 15>>) = Funct3[name], Extract(word, <<25, 32>>) = 32
  PROVE  FromText(Text(name, <<rd, rs1, rs2>>)) = <<word>>
<1>1. PICK funct3 : funct3 = Funct3[name]
  OBVIOUS
<1>2. Insns[name] = Op(funct3, F7Negate) /\ Insns[name].asm_args = <<"rd", "rs1", "rs2">> /\
        name # "LI"
  BY <1>1, OpNegateNamed
<1>3. PICK args :
        /\ DOMAIN args = {"rd", "rs1", "rs2"}
        /\ args["rd"] = rd
        /\ args["rs1"] = rs1
        /\ args["rs2"] = rs2
        /\ FromText(Text(name, <<rd, rs1, rs2>>)) = <<value(Insns[name], args)>>
  BY OpNegateFrom
<1>4. /\ Extract(word, <<0, 7>>) \in Nat /\ Extract(word, <<0, 7>>) < 128
      /\ Extract(word, <<7, 12>>) \in Nat /\ Extract(word, <<7, 12>>) < 32
      /\ Extract(word, <<12, 15>>) \in Nat /\ Extract(word, <<12, 15>>) < 8
      /\ Extract(word, <<15, 20>>) \in Nat /\ Extract(word, <<15, 20>>) < 32
      /\ Extract(word, <<20, 25>>) \in Nat /\ Extract(word, <<20, 25>>) < 32
      /\ Extract(word, <<25, 32>>) \in Nat /\ Extract(word, <<25, 32>>) < 128
  BY SMT, FieldRange
<1>5. value(Op(funct3, F7Negate), args) =
        RWord(51, args["rd"], funct3, args["rs1"], args["rs2"], 32)
  BY <1>3, OpNegateValue
<1>6. value(Op(funct3, F7Negate), args) =
        RWord(51, rd, funct3, rs1, rs2, 32)
  BY <1>5, <1>3
<1>7. /\ (51 % 128) = Extract(word, <<0, 7>>)
      /\ (rd % 32) = Extract(word, <<7, 12>>)
      /\ (funct3 % 8) = Extract(word, <<12, 15>>)
      /\ (rs1 % 32) = Extract(word, <<15, 20>>)
      /\ (rs2 % 32) = Extract(word, <<20, 25>>)
      /\ (32 % 128) = Extract(word, <<25, 32>>)
  BY SMT, <1>1, <1>4
<1>8. /\ 51 \in Int
      /\ rd \in Int
      /\ funct3 \in Int
      /\ rs1 \in Int
      /\ rs2 \in Int
      /\ 32 \in Int
  BY SMT, <1>1, <1>4
<1>9. RWord(51, rd, funct3, rs1, rs2, 32) = word
  BY <1>7, <1>8, ROfFields
<1> QED BY <1>2, <1>3, <1>6, <1>9

LEMMA OpImmFrom ==
  ASSUME NEW name \in {"ADDI", "SLTI", "SLTIU", "XORI", "ORI", "ANDI"}, NEW rd, NEW rs1, NEW imm
  PROVE  \E args : /\ DOMAIN args = {"rd", "rs1", "imm"}
                   /\ args["rd"] = rd
                   /\ args["rs1"] = rs1
                   /\ args["imm"] = imm
                   /\ FromText(Text(name, <<rd, rs1, imm>>)) = <<value(Insns[name], args)>>
<1>1. Insns[name].asm_args = <<"rd", "rs1", "imm">> /\ name # "LI"
  BY OpImmNamed
<1> QED BY <1>1, FromThree

LEMMA OpImmAgain ==
  ASSUME NEW name \in {"ADDI", "SLTI", "SLTIU", "XORI", "ORI", "ANDI"},
         NEW word \in SUBSET (0 .. 31), NEW rd, rd = Extract(word, <<7, 12>>),
         NEW rs1, rs1 = Extract(word, <<15, 20>>), NEW imm \in Int,
         (imm % 4096) = Extract(word, <<20, 32>>), Extract(word, <<0, 7>>) = 19,
         Extract(word, <<12, 15>>) = Funct3[name]
  PROVE  FromText(Text(name, <<rd, rs1, imm>>)) = <<word>>
<1>1. PICK funct3 : funct3 = Funct3[name]
  OBVIOUS
<1>2. Insns[name] = OpImm(funct3) /\ Insns[name].asm_args = <<"rd", "rs1", "imm">> /\ name # "LI"
  BY <1>1, OpImmNamed
<1>3. PICK args :
        /\ DOMAIN args = {"rd", "rs1", "imm"}
        /\ args["rd"] = rd
        /\ args["rs1"] = rs1
        /\ args["imm"] = imm
        /\ FromText(Text(name, <<rd, rs1, imm>>)) = <<value(Insns[name], args)>>
  BY OpImmFrom
<1>4. /\ Extract(word, <<0, 7>>) \in Nat /\ Extract(word, <<0, 7>>) < 128
      /\ Extract(word, <<7, 12>>) \in Nat /\ Extract(word, <<7, 12>>) < 32
      /\ Extract(word, <<12, 15>>) \in Nat /\ Extract(word, <<12, 15>>) < 8
      /\ Extract(word, <<15, 20>>) \in Nat /\ Extract(word, <<15, 20>>) < 32
      /\ Extract(word, <<20, 32>>) \in Nat /\ Extract(word, <<20, 32>>) < 4096
  BY SMT, FieldRange
<1>5. value(OpImm(funct3), args) =
        IWord(19, args["rd"], funct3, args["rs1"], args["imm"])
  BY <1>3, OpImmValue
<1>6. value(OpImm(funct3), args) =
        IWord(19, rd, funct3, rs1, imm)
  BY <1>5, <1>3
<1>7. /\ (19 % 128) = Extract(word, <<0, 7>>)
      /\ (rd % 32) = Extract(word, <<7, 12>>)
      /\ (funct3 % 8) = Extract(word, <<12, 15>>)
      /\ (rs1 % 32) = Extract(word, <<15, 20>>)
      /\ (imm % 4096) = Extract(word, <<20, 32>>)
  BY SMT, <1>1, <1>4
<1>8. /\ 19 \in Int
      /\ rd \in Int
      /\ funct3 \in Int
      /\ rs1 \in Int
      /\ imm \in Int
  BY SMT, <1>1, <1>4
<1>9. IWord(19, rd, funct3, rs1, imm) = word
  BY <1>7, <1>8, IOfFields
<1> QED BY <1>2, <1>3, <1>6, <1>9

LEMMA ShiftFrom ==
  ASSUME NEW name \in {"SLLI", "SRLI", "SRAI"}, NEW rd, NEW rs1, NEW shamt
  PROVE  \E args : /\ DOMAIN args = {"rd", "rs1", "shamt"}
                   /\ args["rd"] = rd
                   /\ args["rs1"] = rs1
                   /\ args["shamt"] = shamt
                   /\ FromText(Text(name, <<rd, rs1, shamt>>)) = <<value(Insns[name], args)>>
<1>1. Insns[name].asm_args = <<"rd", "rs1", "shamt">> /\ name # "LI"
  BY ShiftNamed
<1> QED BY <1>1, FromThree

ShamtIs(name, shamt, word) ==
  ((IF name = "SRAI" THEN 1024 ELSE 0) + shamt) = Extract(word, <<20, 32>>)

ShiftSaid(name, word, rd, rs1, shamt) ==
  /\ name \in {"SLLI", "SRLI", "SRAI"} /\ word \in SUBSET (0 .. 31)
  /\ rd = Extract(word, <<7, 12>>) /\ rs1 = Extract(word, <<15, 20>>)
  /\ shamt \in 0 .. 31 /\ ShamtIs(name, shamt, word) /\ Extract(word, <<0, 7>>) = 19
  /\ Extract(word, <<12, 15>>) = Funct3[name]
  => FromText(Text(name, <<rd, rs1, shamt>>)) = <<word>>

LEMMA ShiftAgain ==
  ASSUME NEW name, NEW word, NEW rd, NEW rs1, NEW shamt
  PROVE  ShiftSaid(name, word, rd, rs1, shamt)
<1> SUFFICES ASSUME name \in {"SLLI", "SRLI", "SRAI"}, word \in SUBSET (0 .. 31),
         rd = Extract(word, <<7, 12>>), rs1 = Extract(word, <<15, 20>>),
         shamt \in 0 .. 31, ShamtIs(name, shamt, word), Extract(word, <<0, 7>>) = 19,
         Extract(word, <<12, 15>>) = Funct3[name]
    PROVE  FromText(Text(name, <<rd, rs1, shamt>>)) = <<word>>
  BY Zenon DEF ShiftSaid
<1>1. PICK funct3, p : funct3 = Funct3[name] /\ p = (IF name = "SRAI" THEN F7Negate ELSE 0)
  OBVIOUS
<1>2. Insns[name] = Shift(funct3, p) /\ Insns[name].asm_args = <<"rd", "rs1", "shamt">> /\
        name # "LI"
  BY <1>1, ShiftNamed
<1>3. PICK args :
        /\ DOMAIN args = {"rd", "rs1", "shamt"}
        /\ args["rd"] = rd
        /\ args["rs1"] = rs1
        /\ args["shamt"] = shamt
        /\ FromText(Text(name, <<rd, rs1, shamt>>)) = <<value(Insns[name], args)>>
  BY ShiftFrom
<1>4. /\ Extract(word, <<0, 7>>) \in Nat /\ Extract(word, <<0, 7>>) < 128
      /\ Extract(word, <<7, 12>>) \in Nat /\ Extract(word, <<7, 12>>) < 32
      /\ Extract(word, <<12, 15>>) \in Nat /\ Extract(word, <<12, 15>>) < 8
      /\ Extract(word, <<15, 20>>) \in Nat /\ Extract(word, <<15, 20>>) < 32
      /\ Extract(word, <<20, 32>>) \in Nat /\ Extract(word, <<20, 32>>) < 4096
  BY SMT, FieldRange
<1>5. value(Shift(funct3, p), args) =
        IWord(19, args["rd"], funct3, args["rs1"], p * 32 + args["shamt"])
  BY <1>3, ShiftValue
<1>6. value(Shift(funct3, p), args) =
        IWord(19, rd, funct3, rs1, p * 32 + shamt)
  BY <1>5, <1>3
<1>7. /\ (19 % 128) = Extract(word, <<0, 7>>)
      /\ (rd % 32) = Extract(word, <<7, 12>>)
      /\ (funct3 % 8) = Extract(word, <<12, 15>>)
      /\ (rs1 % 32) = Extract(word, <<15, 20>>)
      /\ ((p * 32 + shamt) % 4096) = Extract(word, <<20, 32>>)
  BY SMT, <1>1, <1>4 DEF F7Negate, ShamtIs
<1>8. /\ 19 \in Int
      /\ rd \in Int
      /\ funct3 \in Int
      /\ rs1 \in Int
      /\ (p * 32 + shamt) \in Int
  BY SMT, <1>1, <1>4 DEF F7Negate
<1>9. IWord(19, rd, funct3, rs1, p * 32 + shamt) = word
  BY <1>7, <1>8, IOfFields
<1> QED BY <1>2, <1>3, <1>6, <1>9

LEMMA LoadFrom ==
  ASSUME NEW name \in {"LB", "LH", "LW", "LBU", "LHU"}, NEW rd, NEW pair
  PROVE  \E args : /\ DOMAIN args = {"rd", "rs1off"}
                   /\ args["rd"] = rd
                   /\ args["rs1off"] = pair
                   /\ FromText(Text(name, <<rd, pair>>)) = <<value(Insns[name], args)>>
<1>1. Insns[name].asm_args = <<"rd", "rs1off">> /\ name # "LI"
  BY LoadNamed
<1> QED BY <1>1, FromTwo

LEMMA LoadAgain ==
  ASSUME NEW name \in {"LB", "LH", "LW", "LBU", "LHU"}, NEW word \in SUBSET (0 .. 31),
         NEW rd, rd = Extract(word, <<7, 12>>), NEW rs1, rs1 = Extract(word, <<15, 20>>),
         NEW off \in Int, NEW pair, pair = <<off, rs1>>,
         (off % 4096) = Extract(word, <<20, 32>>), Extract(word, <<0, 7>>) = 3,
         Extract(word, <<12, 15>>) = Funct3[name]
  PROVE  FromText(Text(name, <<rd, pair>>)) = <<word>>
<1>1. PICK funct3 : funct3 = Funct3[name]
  OBVIOUS
<1>2. Insns[name] = Load(funct3) /\ Insns[name].asm_args = <<"rd", "rs1off">> /\ name # "LI"
  BY <1>1, LoadNamed
<1>3. PICK args :
        /\ DOMAIN args = {"rd", "rs1off"}
        /\ args["rd"] = rd
        /\ args["rs1off"] = pair
        /\ FromText(Text(name, <<rd, pair>>)) = <<value(Insns[name], args)>>
  BY LoadFrom
<1>4. /\ Extract(word, <<0, 7>>) \in Nat /\ Extract(word, <<0, 7>>) < 128
      /\ Extract(word, <<7, 12>>) \in Nat /\ Extract(word, <<7, 12>>) < 32
      /\ Extract(word, <<12, 15>>) \in Nat /\ Extract(word, <<12, 15>>) < 8
      /\ Extract(word, <<15, 20>>) \in Nat /\ Extract(word, <<15, 20>>) < 32
      /\ Extract(word, <<20, 32>>) \in Nat /\ Extract(word, <<20, 32>>) < 4096
  BY SMT, FieldRange
<1>5. value(Load(funct3), args) =
        IWord(3, args["rd"], funct3, args["rs1off"][2], args["rs1off"][1])
  BY <1>3, LoadValue
<1>6. value(Load(funct3), args) =
        IWord(3, rd, funct3, rs1, off)
  BY <1>5, <1>3
<1>7. /\ (3 % 128) = Extract(word, <<0, 7>>)
      /\ (rd % 32) = Extract(word, <<7, 12>>)
      /\ (funct3 % 8) = Extract(word, <<12, 15>>)
      /\ (rs1 % 32) = Extract(word, <<15, 20>>)
      /\ (off % 4096) = Extract(word, <<20, 32>>)
  BY SMT, <1>1, <1>4
<1>8. /\ 3 \in Int
      /\ rd \in Int
      /\ funct3 \in Int
      /\ rs1 \in Int
      /\ off \in Int
  BY SMT, <1>1, <1>4
<1>9. IWord(3, rd, funct3, rs1, off) = word
  BY <1>7, <1>8, IOfFields
<1> QED BY <1>2, <1>3, <1>6, <1>9

LEMMA FenceFrom ==
  ASSUME NEW name \in {"FENCE"}, NEW pred, NEW succ
  PROVE  \E args : /\ DOMAIN args = {"pred", "succ"}
                   /\ args["pred"] = pred
                   /\ args["succ"] = succ
                   /\ FromText(Text(name, <<pred, succ>>)) = <<value(Insns[name], args)>>
<1>1. Insns[name].asm_args = <<"pred", "succ">> /\ name # "LI"
  BY FenceNamed
<1> QED BY <1>1, FromTwo

LEMMA FenceAgain ==
  ASSUME NEW name \in {"FENCE"}, NEW word \in SUBSET (0 .. 31), NEW pred, pred # {},
         NEW succ, succ # {},
         fence_arg(succ) \in 0 .. 15, fence_arg(pred) \in 0 .. 15,
           (fence_arg(succ) + 16 * fence_arg(pred)) = Extract(word, <<20, 32>>),
         Extract(word, <<0, 7>>) = 15, Extract(word, <<7, 12>>) = 0,
         Extract(word, <<12, 15>>) = 0, Extract(word, <<15, 20>>) = 0
  PROVE  FromText(Text(name, <<pred, succ>>)) = <<word>>
<1>1. Insns[name] = Fence(0) /\ Insns[name].asm_args = <<"pred", "succ">> /\ name # "LI"
  BY FenceNamed
<1>2. PICK args :
        /\ DOMAIN args = {"pred", "succ"}
        /\ args["pred"] = pred
        /\ args["succ"] = succ
        /\ FromText(Text(name, <<pred, succ>>)) = <<value(Insns[name], args)>>
  BY FenceFrom
<1>3. /\ Extract(word, <<0, 7>>) \in Nat /\ Extract(word, <<0, 7>>) < 128
      /\ Extract(word, <<7, 12>>) \in Nat /\ Extract(word, <<7, 12>>) < 32
      /\ Extract(word, <<12, 15>>) \in Nat /\ Extract(word, <<12, 15>>) < 8
      /\ Extract(word, <<15, 20>>) \in Nat /\ Extract(word, <<15, 20>>) < 32
      /\ Extract(word, <<20, 32>>) \in Nat /\ Extract(word, <<20, 32>>) < 4096
  BY SMT, FieldRange
<1>4. value(Fence(0), args) =
        IWord(15, 0, 0, 0, fence_arg(args["succ"]) + 16 * fence_arg(args["pred"]) + 256 * 0)
  BY <1>2, FenceValue
<1>5. value(Fence(0), args) =
        IWord(15, 0, 0, 0, fence_arg(succ) + 16 * fence_arg(pred) + 256 * 0)
  BY <1>4, <1>2
<1>6. /\ (15 % 128) = Extract(word, <<0, 7>>)
      /\ (0 % 32) = Extract(word, <<7, 12>>)
      /\ (0 % 8) = Extract(word, <<12, 15>>)
      /\ (0 % 32) = Extract(word, <<15, 20>>)
      /\ ((fence_arg(succ) + 16 * fence_arg(pred) + 256 * 0) % 4096) = Extract(word, <<20, 32>>)
  BY SMT, <1>3
<1>7. /\ 15 \in Int
      /\ 0 \in Int
      /\ 0 \in Int
      /\ 0 \in Int
      /\ (fence_arg(succ) + 16 * fence_arg(pred) + 256 * 0) \in Int
  BY SMT, <1>3
<1>8. IWord(15, 0, 0, 0, fence_arg(succ) + 16 * fence_arg(pred) + 256 * 0) = word
  BY <1>6, <1>7, IOfFields
<1> QED BY <1>1, <1>2, <1>5, <1>8

LEMMA SystemFrom ==
  ASSUME NEW name \in {"ECALL", "EBREAK"}
  PROVE  \E args : /\ DOMAIN args = {}
                   /\ FromText(Text(name, <<>>)) = <<value(Insns[name], args)>>
<1>1. Insns[name].asm_args = <<>> /\ name # "LI"
  BY SystemNamed
<1> QED BY <1>1, FromNone

LEMMA SystemAgain ==
  ASSUME NEW name \in {"ECALL", "EBREAK"}, NEW word \in SUBSET (0 .. 31),
         Extract(word, <<0, 7>>) = 115, Extract(word, <<7, 12>>) = 0,
         Extract(word, <<12, 15>>) = 0, Extract(word, <<15, 20>>) = 0,
         Extract(word, <<20, 32>>) = (IF name = "ECALL" THEN 0 ELSE 1)
  PROVE  FromText(Text(name, <<>>)) = <<word>>
<1>1. PICK funct : funct = (IF name = "ECALL" THEN 0 ELSE 8)
  OBVIOUS
<1>2. Insns[name] = System(funct) /\ Insns[name].asm_args = <<>> /\ name # "LI"
  BY <1>1, SystemNamed
<1>3. PICK args :
        /\ DOMAIN args = {}
        /\ FromText(Text(name, <<>>)) = <<value(Insns[name], args)>>
  BY SystemFrom
<1>4. /\ Extract(word, <<0, 7>>) \in Nat /\ Extract(word, <<0, 7>>) < 128
      /\ Extract(word, <<7, 12>>) \in Nat /\ Extract(word, <<7, 12>>) < 32
      /\ Extract(word, <<12, 15>>) \in Nat /\ Extract(word, <<12, 15>>) < 8
      /\ Extract(word, <<15, 20>>) \in Nat /\ Extract(word, <<15, 20>>) < 32
      /\ Extract(word, <<20, 32>>) \in Nat /\ Extract(word, <<20, 32>>) < 4096
  BY SMT, FieldRange
<1>5. value(System(funct), args) =
        IWord(115, 0, funct % 8, 0, funct \div 8)
  BY <1>3, SystemValue
<1>6. /\ (115 % 128) = Extract(word, <<0, 7>>)
      /\ (0 % 32) = Extract(word, <<7, 12>>)
      /\ ((funct % 8) % 8) = Extract(word, <<12, 15>>)
      /\ (0 % 32) = Extract(word, <<15, 20>>)
      /\ ((funct \div 8) % 4096) = Extract(word, <<20, 32>>)
  BY SMT, <1>1, <1>4
<1>7. /\ 115 \in Int
      /\ 0 \in Int
      /\ (funct % 8) \in Int
      /\ 0 \in Int
      /\ (funct \div 8) \in Int
  BY SMT, <1>1, <1>4
<1>8. IWord(115, 0, funct % 8, 0, funct \div 8) = word
  BY <1>6, <1>7, IOfFields
<1> QED BY <1>2, <1>3, <1>5, <1>8

LEMMA StoreFrom ==
  ASSUME NEW name \in {"SB", "SH", "SW"}, NEW rs2, NEW pair
  PROVE  \E args : /\ DOMAIN args = {"rs2", "rs1off"}
                   /\ args["rs2"] = rs2
                   /\ args["rs1off"] = pair
                   /\ FromText(Text(name, <<rs2, pair>>)) = <<value(Insns[name], args)>>
<1>1. Insns[name].asm_args = <<"rs2", "rs1off">> /\ name # "LI"
  BY StoreNamed
<1> QED BY <1>1, FromTwo

LEMMA StoreAgain ==
  ASSUME NEW name \in {"SB", "SH", "SW"}, NEW word \in SUBSET (0 .. 31),
         NEW rs2, rs2 = Extract(word, <<20, 25>>), NEW rs1, rs1 = Extract(word, <<15, 20>>),
         NEW off \in Int, NEW pair, pair = <<off, rs1>>,
         (((off \div 1) % 32) % 32) = Extract(word, <<7, 12>>),
         (((off \div 32) % 128) % 128) = Extract(word, <<25, 32>>),
         Extract(word, <<0, 7>>) = 35, Extract(word, <<12, 15>>) = Funct3[name]
  PROVE  FromText(Text(name, <<rs2, pair>>)) = <<word>>
<1>1. PICK funct3 : funct3 = Funct3[name]
  OBVIOUS
<1>2. Insns[name] = Store(funct3) /\ Insns[name].asm_args = <<"rs2", "rs1off">> /\ name # "LI"
  BY <1>1, StoreNamed
<1>3. PICK args :
        /\ DOMAIN args = {"rs2", "rs1off"}
        /\ args["rs2"] = rs2
        /\ args["rs1off"] = pair
        /\ FromText(Text(name, <<rs2, pair>>)) = <<value(Insns[name], args)>>
  BY StoreFrom
<1>4. /\ Extract(word, <<0, 7>>) \in Nat /\ Extract(word, <<0, 7>>) < 128
      /\ Extract(word, <<7, 12>>) \in Nat /\ Extract(word, <<7, 12>>) < 32
      /\ Extract(word, <<12, 15>>) \in Nat /\ Extract(word, <<12, 15>>) < 8
      /\ Extract(word, <<15, 20>>) \in Nat /\ Extract(word, <<15, 20>>) < 32
      /\ Extract(word, <<20, 25>>) \in Nat /\ Extract(word, <<20, 25>>) < 32
      /\ Extract(word, <<25, 32>>) \in Nat /\ Extract(word, <<25, 32>>) < 128
  BY SMT, FieldRange
<1>5. value(Store(funct3), args) =
        SWord(35, (args["rs1off"][1] \div 1) % 32, funct3, args["rs1off"][2], args["rs2"],
        (args["rs1off"][1] \div 32) % 128)
  BY <1>3, StoreValue
<1>6. value(Store(funct3), args) =
        SWord(35, (off \div 1) % 32, funct3, rs1, rs2, (off \div 32) % 128)
  BY <1>5, <1>3
<1>7. /\ (35 % 128) = Extract(word, <<0, 7>>)
      /\ (funct3 % 8) = Extract(word, <<12, 15>>)
      /\ (rs1 % 32) = Extract(word, <<15, 20>>)
      /\ (rs2 % 32) = Extract(word, <<20, 25>>)
  BY SMT, <1>1, <1>4
<1>8. /\ 35 \in Int
      /\ ((off \div 1) % 32) \in Int
      /\ funct3 \in Int
      /\ rs1 \in Int
      /\ rs2 \in Int
      /\ ((off \div 32) % 128) \in Int
  BY SMT, <1>1, <1>4
<1>9. SWord(35, (off \div 1) % 32, funct3, rs1, rs2, (off \div 32) % 128) = word
  BY <1>7, <1>8, SOfFields
<1> QED BY <1>2, <1>3, <1>6, <1>9

LEMMA BranchFrom ==
  ASSUME NEW name \in {"BEQ", "BNE", "BLT", "BGE", "BLTU", "BGEU"}, NEW rs1, NEW rs2, NEW imm
  PROVE  \E args : /\ DOMAIN args = {"rs1", "rs2", "imm"}
                   /\ args["rs1"] = rs1
                   /\ args["rs2"] = rs2
                   /\ args["imm"] = imm
                   /\ FromText(Text(name, <<rs1, rs2, imm>>)) = <<value(Insns[name], args)>>
<1>1. Insns[name].asm_args = <<"rs1", "rs2", "imm">> /\ name # "LI"
  BY BranchNamed
<1> QED BY <1>1, FromThree

LEMMA BranchAgain ==
  ASSUME NEW name \in {"BEQ", "BNE", "BLT", "BGE", "BLTU", "BGEU"},
         NEW word \in SUBSET (0 .. 31), NEW rs1, rs1 = Extract(word, <<15, 20>>),
         NEW rs2, rs2 = Extract(word, <<20, 25>>), NEW imm \in Int,
         (((imm \div 2048) % 2) % 2) = Extract(word, <<7, 8>>),
         (((imm \div 2) % 16) % 16) = Extract(word, <<8, 12>>),
         (((imm \div 32) % 64) % 64) = Extract(word, <<25, 31>>),
         (((imm \div 4096) % 2) % 2) = Extract(word, <<31, 32>>), Extract(word, <<0, 7>>) = 99,
         Extract(word, <<12, 15>>) = Funct3[name]
  PROVE  FromText(Text(name, <<rs1, rs2, imm>>)) = <<word>>
<1>1. PICK funct3 : funct3 = Funct3[name]
  BY SMT
<1>2. Insns[name] = Branch(funct3) /\ Insns[name].asm_args = <<"rs1", "rs2", "imm">> /\
        name # "LI"
  BY SMT, <1>1, BranchNamed
<1>3. PICK args :
        /\ DOMAIN args = {"rs1", "rs2", "imm"}
        /\ args["rs1"] = rs1
        /\ args["rs2"] = rs2
        /\ args["imm"] = imm
        /\ FromText(Text(name, <<rs1, rs2, imm>>)) = <<value(Insns[name], args)>>
  BY BranchFrom
<1>4. /\ Extract(word, <<0, 7>>) \in Nat /\ Extract(word, <<0, 7>>) < 128
      /\ Extract(word, <<7, 8>>) \in Nat /\ Extract(word, <<7, 8>>) < 2
      /\ Extract(word, <<8, 12>>) \in Nat /\ Extract(word, <<8, 12>>) < 16
      /\ Extract(word, <<12, 15>>) \in Nat /\ Extract(word, <<12, 15>>) < 8
      /\ Extract(word, <<15, 20>>) \in Nat /\ Extract(word, <<15, 20>>) < 32
      /\ Extract(word, <<20, 25>>) \in Nat /\ Extract(word, <<20, 25>>) < 32
      /\ Extract(word, <<25, 31>>) \in Nat /\ Extract(word, <<25, 31>>) < 64
      /\ Extract(word, <<31, 32>>) \in Nat /\ Extract(word, <<31, 32>>) < 2
  BY SMT, FieldRange
<1>5. value(Branch(funct3), args) =
        BWord(99, (args["imm"] \div 2048) % 2, (args["imm"] \div 2) % 16, funct3, args["rs1"],
        args["rs2"], (args["imm"] \div 32) % 64, (args["imm"] \div 4096) % 2)
  BY SMT, <1>3, BranchValue
<1>6. value(Branch(funct3), args) =
        BWord(99, (imm \div 2048) % 2, (imm \div 2) % 16, funct3, rs1, rs2, (imm \div 32) % 64,
        (imm \div 4096) % 2)
  BY SMT, <1>5, <1>3
<1>7. /\ (99 % 128) = Extract(word, <<0, 7>>)
      /\ (funct3 % 8) = Extract(word, <<12, 15>>)
      /\ (rs1 % 32) = Extract(word, <<15, 20>>)
      /\ (rs2 % 32) = Extract(word, <<20, 25>>)
  BY SMT, <1>1, <1>4
<1>8. /\ 99 \in Int
      /\ ((imm \div 2048) % 2) \in Int
      /\ ((imm \div 2) % 16) \in Int
      /\ funct3 \in Int
      /\ rs1 \in Int
      /\ rs2 \in Int
      /\ ((imm \div 32) % 64) \in Int
      /\ ((imm \div 4096) % 2) \in Int
  BY SMT, <1>1, <1>4
<1>9. BWord(99, (imm \div 2048) % 2, (imm \div 2) % 16, funct3, rs1, rs2, (imm \div 32) % 64,
        (imm \div 4096) % 2) = word
  BY SMT, <1>7, <1>8, BOfFields
<1> QED BY SMT, <1>2, <1>3, <1>6, <1>9

LEMMA UpperFrom ==
  ASSUME NEW name \in {"LUI", "AUIPC"}, NEW rd, NEW imm
  PROVE  \E args : /\ DOMAIN args = {"rd", "imm"}
                   /\ args["rd"] = rd
                   /\ args["imm"] = imm
                   /\ FromText(Text(name, <<rd, imm>>)) = <<value(Insns[name], args)>>
<1>1. Insns[name].asm_args = <<"rd", "imm">> /\ name # "LI"
  BY UpperNamed
<1> QED BY <1>1, FromTwo

LEMMA UpperAgain ==
  ASSUME NEW name \in {"LUI", "AUIPC"}, NEW word \in SUBSET (0 .. 31),
         NEW rd, rd = Extract(word, <<7, 12>>), NEW imm \in Int,
         imm = Extract(word, <<12, 32>>),
         Extract(word, <<0, 7>>) = (IF name = "LUI" THEN 55 ELSE 23)
  PROVE  FromText(Text(name, <<rd, imm>>)) = <<word>>
<1>1. PICK opcode : opcode = (IF name = "LUI" THEN 55 ELSE 23)
  OBVIOUS
<1>2. Insns[name] = Upper(opcode) /\ Insns[name].asm_args = <<"rd", "imm">> /\ name # "LI"
  BY <1>1, UpperNamed
<1>3. PICK args :
        /\ DOMAIN args = {"rd", "imm"}
        /\ args["rd"] = rd
        /\ args["imm"] = imm
        /\ FromText(Text(name, <<rd, imm>>)) = <<value(Insns[name], args)>>
  BY UpperFrom
<1>4. /\ Extract(word, <<0, 7>>) \in Nat /\ Extract(word, <<0, 7>>) < 128
      /\ Extract(word, <<7, 12>>) \in Nat /\ Extract(word, <<7, 12>>) < 32
      /\ Extract(word, <<12, 32>>) \in Nat /\ Extract(word, <<12, 32>>) < 1048576
  BY SMT, FieldRange
<1>5. args["imm"] \in -(2^20 - 1) .. 2^20 - 1
  BY SMT, <1>3, <1>4, Powers
<1>6. value(Upper(opcode), args) =
        UWord(opcode, args["rd"], args["imm"])
  BY <1>3, <1>5, UpperValue
<1>7. value(Upper(opcode), args) =
        UWord(opcode, rd, imm)
  BY <1>6, <1>3
<1>8. /\ (opcode % 128) = Extract(word, <<0, 7>>)
      /\ (rd % 32) = Extract(word, <<7, 12>>)
      /\ (imm % 1048576) = Extract(word, <<12, 32>>)
  BY SMT, <1>1, <1>4
<1>9. /\ opcode \in Int
      /\ rd \in Int
      /\ imm \in Int
  BY SMT, <1>1, <1>4
<1>10. UWord(opcode, rd, imm) = word
  BY <1>8, <1>9, UOfFields
<1> QED BY <1>2, <1>3, <1>7, <1>10

LEMMA JalrFrom ==
  ASSUME NEW name \in {"JALR"}, NEW rd, NEW rs1, NEW imm
  PROVE  \E args : /\ DOMAIN args = {"rd", "rs1", "imm"}
                   /\ args["rd"] = rd
                   /\ args["rs1"] = rs1
                   /\ args["imm"] = imm
                   /\ FromText(Text(name, <<rd, rs1, imm>>)) = <<value(Insns[name], args)>>
<1>1. Insns[name].asm_args = <<"rd", "rs1", "imm">> /\ name # "LI"
  BY JalrNamed
<1> QED BY <1>1, FromThree

LEMMA JalrAgain ==
  ASSUME NEW name \in {"JALR"}, NEW word \in SUBSET (0 .. 31),
         NEW rd, rd = Extract(word, <<7, 12>>), NEW rs1, rs1 = Extract(word, <<15, 20>>),
         NEW imm \in Int, (imm % 4096) = Extract(word, <<20, 32>>),
         Extract(word, <<0, 7>>) = 103, Extract(word, <<12, 15>>) = 0
  PROVE  FromText(Text(name, <<rd, rs1, imm>>)) = <<word>>
<1>1. Insns[name] = Jalr /\ Insns[name].asm_args = <<"rd", "rs1", "imm">> /\ name # "LI"
  BY JalrNamed
<1>2. PICK args :
        /\ DOMAIN args = {"rd", "rs1", "imm"}
        /\ args["rd"] = rd
        /\ args["rs1"] = rs1
        /\ args["imm"] = imm
        /\ FromText(Text(name, <<rd, rs1, imm>>)) = <<value(Insns[name], args)>>
  BY JalrFrom
<1>3. /\ Extract(word, <<0, 7>>) \in Nat /\ Extract(word, <<0, 7>>) < 128
      /\ Extract(word, <<7, 12>>) \in Nat /\ Extract(word, <<7, 12>>) < 32
      /\ Extract(word, <<12, 15>>) \in Nat /\ Extract(word, <<12, 15>>) < 8
      /\ Extract(word, <<15, 20>>) \in Nat /\ Extract(word, <<15, 20>>) < 32
      /\ Extract(word, <<20, 32>>) \in Nat /\ Extract(word, <<20, 32>>) < 4096
  BY SMT, FieldRange
<1>4. value(Jalr, args) =
        IWord(103, args["rd"], 0, args["rs1"], args["imm"])
  BY <1>2, JalrValue
<1>5. value(Jalr, args) =
        IWord(103, rd, 0, rs1, imm)
  BY <1>4, <1>2
<1>6. /\ (103 % 128) = Extract(word, <<0, 7>>)
      /\ (rd % 32) = Extract(word, <<7, 12>>)
      /\ (0 % 8) = Extract(word, <<12, 15>>)
      /\ (rs1 % 32) = Extract(word, <<15, 20>>)
      /\ (imm % 4096) = Extract(word, <<20, 32>>)
  BY SMT, <1>3
<1>7. /\ 103 \in Int
      /\ rd \in Int
      /\ 0 \in Int
      /\ rs1 \in Int
      /\ imm \in Int
  BY SMT, <1>3
<1>8. IWord(103, rd, 0, rs1, imm) = word
  BY <1>6, <1>7, IOfFields
<1> QED BY <1>1, <1>2, <1>5, <1>8

LEMMA JalFrom ==
  ASSUME NEW name \in {"JAL"}, NEW rd, NEW imm
  PROVE  \E args : /\ DOMAIN args = {"rd", "imm"}
                   /\ args["rd"] = rd
                   /\ args["imm"] = imm
                   /\ FromText(Text(name, <<rd, imm>>)) = <<value(Insns[name], args)>>
<1>1. Insns[name].asm_args = <<"rd", "imm">> /\ name # "LI"
  BY JalNamed
<1> QED BY <1>1, FromTwo

LEMMA JalAgain ==
  ASSUME NEW name \in {"JAL"}, NEW word \in SUBSET (0 .. 31),
         NEW rd, rd = Extract(word, <<7, 12>>), NEW imm \in Int,
         (((imm \div 4096) % 256) % 256) = Extract(word, <<12, 20>>),
         (((imm \div 2048) % 2) % 2) = Extract(word, <<20, 21>>),
         (((imm \div 2) % 1024) % 1024) = Extract(word, <<21, 31>>),
         (((imm \div 1048576) % 2) % 2) = Extract(word, <<31, 32>>),
         Extract(word, <<0, 7>>) = 111
  PROVE  FromText(Text(name, <<rd, imm>>)) = <<word>>
<1>1. Insns[name] = Jal /\ Insns[name].asm_args = <<"rd", "imm">> /\ name # "LI"
  BY JalNamed
<1>2. PICK args :
        /\ DOMAIN args = {"rd", "imm"}
        /\ args["rd"] = rd
        /\ args["imm"] = imm
        /\ FromText(Text(name, <<rd, imm>>)) = <<value(Insns[name], args)>>
  BY JalFrom
<1>3. /\ Extract(word, <<0, 7>>) \in Nat /\ Extract(word, <<0, 7>>) < 128
      /\ Extract(word, <<7, 12>>) \in Nat /\ Extract(word, <<7, 12>>) < 32
      /\ Extract(word, <<12, 20>>) \in Nat /\ Extract(word, <<12, 20>>) < 256
      /\ Extract(word, <<20, 21>>) \in Nat /\ Extract(word, <<20, 21>>) < 2
      /\ Extract(word, <<21, 31>>) \in Nat /\ Extract(word, <<21, 31>>) < 1024
      /\ Extract(word, <<31, 32>>) \in Nat /\ Extract(word, <<31, 32>>) < 2
  BY SMT, FieldRange
<1>4. value(Jal, args) =
        JWord(111, args["rd"], (args["imm"] \div 4096) % 256, (args["imm"] \div 2048) % 2,
        (args["imm"] \div 2) % 1024, (args["imm"] \div 1048576) % 2)
  BY SMT, <1>2, JalValue
<1>5. value(Jal, args) =
        JWord(111, rd, (imm \div 4096) % 256, (imm \div 2048) % 2, (imm \div 2) % 1024,
        (imm \div 1048576) % 2)
  BY SMT, <1>4, <1>2
<1>6. /\ (111 % 128) = Extract(word, <<0, 7>>)
      /\ (rd % 32) = Extract(word, <<7, 12>>)
  BY SMT, <1>3
<1>7. /\ 111 \in Int
      /\ rd \in Int
      /\ ((imm \div 4096) % 256) \in Int
      /\ ((imm \div 2048) % 2) \in Int
      /\ ((imm \div 2) % 1024) \in Int
      /\ ((imm \div 1048576) % 2) \in Int
  BY SMT, <1>3
<1>8. JWord(111, rd, (imm \div 4096) % 256, (imm \div 2048) % 2, (imm \div 2) % 1024,
        (imm \div 1048576) % 2) = word
  BY SMT, <1>6, <1>7, JOfFields
<1> QED BY SMT, <1>1, <1>2, <1>5, <1>8

LEMMA FenceTSOFrom ==
  ASSUME NEW name \in {"FENCE_TSO"}
  PROVE  \E args : /\ DOMAIN args = {}
                   /\ FromText(Text(name, <<>>)) = <<value(Insns[name], args)>>
<1>1. Insns[name].asm_args = <<>> /\ name # "LI"
  BY FenceTSONamed
<1> QED BY <1>1, FromNone

LEMMA FenceTSOAgain ==
  ASSUME NEW name \in {"FENCE_TSO"}, NEW word \in SUBSET (0 .. 31),
         Extract(word, <<0, 7>>) = 15, Extract(word, <<7, 12>>) = 0,
         Extract(word, <<12, 15>>) = 0, Extract(word, <<15, 20>>) = 0,
         Extract(word, <<20, 32>>) = 2099
  PROVE  FromText(Text(name, <<>>)) = <<word>>
<1>1. Insns[name] = Insns.FENCE_TSO /\ Insns[name].asm_args = <<>> /\ name # "LI"
  BY FenceTSONamed
<1>2. PICK args :
        /\ DOMAIN args = {}
        /\ FromText(Text(name, <<>>)) = <<value(Insns[name], args)>>
  BY FenceTSOFrom
<1>3. /\ Extract(word, <<0, 7>>) \in Nat /\ Extract(word, <<0, 7>>) < 128
      /\ Extract(word, <<7, 12>>) \in Nat /\ Extract(word, <<7, 12>>) < 32
      /\ Extract(word, <<12, 15>>) \in Nat /\ Extract(word, <<12, 15>>) < 8
      /\ Extract(word, <<15, 20>>) \in Nat /\ Extract(word, <<15, 20>>) < 32
      /\ Extract(word, <<20, 32>>) \in Nat /\ Extract(word, <<20, 32>>) < 4096
  BY SMT, FieldRange
<1>4. value(Insns.FENCE_TSO, args) =
        IWord(15, 0, 0, 0, 2099)
  BY <1>2, FenceTSOValue
<1>5. /\ (15 % 128) = Extract(word, <<0, 7>>)
      /\ (0 % 32) = Extract(word, <<7, 12>>)
      /\ (0 % 8) = Extract(word, <<12, 15>>)
      /\ (0 % 32) = Extract(word, <<15, 20>>)
      /\ (2099 % 4096) = Extract(word, <<20, 32>>)
  BY SMT, <1>3
<1>6. /\ 15 \in Int
      /\ 0 \in Int
      /\ 0 \in Int
      /\ 0 \in Int
      /\ 2099 \in Int
  BY SMT, <1>3
<1>7. IWord(15, 0, 0, 0, 2099) = word
  BY <1>5, <1>6, IOfFields
<1> QED BY <1>1, <1>2, <1>4, <1>7

LEMMA SnezFrom ==
  ASSUME NEW name \in {"SNEZ"}, NEW rd, NEW rs2
  PROVE  \E args : /\ DOMAIN args = {"rd", "rs2"}
                   /\ args["rd"] = rd
                   /\ args["rs2"] = rs2
                   /\ FromText(Text(name, <<rd, rs2>>)) = <<value(Insns[name], args)>>
<1>1. Insns[name].asm_args = <<"rd", "rs2">> /\ name # "LI"
  BY SnezNamed
<1> QED BY <1>1, FromTwo

LEMMA SnezAgain ==
  ASSUME NEW name \in {"SNEZ"}, NEW word \in SUBSET (0 .. 31),
         NEW rd, rd = Extract(word, <<7, 12>>), NEW rs2, rs2 = Extract(word, <<20, 25>>),
         Extract(word, <<0, 7>>) = 51, Extract(word, <<12, 15>>) = 3,
         Extract(word, <<15, 20>>) = 0, Extract(word, <<25, 32>>) = 0
  PROVE  FromText(Text(name, <<rd, rs2>>)) = <<word>>
<1>1. Insns[name] = Insns.SNEZ /\ Insns[name].asm_args = <<"rd", "rs2">> /\ name # "LI"
  BY SnezNamed
<1>2. PICK args :
        /\ DOMAIN args = {"rd", "rs2"}
        /\ args["rd"] = rd
        /\ args["rs2"] = rs2
        /\ FromText(Text(name, <<rd, rs2>>)) = <<value(Insns[name], args)>>
  BY SnezFrom
<1>3. /\ Extract(word, <<0, 7>>) \in Nat /\ Extract(word, <<0, 7>>) < 128
      /\ Extract(word, <<7, 12>>) \in Nat /\ Extract(word, <<7, 12>>) < 32
      /\ Extract(word, <<12, 15>>) \in Nat /\ Extract(word, <<12, 15>>) < 8
      /\ Extract(word, <<15, 20>>) \in Nat /\ Extract(word, <<15, 20>>) < 32
      /\ Extract(word, <<20, 25>>) \in Nat /\ Extract(word, <<20, 25>>) < 32
      /\ Extract(word, <<25, 32>>) \in Nat /\ Extract(word, <<25, 32>>) < 128
  BY SMT, FieldRange
<1>4. value(Insns.SNEZ, args) =
        RWord(51, args["rd"], 3, 0, args["rs2"], 0)
  BY <1>2, SnezValue
<1>5. value(Insns.SNEZ, args) =
        RWord(51, rd, 3, 0, rs2, 0)
  BY <1>4, <1>2
<1>6. /\ (51 % 128) = Extract(word, <<0, 7>>)
      /\ (rd % 32) = Extract(word, <<7, 12>>)
      /\ (3 % 8) = Extract(word, <<12, 15>>)
      /\ (0 % 32) = Extract(word, <<15, 20>>)
      /\ (rs2 % 32) = Extract(word, <<20, 25>>)
      /\ (0 % 128) = Extract(word, <<25, 32>>)
  BY SMT, <1>3
<1>7. /\ 51 \in Int
      /\ rd \in Int
      /\ 3 \in Int
      /\ 0 \in Int
      /\ rs2 \in Int
      /\ 0 \in Int
  BY SMT, <1>3
<1>8. RWord(51, rd, 3, 0, rs2, 0) = word
  BY <1>6, <1>7, ROfFields
<1> QED BY <1>1, <1>2, <1>5, <1>8

LEMMA MvFrom ==
  ASSUME NEW name \in {"MV"}, NEW rd, NEW rs1
  PROVE  \E args : /\ DOMAIN args = {"rd", "rs1"}
                   /\ args["rd"] = rd
                   /\ args["rs1"] = rs1
                   /\ FromText(Text(name, <<rd, rs1>>)) = <<value(Insns[name], args)>>
<1>1. Insns[name].asm_args = <<"rd", "rs1">> /\ name # "LI"
  BY MvNamed
<1> QED BY <1>1, FromTwo

LEMMA MvAgain ==
  ASSUME NEW name \in {"MV"}, NEW word \in SUBSET (0 .. 31),
         NEW rd, rd = Extract(word, <<7, 12>>), NEW rs1, rs1 = Extract(word, <<15, 20>>),
         Extract(word, <<0, 7>>) = 19, Extract(word, <<12, 15>>) = 0,
         Extract(word, <<20, 32>>) = 0
  PROVE  FromText(Text(name, <<rd, rs1>>)) = <<word>>
<1>1. Insns[name] = Insns.MV /\ Insns[name].asm_args = <<"rd", "rs1">> /\ name # "LI"
  BY MvNamed
<1>2. PICK args :
        /\ DOMAIN args = {"rd", "rs1"}
        /\ args["rd"] = rd
        /\ args["rs1"] = rs1
        /\ FromText(Text(name, <<rd, rs1>>)) = <<value(Insns[name], args)>>
  BY MvFrom
<1>3. /\ Extract(word, <<0, 7>>) \in Nat /\ Extract(word, <<0, 7>>) < 128
      /\ Extract(word, <<7, 12>>) \in Nat /\ Extract(word, <<7, 12>>) < 32
      /\ Extract(word, <<12, 15>>) \in Nat /\ Extract(word, <<12, 15>>) < 8
      /\ Extract(word, <<15, 20>>) \in Nat /\ Extract(word, <<15, 20>>) < 32
      /\ Extract(word, <<20, 32>>) \in Nat /\ Extract(word, <<20, 32>>) < 4096
  BY SMT, FieldRange
<1>4. value(Insns.MV, args) =
        IWord(19, args["rd"], 0, args["rs1"], 0)
  BY <1>2, MvValue
<1>5. value(Insns.MV, args) =
        IWord(19, rd, 0, rs1, 0)
  BY <1>4, <1>2
<1>6. /\ (19 % 128) = Extract(word, <<0, 7>>)
      /\ (rd % 32) = Extract(word, <<7, 12>>)
      /\ (0 % 8) = Extract(word, <<12, 15>>)
      /\ (rs1 % 32) = Extract(word, <<15, 20>>)
      /\ (0 % 4096) = Extract(word, <<20, 32>>)
  BY SMT, <1>3
<1>7. /\ 19 \in Int
      /\ rd \in Int
      /\ 0 \in Int
      /\ rs1 \in Int
      /\ 0 \in Int
  BY SMT, <1>3
<1>8. IWord(19, rd, 0, rs1, 0) = word
  BY <1>6, <1>7, IOfFields
<1> QED BY <1>1, <1>2, <1>5, <1>8

LEMMA SeqzFrom ==
  ASSUME NEW name \in {"SEQZ"}, NEW rd, NEW rs1
  PROVE  \E args : /\ DOMAIN args = {"rd", "rs1"}
                   /\ args["rd"] = rd
                   /\ args["rs1"] = rs1
                   /\ FromText(Text(name, <<rd, rs1>>)) = <<value(Insns[name], args)>>
<1>1. Insns[name].asm_args = <<"rd", "rs1">> /\ name # "LI"
  BY SeqzNamed
<1> QED BY <1>1, FromTwo

LEMMA SeqzAgain ==
  ASSUME NEW name \in {"SEQZ"}, NEW word \in SUBSET (0 .. 31),
         NEW rd, rd = Extract(word, <<7, 12>>), NEW rs1, rs1 = Extract(word, <<15, 20>>),
         Extract(word, <<0, 7>>) = 19, Extract(word, <<12, 15>>) = 3,
         Extract(word, <<20, 32>>) = 1
  PROVE  FromText(Text(name, <<rd, rs1>>)) = <<word>>
<1>1. Insns[name] = Insns.SEQZ /\ Insns[name].asm_args = <<"rd", "rs1">> /\ name # "LI"
  BY SeqzNamed
<1>2. PICK args :
        /\ DOMAIN args = {"rd", "rs1"}
        /\ args["rd"] = rd
        /\ args["rs1"] = rs1
        /\ FromText(Text(name, <<rd, rs1>>)) = <<value(Insns[name], args)>>
  BY SeqzFrom
<1>3. /\ Extract(word, <<0, 7>>) \in Nat /\ Extract(word, <<0, 7>>) < 128
      /\ Extract(word, <<7, 12>>) \in Nat /\ Extract(word, <<7, 12>>) < 32
      /\ Extract(word, <<12, 15>>) \in Nat /\ Extract(word, <<12, 15>>) < 8
      /\ Extract(word, <<15, 20>>) \in Nat /\ Extract(word, <<15, 20>>) < 32
      /\ Extract(word, <<20, 32>>) \in Nat /\ Extract(word, <<20, 32>>) < 4096
  BY SMT, FieldRange
<1>4. value(Insns.SEQZ, args) =
        IWord(19, args["rd"], 3, args["rs1"], 1)
  BY <1>2, SeqzValue
<1>5. value(Insns.SEQZ, args) =
        IWord(19, rd, 3, rs1, 1)
  BY <1>4, <1>2
<1>6. /\ (19 % 128) = Extract(word, <<0, 7>>)
      /\ (rd % 32) = Extract(word, <<7, 12>>)
      /\ (3 % 8) = Extract(word, <<12, 15>>)
      /\ (rs1 % 32) = Extract(word, <<15, 20>>)
      /\ (1 % 4096) = Extract(word, <<20, 32>>)
  BY SMT, <1>3
<1>7. /\ 19 \in Int
      /\ rd \in Int
      /\ 3 \in Int
      /\ rs1 \in Int
      /\ 1 \in Int
  BY SMT, <1>3
<1>8. IWord(19, rd, 3, rs1, 1) = word
  BY <1>6, <1>7, IOfFields
<1> QED BY <1>1, <1>2, <1>5, <1>8

LEMMA NotFrom ==
  ASSUME NEW name \in {"NOT"}, NEW rd, NEW rs1
  PROVE  \E args : /\ DOMAIN args = {"rd", "rs1"}
                   /\ args["rd"] = rd
                   /\ args["rs1"] = rs1
                   /\ FromText(Text(name, <<rd, rs1>>)) = <<value(Insns[name], args)>>
<1>1. Insns[name].asm_args = <<"rd", "rs1">> /\ name # "LI"
  BY NotNamed
<1> QED BY <1>1, FromTwo

LEMMA NotAgain ==
  ASSUME NEW name \in {"NOT"}, NEW word \in SUBSET (0 .. 31),
         NEW rd, rd = Extract(word, <<7, 12>>), NEW rs1, rs1 = Extract(word, <<15, 20>>),
         Extract(word, <<0, 7>>) = 19, Extract(word, <<12, 15>>) = 4,
         Extract(word, <<20, 32>>) = 4095
  PROVE  FromText(Text(name, <<rd, rs1>>)) = <<word>>
<1>1. Insns[name] = Insns.NOT /\ Insns[name].asm_args = <<"rd", "rs1">> /\ name # "LI"
  BY NotNamed
<1>2. PICK args :
        /\ DOMAIN args = {"rd", "rs1"}
        /\ args["rd"] = rd
        /\ args["rs1"] = rs1
        /\ FromText(Text(name, <<rd, rs1>>)) = <<value(Insns[name], args)>>
  BY NotFrom
<1>3. /\ Extract(word, <<0, 7>>) \in Nat /\ Extract(word, <<0, 7>>) < 128
      /\ Extract(word, <<7, 12>>) \in Nat /\ Extract(word, <<7, 12>>) < 32
      /\ Extract(word, <<12, 15>>) \in Nat /\ Extract(word, <<12, 15>>) < 8
      /\ Extract(word, <<15, 20>>) \in Nat /\ Extract(word, <<15, 20>>) < 32
      /\ Extract(word, <<20, 32>>) \in Nat /\ Extract(word, <<20, 32>>) < 4096
  BY SMT, FieldRange
<1>4. value(Insns.NOT, args) =
        IWord(19, args["rd"], 4, args["rs1"], -1)
  BY <1>2, NotValue
<1>5. PICK minus : minus = -1
  OBVIOUS
<1>6. minus \in Int /\ minus + 1 = 0
  BY SMT, <1>5
<1>7. (minus % 4096) = 4095
  BY SMT, <1>6
<1>8. value(Insns.NOT, args) =
        IWord(19, rd, 4, rs1, minus)
  BY <1>4, <1>2, <1>5
<1>9. /\ (19 % 128) = Extract(word, <<0, 7>>)
      /\ (rd % 32) = Extract(word, <<7, 12>>)
      /\ (4 % 8) = Extract(word, <<12, 15>>)
      /\ (rs1 % 32) = Extract(word, <<15, 20>>)
      /\ (minus % 4096) = Extract(word, <<20, 32>>)
  BY SMT, <1>3, <1>6, <1>7
<1>10. /\ 19 \in Int
       /\ rd \in Int
       /\ 4 \in Int
       /\ rs1 \in Int
       /\ minus \in Int
  BY SMT, <1>3, <1>6, <1>7
<1>11. IWord(19, rd, 4, rs1, minus) = word
  BY <1>9, <1>10, IOfFields
<1> QED BY <1>1, <1>2, <1>8, <1>11

LEMMA NopFrom ==
  ASSUME NEW name \in {"NOP"}
  PROVE  \E args : /\ DOMAIN args = {}
                   /\ FromText(Text(name, <<>>)) = <<value(Insns[name], args)>>
<1>1. Insns[name].asm_args = <<>> /\ name # "LI"
  BY NopNamed
<1> QED BY <1>1, FromNone

LEMMA NopAgain ==
  ASSUME NEW name \in {"NOP"}, NEW word \in SUBSET (0 .. 31), Extract(word, <<0, 7>>) = 19,
         Extract(word, <<7, 12>>) = 0, Extract(word, <<12, 15>>) = 0,
         Extract(word, <<15, 20>>) = 0, Extract(word, <<20, 32>>) = 0
  PROVE  FromText(Text(name, <<>>)) = <<word>>
<1>1. Insns[name] = Insns.NOP /\ Insns[name].asm_args = <<>> /\ name # "LI"
  BY NopNamed
<1>2. PICK args :
        /\ DOMAIN args = {}
        /\ FromText(Text(name, <<>>)) = <<value(Insns[name], args)>>
  BY NopFrom
<1>3. /\ Extract(word, <<0, 7>>) \in Nat /\ Extract(word, <<0, 7>>) < 128
      /\ Extract(word, <<7, 12>>) \in Nat /\ Extract(word, <<7, 12>>) < 32
      /\ Extract(word, <<12, 15>>) \in Nat /\ Extract(word, <<12, 15>>) < 8
      /\ Extract(word, <<15, 20>>) \in Nat /\ Extract(word, <<15, 20>>) < 32
      /\ Extract(word, <<20, 32>>) \in Nat /\ Extract(word, <<20, 32>>) < 4096
  BY SMT, FieldRange
<1>4. value(Insns.NOP, args) =
        IWord(19, 0, 0, 0, 0)
  BY <1>2, NopValue
<1>5. /\ (19 % 128) = Extract(word, <<0, 7>>)
      /\ (0 % 32) = Extract(word, <<7, 12>>)
      /\ (0 % 8) = Extract(word, <<12, 15>>)
      /\ (0 % 32) = Extract(word, <<15, 20>>)
      /\ (0 % 4096) = Extract(word, <<20, 32>>)
  BY SMT, <1>3
<1>6. /\ 19 \in Int
      /\ 0 \in Int
      /\ 0 \in Int
      /\ 0 \in Int
      /\ 0 \in Int
  BY SMT, <1>3
<1>7. IWord(19, 0, 0, 0, 0) = word
  BY <1>5, <1>6, IOfFields
<1> QED BY <1>1, <1>2, <1>4, <1>7

LEMMA JFrom ==
  ASSUME NEW name \in {"J_"}, NEW imm
  PROVE  \E args : /\ DOMAIN args = {"imm"}
                   /\ args["imm"] = imm
                   /\ FromText(Text(name, <<imm>>)) = <<value(Insns[name], args)>>
<1>1. Insns[name].asm_args = <<"imm">> /\ name # "LI"
  BY JNamed
<1> QED BY <1>1, FromOne

LEMMA JAgain ==
  ASSUME NEW name \in {"J_"}, NEW word \in SUBSET (0 .. 31), NEW imm \in Int,
         (((imm \div 4096) % 256) % 256) = Extract(word, <<12, 20>>),
         (((imm \div 2048) % 2) % 2) = Extract(word, <<20, 21>>),
         (((imm \div 2) % 1024) % 1024) = Extract(word, <<21, 31>>),
         (((imm \div 1048576) % 2) % 2) = Extract(word, <<31, 32>>),
         Extract(word, <<0, 7>>) = 111, Extract(word, <<7, 12>>) = 0
  PROVE  FromText(Text(name, <<imm>>)) = <<word>>
<1>1. Insns[name] = Insns.J_ /\ Insns[name].asm_args = <<"imm">> /\ name # "LI"
  BY JNamed
<1>2. PICK args :
        /\ DOMAIN args = {"imm"}
        /\ args["imm"] = imm
        /\ FromText(Text(name, <<imm>>)) = <<value(Insns[name], args)>>
  BY JFrom
<1>3. /\ Extract(word, <<0, 7>>) \in Nat /\ Extract(word, <<0, 7>>) < 128
      /\ Extract(word, <<7, 12>>) \in Nat /\ Extract(word, <<7, 12>>) < 32
      /\ Extract(word, <<12, 20>>) \in Nat /\ Extract(word, <<12, 20>>) < 256
      /\ Extract(word, <<20, 21>>) \in Nat /\ Extract(word, <<20, 21>>) < 2
      /\ Extract(word, <<21, 31>>) \in Nat /\ Extract(word, <<21, 31>>) < 1024
      /\ Extract(word, <<31, 32>>) \in Nat /\ Extract(word, <<31, 32>>) < 2
  BY SMT, FieldRange
<1>4. value(Insns.J_, args) =
        JWord(111, 0, (args["imm"] \div 4096) % 256, (args["imm"] \div 2048) % 2,
        (args["imm"] \div 2) % 1024, (args["imm"] \div 1048576) % 2)
  BY SMT, <1>2, JValue
<1>5. value(Insns.J_, args) =
        JWord(111, 0, (imm \div 4096) % 256, (imm \div 2048) % 2, (imm \div 2) % 1024,
        (imm \div 1048576) % 2)
  BY SMT, <1>4, <1>2
<1>6. /\ (111 % 128) = Extract(word, <<0, 7>>)
      /\ (0 % 32) = Extract(word, <<7, 12>>)
  BY SMT, <1>3
<1>7. /\ 111 \in Int
      /\ 0 \in Int
      /\ ((imm \div 4096) % 256) \in Int
      /\ ((imm \div 2048) % 2) \in Int
      /\ ((imm \div 2) % 1024) \in Int
      /\ ((imm \div 1048576) % 2) \in Int
  BY SMT, <1>3
<1>8. JWord(111, 0, (imm \div 4096) % 256, (imm \div 2048) % 2, (imm \div 2) % 1024,
        (imm \div 1048576) % 2) = word
  BY SMT, <1>6, <1>7, JOfFields
<1> QED BY SMT, <1>1, <1>2, <1>5, <1>8
-----------------------------------------------------------------------------
(* What a legitimate word says. *)

\* The signed immediates have the bits that they are made of.
LEMMA SignedI ==
  ASSUME NEW v \in Nat, v < 4096
  PROVE  c2(12, v) \in Int /\ (c2(12, v) % 4096) = v
<1>1. PICK imm : imm = c2(12, v) /\ imm = IF v < 2048 THEN v ELSE v - 4096
  BY SMT, TwelveBits
<1>2. imm \in Int /\ (imm % 4096) = v
  BY SMT, <1>1
<1> QED BY SMT, <1>1, <1>2

MadeS(off, lo, hi) ==
  /\ off \in Int
  /\ (((off \div 1) % 32) % 32) = lo
  /\ (((off \div 32) % 128) % 128) = hi

LEMMA SignedS ==
  ASSUME NEW lo \in Nat, lo < 32, NEW hi \in Nat, hi < 128, NEW off, off = c2(12, lo + 32 * hi)
  PROVE  MadeS(off, lo, hi)
<1>1. PICK v \in Nat : v = lo + 32 * hi /\ v < 4096
  BY SMT
<1>2. off = IF v < 2048 THEN v ELSE v - 4096
  BY SMT, <1>1, TwelveBits
<1>3. PICK high \in Int : high = (IF v < 2048 THEN hi ELSE hi - 128)
  BY SMT
<1>4. off = lo + 32 * high
  BY SMT, <1>1, <1>2, <1>3
<1>5. (off \div 1) = off /\ (off % 32) = lo /\ (off \div 32) = high
  BY SMT, <1>4
<1>6. (high % 128) = hi
  BY SMT, <1>3
<1> QED BY SMT, <1>4, <1>5, <1>6 DEF MadeS

MadeB(imm, a, b, c, d) ==
  /\ imm \in Int
  /\ (((imm \div 2) % 16) % 16) = a
  /\ (((imm \div 32) % 64) % 64) = b
  /\ (((imm \div 2048) % 2) % 2) = c
  /\ (((imm \div 4096) % 2) % 2) = d

LEMMA SignedB ==
  ASSUME NEW a \in Nat, a < 16, NEW b \in Nat, b < 64, NEW c \in Nat, c < 2, NEW d \in Nat, d < 2,
         NEW imm, imm = c2(13, 2 * a + 32 * b + 2048 * c + 4096 * d)
  PROVE  MadeB(imm, a, b, c, d)
<1>1. PICK v \in Nat : v = 2 * a + 32 * b + 2048 * c + 4096 * d /\ v < 8192
  BY SMT
<1>2. imm = IF v < 4096 THEN v ELSE v - 8192
  <2>1. 2^12 = 4096 /\ 2^13 = 8192
    BY SMT, Powers
  <2>2. PICK top : top = Bit(v, 13 - 1) /\ top = (v \div 4096) % 2
    BY SMT, <2>1 DEF Bit
  <2>3. top = 1 <=> v >= 4096
    BY SMT, <1>1, <2>2
  <2> QED BY SMT, <1>1, <2>1, <2>2, <2>3 DEF c2
<1>3. PICK q3 \in Int : q3 = -d
  BY SMT
<1>4. PICK q2 \in Int : q2 = 2 * q3 + c
  BY SMT
<1>5. PICK q1 \in Int : q1 = 64 * q2 + b
  BY SMT
<1>6. PICK q0 \in Int : q0 = 16 * q1 + a
  BY SMT
<1>7. imm = 2 * q0
  BY SMT, <1>1, <1>2, <1>3, <1>4, <1>5, <1>6
<1>8. (imm \div 2) = q0
  BY SMT, <1>7
<1>9. (q0 % 16) = a /\ (a % 16) = a
  BY SMT, <1>6
<1>10. (((imm \div 2) % 16) % 16) = a
  BY SMT, <1>8, <1>9
<1>11. (imm \div 32) = q1
  <2>1. PICK low \in Nat : low = 2 * a /\ low < 32
    BY SMT
  <2>2. imm = 32 * q1 + low
    BY SMT, <1>7, <1>3, <1>4, <1>5, <1>6, <2>1
  <2> QED BY SMT, <2>1, <2>2
<1>12. (q1 % 64) = b /\ (b % 64) = b
  BY SMT, <1>5
<1>13. (((imm \div 32) % 64) % 64) = b
  BY SMT, <1>11, <1>12
<1>14. (imm \div 2048) = q2
  <2>1. PICK low \in Nat : low = 2 * a + 32 * b /\ low < 2048
    BY SMT
  <2>2. imm = 2048 * q2 + low
    BY SMT, <1>7, <1>3, <1>4, <1>5, <1>6, <2>1
  <2> QED BY SMT, <2>1, <2>2
<1>15. (q2 % 2) = c /\ (c % 2) = c
  BY SMT, <1>4
<1>16. (((imm \div 2048) % 2) % 2) = c
  BY SMT, <1>14, <1>15
<1>17. (imm \div 4096) = q3
  <2>1. PICK low \in Nat : low = 2 * a + 32 * b + 2048 * c /\ low < 4096
    BY SMT
  <2>2. imm = 4096 * q3 + low
    BY SMT, <1>7, <1>3, <1>4, <1>5, <1>6, <2>1
  <2> QED BY SMT, <2>1, <2>2
<1>18. (q3 % 2) = d /\ (d % 2) = d
  BY SMT, <1>3
<1>19. (((imm \div 4096) % 2) % 2) = d
  BY SMT, <1>17, <1>18
<1>I. imm \in Int
  BY SMT, <1>7
<1> QED BY SMT, <1>I, <1>10, <1>13, <1>16, <1>19 DEF MadeB

MadeJ(imm, a, b, c, d) ==
  /\ imm \in Int
  /\ (((imm \div 2) % 1024) % 1024) = a
  /\ (((imm \div 2048) % 2) % 2) = b
  /\ (((imm \div 4096) % 256) % 256) = c
  /\ (((imm \div 1048576) % 2) % 2) = d

LEMMA SignedJ ==
  ASSUME NEW a \in Nat, a < 1024, NEW b \in Nat, b < 2, NEW c \in Nat, c < 256, NEW d \in Nat,
    d < 2,
         NEW imm, imm = c2(21, 2 * a + 2048 * b + 4096 * c + 1048576 * d)
  PROVE  MadeJ(imm, a, b, c, d)
<1>1. PICK v \in Nat : v = 2 * a + 2048 * b + 4096 * c + 1048576 * d /\ v < 2097152
  BY SMT
<1>2. imm = IF v < 1048576 THEN v ELSE v - 2097152
  <2>1. 2^20 = 1048576 /\ 2^21 = 2097152
    BY SMT, Powers
  <2>2. PICK top : top = Bit(v, 21 - 1) /\ top = (v \div 1048576) % 2
    BY SMT, <2>1 DEF Bit
  <2>3. top = 1 <=> v >= 1048576
    BY SMT, <1>1, <2>2
  <2> QED BY SMT, <1>1, <2>1, <2>2, <2>3 DEF c2
<1>3. PICK q3 \in Int : q3 = -d
  BY SMT
<1>4. PICK q2 \in Int : q2 = 256 * q3 + c
  BY SMT
<1>5. PICK q1 \in Int : q1 = 2 * q2 + b
  BY SMT
<1>6. PICK q0 \in Int : q0 = 1024 * q1 + a
  BY SMT
<1>7. imm = 2 * q0
  BY SMT, <1>1, <1>2, <1>3, <1>4, <1>5, <1>6
<1>8. (imm \div 2) = q0
  BY SMT, <1>7
<1>9. (q0 % 1024) = a /\ (a % 1024) = a
  BY SMT, <1>6
<1>10. (((imm \div 2) % 1024) % 1024) = a
  BY SMT, <1>8, <1>9
<1>11. (imm \div 2048) = q1
  <2>1. PICK low \in Nat : low = 2 * a /\ low < 2048
    BY SMT
  <2>2. imm = 2048 * q1 + low
    BY SMT, <1>7, <1>3, <1>4, <1>5, <1>6, <2>1
  <2> QED BY SMT, <2>1, <2>2
<1>12. (q1 % 2) = b /\ (b % 2) = b
  BY SMT, <1>5
<1>13. (((imm \div 2048) % 2) % 2) = b
  BY SMT, <1>11, <1>12
<1>14. (imm \div 4096) = q2
  <2>1. PICK low \in Nat : low = 2 * a + 2048 * b /\ low < 4096
    BY SMT
  <2>2. imm = 4096 * q2 + low
    BY SMT, <1>7, <1>3, <1>4, <1>5, <1>6, <2>1
  <2> QED BY SMT, <2>1, <2>2
<1>15. (q2 % 256) = c /\ (c % 256) = c
  BY SMT, <1>4
<1>16. (((imm \div 4096) % 256) % 256) = c
  BY SMT, <1>14, <1>15
<1>17. (imm \div 1048576) = q3
  <2>1. PICK low \in Nat : low = 2 * a + 2048 * b + 4096 * c /\ low < 1048576
    BY SMT
  <2>2. imm = 1048576 * q3 + low
    BY SMT, <1>7, <1>3, <1>4, <1>5, <1>6, <2>1
  <2> QED BY SMT, <2>1, <2>2
<1>18. (q3 % 2) = d /\ (d % 2) = d
  BY SMT, <1>3
<1>19. (((imm \div 1048576) % 2) % 2) = d
  BY SMT, <1>17, <1>18
<1>I. imm \in Int
  BY SMT, <1>7
<1> QED BY SMT, <1>I, <1>10, <1>13, <1>16, <1>19 DEF MadeJ

-----------------------------------------------------------------------------
\* What the disassembler says of a word with an opcode.
LEMMA Functs ==
  /\ DOMAIN LFunct = {0, 1, 2, 4, 5} /\ DOMAIN SFunct = 0 .. 2
  /\ DOMAIN BFunct = {0, 1, 4, 5, 6, 7}
BY Zenon DEF LFunct, SFunct, BFunct

\* XSays, for each opcode X: the name and the operands that the disassembler gives.
LEMMA LoadSays ==
  ASSUME NEW word, Extract(word, <<0, 7>>) = 3, Extract(word, <<12, 15>>) \in {0, 1, 2, 4, 5}
  PROVE  disasm(word) =
           Text(LFunct[Extract(word, <<12, 15>>)],
                <<Extract(word, <<7, 12>>), <<c2(12, Extract(word, <<20, 32>>)),
                  Extract(word, <<15, 20>>)>>>>)
<1>1. /\ Opcode.LOAD = 3 /\ Opcode.MISC_MEM = 15 /\ Opcode.OP_IMM = 19 /\ Opcode.AUIPC = 23
      /\ Opcode.STORE = 35 /\ Opcode.OP = 51 /\ Opcode.LUI = 55 /\ Opcode.BRANCH = 99
      /\ Opcode.JALR = 103 /\ Opcode.JAL = 111 /\ Opcode.SYSTEM = 115
  BY DEF Opcode
<1>0. /\ decode(I, word).opcode = Extract(word, <<0, 7>>)
      /\ decode(I, word).funct3 = Extract(word, <<12, 15>>)
  BY Zenon, Decodes
<1>2. /\ decode(I, word).opcode = 3
      /\ decode(I, word).funct3 \in {0, 1, 2, 4, 5}
  BY SMT, <1>0
<1>3. disasm(word) =
        Text(LFunct[decode(I, word).funct3],
                <<decode(I, word).rd, <<c2(12, decode(I, word).imm), decode(I, word).rs1>>>>)
  BY SMT, <1>1, <1>2, Functs DEF disasm
<1>4. /\ decode(I, word).rd = Extract(word, <<7, 12>>)
      /\ decode(I, word).funct3 = Extract(word, <<12, 15>>)
      /\ decode(I, word).rs1 = Extract(word, <<15, 20>>)
      /\ decode(I, word).imm = Extract(word, <<20, 32>>)
  BY Zenon, Decodes
<1> QED BY Zenon, <1>3, <1>4

LEMMA FenceSays ==
  ASSUME NEW word, Extract(word, <<0, 7>>) = 15, Extract(word, <<12, 15>>) = 0
  PROVE  disasm(word) =
           DisasmFence(decode(I, word))
<1>1. /\ Opcode.LOAD = 3 /\ Opcode.MISC_MEM = 15 /\ Opcode.OP_IMM = 19 /\ Opcode.AUIPC = 23
      /\ Opcode.STORE = 35 /\ Opcode.OP = 51 /\ Opcode.LUI = 55 /\ Opcode.BRANCH = 99
      /\ Opcode.JALR = 103 /\ Opcode.JAL = 111 /\ Opcode.SYSTEM = 115
  BY DEF Opcode
<1>0. /\ decode(I, word).opcode = Extract(word, <<0, 7>>)
      /\ decode(I, word).funct3 = Extract(word, <<12, 15>>)
  BY Zenon, Decodes
<1>2. /\ decode(I, word).opcode = 15
      /\ decode(I, word).funct3 = 0
  BY SMT, <1>0
<1> QED BY SMT, <1>1, <1>2, Functs DEF disasm

LEMMA OpImmSays ==
  ASSUME NEW word, Extract(word, <<0, 7>>) = 19
  PROVE  disasm(word) =
           DisasmOpImm(decode(I, word))
<1>1. /\ Opcode.LOAD = 3 /\ Opcode.MISC_MEM = 15 /\ Opcode.OP_IMM = 19 /\ Opcode.AUIPC = 23
      /\ Opcode.STORE = 35 /\ Opcode.OP = 51 /\ Opcode.LUI = 55 /\ Opcode.BRANCH = 99
      /\ Opcode.JALR = 103 /\ Opcode.JAL = 111 /\ Opcode.SYSTEM = 115
  BY DEF Opcode
<1>0. /\ decode(I, word).opcode = Extract(word, <<0, 7>>)
  BY Zenon, Decodes
<1>2. /\ decode(I, word).opcode = 19
  BY SMT, <1>0
<1> QED BY SMT, <1>1, <1>2, Functs DEF disasm

LEMMA OpSays ==
  ASSUME NEW word, Extract(word, <<0, 7>>) = 51
  PROVE  disasm(word) =
           DisasmOp(decode(R, word))
<1>1. /\ Opcode.LOAD = 3 /\ Opcode.MISC_MEM = 15 /\ Opcode.OP_IMM = 19 /\ Opcode.AUIPC = 23
      /\ Opcode.STORE = 35 /\ Opcode.OP = 51 /\ Opcode.LUI = 55 /\ Opcode.BRANCH = 99
      /\ Opcode.JALR = 103 /\ Opcode.JAL = 111 /\ Opcode.SYSTEM = 115
  BY DEF Opcode
<1>0. /\ decode(I, word).opcode = Extract(word, <<0, 7>>)
  BY Zenon, Decodes
<1>2. /\ decode(I, word).opcode = 51
  BY SMT, <1>0
<1> QED BY SMT, <1>1, <1>2, Functs DEF disasm

LEMMA LUISays ==
  ASSUME NEW word, Extract(word, <<0, 7>>) = 55
  PROVE  disasm(word) =
           Text("LUI", <<Extract(word, <<7, 12>>), Extract(word, <<12, 32>>)>>)
<1>1. /\ Opcode.LOAD = 3 /\ Opcode.MISC_MEM = 15 /\ Opcode.OP_IMM = 19 /\ Opcode.AUIPC = 23
      /\ Opcode.STORE = 35 /\ Opcode.OP = 51 /\ Opcode.LUI = 55 /\ Opcode.BRANCH = 99
      /\ Opcode.JALR = 103 /\ Opcode.JAL = 111 /\ Opcode.SYSTEM = 115
  BY DEF Opcode
<1>0. /\ decode(I, word).opcode = Extract(word, <<0, 7>>)
  BY Zenon, Decodes
<1>2. /\ decode(I, word).opcode = 55
  BY SMT, <1>0
<1>3. disasm(word) =
        Text("LUI", <<decode(U, word).rd, decode(U, word).imm>>)
  BY SMT, <1>1, <1>2, Functs DEF disasm
<1>4. /\ decode(U, word).rd = Extract(word, <<7, 12>>)
      /\ decode(U, word).imm = Extract(word, <<12, 32>>)
  BY Zenon, Decodes
<1> QED BY Zenon, <1>3, <1>4

LEMMA AUIPCSays ==
  ASSUME NEW word, Extract(word, <<0, 7>>) = 23
  PROVE  disasm(word) =
           Text("AUIPC", <<Extract(word, <<7, 12>>), Extract(word, <<12, 32>>)>>)
<1>1. /\ Opcode.LOAD = 3 /\ Opcode.MISC_MEM = 15 /\ Opcode.OP_IMM = 19 /\ Opcode.AUIPC = 23
      /\ Opcode.STORE = 35 /\ Opcode.OP = 51 /\ Opcode.LUI = 55 /\ Opcode.BRANCH = 99
      /\ Opcode.JALR = 103 /\ Opcode.JAL = 111 /\ Opcode.SYSTEM = 115
  BY DEF Opcode
<1>0. /\ decode(I, word).opcode = Extract(word, <<0, 7>>)
  BY Zenon, Decodes
<1>2. /\ decode(I, word).opcode = 23
  BY SMT, <1>0
<1>3. disasm(word) =
        Text("AUIPC", <<decode(U, word).rd, decode(U, word).imm>>)
  BY SMT, <1>1, <1>2, Functs DEF disasm
<1>4. /\ decode(U, word).rd = Extract(word, <<7, 12>>)
      /\ decode(U, word).imm = Extract(word, <<12, 32>>)
  BY Zenon, Decodes
<1> QED BY Zenon, <1>3, <1>4

LEMMA StoreSays ==
  ASSUME NEW word, Extract(word, <<0, 7>>) = 35, Extract(word, <<12, 15>>) \in {0, 1, 2}
  PROVE  disasm(word) =
           Text(SFunct[Extract(word, <<12, 15>>)],
                <<Extract(word, <<20, 25>>),
                  <<c2(12, Extract(word, <<7, 12>>) + 2^5 * Extract(word, <<25, 32>>)),
                  Extract(word, <<15, 20>>)>>>>)
<1>1. /\ Opcode.LOAD = 3 /\ Opcode.MISC_MEM = 15 /\ Opcode.OP_IMM = 19 /\ Opcode.AUIPC = 23
      /\ Opcode.STORE = 35 /\ Opcode.OP = 51 /\ Opcode.LUI = 55 /\ Opcode.BRANCH = 99
      /\ Opcode.JALR = 103 /\ Opcode.JAL = 111 /\ Opcode.SYSTEM = 115
  BY DEF Opcode
<1>0. /\ decode(I, word).opcode = Extract(word, <<0, 7>>)
      /\ decode(I, word).funct3 = Extract(word, <<12, 15>>)
  BY Zenon, Decodes
<1>2. /\ decode(I, word).opcode = 35
      /\ decode(I, word).funct3 \in {0, 1, 2}
  BY SMT, <1>0
<1>3. disasm(word) =
        Text(SFunct[decode(I, word).funct3],
                <<decode(S, word).rs2, <<c2(12, decode(S, word).imm4_0 +
                  2^5 * decode(S, word).imm11_5), decode(S, word).rs1>>>>)
  BY SMT, <1>1, <1>2, Functs DEF disasm
<1>4. /\ decode(S, word).imm4_0 = Extract(word, <<7, 12>>)
      /\ decode(S, word).rs1 = Extract(word, <<15, 20>>)
      /\ decode(S, word).rs2 = Extract(word, <<20, 25>>)
      /\ decode(S, word).imm11_5 = Extract(word, <<25, 32>>)
      /\ decode(I, word).funct3 = Extract(word, <<12, 15>>)
  BY Zenon, Decodes
<1> QED BY Zenon, <1>3, <1>4

LEMMA BranchSays ==
  ASSUME NEW word, Extract(word, <<0, 7>>) = 99, Extract(word, <<12, 15>>) \in {0, 1, 4, 5, 6, 7}
  PROVE  disasm(word) =
           Text(BFunct[Extract(word, <<12, 15>>)],
                <<Extract(word, <<15, 20>>), Extract(word, <<20, 25>>),
                  c2(13, 2 * Extract(word, <<8, 12>>) + 2^5 * Extract(word, <<25, 31>>)
                           + 2^11 * Extract(word, <<7, 8>>) + 2^12 * Extract(word, <<31, 32>>))>>)
<1>1. /\ Opcode.LOAD = 3 /\ Opcode.MISC_MEM = 15 /\ Opcode.OP_IMM = 19 /\ Opcode.AUIPC = 23
      /\ Opcode.STORE = 35 /\ Opcode.OP = 51 /\ Opcode.LUI = 55 /\ Opcode.BRANCH = 99
      /\ Opcode.JALR = 103 /\ Opcode.JAL = 111 /\ Opcode.SYSTEM = 115
  BY DEF Opcode
<1>0. /\ decode(I, word).opcode = Extract(word, <<0, 7>>)
      /\ decode(I, word).funct3 = Extract(word, <<12, 15>>)
  BY Zenon, Decodes
<1>2. /\ decode(I, word).opcode = 99
      /\ decode(I, word).funct3 \in {0, 1, 4, 5, 6, 7}
  BY SMT, <1>0
<1>3. disasm(word) =
        Text(BFunct[decode(I, word).funct3],
                <<decode(B, word).rs1, decode(B, word).rs2,
                  c2(13, 2 * decode(B, word).imm4_1 + 2^5 * decode(B, word).imm10_5
                           + 2^11 * decode(B, word).imm11 + 2^12 * decode(B, word).imm12)>>)
  BY SMT, <1>1, <1>2, Functs DEF disasm
<1>4. /\ decode(B, word).rs1 = Extract(word, <<15, 20>>)
      /\ decode(B, word).rs2 = Extract(word, <<20, 25>>)
      /\ decode(B, word).imm4_1 = Extract(word, <<8, 12>>)
      /\ decode(B, word).imm10_5 = Extract(word, <<25, 31>>)
      /\ decode(B, word).imm11 = Extract(word, <<7, 8>>)
      /\ decode(B, word).imm12 = Extract(word, <<31, 32>>)
      /\ decode(I, word).funct3 = Extract(word, <<12, 15>>)
  BY Zenon, Decodes
<1> QED BY Zenon, <1>3, <1>4

LEMMA JalrSays ==
  ASSUME NEW word, Extract(word, <<0, 7>>) = 103
  PROVE  disasm(word) =
           Text("JALR", <<Extract(word, <<7, 12>>), Extract(word, <<15, 20>>),
             c2(12, Extract(word, <<20, 32>>))>>)
<1>1. /\ Opcode.LOAD = 3 /\ Opcode.MISC_MEM = 15 /\ Opcode.OP_IMM = 19 /\ Opcode.AUIPC = 23
      /\ Opcode.STORE = 35 /\ Opcode.OP = 51 /\ Opcode.LUI = 55 /\ Opcode.BRANCH = 99
      /\ Opcode.JALR = 103 /\ Opcode.JAL = 111 /\ Opcode.SYSTEM = 115
  BY DEF Opcode
<1>0. /\ decode(I, word).opcode = Extract(word, <<0, 7>>)
  BY Zenon, Decodes
<1>2. /\ decode(I, word).opcode = 103
  BY SMT, <1>0
<1>3. disasm(word) =
        Text("JALR", <<decode(I, word).rd, decode(I, word).rs1, c2(12, decode(I, word).imm)>>)
  BY SMT, <1>1, <1>2, Functs DEF disasm
<1>4. /\ decode(I, word).rd = Extract(word, <<7, 12>>)
      /\ decode(I, word).rs1 = Extract(word, <<15, 20>>)
      /\ decode(I, word).imm = Extract(word, <<20, 32>>)
  BY Zenon, Decodes
<1> QED BY Zenon, <1>3, <1>4

LEMMA JalSays ==
  ASSUME NEW word, Extract(word, <<0, 7>>) = 111
  PROVE  disasm(word) =
           DisasmJal(decode(J, word))
<1>1. /\ Opcode.LOAD = 3 /\ Opcode.MISC_MEM = 15 /\ Opcode.OP_IMM = 19 /\ Opcode.AUIPC = 23
      /\ Opcode.STORE = 35 /\ Opcode.OP = 51 /\ Opcode.LUI = 55 /\ Opcode.BRANCH = 99
      /\ Opcode.JALR = 103 /\ Opcode.JAL = 111 /\ Opcode.SYSTEM = 115
  BY DEF Opcode
<1>0. /\ decode(I, word).opcode = Extract(word, <<0, 7>>)
  BY Zenon, Decodes
<1>2. /\ decode(I, word).opcode = 111
  BY SMT, <1>0
<1> QED BY SMT, <1>1, <1>2, Functs DEF disasm

LEMMA SystemSays ==
  ASSUME NEW word, Extract(word, <<0, 7>>) = 115, Extract(word, <<12, 15>>) = 0,
         Extract(word, <<20, 32>>) \in {0, 1}
  PROVE  disasm(word) =
           Text(<<"ECALL", "EBREAK">>[Extract(word, <<20, 32>>) + 1], <<>>)
<1>1. /\ Opcode.LOAD = 3 /\ Opcode.MISC_MEM = 15 /\ Opcode.OP_IMM = 19 /\ Opcode.AUIPC = 23
      /\ Opcode.STORE = 35 /\ Opcode.OP = 51 /\ Opcode.LUI = 55 /\ Opcode.BRANCH = 99
      /\ Opcode.JALR = 103 /\ Opcode.JAL = 111 /\ Opcode.SYSTEM = 115
  BY DEF Opcode
<1>0. /\ decode(I, word).opcode = Extract(word, <<0, 7>>)
      /\ decode(I, word).funct3 = Extract(word, <<12, 15>>)
      /\ decode(I, word).imm = Extract(word, <<20, 32>>)
  BY Zenon, Decodes
<1>2. /\ decode(I, word).opcode = 115
      /\ decode(I, word).funct3 = 0
      /\ decode(I, word).imm \in {0, 1}
  BY SMT, <1>0
<1>3. disasm(word) =
        Text(<<"ECALL", "EBREAK">>[decode(I, word).imm + 1], <<>>)
  BY SMT, <1>1, <1>2, Functs DEF disasm
<1>4. /\ decode(I, word).imm = Extract(word, <<20, 32>>)
  BY Zenon, Decodes
<1> QED BY Zenon, <1>3, <1>4
-----------------------------------------------------------------------------
(* What is said of a legitimate word makes the word. *)

RoundTrips(word) == disasm(word) # Unknown /\ FromText(disasm(word)) = <<word>>

\* A word whose text makes it makes the round.
LEMMA Rounds ==
  ASSUME NEW word, NEW name, NEW operands, name # "unknown",
         disasm(word) = Text(name, operands), FromText(Text(name, operands)) = <<word>>
  PROVE  RoundTrips(word)
<1>1. Text(name, operands) # Unknown
  BY DEF Text, Unknown
<1> QED BY <1>1 DEF RoundTrips

\* The names of the functions.
LEMMA LFunctNames ==
  ASSUME NEW f \in {0, 1, 2, 4, 5}
  PROVE  /\ LFunct[f] \in {"LB", "LH", "LW", "LBU", "LHU"}
         /\ Funct3[LFunct[f]] = f
<1>1. \E none : LFunct = [n \in {0, 1, 2, 4, 5} |->
                      <<"LB", "LH", "LW", none, "LBU", "LHU">>[n + 1]]
  BY Zenon DEF LFunct
<1>2. PICK none : LFunct = [n \in {0, 1, 2, 4, 5} |->
                      <<"LB", "LH", "LW", none, "LBU", "LHU">>[n + 1]]
  BY Zenon, <1>1
<1>3. LFunct[0] = "LB" /\ Funct3["LB"] = 0
  BY SMT, <1>2 DEF Funct3
<1>4. LFunct[1] = "LH" /\ Funct3["LH"] = 1
  BY SMT, <1>2 DEF Funct3
<1>5. LFunct[2] = "LW" /\ Funct3["LW"] = 2
  BY SMT, <1>2 DEF Funct3
<1>6. LFunct[4] = "LBU" /\ Funct3["LBU"] = 4
  BY SMT, <1>2 DEF Funct3
<1>7. LFunct[5] = "LHU" /\ Funct3["LHU"] = 5
  BY SMT, <1>2 DEF Funct3
<1> QED BY SMT, <1>3, <1>4, <1>5, <1>6, <1>7

LEMMA IFunctNames ==
  ASSUME NEW f \in {0, 1, 2, 3, 4, 6, 7}
  PROVE  /\ IFunct[f] \in {"ADDI", "SLLI", "SLTI", "SLTIU", "XORI", "ORI", "ANDI"}
         /\ Funct3[IFunct[f]] = f
         /\ f = 1 <=> IFunct[f] = "SLLI"
<1>1. \E none : IFunct = [n \in {0, 1, 2, 3, 4, 6, 7} |->
                      <<"ADDI", "SLLI", "SLTI", "SLTIU", "XORI", none, "ORI", "ANDI">>[n + 1]]
  BY Zenon DEF IFunct
<1>2. PICK none : IFunct = [n \in {0, 1, 2, 3, 4, 6, 7} |->
                      <<"ADDI", "SLLI", "SLTI", "SLTIU", "XORI", none, "ORI", "ANDI">>[n + 1]]
  BY Zenon, <1>1
<1>3. IFunct[0] = "ADDI" /\ Funct3["ADDI"] = 0
  BY SMT, <1>2 DEF Funct3
<1>4. IFunct[1] = "SLLI" /\ Funct3["SLLI"] = 1
  BY SMT, <1>2 DEF Funct3
<1>5. IFunct[2] = "SLTI" /\ Funct3["SLTI"] = 2
  BY SMT, <1>2 DEF Funct3
<1>6. IFunct[3] = "SLTIU" /\ Funct3["SLTIU"] = 3
  BY SMT, <1>2 DEF Funct3
<1>7. IFunct[4] = "XORI" /\ Funct3["XORI"] = 4
  BY SMT, <1>2 DEF Funct3
<1>8. IFunct[6] = "ORI" /\ Funct3["ORI"] = 6
  BY SMT, <1>2 DEF Funct3
<1>9. IFunct[7] = "ANDI" /\ Funct3["ANDI"] = 7
  BY SMT, <1>2 DEF Funct3
<1> QED BY SMT, <1>3, <1>4, <1>5, <1>6, <1>7, <1>8, <1>9

LEMMA RFunctNames ==
  ASSUME NEW f \in {1, 2, 3, 4, 6, 7}
  PROVE  /\ RFunct[f] \in {"SLL", "SLT", "SLTU", "XOR", "OR", "AND"}
         /\ Funct3[RFunct[f]] = f
<1>1. \E none : RFunct = [n \in {1, 2, 3, 4, 6, 7} |->
                      <<none, "SLL", "SLT", "SLTU", "XOR", none, "OR", "AND">>[n + 1]]
  BY Zenon DEF RFunct
<1>2. PICK none : RFunct = [n \in {1, 2, 3, 4, 6, 7} |->
                      <<none, "SLL", "SLT", "SLTU", "XOR", none, "OR", "AND">>[n + 1]]
  BY Zenon, <1>1
<1>3. RFunct[1] = "SLL" /\ Funct3["SLL"] = 1
  BY SMT, <1>2 DEF Funct3
<1>4. RFunct[2] = "SLT" /\ Funct3["SLT"] = 2
  BY SMT, <1>2 DEF Funct3
<1>5. RFunct[3] = "SLTU" /\ Funct3["SLTU"] = 3
  BY SMT, <1>2 DEF Funct3
<1>6. RFunct[4] = "XOR" /\ Funct3["XOR"] = 4
  BY SMT, <1>2 DEF Funct3
<1>7. RFunct[6] = "OR" /\ Funct3["OR"] = 6
  BY SMT, <1>2 DEF Funct3
<1>8. RFunct[7] = "AND" /\ Funct3["AND"] = 7
  BY SMT, <1>2 DEF Funct3
<1> QED BY SMT, <1>3, <1>4, <1>5, <1>6, <1>7, <1>8

LEMMA SFunctNames ==
  ASSUME NEW f \in {0, 1, 2}
  PROVE  /\ SFunct[f] \in {"SB", "SH", "SW"}
         /\ Funct3[SFunct[f]] = f
<1>3. SFunct[0] = "SB" /\ Funct3["SB"] = 0
  BY SMT DEF SFunct, Funct3
<1>4. SFunct[1] = "SH" /\ Funct3["SH"] = 1
  BY SMT DEF SFunct, Funct3
<1>5. SFunct[2] = "SW" /\ Funct3["SW"] = 2
  BY SMT DEF SFunct, Funct3
<1> QED BY SMT, <1>3, <1>4, <1>5

LEMMA BFunctNames ==
  ASSUME NEW f \in {0, 1, 4, 5, 6, 7}
  PROVE  /\ BFunct[f] \in {"BEQ", "BNE", "BLT", "BGE", "BLTU", "BGEU"}
         /\ Funct3[BFunct[f]] = f
<1>1. \E none : BFunct = [n \in {0, 1, 4, 5, 6, 7} |->
                      <<"BEQ", "BNE", none, none, "BLT", "BGE", "BLTU", "BGEU">>[n + 1]]
  BY Zenon DEF BFunct
<1>2. PICK none : BFunct = [n \in {0, 1, 4, 5, 6, 7} |->
                      <<"BEQ", "BNE", none, none, "BLT", "BGE", "BLTU", "BGEU">>[n + 1]]
  BY Zenon, <1>1
<1>3. BFunct[0] = "BEQ" /\ Funct3["BEQ"] = 0
  BY SMT, <1>2 DEF Funct3
<1>4. BFunct[1] = "BNE" /\ Funct3["BNE"] = 1
  BY SMT, <1>2 DEF Funct3
<1>5. BFunct[4] = "BLT" /\ Funct3["BLT"] = 4
  BY SMT, <1>2 DEF Funct3
<1>6. BFunct[5] = "BGE" /\ Funct3["BGE"] = 5
  BY SMT, <1>2 DEF Funct3
<1>7. BFunct[6] = "BLTU" /\ Funct3["BLTU"] = 6
  BY SMT, <1>2 DEF Funct3
<1>8. BFunct[7] = "BGEU" /\ Funct3["BGEU"] = 7
  BY SMT, <1>2 DEF Funct3
<1> QED BY SMT, <1>3, <1>4, <1>5, <1>6, <1>7, <1>8

-----------------------------------------------------------------------------
\* XRounds, for each opcode X: the text of a word with legitimate fields makes that word.
LEMMA LoadRounds ==
  ASSUME NEW word \in SUBSET (0 .. 31), Extract(word, <<0, 7>>) = 3,
         Extract(word, <<12, 15>>) \in {0, 1, 2, 4, 5}
  PROVE  RoundTrips(word)
<1>1. PICK rd, f, rs1, v : 
        /\ rd = Extract(word, <<7, 12>>)
        /\ f = Extract(word, <<12, 15>>)
        /\ rs1 = Extract(word, <<15, 20>>)
        /\ v = Extract(word, <<20, 32>>)
  OBVIOUS
<1>2. /\ rd \in Nat /\ rd < 32
      /\ f \in Nat /\ f < 8
      /\ rs1 \in Nat /\ rs1 < 32
      /\ v \in Nat /\ v < 4096
  BY SMT, <1>1, FieldRange
<1>3. PICK name, off, pair : name = LFunct[f] /\ off = c2(12, v) /\ pair = <<off, rs1>>
  OBVIOUS
<1>4. name \in {"LB", "LH", "LW", "LBU", "LHU"} /\ Funct3[name] = f
  BY Zenon, <1>1, <1>3, LFunctNames
<1>5. off \in Int /\ (off % 4096) = v
  BY SMT, <1>2, <1>3, SignedI
<1>6. disasm(word) = Text(name, <<rd, pair>>)
  BY Zenon, <1>1, <1>3, LoadSays
<1>7. FromText(Text(name, <<rd, pair>>)) = <<word>>
  BY SMT, <1>1, <1>3, <1>4, <1>5, LoadAgain
<1> QED BY SMT, <1>4, <1>6, <1>7, Rounds

LEMMA StoreRounds ==
  ASSUME NEW word \in SUBSET (0 .. 31), Extract(word, <<0, 7>>) = 35,
         Extract(word, <<12, 15>>) \in {0, 1, 2}
  PROVE  RoundTrips(word)
<1>1. PICK lo, f, rs1, rs2, hi : 
        /\ lo = Extract(word, <<7, 12>>)
        /\ f = Extract(word, <<12, 15>>)
        /\ rs1 = Extract(word, <<15, 20>>)
        /\ rs2 = Extract(word, <<20, 25>>)
        /\ hi = Extract(word, <<25, 32>>)
  OBVIOUS
<1>2. /\ lo \in Nat /\ lo < 32
      /\ f \in Nat /\ f < 8
      /\ rs1 \in Nat /\ rs1 < 32
      /\ rs2 \in Nat /\ rs2 < 32
      /\ hi \in Nat /\ hi < 128
  BY SMT, <1>1, FieldRange
<1>3. 2^5 = 32
  BY SMT, Powers
<1>4. PICK name, off, pair : name = SFunct[f] /\ off = c2(12, lo + 32 * hi) /\ pair = <<off, rs1>>
  OBVIOUS
<1>5. name \in {"SB", "SH", "SW"} /\ Funct3[name] = f
  BY Zenon, <1>1, <1>4, SFunctNames
<1>6. MadeS(off, lo, hi)
  BY SMT, <1>2, <1>4, SignedS
<1>7. off \in Int /\ (((off \div 1) % 32) % 32) = lo /\ (((off \div 32) % 128) % 128) = hi
  BY SMT, <1>6 DEF MadeS
<1>8. disasm(word) = Text(name, <<rs2, pair>>)
  BY Zenon, <1>1, <1>3, <1>4, StoreSays
<1>9. FromText(Text(name, <<rs2, pair>>)) = <<word>>
  BY SMT, <1>1, <1>4, <1>5, <1>7, StoreAgain
<1> QED BY SMT, <1>5, <1>8, <1>9, Rounds

LEMMA BranchRounds ==
  ASSUME NEW word \in SUBSET (0 .. 31), Extract(word, <<0, 7>>) = 99,
         Extract(word, <<12, 15>>) \in {0, 1, 4, 5, 6, 7}
  PROVE  RoundTrips(word)
<1>1. PICK f, rs1, rs2, x, y, z, t : 
        /\ f = Extract(word, <<12, 15>>)
        /\ rs1 = Extract(word, <<15, 20>>)
        /\ rs2 = Extract(word, <<20, 25>>)
        /\ x = Extract(word, <<8, 12>>)
        /\ y = Extract(word, <<25, 31>>)
        /\ z = Extract(word, <<7, 8>>)
        /\ t = Extract(word, <<31, 32>>)
  OBVIOUS
<1>2. /\ f \in Nat /\ f < 8
      /\ rs1 \in Nat /\ rs1 < 32
      /\ rs2 \in Nat /\ rs2 < 32
      /\ x \in Nat /\ x < 16
      /\ y \in Nat /\ y < 64
      /\ z \in Nat /\ z < 2
      /\ t \in Nat /\ t < 2
  BY SMT, <1>1, FieldRange
<1>3. 2^5 = 32 /\ 2^11 = 2048 /\ 2^12 = 4096
  BY SMT, Powers
<1>4. PICK name, imm : name = BFunct[f] /\ imm = c2(13, 2 * x + 2^5 * y + 2^11 * z + 2^12 * t)
  OBVIOUS
<1>5. name \in {"BEQ", "BNE", "BLT", "BGE", "BLTU", "BGEU"} /\ Funct3[name] = f
  BY SMT, <1>1, <1>4, BFunctNames
<1>6. imm = c2(13, 2 * x + 32 * y + 2048 * z + 4096 * t)
  BY SMT, <1>3, <1>4
<1>7. MadeB(imm, x, y, z, t)
  BY SMT, <1>2, <1>6, SignedB
<1>8. /\ imm \in Int
      /\ (((imm \div 2) % 16) % 16) = x /\ (((imm \div 32) % 64) % 64) = y
      /\ (((imm \div 2048) % 2) % 2) = z /\ (((imm \div 4096) % 2) % 2) = t
  BY SMT, <1>7 DEF MadeB
<1>9. disasm(word) = Text(name, <<rs1, rs2, imm>>)
  BY SMT, <1>1, <1>4, BranchSays
<1>10. FromText(Text(name, <<rs1, rs2, imm>>)) = <<word>>
  BY SMT, <1>1, <1>5, <1>8, BranchAgain
<1> QED BY SMT, <1>5, <1>9, <1>10, Rounds

LEMMA JalrRounds ==
  ASSUME NEW word \in SUBSET (0 .. 31), Extract(word, <<0, 7>>) = 103,
    Extract(word, <<12, 15>>) = 0
  PROVE  RoundTrips(word)
<1>1. PICK rd, rs1, v : 
        /\ rd = Extract(word, <<7, 12>>)
        /\ rs1 = Extract(word, <<15, 20>>)
        /\ v = Extract(word, <<20, 32>>)
  OBVIOUS
<1>2. /\ rd \in Nat /\ rd < 32
      /\ rs1 \in Nat /\ rs1 < 32
      /\ v \in Nat /\ v < 4096
  BY SMT, <1>1, FieldRange
<1>3. PICK name, imm : name = "JALR" /\ imm = c2(12, v)
  OBVIOUS
<1>4. imm \in Int /\ (imm % 4096) = v
  BY SMT, <1>2, <1>3, SignedI
<1>5. disasm(word) = Text(name, <<rd, rs1, imm>>)
  BY SMT, <1>1, <1>3, JalrSays
<1>6. FromText(Text(name, <<rd, rs1, imm>>)) = <<word>>
  BY SMT, <1>1, <1>3, <1>4, JalrAgain
<1> QED BY SMT, <1>3, <1>5, <1>6, Rounds

LEMMA JalRounds ==
  ASSUME NEW word \in SUBSET (0 .. 31), Extract(word, <<0, 7>>) = 111
  PROVE  RoundTrips(word)
<1>1. PICK rd, x, y, z, t : 
        /\ rd = Extract(word, <<7, 12>>)
        /\ x = Extract(word, <<21, 31>>)
        /\ y = Extract(word, <<20, 21>>)
        /\ z = Extract(word, <<12, 20>>)
        /\ t = Extract(word, <<31, 32>>)
  OBVIOUS
<1>2. /\ rd \in Nat /\ rd < 32
      /\ x \in Nat /\ x < 1024
      /\ y \in Nat /\ y < 2
      /\ z \in Nat /\ z < 256
      /\ t \in Nat /\ t < 2
  BY SMT, <1>1, FieldRange
<1>3. 2^11 = 2048 /\ 2^12 = 4096 /\ 2^20 = 1048576
  BY SMT, Powers
<1>4. PICK imm : imm = c2(21, 2 * x + 2^11 * y + 2^12 * z + 2^20 * t)
  OBVIOUS
<1>5. imm = c2(21, 2 * x + 2048 * y + 4096 * z + 1048576 * t)
  BY SMT, <1>3, <1>4
<1>6. MadeJ(imm, x, y, z, t)
  BY SMT, <1>2, <1>5, SignedJ
<1>7. /\ imm \in Int
      /\ (((imm \div 2) % 1024) % 1024) = x /\ (((imm \div 2048) % 2) % 2) = y
      /\ (((imm \div 4096) % 256) % 256) = z /\ (((imm \div 1048576) % 2) % 2) = t
  BY SMT, <1>6 DEF MadeJ
<1>8. PICK fields : fields = decode(J, word)
  OBVIOUS
<1>9. fields.rd = rd /\ fields.imm10_1 = x /\ fields.imm11 = y /\ fields.imm19_12 = z /\
        fields.imm20 = t
  BY SMT, <1>1, <1>8, Decodes
<1>10. disasm(word) = DisasmJal(fields)
  BY SMT, <1>8, JalSays
<1>11. CASE rd = 0
  <2>1. PICK name : name = "J_"
    OBVIOUS
  <2>2. disasm(word) = Text(name, <<imm>>)
    BY SMT, <1>4, <1>9, <1>10, <1>11, <2>1 DEF DisasmJal
  <2>3. /\ Extract(word, <<7, 12>>) = 0
        /\ (((imm \div 4096) % 256) % 256) = Extract(word, <<12, 20>>)
        /\ (((imm \div 2048) % 2) % 2) = Extract(word, <<20, 21>>)
        /\ (((imm \div 2) % 1024) % 1024) = Extract(word, <<21, 31>>)
        /\ (((imm \div 1048576) % 2) % 2) = Extract(word, <<31, 32>>)
    BY SMT, <1>1, <1>7, <1>11
  <2>4. name \in {"J_"} /\ imm \in Int
    BY SMT, <1>7, <2>1
  <2>5. FromText(Text(name, <<imm>>)) = <<word>>
    BY SMT, <2>3, <2>4, JAgain
  <2> QED BY SMT, <2>1, <2>2, <2>5, Rounds
<1>12. CASE rd # 0
  <2>1. PICK name : name = "JAL"
    OBVIOUS
  <2>2. disasm(word) = Text(name, <<rd, imm>>)
    BY SMT, <1>4, <1>9, <1>10, <1>12, <2>1 DEF DisasmJal
  <2>3. FromText(Text(name, <<rd, imm>>)) = <<word>>
    BY SMT, <1>1, <1>7, <2>1, JalAgain
  <2> QED BY SMT, <2>1, <2>2, <2>3, Rounds
<1> QED BY <1>11, <1>12

LEMMA UpperRounds ==
  ASSUME NEW word \in SUBSET (0 .. 31), Extract(word, <<0, 7>>) \in {23, 55}
  PROVE  RoundTrips(word)
<1>1. PICK rd, imm : 
        /\ rd = Extract(word, <<7, 12>>)
        /\ imm = Extract(word, <<12, 32>>)
  OBVIOUS
<1>2. /\ rd \in Nat /\ rd < 32
      /\ imm \in Nat /\ imm < 1048576
  BY SMT, <1>1, FieldRange
<1>3. PICK name : name = (IF Extract(word, <<0, 7>>) = 55 THEN "LUI" ELSE "AUIPC")
  OBVIOUS
<1>4. disasm(word) = Text(name, <<rd, imm>>)
  BY SMT, <1>1, <1>3, LUISays, AUIPCSays
<1>5. name \in {"LUI", "AUIPC"} /\ Extract(word, <<0, 7>>) = (IF name = "LUI" THEN 55 ELSE 23)
  BY SMT, <1>3
<1>6. FromText(Text(name, <<rd, imm>>)) = <<word>>
  BY SMT, <1>1, <1>2, <1>5, UpperAgain
<1> QED BY SMT, <1>5, <1>4, <1>6, Rounds

LEMMA SystemRounds ==
  ASSUME NEW word \in SUBSET (0 .. 31), Extract(word, <<0, 7>>) = 115,
    Extract(word, <<7, 12>>) = 0,
         Extract(word, <<12, 15>>) = 0, Extract(word, <<15, 20>>) = 0,
         Extract(word, <<20, 32>>) \in {0, 1}
  PROVE  RoundTrips(word)
<1>1. PICK name : name = (IF Extract(word, <<20, 32>>) = 0 THEN "ECALL" ELSE "EBREAK")
  OBVIOUS
<1>2. PICK names : names = <<"ECALL", "EBREAK">>
  OBVIOUS
<1>3. disasm(word) = Text(names[Extract(word, <<20, 32>>) + 1], <<>>)
  BY Zenon, <1>2, SystemSays
<1>4. names[Extract(word, <<20, 32>>) + 1] = name
  BY SMT, <1>1, <1>2
<1>5. disasm(word) = Text(name, <<>>)
  BY Zenon, <1>3, <1>4
<1>6. name \in {"ECALL", "EBREAK"} /\ Extract(word, <<20, 32>>) =
        (IF name = "ECALL" THEN 0 ELSE 1)
  BY SMT, <1>1
<1>7. FromText(Text(name, <<>>)) = <<word>>
  BY SMT, <1>6, SystemAgain
<1> QED BY SMT, <1>6, <1>5, <1>7, Rounds

LEMMA FenceTSORounds ==
  ASSUME NEW word \in SUBSET (0 .. 31), Extract(word, <<0, 7>>) = 15, Extract(word, <<7, 12>>) =
    0,
         Extract(word, <<12, 15>>) = 0, Extract(word, <<15, 20>>) = 0,
         Extract(word, <<20, 32>>) = 2099
  PROVE  RoundTrips(word)
<1>1. PICK fields : fields = decode(I, word)
  OBVIOUS
<1>2. fields.imm = 2099
  BY SMT, <1>1, Decodes
<1>3. disasm(word) = DisasmFence(fields)
  BY SMT, <1>1, FenceSays
<1>4. PICK name : name = "FENCE_TSO"
  BY SMT
<1>5. (2099 % 16) = 3 /\ ((2099 \div 16) % 16) = 3 /\ (2099 \div 256) = 8
  BY SMT
<1>6. disasm(word) = Text(name, <<>>)
  BY SMT, <1>2, <1>3, <1>4, <1>5 DEF DisasmFence
<1>7. name \in {"FENCE_TSO"}
  BY SMT, <1>4
<1>8. FromText(Text(name, <<>>)) = <<word>>
  BY SMT, <1>7, FenceTSOAgain
<1> QED BY SMT, <1>4, <1>6, <1>8, Rounds

LEMMA FenceRounds ==
  ASSUME NEW word \in SUBSET (0 .. 31), Extract(word, <<0, 7>>) = 15, Extract(word, <<7, 12>>) =
    0,
         Extract(word, <<12, 15>>) = 0, Extract(word, <<15, 20>>) = 0,
         (Extract(word, <<20, 32>>) \div 256) = 0,
         (Extract(word, <<20, 32>>) % 16) \in 1 .. 15,
         ((Extract(word, <<20, 32>>) \div 16) % 16) \in 1 .. 15
  PROVE  RoundTrips(word)
<1>1. PICK v : 
        /\ v = Extract(word, <<20, 32>>)
  OBVIOUS
<1>2. /\ v \in Nat /\ v < 4096
  BY SMT, <1>1, FieldRange
<1>3. PICK fields : fields = decode(I, word)
  OBVIOUS
<1>4. fields.imm = v
  BY SMT, <1>1, <1>3, Decodes
<1>5. disasm(word) = DisasmFence(fields)
  BY SMT, <1>3, FenceSays
<1>6. PICK name, o, s : name = "FENCE" /\ o = (v \div 16) % 16 /\ s = v % 16
  BY SMT
<1>7. (v \div 256) = 0 /\ s \in 1 .. 15 /\ o \in 1 .. 15 /\ s # 0 /\ o # 0 /\ s + 16 * o = v
  BY SMT, <1>1, <1>2, <1>6
<1>8. PICK pred, succ : pred = arg_fence(o) /\ succ = arg_fence(s)
  OBVIOUS
<1>9. disasm(word) = Text(name, <<pred, succ>>)
  BY SMT, <1>4, <1>5, <1>6, <1>7, <1>8 DEF DisasmFence
<1>10. fence_arg(pred) = o /\ fence_arg(succ) = s
  BY SMT, <1>7, <1>8, FenceNumber
<1>11. pred # {} /\ succ # {}
  BY Zenon, <1>7, <1>10, NoLetters
<1>12. /\ name \in {"FENCE"} /\ fence_arg(succ) \in 0 .. 15 /\ fence_arg(pred) \in 0 .. 15
       /\ (fence_arg(succ) + 16 * fence_arg(pred)) = Extract(word, <<20, 32>>)
  BY SMT, <1>1, <1>6, <1>7, <1>10
<1>13. FromText(Text(name, <<pred, succ>>)) = <<word>>
  BY SMT, <1>11, <1>12, FenceAgain
<1> QED BY SMT, <1>6, <1>9, <1>13, Rounds
-----------------------------------------------------------------------------
LEMMA OpRounds ==
  ASSUME NEW word \in SUBSET (0 .. 31), Extract(word, <<0, 7>>) = 51,
         Extract(word, <<25, 32>>) = 0 \/ (Extract(word, <<25, 32>>) = 32 /\
           Extract(word, <<12, 15>>) \in {0, 5})
  PROVE  RoundTrips(word)
<1>1. PICK rd, f, rs1, rs2, g : 
        /\ rd = Extract(word, <<7, 12>>)
        /\ f = Extract(word, <<12, 15>>)
        /\ rs1 = Extract(word, <<15, 20>>)
        /\ rs2 = Extract(word, <<20, 25>>)
        /\ g = Extract(word, <<25, 32>>)
  OBVIOUS
<1>2. /\ rd \in Nat /\ rd < 32
      /\ f \in Nat /\ f < 8
      /\ rs1 \in Nat /\ rs1 < 32
      /\ rs2 \in Nat /\ rs2 < 32
      /\ g \in Nat /\ g < 128
  BY SMT, <1>1, FieldRange
<1>3. PICK v : v = decode(R, word)
  OBVIOUS
<1>4. v.rd = rd /\ v.funct3 = f /\ v.rs1 = rs1 /\ v.rs2 = rs2 /\ v.funct7 = g
  BY SMT, <1>1, <1>3, Decodes
<1>5. disasm(word) = DisasmOp(v)
  BY SMT, <1>3, OpSays
<1>6. PICK sign : sign = Bit(g, 5)
  OBVIOUS
<1>7. 2^5 = 32
  BY SMT, Powers
<1>8. sign = (g \div 32) % 2
  BY SMT, <1>6, <1>7 DEF Bit
<1>9. \/ g = 0 /\ sign = 0
      \/ g = 32 /\ f \in {0, 5} /\ sign = 1
  BY SMT, <1>1, <1>8
<1>10. CASE f = 3 /\ rs1 = 0
  <2>1. PICK name : name = "SNEZ"
    OBVIOUS
  <2>2. disasm(word) = Text(name, <<rd, rs2>>)
    BY SMT, <1>4, <1>5, <1>10, <2>1 DEF DisasmOp
  <2>3. /\ name \in {"SNEZ"} /\ Extract(word, <<12, 15>>) = 3
        /\ Extract(word, <<15, 20>>) = 0 /\ Extract(word, <<25, 32>>) = 0
    BY SMT, <1>1, <1>9, <1>10, <2>1
  <2>4. FromText(Text(name, <<rd, rs2>>)) = <<word>>
    BY SMT, <1>1, <2>3, SnezAgain
  <2> QED BY SMT, <2>1, <2>2, <2>4, Rounds
<1>11. CASE sign = 1
  <2>1. PICK name : name = (IF f = 0 THEN "SUB" ELSE "SRA")
    OBVIOUS
  <2>2. disasm(word) = Text(name, <<rd, rs1, rs2>>)
    BY SMT, <1>4, <1>5, <1>6, <1>9, <1>11, <2>1 DEF DisasmOp
  <2>3. /\ name \in {"SUB", "SRA"} /\ Extract(word, <<12, 15>>) = Funct3[name]
        /\ Extract(word, <<25, 32>>) = 32
    BY SMT, <1>1, <1>9, <1>11, <2>1 DEF Funct3
  <2>4. FromText(Text(name, <<rd, rs1, rs2>>)) = <<word>>
    BY SMT, <1>1, <2>3, OpNegateAgain
  <2> QED BY SMT, <2>3, <2>2, <2>4, Rounds
<1>12. CASE sign = 0 /\ f \in {0, 5}
  <2>1. PICK name : name = (IF f = 0 THEN "ADD" ELSE "SRL")
    OBVIOUS
  <2>2. disasm(word) = Text(name, <<rd, rs1, rs2>>)
    BY SMT, <1>4, <1>5, <1>6, <1>12, <2>1 DEF DisasmOp
  <2>3. /\ name \in {"ADD", "SLL", "SLT", "SLTU", "XOR", "SRL", "OR", "AND"}
        /\ Extract(word, <<12, 15>>) = Funct3[name] /\ Extract(word, <<25, 32>>) = 0
    BY SMT, <1>1, <1>9, <1>12, <2>1 DEF Funct3
  <2>4. FromText(Text(name, <<rd, rs1, rs2>>)) = <<word>>
    BY SMT, <1>1, <2>3, OpAgain
  <2> QED BY SMT, <2>3, <2>2, <2>4, Rounds
<1>13. CASE f \notin {0, 5} /\ ~(f = 3 /\ rs1 = 0)
  <2>1. PICK name : name = RFunct[f]
    OBVIOUS
  <2>2. disasm(word) = Text(name, <<rd, rs1, rs2>>)
    BY SMT, <1>4, <1>5, <1>13, <2>1 DEF DisasmOp
  <2>3. f \in {1, 2, 3, 4, 6, 7}
    BY SMT, <1>2, <1>13
  <2>4. name \in {"SLL", "SLT", "SLTU", "XOR", "OR", "AND"} /\ Funct3[name] = f
    BY SMT, <2>1, <2>3, RFunctNames
  <2>5. /\ name \in {"ADD", "SLL", "SLT", "SLTU", "XOR", "SRL", "OR", "AND"}
        /\ Extract(word, <<12, 15>>) = Funct3[name] /\ Extract(word, <<25, 32>>) = 0
    BY SMT, <1>1, <1>9, <1>13, <2>4
  <2>6. FromText(Text(name, <<rd, rs1, rs2>>)) = <<word>>
    BY SMT, <1>1, <2>5, OpAgain
  <2> QED BY SMT, <2>4, <2>2, <2>6, Rounds
<1> QED BY SMT, <1>9, <1>10, <1>11, <1>12, <1>13

\* A small immediate is loaded by one ADDI.
LEMMA LoadedAgain ==
  ASSUME NEW rd, NEW imm \in Nat, imm < 4096
  PROVE  FromText(Text("LI", <<rd, imm>>)) = <<ADDIWord(rd, Reg("zero"), imm)>>
<1>1. PICK text : text = Text("LI", <<rd, imm>>)
  OBVIOUS
<1>2. text.name = "LI" /\ text.operands[1] = rd /\ text.operands[2] = imm
  BY SMT, <1>1 DEF Text
<1>3. (imm \div 4096) = 0 /\ (imm % 4096) = imm
  BY SMT
<1> DEFINE args == [rd |-> rd, imm |-> <<0, imm>>]
<1>4. args.rd = rd /\ args.imm[1] = 0 /\ args.imm[2] = imm
  BY SMT
<1>5. FromText(text) = Assembled("LI", args)
  BY SMT, <1>2, <1>3 DEF FromText
<1>6. PICK pieces : pieces = LI(args.imm[1], args.imm[2])
  BY SMT
<1>7. pieces = <<Piece("ADDI", imm)>>
  BY SMT, <1>4, <1>6 DEF LI
<1>8. Assembled("LI", args) = [k \in DOMAIN pieces |-> LIPiece(args.rd, pieces, k)]
  BY SMT, <1>6 DEF Assembled
<1>9. LIPiece(rd, pieces, 1) = ADDIWord(rd, Reg("zero"), imm)
  BY SMT, <1>7 DEF LIPiece, Piece, ADDIWord
<1>10. [k \in DOMAIN pieces |-> LIPiece(args.rd, pieces, k)] = <<LIPiece(rd, pieces, 1)>>
  BY SMT, <1>4, <1>7
<1> QED BY SMT, <1>1, <1>5, <1>8, <1>9, <1>10

LEMMA OpImmRounds ==
  ASSUME NEW word \in SUBSET (0 .. 31), Extract(word, <<0, 7>>) = 19,
         Extract(word, <<12, 15>>) = 1 => Extract(word, <<20, 32>>) \in 0 .. 31,
         Extract(word, <<12, 15>>) = 5 => \/ Extract(word, <<20, 32>>) \in 0 .. 31
                                        \/ Extract(word, <<20, 32>>) - 1024 \in 0 .. 31
  PROVE  RoundTrips(word)
<1>1. PICK rd, f, rs1, imm : 
        /\ rd = Extract(word, <<7, 12>>)
        /\ f = Extract(word, <<12, 15>>)
        /\ rs1 = Extract(word, <<15, 20>>)
        /\ imm = Extract(word, <<20, 32>>)
  OBVIOUS
<1>2. /\ rd \in Nat /\ rd < 32
      /\ f \in Nat /\ f < 8
      /\ rs1 \in Nat /\ rs1 < 32
      /\ imm \in Nat /\ imm < 4096
  BY SMT, <1>1, FieldRange
<1>3. PICK v : v = decode(I, word)
  OBVIOUS
<1>4. v.rd = rd /\ v.funct3 = f /\ v.rs1 = rs1 /\ v.imm = imm
  BY SMT, <1>1, <1>3, Decodes
<1>5. disasm(word) = DisasmOpImm(v)
  BY SMT, <1>3, OpImmSays
<1>6. CASE f = 0 /\ imm = 0 /\ rd = 0 /\ rs1 = 0
  <2>1. PICK name : name = "NOP"
    BY SMT
  <2>2. disasm(word) = Text(name, <<>>)
    BY SMT, <1>4, <1>5, <1>6, <2>1 DEF DisasmOpImm
  <2>3. name \in {"NOP"} /\ Extract(word, <<7, 12>>) = 0 /\ Extract(word, <<12, 15>>) = 0
        /\ Extract(word, <<15, 20>>) = 0 /\ Extract(word, <<20, 32>>) = 0
    BY SMT, <1>1, <1>6, <2>1
  <2>4. FromText(Text(name, <<>>)) = <<word>>
    BY SMT, <1>1, <2>3, NopAgain
  <2> QED BY SMT, <2>1, <2>2, <2>4, Rounds
<1>7. CASE f = 0 /\ imm = 0 /\ ~(rd = 0 /\ rs1 = 0)
  <2>1. PICK name : name = "MV"
    BY SMT
  <2>2. disasm(word) = Text(name, <<rd, rs1>>)
    BY SMT, <1>4, <1>5, <1>7, <2>1 DEF DisasmOpImm
  <2>3. name \in {"MV"} /\ Extract(word, <<12, 15>>) = 0 /\ Extract(word, <<20, 32>>) = 0
    BY SMT, <1>1, <1>7, <2>1
  <2>4. FromText(Text(name, <<rd, rs1>>)) = <<word>>
    BY SMT, <1>1, <2>3, MvAgain
  <2> QED BY SMT, <2>1, <2>2, <2>4, Rounds
<1>8. CASE f = 0 /\ rs1 = 0 /\ imm # 0
  <2>1. PICK name : name = "LI"
    BY SMT
  <2>2. disasm(word) = Text(name, <<rd, imm>>)
    BY SMT, <1>4, <1>5, <1>8, <2>1 DEF DisasmOpImm
  <2>3. FromText(Text("LI", <<rd, imm>>)) = <<ADDIWord(rd, Reg("zero"), imm)>>
    BY SMT, <1>2, LoadedAgain
  <2>4. ADDIWord(rd, Reg("zero"), imm) = word
    <3>1. PICK zero : zero = 0
      BY SMT
    <3> DEFINE given == [rd |-> rd, rs1 |-> zero, imm |-> imm]
    <3>2. /\ DOMAIN given = {"rd", "rs1", "imm"}
          /\ given["rd"] = rd /\ given["rs1"] = zero /\ given["imm"] = imm
      BY SMT
    <3>3. PICK funct3 : funct3 = 0
      BY SMT
    <3>4. Insns.ADDI = OpImm(funct3)
      BY SMT, <3>3 DEF Insns
    <3>5. Reg("zero") = zero
      BY SMT, <3>1, RegValues
    <3>6. ADDIWord(rd, Reg("zero"), imm) = value(OpImm(funct3), given)
      BY SMT, <3>4, <3>5 DEF ADDIWord
    <3> HIDE DEF given
    <3>7. value(OpImm(funct3), given) = IWord(19, rd, funct3, zero, imm)
      BY SMT, <3>2, OpImmValue
    <3>8. /\ 19 \in Int /\ rd \in Int /\ funct3 \in Int /\ zero \in Int /\ imm \in Int
          /\ (19 % 128) = Extract(word, <<0, 7>>) /\ (rd % 32) = Extract(word, <<7, 12>>)
          /\ (funct3 % 8) = Extract(word, <<12, 15>>)
          /\ (zero % 32) = Extract(word, <<15, 20>>)
          /\ (imm % 4096) = Extract(word, <<20, 32>>)
      BY SMT, <1>1, <1>2, <1>8, <3>1, <3>3
    <3>9. IWord(19, rd, funct3, zero, imm) = word
      BY SMT, <3>8, IOfFields
    <3> QED BY SMT, <3>6, <3>7, <3>9
  <2>5. FromText(Text(name, <<rd, imm>>)) = <<word>>
    BY SMT, <2>1, <2>3, <2>4
  <2> QED BY SMT, <2>1, <2>2, <2>5, Rounds
<1>9. CASE f = 3 /\ imm = 1
  <2>1. PICK name : name = "SEQZ"
    BY SMT
  <2>2. disasm(word) = Text(name, <<rd, rs1>>)
    BY SMT, <1>4, <1>5, <1>9, <2>1 DEF DisasmOpImm
  <2>3. name \in {"SEQZ"} /\ Extract(word, <<12, 15>>) = 3 /\ Extract(word, <<20, 32>>) = 1
    BY SMT, <1>1, <1>9, <2>1
  <2>4. FromText(Text(name, <<rd, rs1>>)) = <<word>>
    BY SMT, <1>1, <2>3, SeqzAgain
  <2> QED BY SMT, <2>1, <2>2, <2>4, Rounds
<1>10. CASE f = 4 /\ imm = 4095
  <2>1. PICK name : name = "NOT"
    BY SMT
  <2>2. disasm(word) = Text(name, <<rd, rs1>>)
    BY SMT, <1>4, <1>5, <1>10, <2>1 DEF DisasmOpImm
  <2>3. name \in {"NOT"} /\ Extract(word, <<12, 15>>) = 4 /\ Extract(word, <<20, 32>>) = 4095
    BY SMT, <1>1, <1>10, <2>1
  <2>4. FromText(Text(name, <<rd, rs1>>)) = <<word>>
    BY SMT, <1>1, <2>3, NotAgain
  <2> QED BY SMT, <2>1, <2>2, <2>4, Rounds
<1>11. CASE f = 5
  <2>1. PICK sign, shamt : sign = Bit(imm, 10) /\ shamt = imm % 64
    BY SMT
  <2>2. \/ sign = 0 /\ shamt \in 0 .. 31 /\ imm = shamt
        \/ sign = 1 /\ shamt \in 0 .. 31 /\ imm = 1024 + shamt
    BY SMT, <1>1, <1>2, <1>11, <2>1, Powers DEF Bit
  <2>3. PICK name : name = (IF sign = 1 THEN "SRAI" ELSE "SRLI")
    BY SMT
  <2>4. disasm(word) = Text(name, <<rd, rs1, shamt>>)
    BY SMT, <1>4, <1>5, <1>11, <2>1, <2>3 DEF DisasmOpImm
  <2>5. name \in {"SLLI", "SRLI", "SRAI"} /\ shamt \in 0 .. 31 /\ Funct3[name] = 5
    BY SMT, <2>2, <2>3 DEF Funct3
  <2>6. ShamtIs(name, shamt, word) /\ Extract(word, <<12, 15>>) = Funct3[name]
    BY SMT, <1>1, <1>11, <2>2, <2>3, <2>5 DEF ShamtIs
  <2>9. ShiftSaid(name, word, rd, rs1, shamt)
    BY Zenon, ShiftAgain
  <2>7. FromText(Text(name, <<rd, rs1, shamt>>)) = <<word>>
    BY SMT, <1>1, <2>5, <2>6, <2>9 DEF ShiftSaid
  <2> QED BY SMT, <2>5, <2>4, <2>7, Rounds
<1>12. CASE f = 1
  <2>1. PICK name : name = IFunct[f]
    BY SMT
  <2>2. disasm(word) = Text(name, <<rd, rs1, imm>>)
    BY SMT, <1>4, <1>5, <1>12, <2>1 DEF DisasmOpImm
  <2>3. name = "SLLI" /\ Funct3[name] = f
    BY SMT, <1>12, <2>1, IFunctNames
  <2>4. /\ name \in {"SLLI", "SRLI", "SRAI"} /\ imm \in 0 .. 31
        /\ ShamtIs(name, imm, word) /\ Extract(word, <<12, 15>>) = Funct3[name]
    BY SMT, <1>1, <1>12, <2>1, <2>3 DEF ShamtIs
  <2>9. ShiftSaid(name, word, rd, rs1, imm)
    BY Zenon, ShiftAgain
  <2>5. FromText(Text(name, <<rd, rs1, imm>>)) = <<word>>
    BY SMT, <1>1, <2>4, <2>9 DEF ShiftSaid
  <2> QED BY SMT, <2>3, <2>2, <2>5, Rounds
<1>13. CASE f \notin {1, 5} /\ ~(f = 0 /\ imm = 0) /\ ~(f = 0 /\ rs1 = 0)
            /\ ~(f = 3 /\ imm = 1) /\ ~(f = 4 /\ imm = 4095)
  <2>1. PICK name, value1 : name = IFunct[f] /\
        value1 = (IF f \in {0, 2} THEN c2(12, imm) ELSE imm)
    BY SMT
  <2>2. disasm(word) = Text(name, <<rd, rs1, value1>>)
    BY SMT, <1>4, <1>5, <1>13, <2>1 DEF DisasmOpImm
  <2>3. f \in {0, 1, 2, 3, 4, 6, 7} /\ f # 1
    BY SMT, <1>2, <1>13
  <2>4. name \in {"ADDI", "SLTI", "SLTIU", "XORI", "ORI", "ANDI"} /\ Funct3[name] = f
    BY SMT, <2>1, <2>3, IFunctNames
  <2>5. value1 \in Int /\ (value1 % 4096) = Extract(word, <<20, 32>>) /\
          Extract(word, <<12, 15>>) = Funct3[name]
    BY SMT, <1>1, <1>2, <2>1, <2>4, SignedI
  <2>6. FromText(Text(name, <<rd, rs1, value1>>)) = <<word>>
    BY SMT, <1>1, <2>4, <2>5, OpImmAgain
  <2> QED BY SMT, <2>4, <2>2, <2>6, Rounds
<1> QED BY SMT, <1>2, <1>6, <1>7, <1>8, <1>9, <1>10, <1>11, <1>12, <1>13

\* What the disassembler says of a legitimate word makes it.
LEMMA LegitRounds == ASSUME NEW word, Legit(word) PROVE RoundTrips(word)
<1>0. word \in SUBSET (0 .. 31) /\ Extract(word, <<0, 7>>) \in
        {3, 15, 19, 23, 35, 51, 55, 99, 103, 111, 115}
  BY SMT DEF Legit
<1>1. CASE Extract(word, <<0, 7>>) = 3
  <2>1. Extract(word, <<12, 15>>) \in {0, 1, 2, 4, 5}
    BY SMT, <1>1 DEF Legit
  <2> QED BY Zenon, <1>0, <1>1, <2>1, LoadRounds
<1>2. CASE Extract(word, <<0, 7>>) = 19
  <2>1. /\ Extract(word, <<12, 15>>) = 1 => Extract(word, <<20, 32>>) \in 0 .. 31
        /\ Extract(word, <<12, 15>>) = 5 => \/ Extract(word, <<20, 32>>) \in 0 .. 31
                                       \/ Extract(word, <<20, 32>>) - 1024 \in 0 .. 31
    BY SMT, <1>2 DEF Legit
  <2> QED BY Zenon, <1>0, <1>2, <2>1, OpImmRounds
<1>3. CASE Extract(word, <<0, 7>>) = 35
  <2>1. Extract(word, <<12, 15>>) \in {0, 1, 2}
    BY SMT, <1>3 DEF Legit
  <2> QED BY Zenon, <1>0, <1>3, <2>1, StoreRounds
<1>4. CASE Extract(word, <<0, 7>>) = 51
  <2>1. \/ Extract(word, <<25, 32>>) = 0
        \/ Extract(word, <<25, 32>>) = 32 /\ Extract(word, <<12, 15>>) \in {0, 5}
    BY SMT, <1>4 DEF Legit
  <2> QED BY Zenon, <1>0, <1>4, <2>1, OpRounds
<1>5. CASE Extract(word, <<0, 7>>) = 99
  <2>1. Extract(word, <<12, 15>>) \in {0, 1, 4, 5, 6, 7}
    BY SMT, <1>5 DEF Legit
  <2> QED BY Zenon, <1>0, <1>5, <2>1, BranchRounds
<1>6. CASE Extract(word, <<0, 7>>) = 103
  <2>1. Extract(word, <<12, 15>>) = 0
    BY SMT, <1>6 DEF Legit
  <2> QED BY Zenon, <1>0, <1>6, <2>1, JalrRounds
<1>7. CASE Extract(word, <<0, 7>>) = 111
  BY Zenon, <1>0, <1>7, JalRounds
<1>8. CASE Extract(word, <<0, 7>>) = 115
  <2>1. /\ Extract(word, <<7, 12>>) = 0 /\ Extract(word, <<12, 15>>) = 0
        /\ Extract(word, <<15, 20>>) = 0 /\ Extract(word, <<20, 32>>) \in {0, 1}
    BY SMT, <1>8 DEF Legit
  <2> QED BY Zenon, <1>0, <1>8, <2>1, SystemRounds
<1>9. CASE Extract(word, <<0, 7>>) \in {23, 55}
  BY Zenon, <1>0, <1>9, UpperRounds
<1>10. CASE Extract(word, <<0, 7>>) = 15
  <2>1. /\ Extract(word, <<7, 12>>) = 0 /\ Extract(word, <<12, 15>>) = 0 /\
             Extract(word, <<15, 20>>) = 0
        /\ \/ Extract(word, <<20, 32>>) = 2099
           \/ /\ (Extract(word, <<20, 32>>) \div 256) = 0
              /\ (Extract(word, <<20, 32>>) % 16) \in 1 .. 15
              /\ ((Extract(word, <<20, 32>>) \div 16) % 16) \in 1 .. 15
    BY SMT, <1>10 DEF Legit
  <2> QED BY SMT, <1>0, <1>10, <2>1, FenceRounds, FenceTSORounds
<1> QED BY SMT, <1>0, <1>1, <1>2, <1>3, <1>4, <1>5, <1>6, <1>7, <1>8, <1>9, <1>10
-----------------------------------------------------------------------------
(* Reassembly. *)

\* A piece of LI has a legitimate word.
LEMMA LUILegit ==
  ASSUME NEW rd \in 0 .. 31, NEW hi \in Int, NEW word,
         word = value(Insns.LUI, [rd |-> rd, imm |-> hi]), word # Refused
  PROVE  Legit(word)
<1>1. PICK opcode, given : opcode = 55 /\ given = [rd |-> rd, imm |-> hi]
  OBVIOUS
<1>2. /\ {"rd", "imm"} \subseteq DOMAIN given
      /\ given["rd"] \in 0 .. 31 /\ given["imm"] \in Int
  BY <1>1
<1>3. Insns.LUI = Upper(opcode)
  BY <1>1 DEF Insns, Opcode
<1>4. word = value(Upper(opcode), given)
  BY <1>1, <1>3
<1>5. word \in SUBSET (0 .. 31) /\ Extract(word, <<0, 7>>) = 55
  BY SMT, <1>1, <1>2, <1>4, UpperLine
<1> QED BY SMT, <1>5 DEF Legit

LEMMA ADDILegit ==
  ASSUME NEW rd \in 0 .. 31, NEW rs1 \in 0 .. 31, NEW lo \in Int,
         ADDIWord(rd, rs1, lo) # Refused
  PROVE  Legit(ADDIWord(rd, rs1, lo))
<1>1. PICK funct3, given : funct3 = 0 /\ given = [rd |-> rd, rs1 |-> rs1, imm |-> lo]
  OBVIOUS
<1> DEFINE word == ADDIWord(rd, rs1, lo)
<1>2. /\ {"rd", "rs1", "imm"} \subseteq DOMAIN given
      /\ given["rd"] \in 0 .. 31 /\ given["rs1"] \in 0 .. 31 /\ given["imm"] \in Int
  BY <1>1
<1>3. Insns.ADDI = OpImm(funct3)
  BY <1>1 DEF Insns
<1>4. word = value(OpImm(funct3), given) /\ word # Refused
  BY <1>1, <1>3 DEF ADDIWord
<1> HIDE DEF word
<1>5. /\ word \in SUBSET (0 .. 31) /\ Extract(word, <<0, 7>>) = 19
      /\ Extract(word, <<12, 15>>) = 0
  BY SMT, <1>1, <1>2, <1>4, OpImmLine
<1>6. Legit(word)
  BY SMT, <1>5 DEF Legit
<1> QED BY <1>6 DEF word

LEMMA PieceLegit ==
  ASSUME NEW rd \in 0 .. 31, NEW hi \in Int, NEW lo \in Low, NEW k \in DOMAIN LI(hi, lo),
         LIPiece(rd, LI(hi, lo), k) # Refused
  PROVE  Legit(LIPiece(rd, LI(hi, lo), k))
<1> DEFINE pieces == LI(hi, lo)
<1>1. PICK insn, imm : insn = pieces[k].insn /\ imm = pieces[k].imm
  OBVIOUS
<1>2. lo \in Int /\ (lo \div 2) \in Int /\ (lo \div 2) + (lo % 2) \in Int
  BY SMT DEF Low
<1>3. (insn = "LUI" \/ insn = "ADDI") /\ imm \in Int
  BY SMT, <1>1, <1>2 DEF LI, Piece
<1>4. PICK rs1 : rs1 = IF k = 1 THEN Reg("zero") ELSE rd
  OBVIOUS
<1>5. rs1 \in 0 .. 31
  BY SMT, <1>4, RegValues
<1>6. LIPiece(rd, pieces, k) = IF insn = "LUI" THEN value(Insns.LUI, [rd |-> rd, imm |-> imm])
                               ELSE ADDIWord(rd, rs1, imm)
  BY Zenon, <1>1, <1>4 DEF LIPiece, ADDIWord
<1> HIDE DEF pieces
<1>7. CASE insn = "LUI"
  BY Zenon, <1>3, <1>6, <1>7, LUILegit DEF pieces
<1>8. CASE insn # "LUI"
  BY Zenon, <1>3, <1>5, <1>6, <1>8, ADDILegit DEF pieces
<1> QED BY Zenon, <1>7, <1>8

\* Whatever is assembled, and not refused, is legitimate.
LEMMA AssembledLegit ==
  ASSUME AsmInv, NEW k \in DOMAIN words, words[k] # Refused, words # <<>>
  PROVE  Legit(words[k])
<1>1. CASE line.name = "LI"
  <2>1. line.args \in [rd : 0 .. 31, imm : Int \X Low]
    BY <1>1, LinesAssumption DEF AsmInv
  <2>2. PICK rd, hi, lo : /\ rd \in 0 .. 31 /\ hi \in Int /\ lo \in Low
                          /\ line.args.rd = rd /\ line.args.imm[1] = hi /\ line.args.imm[2] = lo
    <3>1. line.args.rd \in 0 .. 31 /\ line.args.imm \in Int \X Low
      BY <2>1
    <3> QED BY <3>1
  <2>3. words = [j \in DOMAIN LI(hi, lo) |-> LIPiece(rd, LI(hi, lo), j)]
    BY <1>1, <2>2 DEF AsmInv, Assembled
  <2>4. k \in DOMAIN LI(hi, lo) /\ words[k] = LIPiece(rd, LI(hi, lo), k)
    BY <2>3
  <2> QED BY Zenon, <2>2, <2>4, PieceLegit
<1>2. CASE line.name # "LI"
  <2>1. words = <<value(Insns[line.name], line.args)>>
    BY <1>2 DEF AsmInv, Assembled
  <2>2. PICK word : word = value(Insns[line.name], line.args)
    OBVIOUS
  <2>3. words = <<word>>
    BY <2>1, <2>2
  <2>4. k = 1 /\ words[1] = word /\ word # Refused
    BY <2>3
  <2>5. words # <<Refused>>
    BY <2>3, <2>4
  <2>6. IsAssembled
    BY <1>2, <2>5 DEF IsAssembled
  <2>7. Legit(words[1])
    BY Zenon, <2>6, AssembledHolds DEF Holds
  <2> QED BY Zenon, <2>4, <2>7
<1> QED BY <1>1, <1>2

\* The texts are those of the words, and what is assembled again is what the texts say.
TextInv ==
  /\ texts # <<>> => /\ words # <<>> /\ Refused \notin ToSet(words)
                     /\ texts = [k \in DOMAIN words |-> disasm(words[k])]
  /\ again # <<>> =>
       /\ texts # <<>>
       /\ again = [k \in DOMAIN texts |->
                     IF texts[k] = Unknown THEN <<Refused>> ELSE FromText(texts[k])]

\* TextInv is inductive: each step fills in the next of words, texts and again.
LEMMA TextInvInit == AsmInit => TextInv
BY DEF AsmInit, TextInv

LEMMA TextInvNext == TextInv /\ [AsmNext]_asmVars => TextInv'
<1> SUFFICES ASSUME TextInv, [AsmNext]_asmVars PROVE TextInv'
  OBVIOUS
<1>1. CASE Assemble
  BY Zenon, <1>1 DEF TextInv, Assemble
<1>2. CASE Disassemble
  BY Zenon, <1>2 DEF TextInv, Disassemble
<1>3. CASE Reassemble
  BY Zenon, <1>3 DEF TextInv, Reassemble
<1>4. CASE UNCHANGED asmVars
  BY Zenon, <1>4 DEF TextInv, asmVars
<1> QED BY <1>1, <1>2, <1>3, <1>4 DEF AsmNext

LEMMA TextInvAlways == AsmSpec => []TextInv
BY TextInvInit, TextInvNext, PTL DEF AsmSpec

LEMMA AssemblesAgain == AsmInv /\ TextInv => Reassembles
<1> SUFFICES ASSUME AsmInv, TextInv, again # <<>>, NEW k \in DOMAIN words
             PROVE  again[k] = <<words[k]>>
  BY DEF Reassembles
<1>1. /\ words # <<>> /\ Refused \notin ToSet(words)
      /\ texts = [j \in DOMAIN words |-> disasm(words[j])]
      /\ again = [j \in DOMAIN texts |->
                    IF texts[j] = Unknown THEN <<Refused>> ELSE FromText(texts[j])]
  BY Zenon DEF TextInv
<1>2. words[k] # Refused
  BY <1>1 DEF ToSet
<1>3. RoundTrips(words[k])
  BY Zenon, <1>1, <1>2, AssembledLegit, LegitRounds
<1>4. texts[k] = disasm(words[k]) /\ k \in DOMAIN texts
  BY Zenon, <1>1
<1>5. again[k] = IF texts[k] = Unknown THEN <<Refused>> ELSE FromText(texts[k])
  BY Zenon, <1>1, <1>4
<1> QED BY Zenon, <1>3, <1>4, <1>5 DEF RoundTrips

\* What the trace says of the words of a line assembles to those words, each to its own.
THEOREM TraceAssembles == AsmSpec => []Reassembles
BY AsmInvAlways, TextInvAlways, AssemblesAgain, PTL
=============================================================================
