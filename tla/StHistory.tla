----------------------------- MODULE StHistory ------------------------------
(***************************************************************************)
(* The parser of the test language, with a record of what it has been fed: *)
(* fed are the lines so far, fished counts the lists that have ended, and  *)
(* at_end says that one has just ended.  No action reads it.               *)
(***************************************************************************)
EXTENDS StParser

VARIABLES fed, fished, at_end

stHistoryVars == <<parserVars, fed, fished, at_end>>

StHistoryInit == ParserInit /\ fed = <<>> /\ fished = 0 /\ at_end = FALSE

FeedRecorded(line) ==
  /\ Feed(line)
  /\ fed' = Append(fed, line) /\ at_end' = FALSE /\ UNCHANGED fished

FishRecorded ==
  /\ Fish
  /\ fished' = fished + 1 /\ at_end' = TRUE /\ UNCHANGED fed

StHistoryNext == FishRecorded \/ \E line \in Line : FeedRecorded(line)

StHistorySpec == StHistoryInit /\ [][StHistoryNext]_stHistoryVars
-----------------------------------------------------------------------------
Body(result) == bodies[result.body]

\* The results that become tests (test_st.py): of those of a name, the last.
IsTest(i) == \A j \in DOMAIN results : j > i => results[j].name # results[i].name

\* The last label of a name.
Begins(b, name) == fed[b] = name /\ \A j \in DOMAIN fed : j > b => fed[j] # name

\* A statement after a label, with no other label between them.
Follows(k, b) == k > b /\ fed[k] = "stmt" /\ \A j \in b + 1 .. k : fed[j] \notin Labels

\* The statements of the last section of a name, by the lines' places in the file.
Section(name) == {k \in DOMAIN fed : \E b \in DOMAIN fed : Begins(b, name) /\ Follows(k, b)}

\* A sequence is the elements of a set in their order.
Lists(seq, set) ==
  /\ {seq[i] : i \in DOMAIN seq} = set
  /\ \A i, j \in DOMAIN seq : i < j => seq[i] < seq[j]

LabelsFed == {fed[k] : k \in DOMAIN fed} \cap Labels

\* At the end of a list there is a test for each label of the lines, and it consists of
\* the statements up to the next label, each with its own line number, whatever lines
\* were blank or refused, and though the first label makes two results.
TestsAreSections ==
  at_end =>
    /\ {results[i].name : i \in DOMAIN results} = LabelsFed
    /\ \A i \in DOMAIN results : IsTest(i) => Lists(Body(results[i]), Section(results[i].name))

\* A result that was given does not change when more is fed, but for the last one at
\* the end of a list, whose section a next list goes on with.
ResultsKeep ==
  [][\A i \in DOMAIN results :
       /\ results'[i] = results[i]
       /\ Body(results[i])' # Body(results[i]) =>
            results[i].body = test_body /\ fished > 0]_stHistoryVars
=============================================================================
