----------------------------- MODULE MCStParser -----------------------------
(***************************************************************************)
(* Values for TLC: any MaxLines lines, in MaxLists lists.                  *)
(***************************************************************************)
EXTENDS StHistory

CONSTANTS MaxLines, MaxLists

MCParserNext == StHistoryNext /\ Len(fed') <= MaxLines /\ fished' <= MaxLists

MCParserSpec == StHistoryInit /\ [][MCParserNext]_stHistoryVars
=============================================================================
