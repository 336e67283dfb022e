--------------------------- MODULE MCLLAllReduce ---------------------------
(***************************************************************************)
(* LLAllReduce for TLC. A bounded program ends: Finished keeps that end    *)
(* from being taken for a deadlock.                                        *)
(***************************************************************************)
EXTENDS LLAllReduce

Finished ==
  /\ \A r \in Ranks : pc[r] = "idle" /\ call[r] = MaxCalls
  /\ UNCHANGED vars

MCNext == Next \/ Finished
MCSpec == Init /\ [][MCNext]_vars /\ Fairness
=============================================================================
