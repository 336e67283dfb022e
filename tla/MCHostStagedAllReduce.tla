--------------------------- MODULE MCHostStagedAllReduce -----------------------
(***************************************************************************)
(* HostStagedAllReduce for TLC. A bounded program ends: Finished keeps that end    *)
(* from being taken for a deadlock.                                        *)
(***************************************************************************)
EXTENDS HostStagedAllReduce

Finished ==
  /\ \A r \in Ranks : ~inside[r] /\ call[r] = MaxCalls
  /\ UNCHANGED vars

MCNext == Next \/ Finished
MCSpec == Init /\ [][MCNext]_vars /\ Fairness
=============================================================================
