-------------------------- MODULE MCPrefillBuffers --------------------------
(***************************************************************************)
(* A decode step of one row, short prefills of three rows inside a window  *)
(* (a long sequence) and outside, and streamed ones of 5, 7 and 9 rows,    *)
(* more row counts than the graphs and works kept.                         *)
(***************************************************************************)
EXTENDS PrefillBuffers

MCBatches ==
  {[rows |-> 1, graph |-> TRUE, streamed |-> FALSE],
   [rows |-> 3, graph |-> FALSE, streamed |-> FALSE],
   [rows |-> 3, graph |-> FALSE, streamed |-> TRUE]}
  \cup {[rows |-> t, graph |-> FALSE, streamed |-> TRUE] : t \in {5, 7, 9}}
=============================================================================
