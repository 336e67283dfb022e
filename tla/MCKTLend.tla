------------------------------ MODULE MCKTLend ------------------------------
(***************************************************************************)
(* KTLend for TLC: three layers, one forward of each kind.                 *)
(***************************************************************************)
EXTENDS KTLend

MCBatches ==
  { [extend |-> FALSE, graph |-> TRUE, rows |-> 1, seq |-> 9],    \* decode
    [extend |-> TRUE, graph |-> FALSE, rows |-> 1, seq |-> 1],    \* short prefill
    [extend |-> TRUE, graph |-> FALSE, rows |-> 4, seq |-> 4],    \* streamed prefill
    [extend |-> TRUE, graph |-> FALSE, rows |-> 1, seq |-> 9] }   \* last chunk of a long one

\* The bounded run is over, or _check_room has stopped the server.
Stopped ==
  /\ forward = Idle /\ Drained
  /\ phase # "load" /\ (forwards = MaxForwards \/ ~alive)
  /\ UNCHANGED vars

MCNext == Next \/ Stopped
MCSpec == Init /\ [][MCNext]_vars
=============================================================================
