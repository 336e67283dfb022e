---------------------------- MODULE MCLendLaunch ----------------------------
(***************************************************************************)
(* LendLaunch for TLC: two ranks of different memory; a layer of two large *)
(* parameters, an idle one, a small one that is fused with the first, one  *)
(* that a repack makes, and an engram weight.                              *)
(***************************************************************************)
EXTENDS LendLaunch

MCOrder == <<"a", "idle", "s", "new", "engram">>
MCBuilt == [n \in Names |-> CASE n = "s" -> 1 [] n = "new" -> 0 [] OTHER -> 2]
MCRepacked == [n \in Names |-> CASE n = "a" -> 1 [] n = "idle" -> 3 [] n = "new" -> 2 [] OTHER -> 0]
MCFused == <<"a", "s">>

\* What the proof of KeepsWeights asks of these sizes.
ASSUME MCFusedIsLarge == FusedIsLarge

\* The cost of a row grows with the rows.  The free memory wobbles from window to window.
MCCosts == { [k \in 1 .. 32 |-> k + k \div 4] }
MCTotal == { [r \in Ranks |-> IF r = R0 THEN 16 ELSE 14], [r \in Ranks |-> IF r = R0 THEN 30 ELSE 10] }
MCPool == [c \in Lowest .. Highest |-> IF c <= 3 THEN 100 ELSE 99 - c]

Over ==
  /\ launches = MaxLaunches /\ doing = "nothing"
  /\ UNCHANGED vars
MCNext == Next \/ Over
MCSpec == Init /\ [][MCNext]_vars /\ Fairness
=============================================================================
