------------------------------ MODULE AllReduce ------------------------------
(***************************************************************************)
(* What the tensor-parallel group asks of an all-reduce on this machine:   *)
(* two ranks make the same calls in the same order (every rank runs the    *)
(* same model on the same batch), and when a call has ended on a rank,     *)
(* every unit of that rank's tensor (an LL word, a host-staged piece)      *)
(* holds the input of both ranks for that unit of that call, each once.    *)
(* LLAllReduce and HostStagedAllReduce are shown to implement this module. *)
(***************************************************************************)
EXTENDS Naturals, Sequences

CONSTANTS
  Sizes,     \* how many units a call may have
  MaxCalls   \* bound on the calls of a behaviour

\* Both implementations assert world_size == 2.
Ranks == {0, 1}

VARIABLES
  sizes,     \* the calls the program makes, as the number of units of each
  begun,     \* [Ranks -> calls entered]
  ended,     \* [Ranks -> calls finished]
  out        \* [Ranks -> result of the finished call, <<>> while in a call]

vars == <<sizes, begun, ended, out>>

\* Unit u of a complete result: one contribution of each rank, of this call and
\* this unit.
Summed(c, u) == [q \in Ranks |-> << <<c, u>> >>]

Init ==
  /\ sizes = <<>>
  /\ begun = [r \in Ranks |-> 0]
  /\ ended = [r \in Ranks |-> 0]
  /\ out = [r \in Ranks |-> <<>>]

\* The first rank to reach a call fixes its size, the other follows.
Begin(r) ==
  /\ begun[r] = ended[r]
  /\ begun[r] < MaxCalls
  /\ IF begun[r] = Len(sizes)
     THEN \E n \in Sizes : sizes' = Append(sizes, n)
     ELSE sizes' = sizes
  /\ begun' = [begun EXCEPT ![r] = @ + 1]
  /\ out' = [out EXCEPT ![r] = <<>>]
  /\ ended' = ended

\* A rank leaves a call only when the other has entered it.
End(r) ==
  /\ begun[r] = ended[r] + 1
  /\ begun[1 - r] >= begun[r]
  /\ ended' = [ended EXCEPT ![r] = begun[r]]
  /\ out' = [out EXCEPT ![r] = [u \in 1 .. sizes[begun[r]] |-> Summed(begun[r], u)]]
  /\ UNCHANGED <<sizes, begun>>

Next == \E r \in Ranks : Begin(r) \/ End(r)

Spec == Init /\ [][Next]_vars

-----------------------------------------------------------------------------
\* A call some rank has entered ends on that rank.
EveryCallEnds == \A r \in Ranks : (begun[r] > ended[r]) ~> (begun[r] = ended[r])
=============================================================================
