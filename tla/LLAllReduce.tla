----------------------------- MODULE LLAllReduce -----------------------------
(***************************************************************************)
(* The decode-sized all-reduce of patches/sglang-ll-allreduce.py: one      *)
(* kernel per rank and call, through pinned host memory. A word carries    *)
(* the call's sequence number beside its data, so a reader needs no flag;  *)
(* a rank owns two slots of words and alternates by the number's parity.   *)
(*                                                                         *)
(* The sequence number is a 32-bit counter: SeqMod stands for 2^32. The    *)
(* data of a word is the call it was written for (a history value the      *)
(* kernel does not see): a result is right exactly when every word it took *)
(* was written for its own call.                                           *)
(*                                                                         *)
(* The stores are relaxed and cross PCIe: Store is a store becoming        *)
(* visible, which may be in any order and as late as the end of the        *)
(* kernel. The loads are volatile, in the order of each thread's loop.     *)
(***************************************************************************)
EXTENDS Integers, Sequences

CONSTANTS
  NWords,    \* words a slot holds (slot_bytes / 8)
  Sizes,     \* the words a call may have (nw)
  Threads,   \* blockDim.x: thread t takes the words t, t + Threads, ...
  SeqMod,    \* 2^32: the width of the sequence number
  MaxCalls   \* bound on the calls of a behaviour

ASSUME NWordsAssumption == NWords \in Nat \ {0}
ASSUME SizesAssumption == Sizes \subseteq 1 .. NWords
ASSUME ThreadsAssumption == Threads \in Nat \ {0}
ASSUME SeqModAssumption == SeqMod \in Nat /\ SeqMod > 0 /\ SeqMod % 2 = 0
ASSUME MaxCallsAssumption == MaxCalls \in Nat

Ranks == {0, 1}
Parity == {0, 1}
Words == 1 .. NWords
Calls == 0 .. MaxCalls
None == -1

VARIABLES
  sizes,     \* the program both ranks run: the words of each call so far
  counter,   \* [Ranks -> last sequence number], in device memory
  slot,      \* [Ranks -> [Parity -> [Words -> [seq, call]]]], in host memory
  pc,        \* [Ranks -> "idle" or "run"]: is a kernel running
  call,      \* [Ranks -> calls launched]
  stored,    \* [Ranks -> words of the running kernel the peer can see]
  got        \* [Ranks -> [Words -> call of the word taken, None before]]

vars == <<sizes, counter, slot, pc, call, stored, got>>

\* *counter + 1, in 32 bits.
Succ(s) == IF s = SeqMod - 1 THEN 0 ELSE s + 1

\* Mutant of NotBefore: no check of the number at all.
NotBefore_unchecked(a, s) == TRUE

\* Mutant of NotBefore: strictly past, as with `<=` in the spin.
NotBefore_strict(a, s) ==
  a # s /\ (IF a >= s THEN a - s ELSE a + SeqMod - s) < SeqMod \div 2

\* (int)(a - s) >= 0: a is s or at most half the range past it.
NotBefore(a, s) == (IF a >= s THEN a - s ELSE a + SeqMod - s) < SeqMod \div 2

\* The words of the running call, and those a thread reads before word i.
CallWords(r) == 1 .. sizes[call[r]]
SameThread(i, j) == (i - 1) % Threads = (j - 1) % Threads
EarlierOfThread(i) == {j \in 1 .. i - 1 : SameThread(i, j)}

\* Mutant of NoWord: host memory is not zeroed.
NoWord_garbage == [seq |-> SeqMod - 1, call |-> None]

\* Host memory starts zeroed; call 0 is no call.
NoWord == [seq |-> 0, call |-> 0]

Init ==
  /\ sizes = <<>>
  /\ counter = [r \in Ranks |-> 0]
  /\ slot = [r \in Ranks |-> [p \in Parity |-> [i \in Words |-> NoWord]]]
  /\ pc = [r \in Ranks |-> "idle"]
  /\ call = [r \in Ranks |-> 0]
  /\ stored = [r \in Ranks |-> {}]
  /\ got = [r \in Ranks |-> [i \in Words |-> None]]

\* The stream reaches the next launch. Both ranks run the same program: the
\* first to get there decides the size.
Launch(r) ==
  /\ pc[r] = "idle"
  /\ call[r] < MaxCalls
  /\ IF call[r] = Len(sizes)
     THEN \E n \in Sizes : sizes' = Append(sizes, n)
     ELSE sizes' = sizes
  /\ pc' = [pc EXCEPT ![r] = "run"]
  /\ call' = [call EXCEPT ![r] = @ + 1]
  /\ stored' = [stored EXCEPT ![r] = {}]
  /\ got' = [got EXCEPT ![r] = [i \in Words |-> None]]
  /\ UNCHANGED <<counter, slot>>

\* Mutant of Store: the slot does not alternate with the number's parity.
Store_one_slot(r, i) ==
  /\ pc[r] = "run"
  /\ i \in CallWords(r) \ stored[r]
  /\ slot' = [slot EXCEPT ![r] = [p \in Parity |->
                [slot[r][p] EXCEPT ![i] = [seq |-> Succ(counter[r]), call |-> call[r]]]]]
  /\ stored' = [stored EXCEPT ![r] = @ \cup {i}]
  /\ UNCHANGED <<sizes, counter, pc, call, got>>

\* st_sys(&mine[i], (s << 32) | in[i]) reaches host memory.
Store(r, i) ==
  LET s == Succ(counter[r]) IN
  /\ pc[r] = "run"
  /\ i \in CallWords(r) \ stored[r]
  /\ slot' = [slot EXCEPT ![r][s % 2][i] = [seq |-> s, call |-> call[r]]]
  /\ stored' = [stored EXCEPT ![r] = @ \cup {i}]
  /\ UNCHANGED <<sizes, counter, pc, call, got>>

\* The spin on theirs[i] ends and out[i] is written.
Take(r, i) ==
  LET s == Succ(counter[r])
      w == slot[1 - r][s % 2][i]
  IN
  /\ pc[r] = "run"
  /\ i \in CallWords(r) /\ got[r][i] = None
  /\ \A j \in EarlierOfThread(i) : got[r][j] # None
  /\ NotBefore(w.seq, s)
  /\ got' = [got EXCEPT ![r][i] = w.call]
  /\ UNCHANGED <<sizes, counter, slot, pc, call, stored>>

\* Mutant of Return: no barrier before the counter moves on, so the kernel ends
\* with its first thread's words.
Return_no_barrier(r) ==
  /\ pc[r] = "run"
  /\ \A i \in CallWords(r) : i \in stored[r] /\ (SameThread(i, 1) => got[r][i] # None)
  /\ counter' = [counter EXCEPT ![r] = Succ(@)]
  /\ pc' = [pc EXCEPT ![r] = "idle"]
  /\ UNCHANGED <<sizes, slot, call, stored, got>>

\* Every thread has passed the barrier: *counter = s. What the kernel stored is
\* visible when it ends.
Return(r) ==
  /\ pc[r] = "run"
  /\ \A i \in CallWords(r) : got[r][i] # None /\ i \in stored[r]
  /\ counter' = [counter EXCEPT ![r] = Succ(@)]
  /\ pc' = [pc EXCEPT ![r] = "idle"]
  /\ UNCHANGED <<sizes, slot, call, stored, got>>

Next ==
  \E r \in Ranks :
    \/ Launch(r)
    \/ \E i \in Words : Store(r, i) \/ Take(r, i)
    \/ Return(r)

Spec == Init /\ [][Next]_vars

\* The GPU runs a launched kernel, and the rank that is behind launches the
\* call its peer is in (one program, replayed on both).
Fairness ==
  \A r \in Ranks :
    /\ WF_vars(Launch(r) /\ call[r] < Len(sizes))
    /\ WF_vars(\E i \in Words : Store(r, i) \/ Take(r, i))
    /\ WF_vars(Return(r))

FairSpec == Spec /\ Fairness

-----------------------------------------------------------------------------
\* The variables have their types: a word taken is always of some launched call.
TypeOK ==
  /\ sizes \in Seq(Sizes)
  /\ counter \in [Ranks -> 0 .. SeqMod - 1]
  /\ slot \in [Ranks -> [Parity -> [Words -> [seq : 0 .. SeqMod - 1, call : Calls]]]]
  /\ pc \in [Ranks -> {"idle", "run"}]
  /\ call \in [Ranks -> Calls]
  /\ stored \in [Ranks -> SUBSET Words]
  /\ got \in [Ranks -> [Words -> Calls \cup {None}]]

\* Every word a rank has summed was written by its peer for the call the rank is
\* in: not for an older call whose words still lie in the slot, nor for a newer
\* one that reused it.
NoForeignWord ==
  \A r \in Ranks : \A i \in Words : got[r][i] # None => got[r][i] = call[r]

\* What a step changes in a slot is a word the peer no longer needs: of a call
\* before the peer's, or one it has taken, or none.
KeepsUnread ==
  \A r \in Ranks : \A p \in Parity : \A i \in Words :
    LET c == slot[r][p][i].call
        peer == 1 - r
    IN  slot'[r][p][i] # slot[r][p][i] =>
          c < call[peer] \/ (c = call[peer] /\ (got[peer][i] # None \/ c = 0))

\* A word is overwritten only after the peer has taken it: double buffering by
\* parity is enough, with no acknowledgement from the reader.
UnreadKept == [][KeepsUnread]_vars

\* The docstring's rule, "spins on the peer's words until they carry the same
\* number": a word is taken only with the number of the call that takes it.
TakesSameNumber ==
  [][\A r \in Ranks : \A i \in Words :
       got[r][i] = None /\ got'[r][i] # None =>
         LET s == Succ(counter[r]) IN slot[1 - r][s % 2][i].seq = s]_vars

-----------------------------------------------------------------------------
\* An idle rank shows the result of its last call, unit by unit.
Result(r) ==
  [i \in 1 .. IF call[r] = 0 THEN 0 ELSE sizes[call[r]] |->
     [q \in Ranks |-> IF q = r THEN << <<call[r], i>> >> ELSE << <<got[r][i], i>> >>]]

Abstract == INSTANCE AllReduce WITH
  begun <- call,
  ended <- [r \in Ranks |-> IF pc[r] = "idle" THEN call[r] ELSE call[r] - 1],
  out <- [r \in Ranks |-> IF pc[r] = "idle" THEN Result(r) ELSE <<>>]

\* The kernels implement the all-reduce contract.
ImplementsAllReduce == Abstract!Spec

\* A launched all-reduce ends on both ranks.
EveryCallEnds == Abstract!EveryCallEnds
=============================================================================
