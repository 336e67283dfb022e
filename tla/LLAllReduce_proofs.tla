------------------------- MODULE LLAllReduce_proofs -------------------------
(***************************************************************************)
(* Proofs about LLAllReduce for any number of words, any threads, any mix  *)
(* of sizes and any width of the sequence number. The results but type     *)
(* correctness assume FewCalls, that fewer than half the range's numbers   *)
(* are used: past that a word an older, longer call left behind can pass   *)
(* for a newer one.                                                        *)
(***************************************************************************)
EXTENDS LLAllReduce, TLAPS

FewCalls == MaxCalls < SeqMod \div 2

\* The call whose number a rank's counter holds.
Counted ==
  \A r \in Ranks : counter[r] = IF pc[r] = "run" THEN call[r] - 1 ELSE call[r]

\* A rank is in a call of the program.
InProgram ==
  \A r \in Ranks :
    /\ call[r] <= Len(sizes)
    /\ pc[r] = "run" => call[r] > 0

\* No rank is more than one call ahead, and a rank that has finished a call has
\* its peer at least in that call.
Lockstep ==
  \A r \in Ranks :
    /\ call[r] <= call[1 - r] + 1
    /\ pc[r] = "idle" => call[r] <= call[1 - r]

\* A slot word carries the number of its call, which is of the slot's parity.
SlotWords ==
  \A r \in Ranks : \A p \in Parity : \A i \in Words :
    LET w == slot[r][p][i] IN
    /\ w.seq = w.call
    /\ w.call <= call[r]
    /\ w.call # 0 => w.call % 2 = p

\* What the running call has not stored yet is older than the call.
NotStoredYet ==
  \A r \in Ranks : \A i \in Words :
    pc[r] = "run" /\ i \notin stored[r] => slot[r][call[r] % 2][i].call < call[r]

\* A word was taken for the rank's own call, which its peer has reached, and a
\* finished call has taken them all.
TakenWords ==
  \A r \in Ranks :
    /\ \A i \in Words :
         got[r][i] # None => got[r][i] = call[r] /\ call[r] <= call[1 - r]
    /\ pc[r] = "idle" /\ call[r] > 0 =>
         \A i \in 1 .. sizes[call[r]] : got[r][i] = call[r]

IInv ==
  /\ TypeOK /\ Counted /\ InProgram /\ Lockstep
  /\ SlotWords /\ NotStoredYet /\ TakenWords

-----------------------------------------------------------------------------
(* The sequence number *)

\* Succ stays within the counter's width.
LEMMA SuccType ==
  ASSUME NEW s \in 0 .. SeqMod - 1
  PROVE  Succ(s) \in 0 .. SeqMod - 1
BY SeqModAssumption DEF Succ

\* A number's parity names a slot.
LEMMA ParityType ==
  ASSUME NEW s \in Int
  PROVE  s % 2 \in Parity
BY DEF Parity

\* Below the bound the counter does not wrap.
LEMMA SuccCounts ==
  ASSUME FewCalls, NEW s \in Nat, s < MaxCalls
  PROVE  Succ(s) = s + 1
BY SeqModAssumption, MaxCallsAssumption DEF Succ, FewCalls

\* Below the bound the test of the spin orders numbers as naturals.
LEMMA NotBeforeOrders ==
  ASSUME FewCalls, NEW a \in Calls, NEW s \in Calls, NotBefore(a, s)
  PROVE  a >= s
BY SeqModAssumption, MaxCallsAssumption DEF NotBefore, FewCalls, Calls

-----------------------------------------------------------------------------
(* Type correctness *)

\* The initial state is well typed.
LEMMA TypeInit == Init => TypeOK
BY SeqModAssumption, MaxCallsAssumption
DEF Init, TypeOK, NoWord, Calls, Parity, None

\* Every step keeps the types.
LEMMA TypeStep ==
  ASSUME TypeOK, [Next]_vars
  PROVE  TypeOK'
<1> USE DEF TypeOK
<1>1. ASSUME NEW r \in Ranks, Launch(r) PROVE TypeOK'
  <2>1. sizes' \in Seq(Sizes)
    <3>1. CASE call[r] = Len(sizes)
      <4>1. PICK n \in Sizes : sizes' = Append(sizes, n)
        BY <1>1, <3>1 DEF Launch
      <4> QED BY <4>1
    <3>2. CASE call[r] # Len(sizes)
      BY <1>1, <3>2 DEF Launch
    <3> QED BY <3>1, <3>2
  <2>2. call' \in [Ranks -> Calls]
    BY <1>1, MaxCallsAssumption DEF Launch, Calls
  <2> QED BY <1>1, <2>1, <2>2 DEF Launch, None
<1>2. ASSUME NEW r \in Ranks, NEW i \in Words, Store(r, i) PROVE TypeOK'
  <2>1. Succ(counter[r]) \in 0 .. SeqMod - 1
    BY SuccType
  <2>2. Succ(counter[r]) % 2 \in Parity
    BY <2>1, ParityType, SeqModAssumption
  <2> QED BY <1>2, <2>1, <2>2 DEF Store
<1>3. ASSUME NEW r \in Ranks, NEW i \in Words, Take(r, i) PROVE TypeOK'
  <2>1. Succ(counter[r]) % 2 \in Parity
    BY SuccType, ParityType, SeqModAssumption
  <2>2. 1 - r \in Ranks
    BY DEF Ranks
  <2> QED BY <1>3, <2>1, <2>2 DEF Take
<1>4. ASSUME NEW r \in Ranks, Return(r) PROVE TypeOK'
  BY <1>4, SuccType DEF Return
<1>5. CASE UNCHANGED vars
  BY <1>5 DEF vars
<1> QED BY <1>1, <1>2, <1>3, <1>4, <1>5 DEF Next

\* Every variable keeps its type, the counter and the numbers in the slots their
\* width, with no bound on the calls: Succ wraps.
THEOREM TypeCorrect == Spec => []TypeOK
BY TypeInit, TypeStep, PTL DEF Spec

-----------------------------------------------------------------------------
(* The inductive invariant *)

\* What a running rank's number, its words and its peer's are, in naturals.
LEMMA Numbers ==
  ASSUME FewCalls, IInv, NEW r \in Ranks
  PROVE  /\ 1 - r \in Ranks /\ 1 - (1 - r) = r
         /\ call[r] \in Nat /\ call[r] <= MaxCalls
         /\ pc[r] = "run" => Succ(counter[r]) = call[r]
         /\ call[r] % 2 \in Parity
<1>1. 1 - r \in Ranks /\ 1 - (1 - r) = r
  BY DEF Ranks
<1>2. call[r] \in Nat /\ call[r] <= MaxCalls
  BY MaxCallsAssumption DEF IInv, TypeOK, Calls
<1>3. ASSUME pc[r] = "run" PROVE Succ(counter[r]) = call[r]
  <2>1. counter[r] = call[r] - 1 /\ call[r] > 0
    BY <1>3 DEF IInv, Counted, InProgram
  <2> QED BY <2>1, <1>2, SuccCounts, MaxCallsAssumption
<1>4. call[r] % 2 \in Parity
  BY <1>2, ParityType
<1> QED BY <1>1, <1>2, <1>3, <1>4

\* A call a rank has entered has a size.
LEMMA SizeInRange ==
  ASSUME IInv, NEW r \in Ranks, call[r] > 0
  PROVE  sizes[call[r]] \in 1 .. NWords
<1>1. sizes \in Seq(Sizes) /\ Len(sizes) \in Nat
  BY DEF IInv, TypeOK
<1>2. call[r] \in 1 .. Len(sizes)
  BY <1>1, MaxCallsAssumption DEF IInv, TypeOK, InProgram, Calls
<1>3. sizes[call[r]] \in Sizes
  BY <1>1, <1>2
<1> QED BY <1>3, SizesAssumption

\* The initial state satisfies the invariant.
LEMMA InvInit == Init => IInv
<1> SUFFICES ASSUME Init PROVE IInv
  OBVIOUS
<1>1. \A r \in Ranks : 1 - r \in Ranks
  BY DEF Ranks
<1> QED BY <1>1, TypeInit, MaxCallsAssumption
        DEF Init, IInv, Counted, InProgram, Lockstep, SlotWords, NotStoredYet, TakenWords,
            NoWord, None, Words

\* A longer program begins like the shorter one.
LEMMA AppendExtends ==
  ASSUME NEW S, NEW s \in Seq(S), NEW n \in S
  PROVE  /\ Len(Append(s, n)) = Len(s) + 1
         /\ \A k \in 1 .. Len(s) : Append(s, n)[k] = s[k]
OBVIOUS

\* A launch that starts the program's next call keeps the calls so far.
LEMMA LaunchExtends ==
  ASSUME IInv, NEW r \in Ranks, Launch(r)
  PROVE  /\ Len(sizes') \in Nat /\ Len(sizes') >= Len(sizes) /\ call[r] + 1 <= Len(sizes')
         /\ \A n \in 1 .. Len(sizes) : sizes'[n] = sizes[n]
<1>1. sizes \in Seq(Sizes) /\ Len(sizes) \in Nat
  BY DEF IInv, TypeOK
<1>2. call[r] \in Nat /\ call[r] <= Len(sizes)
  BY MaxCallsAssumption DEF IInv, TypeOK, InProgram, Calls
<1>3. CASE call[r] = Len(sizes)
  <2>1. PICK n \in Sizes : sizes' = Append(sizes, n)
    BY <1>3 DEF Launch
  <2> QED BY <2>1, <1>1, <1>3, AppendExtends
<1>4. CASE call[r] # Len(sizes)
  <2>1. sizes' = sizes
    BY <1>4 DEF Launch
  <2> QED BY <2>1, <1>1, <1>2, <1>4
<1> QED BY <1>3, <1>4

\* The next call starts: the peer has reached the one before.
LEMMA InvLaunch ==
  ASSUME FewCalls, IInv, TypeOK', NEW r \in Ranks, Launch(r)
  PROVE  IInv'
<1>1. \A q \in Ranks : 1 - q \in Ranks /\ call[q] \in Nat
  BY MaxCallsAssumption DEF Ranks, Calls, IInv, TypeOK
<1>2. /\ pc[r] = "idle" /\ pc' = [pc EXCEPT ![r] = "run"]
      /\ call' = [call EXCEPT ![r] = @ + 1]
      /\ stored' = [stored EXCEPT ![r] = {}]
      /\ got' = [got EXCEPT ![r] = [i \in Words |-> None]]
      /\ counter' = counter /\ slot' = slot
  BY DEF Launch
<1>3. /\ call'[r] = call[r] + 1 /\ pc'[r] = "run"
      /\ \A q \in Ranks : q # r => call'[q] = call[q] /\ pc'[q] = pc[q] /\ got'[q] = got[q]
                                    /\ stored'[q] = stored[q]
      /\ \A i \in Words : got'[r][i] = None
  BY <1>2 DEF IInv, TypeOK
<1>4. Counted'
  BY <1>1, <1>2, <1>3 DEF IInv, Counted
<1>5. InProgram'
  <2> SUFFICES ASSUME NEW q \in Ranks
               PROVE  call'[q] <= Len(sizes') /\ (pc'[q] = "run" => call'[q] > 0)
    BY DEF InProgram
  <2>1. CASE q = r
    BY <2>1, <1>1, <1>3, LaunchExtends
  <2>2. CASE q # r
    <3>1. call[q] <= Len(sizes) /\ Len(sizes) \in Nat /\ (pc[q] = "run" => call[q] > 0)
      BY DEF IInv, TypeOK, InProgram
    <3> QED BY <2>2, <3>1, <1>1, <1>3, LaunchExtends
  <2> QED BY <2>1, <2>2
<1>6. Lockstep'
  BY <1>1, <1>2, <1>3 DEF IInv, Lockstep, Ranks
<1>7. SlotWords'
  <2> SUFFICES ASSUME NEW q \in Ranks, NEW p \in Parity, NEW i \in Words
               PROVE  /\ slot[q][p][i].seq = slot[q][p][i].call
                      /\ slot[q][p][i].call <= call'[q]
                      /\ slot[q][p][i].call # 0 => slot[q][p][i].call % 2 = p
    BY <1>2 DEF SlotWords
  <2>1. slot[q][p][i].call \in Nat
    BY MaxCallsAssumption DEF IInv, TypeOK, Calls
  <2>2. call[q] <= call'[q]
    BY <1>1, <1>3
  <2>3. call'[q] \in Nat
    BY <1>1, <1>3
  <2> QED BY <2>1, <2>2, <2>3, <1>1 DEF IInv, SlotWords
<1>8. NotStoredYet'
  <2> SUFFICES ASSUME NEW q \in Ranks, NEW i \in Words, pc'[q] = "run", i \notin stored'[q]
               PROVE  slot[q][call'[q] % 2][i].call < call'[q]
    BY <1>2 DEF NotStoredYet
  <2>1. CASE q = r
    <3>1. call'[r] % 2 \in Parity
      BY <1>1, <1>3, ParityType
    <3>2. slot[r][call'[r] % 2][i].call \in Nat
      BY <3>1, MaxCallsAssumption DEF IInv, TypeOK, Calls
    <3>3. slot[r][call'[r] % 2][i].call <= call[r]
      BY <3>1 DEF IInv, SlotWords
    <3> QED BY <2>1, <3>2, <3>3, <1>1, <1>3
  <2>2. CASE q # r
    BY <2>2, <1>3 DEF IInv, NotStoredYet
  <2> QED BY <2>1, <2>2
<1>9. TakenWords'
  <2> SUFFICES ASSUME NEW q \in Ranks
               PROVE  /\ \A i \in Words : got'[q][i] # None =>
                           got'[q][i] = call'[q] /\ call'[q] <= call'[1 - q]
                      /\ pc'[q] = "idle" /\ call'[q] > 0 =>
                           \A i \in 1 .. sizes'[call'[q]] : got'[q][i] = call'[q]
    BY DEF TakenWords
  <2>1. CASE q = r
    BY <2>1, <1>3
  <2>2. CASE q # r
    <3>1. call[1 - q] <= call'[1 - q] /\ call'[1 - q] \in Nat /\ call[1 - q] \in Nat
      BY <1>1, <1>3
    <3>2. \A i \in Words : got'[q][i] # None => got'[q][i] = call'[q] /\ call'[q] <= call'[1 - q]
      BY <2>2, <3>1, <1>1, <1>3 DEF IInv, TakenWords
    <3>3. ASSUME pc'[q] = "idle", call'[q] > 0
          PROVE  \A i \in 1 .. sizes'[call'[q]] : got'[q][i] = call'[q]
      <4>1. call[q] \in 1 .. Len(sizes)
        BY <3>3, <2>2, <1>1, <1>3 DEF IInv, TypeOK, InProgram
      <4>2. sizes'[call[q]] = sizes[call[q]]
        BY <4>1, LaunchExtends
      <4> QED BY <3>3, <4>2, <2>2, <1>3 DEF IInv, TakenWords
    <3> QED BY <3>2, <3>3
  <2> QED BY <2>1, <2>2
<1> QED BY <1>4, <1>5, <1>6, <1>7, <1>8, <1>9 DEF IInv

\* A word is stored with the call's number, in the slot of its parity.
LEMMA InvStore ==
  ASSUME FewCalls, IInv, TypeOK', NEW r \in Ranks, NEW i \in Words, Store(r, i)
  PROVE  IInv'
<1>1. /\ pc[r] = "run" /\ call[r] > 0 /\ call[r] \in Nat
      /\ Succ(counter[r]) = call[r] /\ call[r] % 2 \in Parity
  BY Numbers DEF Store, IInv, InProgram
<1>2. /\ slot' = [slot EXCEPT ![r][call[r] % 2][i] = [seq |-> call[r], call |-> call[r]]]
      /\ stored' = [stored EXCEPT ![r] = @ \cup {i}]
      /\ UNCHANGED <<sizes, counter, pc, call, got>>
  BY <1>1 DEF Store
<1>3. Counted' /\ InProgram' /\ Lockstep' /\ TakenWords'
  BY <1>2 DEF IInv, Counted, InProgram, Lockstep, TakenWords
<1>4. SlotWords'
  BY <1>1, <1>2 DEF IInv, TypeOK, SlotWords
<1>5. NotStoredYet'
  BY <1>1, <1>2 DEF IInv, TypeOK, NotStoredYet
<1> QED BY <1>3, <1>4, <1>5 DEF IInv

\* The word the spin lets through is the peer's word of this very call.
LEMMA TakesOwnCall ==
  ASSUME FewCalls, IInv, NEW r \in Ranks, NEW i \in Words, Take(r, i)
  PROVE  /\ slot[1 - r][call[r] % 2][i].call = call[r]
         /\ call[r] <= call[1 - r]
<1> DEFINE w == slot[1 - r][call[r] % 2][i]
<1>1. /\ pc[r] = "run" /\ call[r] > 0 /\ call[r] \in Nat /\ call[r] \in Calls
      /\ Succ(counter[r]) = call[r] /\ call[r] % 2 \in Parity
      /\ 1 - r \in Ranks /\ call[1 - r] \in Nat
  BY Numbers, MaxCallsAssumption DEF Take, IInv, InProgram, TypeOK, Calls
<1>2. /\ w.call \in Calls /\ w.call \in Nat /\ w.seq = w.call
      /\ w.call <= call[1 - r]
      /\ w.call # 0 => w.call % 2 = call[r] % 2
  BY <1>1, MaxCallsAssumption DEF IInv, TypeOK, SlotWords, Calls
<1>3. w.call >= call[r]
  <2>1. NotBefore(w.seq, call[r])
    BY <1>1 DEF Take
  <2> HIDE DEF w
  <2> QED BY <2>1, <1>1, <1>2, NotBeforeOrders
<1>4. call[1 - r] <= call[r] + 1
  BY <1>1, Numbers DEF IInv, Lockstep
<1>5. w.call = call[r]
  <2> HIDE DEF w
  <2> QED BY <1>1, <1>2, <1>3, <1>4
<1> QED BY <1>1, <1>2, <1>5

\* A word is taken: it is the call's.
LEMMA InvTake ==
  ASSUME FewCalls, IInv, TypeOK', NEW r \in Ranks, NEW i \in Words, Take(r, i)
  PROVE  IInv'
<1>1. Succ(counter[r]) = call[r] /\ pc[r] = "run"
  BY Numbers DEF Take
<1>2. /\ got' = [got EXCEPT ![r][i] = call[r]]
      /\ UNCHANGED <<sizes, counter, slot, pc, call, stored>>
  BY <1>1, TakesOwnCall DEF Take
<1>3. Counted' /\ InProgram' /\ Lockstep' /\ SlotWords' /\ NotStoredYet'
  BY <1>2 DEF IInv, Counted, InProgram, Lockstep, SlotWords, NotStoredYet
<1>4. TakenWords'
  BY <1>1, <1>2, TakesOwnCall DEF IInv, TypeOK, TakenWords
<1> QED BY <1>3, <1>4 DEF IInv

\* The kernel ends with all the call's words.
LEMMA InvReturn ==
  ASSUME FewCalls, IInv, TypeOK', NEW r \in Ranks, Return(r)
  PROVE  IInv'
<1>1. /\ pc[r] = "run" /\ call[r] > 0 /\ call[r] \in Nat
      /\ Succ(counter[r]) = call[r] /\ call[r] <= Len(sizes)
  BY Numbers DEF Return, IInv, InProgram
<1>2. /\ counter' = [counter EXCEPT ![r] = call[r]]
      /\ pc' = [pc EXCEPT ![r] = "idle"]
      /\ UNCHANGED <<sizes, slot, call, stored, got>>
  BY <1>1 DEF Return
<1>3. sizes[call[r]] \in 1 .. NWords
  BY <1>1, SizeInRange
<1>4. /\ \A i \in 1 .. sizes[call[r]] : i \in Words /\ got[r][i] # None
      /\ 1 \in 1 .. sizes[call[r]]
  BY <1>3, NWordsAssumption DEF Return, CallWords, Words
<1>5. /\ call[r] <= call[1 - r]
      /\ \A i \in 1 .. sizes[call[r]] : got[r][i] = call[r]
  BY <1>4 DEF IInv, TakenWords
<1>6. Counted'
  BY <1>1, <1>2 DEF IInv, TypeOK, Counted
<1>7. InProgram' /\ SlotWords' /\ NotStoredYet'
  BY <1>2 DEF IInv, TypeOK, InProgram, SlotWords, NotStoredYet
<1>8. Lockstep'
  BY <1>2, <1>5 DEF IInv, TypeOK, Lockstep
<1>9. TakenWords'
  BY <1>2, <1>5 DEF IInv, TypeOK, TakenWords
<1> QED BY <1>6, <1>7, <1>8, <1>9 DEF IInv

\* IInv is inductive.
LEMMA InvStep ==
  ASSUME FewCalls, IInv, [Next]_vars
  PROVE  IInv'
<1>1. TypeOK'
  BY TypeStep DEF IInv
<1>2. CASE UNCHANGED vars
  BY <1>1, <1>2
  DEF IInv, vars, Counted, InProgram, Lockstep, SlotWords, NotStoredYet, TakenWords
<1> QED BY <1>1, <1>2, InvLaunch, InvStore, InvTake, InvReturn DEF Next

\* With fewer calls than half the range, IInv holds in every reachable state.
THEOREM Invariance ==
  ASSUME FewCalls
  PROVE  Spec => []IInv
BY InvInit, InvStep, PTL DEF Spec

-----------------------------------------------------------------------------
(* The properties *)

\* Every word a rank has summed was written by its peer for the call the rank is
\* in, however the two ranks' threads interleave and whatever the sizes.
THEOREM NoForeignWordHolds ==
  ASSUME FewCalls
  PROVE  Spec => []NoForeignWord
<1>1. IInv => NoForeignWord
  BY DEF IInv, TakenWords, NoForeignWord
<1> QED BY <1>1, Invariance, PTL

\* No step overwrites a word the peer has still to take: two slots by parity do
\* without an acknowledgement.
THEOREM UnreadKeptHolds ==
  ASSUME FewCalls
  PROVE  Spec => UnreadKept
<1>1. ASSUME IInv, [Next]_vars PROVE [KeepsUnread]_vars
  <2>1. ASSUME NEW r \in Ranks, NEW i \in Words, Store(r, i) PROVE KeepsUnread
    <3>1. /\ pc[r] = "run" /\ call[r] > 0 /\ call[r] \in Nat
          /\ Succ(counter[r]) = call[r] /\ call[r] % 2 \in Parity
          /\ 1 - r \in Ranks /\ call[1 - r] \in Nat /\ call[r] <= call[1 - r] + 1
      BY <1>1, <2>1, Numbers DEF Store, IInv, InProgram, Lockstep
    <3>2. slot' = [slot EXCEPT ![r][call[r] % 2][i] = [seq |-> call[r], call |-> call[r]]]
      BY <2>1, <3>1 DEF Store
    <3> DEFINE c == slot[r][call[r] % 2][i].call
    <3>3. c \in Nat /\ c < call[r] /\ (c # 0 => c % 2 = call[r] % 2)
      BY <1>1, <2>1, <3>1, MaxCallsAssumption
      DEF Store, IInv, TypeOK, Calls, SlotWords, NotStoredYet
    <3>4. c < call[1 - r] \/ (c = call[1 - r] /\ c = 0)
      <4> HIDE DEF c
      <4>1. CASE c = 0
        BY <4>1, <3>1
      <4>2. CASE c # 0
        BY <4>2, <3>1, <3>3
      <4> QED BY <4>1, <4>2
    <3> SUFFICES ASSUME NEW q \in Ranks, NEW p \in Parity, NEW j \in Words,
                        slot'[q][p][j] # slot[q][p][j]
                 PROVE  q = r /\ p = call[r] % 2 /\ j = i
      BY <3>4 DEF KeepsUnread
    <3> QED BY <1>1, <3>1, <3>2 DEF IInv, TypeOK
  <2>2. ASSUME slot' = slot PROVE KeepsUnread
    BY <2>2 DEF KeepsUnread
  <2>3. ASSUME NEW r \in Ranks, Launch(r) PROVE slot' = slot
    BY <2>3 DEF Launch
  <2>4. ASSUME NEW r \in Ranks, NEW i \in Words, Take(r, i) PROVE slot' = slot
    BY <2>4 DEF Take
  <2>5. ASSUME NEW r \in Ranks, Return(r) PROVE slot' = slot
    BY <2>5 DEF Return
  <2> QED BY <1>1, <2>1, <2>2, <2>3, <2>4, <2>5 DEF Next
<1> QED BY <1>1, Invariance, PTL DEF Spec, UnreadKept

-----------------------------------------------------------------------------
(* Refinement *)

\* The result of a rank that leaves its call is what the contract asks.
LEMMA ResultSummed ==
  ASSUME IInv, NEW r \in Ranks, call[r] > 0,
         \A i \in 1 .. sizes[call[r]] : got[r][i] = call[r]
  PROVE  Result(r) = [u \in 1 .. sizes[call[r]] |-> Abstract!Summed(call[r], u)]
BY DEF Result, Abstract!Summed, Abstract!Ranks, Ranks

\* The kernels start as the contract does.
LEMMA RefinesInit == Init => Abstract!Init
BY DEF Init, Abstract!Init, Abstract!Ranks, Ranks, Result

\* A launch is the contract's Begin.
LEMMA LaunchBegins ==
  ASSUME FewCalls, IInv, IInv', NEW r \in Ranks, Launch(r)
  PROVE  Abstract!Begin(r)
<1> DEFINE ended == [q \in Ranks |-> IF pc[q] = "idle" THEN call[q] ELSE call[q] - 1]
           out == [q \in Ranks |-> IF pc[q] = "idle" THEN Result(q) ELSE <<>>]
<1>1. /\ pc[r] = "idle" /\ pc' = [pc EXCEPT ![r] = "run"]
      /\ call' = [call EXCEPT ![r] = @ + 1]
      /\ got' = [got EXCEPT ![r] = [i \in Words |-> None]]
  BY DEF Launch
<1>2. \A q \in Ranks : call[q] \in Nat
  BY MaxCallsAssumption DEF IInv, TypeOK, Calls
<1>3. ended' = ended
  BY <1>1, <1>2 DEF IInv, TypeOK
<1>4. out' = [out EXCEPT ![r] = <<>>]
  <2>1. ASSUME NEW q \in Ranks, q # r, pc[q] = "idle" PROVE Result(q)' = Result(q)
    <3>1. call'[q] = call[q] /\ got'[q] = got[q]
      BY <1>1, <2>1 DEF IInv, TypeOK
    <3>2. call[q] # 0 => sizes'[call[q]] = sizes[call[q]]
      BY <1>2, LaunchExtends DEF IInv, TypeOK, InProgram
    <3> QED BY <3>1, <3>2 DEF Result
  <2> QED BY <1>1, <2>1 DEF IInv, TypeOK
<1>5. call[r] = ended[r] /\ call[r] < MaxCalls
      /\ IF call[r] = Len(sizes) THEN \E n \in Sizes : sizes' = Append(sizes, n) ELSE sizes' = sizes
  BY <1>1 DEF Launch
<1> QED BY <1>1, <1>3, <1>4, <1>5 DEF Abstract!Begin

\* The kernel's end is the contract's End.
LEMMA ReturnEnds ==
  ASSUME FewCalls, IInv, IInv', NEW r \in Ranks, Return(r)
  PROVE  Abstract!End(r)
<1> DEFINE ended == [q \in Ranks |-> IF pc[q] = "idle" THEN call[q] ELSE call[q] - 1]
           out == [q \in Ranks |-> IF pc[q] = "idle" THEN Result(q) ELSE <<>>]
<1>1. /\ pc[r] = "run" /\ pc' = [pc EXCEPT ![r] = "idle"]
      /\ UNCHANGED <<sizes, slot, call, stored, got>>
  BY DEF Return
<1>2. /\ call[r] \in Nat /\ call[1 - r] \in Nat /\ call[r] > 0
      /\ 1 - r \in Ranks
  BY <1>1, Numbers DEF IInv, InProgram
<1>3. call[r] <= call[1 - r] /\ \A i \in 1 .. sizes[call[r]] : got[r][i] = call[r]
  <2>1. pc'[r] = "idle"
    BY <1>1 DEF IInv, TypeOK
  <2> QED BY <1>1, <1>2, <2>1 DEF IInv, Lockstep, TakenWords
<1>4. ended' = [ended EXCEPT ![r] = call[r]]
  BY <1>1 DEF IInv, TypeOK
<1>5. out' = [out EXCEPT ![r] = [u \in 1 .. sizes[call[r]] |-> Abstract!Summed(call[r], u)]]
  <2>1. \A q \in Ranks : Result(q)' = Result(q)
    BY <1>1 DEF Result
  <2>2. Result(r) = [u \in 1 .. sizes[call[r]] |-> Abstract!Summed(call[r], u)]
    BY <1>2, <1>3, ResultSummed
  <2> HIDE DEF ended
  <2> QED BY <1>1, <2>1, <2>2 DEF IInv, TypeOK
<1>6. call[r] = ended[r] + 1 /\ call[1 - r] >= call[r]
  BY <1>1, <1>2, <1>3
<1> QED BY <1>1, <1>4, <1>5, <1>6 DEF Abstract!End

\* A step that leaves sizes, call, pc and the idle ranks' words is a stutter of
\* the contract.
LEMMA Stutters ==
  ASSUME UNCHANGED <<sizes, call, pc>>,
         \A q \in Ranks : pc[q] = "idle" => got'[q] = got[q]
  PROVE  UNCHANGED Abstract!vars
<1>1. \A q \in Ranks : pc[q] = "idle" => Result(q)' = Result(q)
  BY DEF Result
<1> QED BY <1>1 DEF Abstract!vars

\* The kernels implement the all-reduce contract: every call a rank ends holds,
\* word by word, both ranks' inputs of that call, each once.
THEOREM ImplementsAllReduceHolds ==
  ASSUME FewCalls
  PROVE  Spec => ImplementsAllReduce
<1>1. ASSUME IInv, IInv', [Next]_vars PROVE [Abstract!Next]_Abstract!vars
  <2>1. ASSUME NEW r \in Ranks, Launch(r) PROVE Abstract!Next
    BY <1>1, <2>1, LaunchBegins DEF Abstract!Next, Abstract!Ranks, Ranks
  <2>2. ASSUME NEW r \in Ranks, NEW i \in Words, Store(r, i) PROVE UNCHANGED Abstract!vars
    BY <2>2, Stutters DEF Store
  <2>3. ASSUME NEW r \in Ranks, NEW i \in Words, Take(r, i) PROVE UNCHANGED Abstract!vars
    BY <1>1, <2>3, Stutters DEF Take, IInv, TypeOK
  <2>4. ASSUME NEW r \in Ranks, Return(r) PROVE Abstract!Next
    BY <1>1, <2>4, ReturnEnds DEF Abstract!Next, Abstract!Ranks, Ranks
  <2>5. CASE UNCHANGED vars
    BY <2>5, Stutters DEF vars
  <2> QED BY <1>1, <2>1, <2>2, <2>3, <2>4, <2>5 DEF Next
<1> QED BY <1>1, RefinesInit, Invariance, PTL DEF Spec, ImplementsAllReduce, Abstract!Spec
=============================================================================
