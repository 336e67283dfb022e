--------------------- MODULE HostStagedAllReduce_proofs ---------------------
(***************************************************************************)
(* Proofs about HostStagedAllReduce for any region size, any number of     *)
(* host regions, any mix of sizes and any number of calls. The peer of     *)
(* rank r is rank 1 - r throughout.                                        *)
(***************************************************************************)
EXTENDS HostStagedAllReduce, TLAPS

Cells == [Ranks -> Seq(Nat \X Nat)]

\* A piece both ranks have put in.
Summed(c, j) == [q \in Ranks |-> << <<c, j>> >>]

\* Memory has a cell for every place.
Memory ==
  /\ tmp \in [Ranks -> [1 .. Region -> Cells]]
  /\ host \in [Ranks -> [0 .. NBuf - 1 -> [1 .. Region -> Cells]]]

\* A rank is in a call of the program, and its streams are where the call's
\* pieces allow: no chunk is added before all of it is copied back and its own
\* part of it is on the host, no chunk copied back before the last one is added.
Progress ==
  \A r \in Ranks :
    /\ call[r] <= Len(sizes)
    /\ call[r] = 0 => ~inside[r] /\ taken[r] = 0 /\ src[r] = <<>>
    /\ call[r] > 0 =>
         /\ copied[r] <= Pieces(r) /\ taken[r] <= Pieces(r)
         /\ added[r] <= Chunk(Pieces(r))
         /\ ~inside[r] => done[r] = Chunk(Pieces(r))
         /\ \A j \in 1 .. Pieces(r) :
              /\ Chunk(j) <= added[r] => j <= taken[r] /\ j <= flagged[r]
              /\ j <= taken[r] => Chunk(j) <= added[r] + 1

\* The flags of a rank count its earlier calls and this one.
FlagsCount ==
  \A r \in Ranks :
    /\ pubFlag[r] = published[r] + IF inside[r] THEN flagged[r] ELSE 0
    /\ doneFlag[r] = seq[r] + IF inside[r] THEN done[r] ELSE 0

\* What a rank will have published, and how many chunks it will have used, when
\* its call has ended.
PublishedEnd(r) == published[r] + IF inside[r] THEN Pieces(r) ELSE 0
SeqEnd(r) == seq[r] + IF inside[r] THEN Chunk(Pieces(r)) ELSE 0

\* No rank is more than one call ahead; the rank ahead has nothing of its peer's
\* yet. Both count the same pieces and chunks before a call.
Lockstep ==
  \A r \in Ranks :
    /\ call[r] <= call[1 - r] + 1
    /\ call[r] > call[1 - r] =>
         /\ inside[r] /\ taken[r] = 0
         /\ published[r] = PublishedEnd(1 - r) /\ seq[r] = SeqEnd(1 - r)
    /\ call[r] = call[1 - r] =>
         /\ taken[r] <= flagged[1 - r]
         /\ PublishedEnd(r) = PublishedEnd(1 - r) /\ SeqEnd(r) = SeqEnd(1 - r)

\* A piece of the tensor is this rank's input, or with its chunk's add the sum.
Tensor ==
  \A r \in Ranks : call[r] > 0 =>
    src[r] = [j \in 1 .. Pieces(r) |->
                IF Chunk(j) <= added[r] THEN Summed(call[r], j) ELSE Input(r, call[r], j)]

\* Piece j of call c is on rank r's host memory and its peer, which is in that
\* call or still in the one before, has not copied it back.
Unread(r, c, j) ==
  \/ /\ c = call[1 - r] /\ inside[1 - r] /\ j \in taken[1 - r] + 1 .. Pieces(1 - r)
     /\ call[r] > c \/ (call[r] = c /\ j <= copied[r])
  \/ c = call[r] /\ call[r] = call[1 - r] + 1 /\ j \in 1 .. copied[r]

\* The number of its chunk, from the first call on.
Number(r, c, j) == (IF c = call[1 - r] THEN seq[1 - r] ELSE seq[r]) + Chunk(j)

\* The peer has copied it back.
CopiedBack(r, c, j) == c < call[1 - r] \/ (c = call[1 - r] /\ j <= taken[1 - r])

\* An unread piece is where its peer will look for it.
UnreadThere ==
  \A r \in Ranks : \A c \in 1 .. call[r] : \A j \in 1 .. sizes[c] :
    Unread(r, c, j) => host[r][Number(r, c, j) % NBuf][Place(j)] = Input(r, c, j)

\* Host memory holds inputs; what its peer has not copied back is unread and in
\* its place.
HostInputs ==
  \A r \in Ranks : \A s \in 0 .. NBuf - 1 : \A i \in 1 .. Region :
    host[r][s][i] # Empty =>
      \E c \in 1 .. call[r] : \E j \in 1 .. sizes[c] :
        /\ host[r][s][i] = Input(r, c, j)
        /\ \/ CopiedBack(r, c, j)
           \/ Unread(r, c, j) /\ s = Number(r, c, j) % NBuf /\ i = Place(j)

IInv ==
  /\ TypeOK /\ Memory /\ Progress /\ FlagsCount /\ Lockstep
  /\ Tensor /\ TakesPeersInput /\ UnreadThere /\ HostInputs

-----------------------------------------------------------------------------
(* Ranks, chunks and cells *)

\* There are two ranks.
LEMMA PeerFacts ==
  ASSUME NEW r \in Ranks
  PROVE  /\ 1 - r \in Ranks /\ 1 - (1 - r) = r /\ 1 - r # r
         /\ \A q \in Ranks : q = r \/ q = 1 - r
BY DEF Ranks

\* A remainder is below the divisor.
LEMMA ModRange ==
  ASSUME NEW n \in Nat \ {0}, NEW x \in Nat
  PROVE  x % n \in 0 .. n - 1 /\ x \div n \in Nat
<1>1. x % n \in 0 .. n - 1
  OBVIOUS
<1>2. x \div n \in Nat
  OBVIOUS
<1> QED BY <1>1, <1>2

\* Quotient and remainder make the number.
LEMMA DivMod ==
  ASSUME NEW n \in Nat \ {0}, NEW x \in Nat
  PROVE  x = (x \div n) * n + (x % n)
OBVIOUS

\* Two numbers with one remainder are a divisor apart.
LEMMA ModGap ==
  ASSUME NEW n \in Nat \ {0}, NEW a \in Nat, NEW b \in Nat, a < b, a % n = b % n
  PROVE  a + n <= b
<1>1. PICK p \in Nat, q \in Nat, r \in Nat : a = p * n + r /\ b = q * n + r
  <2>1. a \div n \in Nat /\ b \div n \in Nat /\ a % n \in Nat
    <3>1. \A x \in Nat : x % n \in 0 .. n - 1 /\ x \div n \in Nat
      BY ModRange
    <3>2. \A m \in 0 .. n - 1 : m \in Nat
      OBVIOUS
    <3> QED BY <3>1, <3>2
  <2>2. a = (a \div n) * n + (a % n) /\ b = (b \div n) * n + (b % n)
    BY DivMod
  <2> QED BY <2>1, <2>2
<1>2. p * n < q * n
  BY <1>1
<1>3. p < q
  <2>1. CASE q <= p
    <3>1. q * n <= p * n
      BY <2>1
    <3> QED BY <1>2, <3>1
  <2> QED BY <2>1
<1>4. q * n = p * n + (q - p) * n /\ q - p >= 1
  BY <1>3
<1>5. (q - p) * n >= n
  BY <1>4
<1> QED BY <1>1, <1>4, <1>5

\* Chunks and places are counted from 1.
LEMMA ChunkFacts ==
  ASSUME NEW j \in Nat \ {0}
  PROVE  Chunk(j) \in Nat \ {0} /\ Place(j) \in 1 .. Region
<1>1. j - 1 \in Nat
  OBVIOUS
<1>2. (j - 1) % Region \in 0 .. Region - 1 /\ (j - 1) \div Region \in Nat
  BY <1>1, ModRange, RegionAssumption
<1> QED BY <1>2, RegionAssumption DEF Chunk, Place

\* A piece is its place of its chunk.
LEMMA ChunkPlace ==
  ASSUME NEW i \in Nat \ {0}, NEW j \in Nat \ {0}, Chunk(i) = Chunk(j), Place(i) = Place(j)
  PROVE  i = j
<1>1. i - 1 \in Nat /\ j - 1 \in Nat
  OBVIOUS
<1>2. /\ (i - 1) \div Region \in Nat /\ (j - 1) \div Region \in Nat
      /\ (i - 1) % Region \in Nat /\ (j - 1) % Region \in Nat
  <2>1. \A x \in Nat : x % Region \in 0 .. Region - 1 /\ x \div Region \in Nat
    BY ModRange, RegionAssumption
  <2>2. \A m \in 0 .. Region - 1 : m \in Nat
    OBVIOUS
  <2> QED BY <1>1, <2>1, <2>2
<1>3. (i - 1) \div Region = (j - 1) \div Region /\ (i - 1) % Region = (j - 1) % Region
  BY <1>2 DEF Chunk, Place
<1>4. /\ i - 1 = ((i - 1) \div Region) * Region + ((i - 1) % Region)
      /\ j - 1 = ((j - 1) \div Region) * Region + ((j - 1) % Region)
  BY <1>1, DivMod, RegionAssumption
<1> QED BY <1>3, <1>4

\* Chunk k ends with piece k * Region.
LEMMA ChunkWithin ==
  ASSUME NEW j \in Nat \ {0}, NEW k \in Nat
  PROVE  Chunk(j) <= k <=> j <= k * Region
<1>1. j - 1 \in Nat /\ (j - 1) \div Region \in Nat /\ k * Region \in Nat
  BY ModRange, RegionAssumption
<1>2. (j - 1) \div Region < k <=> j - 1 < k * Region
  BY <1>1, RegionAssumption
<1> QED BY <1>1, <1>2 DEF Chunk

\* Pieces in order are in chunks in order.
LEMMA ChunkMono ==
  ASSUME NEW i \in Nat \ {0}, NEW j \in Nat \ {0}, i <= j
  PROVE  Chunk(i) <= Chunk(j)
<1>1. Chunk(j) \in Nat /\ Chunk(j) <= Chunk(j)
  BY ChunkFacts
<1>2. j <= Chunk(j) * Region
  BY <1>1, ChunkWithin
<1>3. i <= Chunk(j) * Region
  BY <1>1, <1>2, RegionAssumption
<1> QED BY <1>1, <1>3, ChunkWithin

\* What a cell holds.
LEMMA CellFacts ==
  ASSUME NEW r \in Ranks, NEW c \in Nat, NEW j \in Nat
  PROVE  /\ Empty \in Cells /\ Input(r, c, j) \in Cells /\ Input(r, c, j) # Empty
         /\ Input(r, c, j)[r] = << <<c, j>> >> /\ Empty[r] = <<>>
         /\ \A d, k : Input(r, c, j) = Input(r, d, k) => c = d /\ j = k
         /\ Plus(Input(r, c, j), Input(1 - r, c, j)) = Summed(c, j)
<1>1. Empty \in [Ranks -> Seq(Nat \X Nat)] /\ \A q \in Ranks : Empty[q] = <<>>
  BY DEF Empty
<1>2. << <<c, j>> >> \in Seq(Nat \X Nat) /\ << <<c, j>> >> # <<>>
  OBVIOUS
<1>3. \A q \in Ranks : \A d, k : Input(q, d, k) = [Empty EXCEPT ![q] = << <<d, k>> >>]
  BY DEF Input
<1>4. \A q \in Ranks : \A d, k :
        /\ DOMAIN Input(q, d, k) = Ranks
        /\ Input(q, d, k)[q] = << <<d, k>> >>
        /\ \A x \in Ranks : x # q => Input(q, d, k)[x] = <<>>
  BY <1>1, <1>3
<1>5. Input(r, c, j) \in Cells
  BY <1>1, <1>2, <1>3 DEF Cells
<1>6. Input(r, c, j)[r] = << <<c, j>> >> /\ Empty[r] = <<>>
  BY <1>1, <1>4
<1>7. Input(r, c, j) # Empty
  BY <1>2, <1>6
<1>8. ASSUME NEW d, NEW k, Input(r, c, j) = Input(r, d, k) PROVE c = d /\ j = k
  <2>1. << <<c, j>> >> = << <<d, k>> >>
    BY <1>4, <1>8
  <2>2. <<c, j>> = <<d, k>>
    BY <2>1
  <2> QED BY <2>2
<1>9. Plus(Input(r, c, j), Input(1 - r, c, j)) = Summed(c, j)
  <2>1. \A q \in Ranks : Input(r, c, j)[q] \o Input(1 - r, c, j)[q] = << <<c, j>> >>
    <3> TAKE q \in Ranks
    <3>1. q = r \/ q = 1 - r
      BY PeerFacts
    <3>2. 1 - r \in Ranks /\ 1 - r # r
      BY PeerFacts
    <3>3. << <<c, j>> >> \o <<>> = << <<c, j>> >> /\ <<>> \o << <<c, j>> >> = << <<c, j>> >>
      OBVIOUS
    <3>4. PICK e : e = << <<c, j>> >> /\ e \o <<>> = e /\ <<>> \o e = e
      BY <3>3
    <3>5. CASE q = r
      <4>1. Input(r, c, j)[q] = e /\ Input(1 - r, c, j)[q] = <<>>
        BY <1>4, <3>2, <3>4, <3>5
      <4> QED BY <3>4, <4>1
    <3>6. CASE q = 1 - r
      <4>1. Input(r, c, j)[q] = <<>> /\ Input(1 - r, c, j)[q] = e
        BY <1>4, <3>2, <3>4, <3>6
      <4> QED BY <3>4, <4>1
    <3> QED BY <3>1, <3>5, <3>6
  <2> QED BY <2>1 DEF Plus, Summed
<1> QED BY <1>1, <1>5, <1>6, <1>7, <1>8, <1>9 DEF Cells

\* The variables' types, one by one.
LEMMA Types ==
  ASSUME IInv
  PROVE  /\ sizes \in Seq(Nat \ {0}) /\ Len(sizes) \in Nat
         /\ inside \in [Ranks -> BOOLEAN] /\ call \in [Ranks -> 0 .. MaxCalls]
         /\ seq \in [Ranks -> Nat] /\ published \in [Ranks -> Nat]
         /\ copied \in [Ranks -> Nat] /\ flagged \in [Ranks -> Nat]
         /\ taken \in [Ranks -> Nat] /\ added \in [Ranks -> Nat] /\ done \in [Ranks -> Nat]
         /\ pubFlag \in [Ranks -> Nat] /\ doneFlag \in [Ranks -> Nat]
<1> USE DEF IInv
<1>1. sizes \in Seq(Nat \ {0}) /\ Len(sizes) \in Nat
  <2>1. sizes \in Seq(Sizes)
    BY DEF TypeOK
  <2>2. \A x \in Sizes : x \in Nat \ {0}
    BY SizesAssumption
  <2> QED BY <2>1, <2>2
<1> QED BY <1>1 DEF TypeOK

\* Where a rank's streams are.
LEMMA RankFacts ==
  ASSUME IInv, NEW r \in Ranks
  PROVE  /\ inside[r] \in BOOLEAN /\ call[r] \in Nat /\ call[r] <= Len(sizes)
         /\ seq[r] \in Nat /\ published[r] \in Nat /\ copied[r] \in Nat /\ flagged[r] \in Nat
         /\ taken[r] \in Nat /\ added[r] \in Nat /\ done[r] \in Nat
         /\ pubFlag[r] \in Nat /\ doneFlag[r] \in Nat
         /\ flagged[r] <= copied[r] /\ done[r] <= added[r]
         /\ inside[r] => call[r] > 0
         /\ call[r] > 0 => Pieces(r) \in Nat \ {0} /\ Chunk(Pieces(r)) \in Nat \ {0}
<1>1. /\ inside[r] \in BOOLEAN /\ call[r] \in Nat
      /\ seq[r] \in Nat /\ published[r] \in Nat /\ copied[r] \in Nat /\ flagged[r] \in Nat
      /\ taken[r] \in Nat /\ added[r] \in Nat /\ done[r] \in Nat
      /\ pubFlag[r] \in Nat /\ doneFlag[r] \in Nat
  BY Types, MaxCallsAssumption
<1>2. flagged[r] <= copied[r] /\ done[r] <= added[r]
  BY DEF IInv, TypeOK
<1>3. call[r] <= Len(sizes) /\ (inside[r] => call[r] > 0)
  BY <1>1 DEF IInv, Progress
<1>4. call[r] > 0 => Pieces(r) \in Nat \ {0}
  BY <1>1, <1>3, Types DEF Pieces
<1> QED BY <1>1, <1>2, <1>3, <1>4, ChunkFacts

\* The sizes of the calls a rank has entered.
LEMMA CallSizes ==
  ASSUME IInv, NEW r \in Ranks
  PROVE  /\ call[r] \in Nat
         /\ \A c \in 1 .. call[r] : c \in Nat /\ c \in 1 .. Len(sizes) /\ sizes[c] \in Nat \ {0}
<1>1. call[r] \in Nat /\ call[r] <= Len(sizes) /\ Len(sizes) \in Nat /\ sizes \in Seq(Nat \ {0})
  BY RankFacts, Types
<1>2. ASSUME NEW c \in 1 .. call[r]
      PROVE  c \in Nat /\ c \in 1 .. Len(sizes) /\ sizes[c] \in Nat \ {0}
  <2>1. c \in Nat /\ c \in 1 .. Len(sizes)
    BY <1>1
  <2> QED BY <1>1, <2>1
<1> QED BY <1>1, <1>2

\* A rank that has ended its call has done all of it.
LEMMA AllDone ==
  ASSUME IInv, NEW r \in Ranks, call[r] > 0, done[r] = Chunk(Pieces(r))
  PROVE  /\ added[r] = Chunk(Pieces(r)) /\ taken[r] = Pieces(r) /\ taken[r] > 0
         /\ flagged[r] = Pieces(r) /\ copied[r] = Pieces(r)
<1>1. /\ Pieces(r) \in Nat \ {0} /\ Chunk(Pieces(r)) \in Nat /\ added[r] \in Nat
      /\ done[r] <= added[r] /\ taken[r] \in Nat /\ flagged[r] \in Nat /\ copied[r] \in Nat
      /\ flagged[r] <= copied[r]
  BY RankFacts
<1>2. /\ added[r] <= Chunk(Pieces(r)) /\ copied[r] <= Pieces(r) /\ taken[r] <= Pieces(r)
      /\ \A j \in 1 .. Pieces(r) : Chunk(j) <= added[r] => j <= taken[r] /\ j <= flagged[r]
  BY DEF IInv, Progress
<1>3. added[r] = Chunk(Pieces(r)) /\ Pieces(r) \in 1 .. Pieces(r)
  BY <1>1, <1>2
<1>4. Pieces(r) <= taken[r] /\ Pieces(r) <= flagged[r]
  BY <1>1, <1>2, <1>3
<1> QED BY <1>1, <1>2, <1>3, <1>4

\* The invariant holds at the start.
LEMMA InvInit == Init => IInv
<1> SUFFICES ASSUME Init PROVE IInv
  OBVIOUS
<1>1. 0 \in Ranks /\ 0 \in Nat /\ Empty \in Cells
  BY CellFacts DEF Ranks
<1>2. TypeOK
  <2>1. sizes \in Seq(Sizes)
    BY DEF Init
  <2>2. call \in [Ranks -> 0 .. MaxCalls]
    BY MaxCallsAssumption DEF Init
  <2>3. \A f \in {seq, published, copied, flagged, taken, added, done, pubFlag, doneFlag} :
          f \in [Ranks -> Nat] /\ \A r \in Ranks : f[r] = 0
    BY DEF Init
  <2>4. \A r \in Ranks : flagged[r] <= copied[r] /\ done[r] <= added[r]
    BY <2>3
  <2>5. inside \in [Ranks -> BOOLEAN] /\ DOMAIN src = Ranks /\ DOMAIN tmp = Ranks /\ DOMAIN host = Ranks
    BY DEF Init
  <2> QED BY <2>1, <2>2, <2>3, <2>4, <2>5 DEF TypeOK
<1>3. Memory
  BY <1>1 DEF Init, Memory
<1>4. \A r \in Ranks : /\ call[r] = 0 /\ inside[r] = FALSE /\ taken[r] = 0 /\ src[r] = <<>>
                       /\ copied[r] = 0 /\ flagged[r] = 0 /\ added[r] = 0 /\ done[r] = 0
                       /\ pubFlag[r] = 0 /\ doneFlag[r] = 0 /\ seq[r] = 0 /\ published[r] = 0
  BY DEF Init
<1>5. \A r \in Ranks : 1 - r \in Ranks
  BY PeerFacts
<1>6. Progress /\ FlagsCount /\ Tensor /\ TakesPeersInput
  <2>1. Len(sizes) = 0
    BY DEF Init
  <2> QED BY <1>4, <2>1 DEF Progress, FlagsCount, Tensor, TakesPeersInput
<1>7. Lockstep
  BY <1>4, <1>5 DEF Lockstep, PublishedEnd, SeqEnd
<1>8. UnreadThere
  BY <1>4 DEF UnreadThere
<1>9. HostInputs
  BY DEF Init, HostInputs
<1> QED BY <1>2, <1>3, <1>6, <1>7, <1>8, <1>9 DEF IInv

-----------------------------------------------------------------------------
(* Host memory *)

\* What the host memory was accounted for by stays accounted for, and no piece
\* becomes unread.
Accounted ==
  \A r \in Ranks : \A c \in 1 .. call[r] : \A j \in 1 .. sizes[c] :
    /\ CopiedBack(r, c, j) => CopiedBack(r, c, j)'
    /\ Unread(r, c, j) => \/ CopiedBack(r, c, j)'
                          \/ Unread(r, c, j)' /\ Number(r, c, j)' = Number(r, c, j)

NoneUnread ==
  \A r \in Ranks : \A c \in 1 .. call'[r] : \A j \in 1 .. sizes'[c] :
    Unread(r, c, j)' => /\ c \in 1 .. call[r] /\ j \in 1 .. sizes[c]
                        /\ Unread(r, c, j) /\ Number(r, c, j)' = Number(r, c, j)

\* A step that leaves the host memory keeps its invariants.
LEMMA HostKept ==
  ASSUME IInv, host' = host, Accounted, NoneUnread,
         \A r \in Ranks : call'[r] \in Nat /\ call[r] <= call'[r],
         \A c \in 1 .. Len(sizes) : sizes'[c] = sizes[c]
  PROVE  UnreadThere' /\ HostInputs'
<1>1. UnreadThere'
  <2> SUFFICES ASSUME NEW r \in Ranks, NEW c \in 1 .. call'[r], NEW j \in 1 .. sizes'[c],
                      Unread(r, c, j)'
               PROVE  host[r][Number(r, c, j)' % NBuf][Place(j)] = Input(r, c, j)
    BY DEF UnreadThere
  <2>1. /\ c \in 1 .. call[r] /\ j \in 1 .. sizes[c] /\ Unread(r, c, j)
        /\ Number(r, c, j)' = Number(r, c, j)
    BY DEF NoneUnread
  <2> QED BY <2>1 DEF IInv, UnreadThere
<1>2. HostInputs'
  <2> SUFFICES ASSUME NEW r \in Ranks, NEW s \in 0 .. NBuf - 1, NEW i \in 1 .. Region,
                      host[r][s][i] # Empty
               PROVE  \E c \in 1 .. call'[r] : \E j \in 1 .. sizes'[c] :
                        /\ host[r][s][i] = Input(r, c, j)
                        /\ \/ CopiedBack(r, c, j)'
                           \/ Unread(r, c, j)' /\ s = Number(r, c, j)' % NBuf /\ i = Place(j)
    BY DEF HostInputs
  <2>1. PICK c \in 1 .. call[r] : \E j \in 1 .. sizes[c] :
          /\ host[r][s][i] = Input(r, c, j)
          /\ \/ CopiedBack(r, c, j)
             \/ Unread(r, c, j) /\ s = Number(r, c, j) % NBuf /\ i = Place(j)
    BY DEF IInv, HostInputs
  <2>2. PICK j \in 1 .. sizes[c] :
          /\ host[r][s][i] = Input(r, c, j)
          /\ \/ CopiedBack(r, c, j)
             \/ Unread(r, c, j) /\ s = Number(r, c, j) % NBuf /\ i = Place(j)
    BY <2>1
  <2>3. c \in 1 .. call'[r] /\ j \in 1 .. sizes'[c]
    <3>1. call[r] \in Nat /\ call[r] <= Len(sizes) /\ call'[r] \in Nat /\ call[r] <= call'[r]
      BY RankFacts
    <3>2. Len(sizes) \in Nat
      BY Types
    <3>3. c \in 1 .. Len(sizes)
      BY <3>1, <3>2
    <3> QED BY <3>1, <3>3
  <2>4. \/ CopiedBack(r, c, j)'
        \/ Unread(r, c, j)' /\ s = Number(r, c, j)' % NBuf /\ i = Place(j)
    BY <2>2 DEF Accounted
  <2> QED BY <2>2, <2>3, <2>4
<1> QED BY <1>1, <1>2

\* The host memory is not concerned with flags, sums and what is being taken in.
LEMMA HostUntouched ==
  ASSUME IInv, UNCHANGED <<sizes, inside, call, seq, copied, taken, host>>
  PROVE  UnreadThere' /\ HostInputs'
<1>1. \A r, c, j : /\ CopiedBack(r, c, j)' = CopiedBack(r, c, j)
                   /\ Unread(r, c, j)' = Unread(r, c, j)
                   /\ Number(r, c, j)' = Number(r, c, j)
  BY DEF CopiedBack, Unread, Number, Pieces
<1>2. Accounted /\ NoneUnread
  BY <1>1 DEF Accounted, NoneUnread
<1>3. \A r \in Ranks : call'[r] \in Nat /\ call[r] <= call'[r]
  BY RankFacts
<1> QED BY <1>2, <1>3, HostKept

-----------------------------------------------------------------------------
(* The steps that leave the host memory *)

\* The flag follows the copy.
LEMMA PublishStep == \A r \in Ranks : IInv /\ Publish(r) => IInv'
<1> SUFFICES ASSUME IInv, NEW r \in Ranks, Publish(r) PROVE IInv'
  OBVIOUS
<1>1. PICK p \in Ranks : p = 1 - r /\ r = 1 - p /\ r # p /\ \A q \in Ranks : q \in {r, p}
  BY PeerFacts
<1>2. /\ inside[r] /\ flagged[r] < copied[r]
      /\ flagged' = [flagged EXCEPT ![r] = copied[r]]
      /\ pubFlag' = [pubFlag EXCEPT ![r] = published[r] + copied[r]]
      /\ UNCHANGED <<sizes, inside, call, seq, published, copied, taken, added, done, doneFlag,
                     src, tmp, host>>
  BY DEF Publish
<1>3. /\ flagged' \in [Ranks -> Nat] /\ pubFlag' \in [Ranks -> Nat]
      /\ flagged'[r] = copied[r] /\ flagged'[p] = flagged[p]
      /\ pubFlag'[r] = published[r] + copied[r] /\ pubFlag'[p] = pubFlag[p]
  <2>1. copied[r] \in Nat /\ published[r] + copied[r] \in Nat
    BY RankFacts
  <2> QED BY <1>1, <1>2, <2>1, Types
<1>4. \A q \in Ranks : flagged[q] <= flagged'[q] /\ flagged[q] \in Nat /\ taken[q] \in Nat
                       /\ flagged'[q] \in Nat /\ flagged'[q] <= copied[q] /\ (call[q] > 0 => Pieces(q) \in Nat)
  BY <1>1, <1>2, <1>3, RankFacts
<1>5. TypeOK'
  <2>1. \A f \in {seq, published, copied, flagged, taken, added, done, pubFlag, doneFlag}' :
          f \in [Ranks -> Nat]
    BY <1>2, <1>3, Types
  <2> QED BY <1>2, <1>4, <2>1 DEF IInv, TypeOK
<1>6. Memory' /\ Tensor' /\ TakesPeersInput'
  BY <1>2 DEF IInv, Memory, Tensor, TakesPeersInput, Pieces
<1>7. Progress'
  <2> SUFFICES ASSUME NEW q \in Ranks, call[q] > 0, NEW j \in 1 .. Pieces(q), Chunk(j) <= added[q]
               PROVE  j <= flagged'[q]
    BY <1>2 DEF IInv, Progress, Pieces
  <2>1. j <= flagged[q]
    BY DEF IInv, Progress
  <2> QED BY <1>4, <2>1
<1>8. FlagsCount'
  BY <1>1, <1>2, <1>3 DEF IInv, FlagsCount
<1>9. Lockstep'
  <2>1. \A q \in Ranks : PublishedEnd(q)' = PublishedEnd(q) /\ SeqEnd(q)' = SeqEnd(q)
    BY <1>2 DEF PublishedEnd, SeqEnd, Pieces
  <2>2. \A q \in Ranks : call[q] = call[1 - q] => taken[q] <= flagged'[1 - q]
    <3> SUFFICES ASSUME NEW q \in Ranks, call[q] = call[1 - q] PROVE taken[q] <= flagged'[1 - q]
      OBVIOUS
    <3>1. taken[q] <= flagged[1 - q] /\ 1 - q \in Ranks
      BY PeerFacts DEF IInv, Lockstep
    <3> QED BY <1>4, <3>1
  <2> QED BY <1>2, <2>1, <2>2, PeerFacts DEF IInv, Lockstep
<1>10. UnreadThere' /\ HostInputs'
  BY <1>2, HostUntouched
<1> QED BY <1>5, <1>6, <1>7, <1>8, <1>9, <1>10 DEF IInv

\* The peer's region is released when the chunk is added.
LEMMA ReleaseStep == \A r \in Ranks : IInv /\ Release(r) => IInv'
<1> SUFFICES ASSUME IInv, NEW r \in Ranks, Release(r) PROVE IInv'
  OBVIOUS
<1>1. PICK p \in Ranks : p = 1 - r /\ r = 1 - p /\ r # p /\ \A q \in Ranks : q \in {r, p}
  BY PeerFacts
<1>2. /\ inside[r] /\ done' = [done EXCEPT ![r] = added[r]]
      /\ doneFlag' = [doneFlag EXCEPT ![r] = seq[r] + added[r]]
      /\ UNCHANGED <<sizes, inside, call, seq, published, copied, flagged, taken, added, pubFlag,
                     src, tmp, host>>
  BY DEF Release
<1>3. /\ done' \in [Ranks -> Nat] /\ doneFlag' \in [Ranks -> Nat]
      /\ done'[r] = added[r] /\ done'[p] = done[p]
      /\ doneFlag'[r] = seq[r] + added[r] /\ doneFlag'[p] = doneFlag[p]
  <2>1. added[r] \in Nat /\ seq[r] + added[r] \in Nat
    BY RankFacts
  <2> QED BY <1>1, <1>2, <2>1, Types
<1>4. \A q \in Ranks : done'[q] <= added[q]
  BY <1>1, <1>3, RankFacts
<1>5. TypeOK'
  <2>1. \A f \in {seq, published, copied, flagged, taken, added, done, pubFlag, doneFlag}' :
          f \in [Ranks -> Nat]
    BY <1>2, <1>3, Types
  <2> QED BY <1>2, <1>4, <2>1 DEF IInv, TypeOK
<1>6. Memory' /\ Tensor' /\ TakesPeersInput'
  BY <1>2 DEF IInv, Memory, Tensor, TakesPeersInput, Pieces
<1>7. Progress'
  <2>1. \A q \in Ranks : ~inside[q] => done'[q] = done[q]
    BY <1>1, <1>2, <1>3
  <2> QED BY <1>2, <2>1 DEF IInv, Progress, Pieces
<1>8. FlagsCount'
  BY <1>1, <1>2, <1>3 DEF IInv, FlagsCount
<1>9. Lockstep'
  <2>1. \A q \in Ranks : PublishedEnd(q)' = PublishedEnd(q) /\ SeqEnd(q)' = SeqEnd(q)
    BY <1>2 DEF PublishedEnd, SeqEnd, Pieces
  <2> QED BY <1>2, <2>1, PeerFacts DEF IInv, Lockstep
<1>10. UnreadThere' /\ HostInputs'
  BY <1>2, HostUntouched
<1> QED BY <1>5, <1>6, <1>7, <1>8, <1>9, <1>10 DEF IInv

\* A chunk that is added has been copied back whole, and is on the host whole.
LEMMA AddStep == \A r \in Ranks : IInv /\ Add(r) => IInv'
<1> SUFFICES ASSUME IInv, NEW r \in Ranks, Add(r) PROVE IInv'
  OBVIOUS
<1>1. PICK p \in Ranks : p = 1 - r /\ r = 1 - p /\ r # p /\ \A q \in Ranks : q \in {r, p}
  BY PeerFacts
<1>2. PICK k : k = added[r] + 1
  OBVIOUS
<1>3. PICK t : t = [j \in DOMAIN src[r] |->
                      IF Chunk(j) = k THEN Plus(src[r][j], tmp[r][Place(j)]) ELSE src[r][j]]
  OBVIOUS
<1>4. /\ inside[r] /\ added[r] < Chunk(Pieces(r))
      /\ taken[r] = ChunkEnd(r, k) /\ flagged[r] >= ChunkEnd(r, k)
      /\ src' = [src EXCEPT ![r] = t] /\ added' = [added EXCEPT ![r] = k]
      /\ UNCHANGED <<sizes, inside, call, seq, published, copied, flagged, taken, done, pubFlag,
                     doneFlag, tmp, host>>
  BY <1>2, <1>3 DEF Add, flags
<1>5. /\ k \in Nat /\ added[r] \in Nat /\ taken[r] \in Nat /\ flagged[r] \in Nat
      /\ call[r] > 0 /\ call[r] \in Nat /\ Pieces(r) \in Nat \ {0} /\ Chunk(Pieces(r)) \in Nat
  BY <1>2, <1>4, RankFacts
<1>6. /\ added' \in [Ranks -> Nat] /\ added'[r] = k /\ added'[p] = added[p]
      /\ DOMAIN src' = Ranks /\ src'[r] = t /\ src'[p] = src[p]
  <2>1. DOMAIN src = Ranks
    BY DEF IInv, TypeOK
  <2> QED BY <1>1, <1>4, <1>5, <2>1, Types
<1>7. TypeOK'
  <2>1. \A f \in {seq, published, copied, flagged, taken, added, done, pubFlag, doneFlag}' :
          f \in [Ranks -> Nat]
    BY <1>4, <1>6, Types
  <2>2. \A q \in Ranks : done[q] <= added'[q] /\ flagged[q] <= copied[q]
    BY <1>1, <1>2, <1>6, RankFacts
  <2> QED BY <1>4, <1>6, <2>1, <2>2 DEF IInv, TypeOK
\* The pieces of the chunks that are added now.
<1>8. ASSUME NEW j \in 1 .. Pieces(r), Chunk(j) <= k PROVE j <= taken[r] /\ j <= flagged[r]
  <2>1. j <= k * Region
    BY <1>5, <1>8, ChunkWithin
  <2>2. j <= ChunkEnd(r, k) /\ ChunkEnd(r, k) \in Nat
    BY <1>4, <1>5, <2>1 DEF ChunkEnd
  <2> QED BY <1>4, <1>5, <2>2
<1>9. Progress'
  <2>1. \A q \in Ranks : added'[q] >= added[q] /\ added'[q] \in Nat /\ added[q] \in Nat
    <3>1. \A q \in Ranks : added[q] \in Nat
      BY RankFacts
    <3> QED BY <1>1, <1>2, <1>6, <3>1
  <2>2. \A q \in Ranks : call[q] > 0 => added'[q] <= Chunk(Pieces(q))
    <3>1. added'[r] <= Chunk(Pieces(r))
      BY <1>2, <1>4, <1>5, <1>6
    <3>2. call[p] > 0 => added'[p] <= Chunk(Pieces(p))
      BY <1>6 DEF IInv, Progress
    <3> QED BY <1>1, <3>1, <3>2
  <2>3. \A q \in Ranks : call[q] > 0 => \A j \in 1 .. Pieces(q) :
          Chunk(j) <= added'[q] => j <= taken[q] /\ j <= flagged[q]
    BY <1>1, <1>6, <1>8 DEF IInv, Progress
  <2>4. \A q \in Ranks : call[q] > 0 => \A j \in 1 .. Pieces(q) :
          j <= taken[q] => Chunk(j) <= added'[q] + 1
    <3> SUFFICES ASSUME NEW q \in Ranks, call[q] > 0, NEW j \in 1 .. Pieces(q), j <= taken[q]
                 PROVE  Chunk(j) <= added'[q] + 1
      OBVIOUS
    <3>1. Chunk(j) <= added[q] + 1 /\ Pieces(q) \in Nat
      BY RankFacts DEF IInv, Progress
    <3>2. Chunk(j) \in Nat
      BY <3>1, ChunkFacts
    <3> QED BY <2>1, <3>1, <3>2
  <2>5. \A q \in Ranks : call[q] = 0 => src'[q] = src[q]
    BY <1>1, <1>5, <1>6
  <2> QED BY <1>4, <2>2, <2>3, <2>4, <2>5 DEF IInv, Progress, Pieces
<1>10. FlagsCount'
  BY <1>4 DEF IInv, FlagsCount
<1>11. Lockstep'
  <2>1. \A q \in Ranks : PublishedEnd(q)' = PublishedEnd(q) /\ SeqEnd(q)' = SeqEnd(q)
    BY <1>4 DEF PublishedEnd, SeqEnd, Pieces
  <2> QED BY <1>4, <2>1, PeerFacts DEF IInv, Lockstep
<1>12. UnreadThere' /\ HostInputs'
  BY <1>4, HostUntouched
<1>13. Memory'
  BY <1>4 DEF IInv, Memory
<1>14. TakesPeersInput'
  <2> SUFFICES ASSUME NEW q \in Ranks, NEW j \in 1 .. taken[q], inside[q], Chunk(j) = added'[q] + 1
               PROVE  tmp[q][Place(j)] = Input(1 - q, call[q], j)
    BY <1>4 DEF TakesPeersInput
  <2>1. CASE q = p
    BY <1>6, <2>1 DEF IInv, TakesPeersInput
  <2>2. CASE q = r
    <3>1. j \in 1 .. Pieces(r) /\ Chunk(j) \in Nat
      <4>1. taken[r] <= Pieces(r)
        BY <1>5 DEF IInv, Progress
      <4> QED BY <1>5, <2>2, <4>1, ChunkFacts
    <3>2. Chunk(j) <= added[r] + 1
      BY <1>5, <2>2, <3>1 DEF IInv, Progress
    <3> QED BY <1>2, <1>5, <1>6, <2>2, <3>1, <3>2
  <2> QED BY <1>1, <2>1, <2>2
<1>15. Tensor'
  <2> SUFFICES ASSUME NEW q \in Ranks, call[q] > 0
               PROVE  src'[q] = [j \in 1 .. Pieces(q) |->
                                  IF Chunk(j) <= added'[q] THEN Summed(call[q], j)
                                                           ELSE Input(q, call[q], j)]
    BY <1>4 DEF Tensor, Pieces
  <2>1. CASE q = p
    BY <1>6, <2>1 DEF IInv, Tensor
  <2>2. CASE q = r
    <3>1. src[r] = [j \in 1 .. Pieces(r) |->
                     IF Chunk(j) <= added[r] THEN Summed(call[r], j) ELSE Input(r, call[r], j)]
      BY <1>5 DEF IInv, Tensor
    <3>2. ASSUME NEW j \in 1 .. Pieces(r)
          PROVE  (IF Chunk(j) = k THEN Plus(src[r][j], tmp[r][Place(j)]) ELSE src[r][j])
                   = IF Chunk(j) <= k THEN Summed(call[r], j) ELSE Input(r, call[r], j)
      <4>1. Chunk(j) \in Nat /\ j \in Nat
        BY <1>5, ChunkFacts
      <4>2. CASE Chunk(j) = k
        <5>1. src[r][j] = Input(r, call[r], j)
          BY <1>2, <1>5, <3>1, <4>1, <4>2
        <5>2. j <= taken[r]
          BY <1>5, <1>8, <4>2
        <5>3. tmp[r][Place(j)] = Input(1 - r, call[r], j)
          BY <1>2, <1>4, <1>5, <4>1, <4>2, <5>2 DEF IInv, TakesPeersInput
        <5>4. Plus(Input(r, call[r], j), Input(1 - r, call[r], j)) = Summed(call[r], j)
          <6>1. PICK c \in Nat : c = call[r]
            BY <1>5
          <6>2. Plus(Input(r, c, j), Input(1 - r, c, j)) = Summed(c, j)
            BY <4>1, CellFacts
          <6> QED BY <6>1, <6>2
        <5> QED BY <1>5, <4>2, <5>1, <5>3, <5>4
      <4>3. CASE Chunk(j) # k
        <5>1. Chunk(j) <= k <=> Chunk(j) <= added[r]
          BY <1>2, <1>5, <4>1, <4>3
        <5> QED BY <3>1, <4>3, <5>1
      <4> QED BY <4>2, <4>3
    <3>3. DOMAIN src[r] = 1 .. Pieces(r)
      BY <3>1
    <3>4. t = [j \in 1 .. Pieces(r) |->
                 IF Chunk(j) <= k THEN Summed(call[r], j) ELSE Input(r, call[r], j)]
      BY <1>3, <3>2, <3>3
    <3> QED BY <1>6, <2>2, <3>4
  <2> QED BY <1>1, <2>1, <2>2
<1> QED BY <1>7, <1>9, <1>10, <1>11, <1>12, <1>13, <1>14, <1>15 DEF IInv

\* A piece whose flag is up is on the peer's host memory.
LEMMA FlagUp ==
  ASSUME IInv, NEW r \in Ranks, NEW p \in Ranks, p = 1 - r, inside[r],
         NEW j \in 1 .. Pieces(r), taken[r] < j, pubFlag[p] >= published[r] + j
  PROVE  /\ call[p] >= call[r] /\ (call[p] = call[r] => j <= flagged[p])
         /\ call[r] \in 1 .. call[p] /\ j \in 1 .. sizes[call[r]] /\ Unread(p, call[r], j)
<1>1. r = 1 - p /\ r # p
  BY PeerFacts
<1>2. /\ call[r] > 0 /\ Pieces(r) \in Nat \ {0} /\ call[r] \in Nat /\ published[r] \in Nat
      /\ taken[r] \in Nat
  BY RankFacts
<1>3. /\ call[p] \in Nat /\ inside[p] \in BOOLEAN /\ flagged[p] \in Nat /\ copied[p] \in Nat
      /\ published[p] \in Nat /\ pubFlag[p] \in Nat /\ flagged[p] <= copied[p]
      /\ (inside[p] => call[p] > 0) /\ (call[p] > 0 => Pieces(p) \in Nat \ {0})
  BY RankFacts
<1>4. j \in Nat \ {0} /\ j <= Pieces(r)
  BY <1>2
<1>5. call[p] > 0 => copied[p] <= Pieces(p)
  BY DEF IInv, Progress
<1>6. pubFlag[p] = published[p] + IF inside[p] THEN flagged[p] ELSE 0
  BY DEF IInv, FlagsCount
<1>7. pubFlag[p] <= PublishedEnd(p)
  <2>1. CASE inside[p]
    BY <1>3, <1>5, <1>6, <2>1 DEF PublishedEnd
  <2>2. CASE ~inside[p]
    BY <1>3, <1>6, <2>2 DEF PublishedEnd
  <2> QED BY <2>1, <2>2
<1>8. call[p] >= call[r]
  <2> SUFFICES ASSUME call[r] > call[p] PROVE FALSE
    BY <1>2, <1>3
  <2>1. published[r] = PublishedEnd(p)
    BY DEF IInv, Lockstep
  <2> QED BY <1>2, <1>3, <1>4, <1>7, <2>1
<1>9. ASSUME call[p] = call[r] PROVE j <= flagged[p]
  <2>1. PublishedEnd(r) = PublishedEnd(p) /\ Pieces(p) = Pieces(r)
    BY <1>9 DEF IInv, Lockstep, Pieces
  <2>2. CASE inside[p]
    <3>1. published[r] + Pieces(r) = published[p] + Pieces(p)
      BY <2>1, <2>2 DEF PublishedEnd
    <3>2. pubFlag[p] = published[p] + flagged[p]
      BY <1>6, <2>2
    <3> QED BY <1>2, <1>3, <1>4, <2>1, <3>1, <3>2
  <2>3. CASE ~inside[p]
    <3>1. call[p] > 0 /\ done[p] = Chunk(Pieces(p))
      BY <1>2, <1>9, <2>3 DEF IInv, Progress
    <3> QED BY <1>4, <2>1, <3>1, AllDone
  <2> QED BY <1>3, <2>2, <2>3
<1>10. call[r] \in 1 .. call[p] /\ j \in 1 .. sizes[call[r]]
  BY <1>2, <1>3, <1>4, <1>8 DEF Pieces
<1>11. j \in taken[r] + 1 .. Pieces(r)
  BY <1>2, <1>4
<1>12. call[p] > call[r] \/ (call[p] = call[r] /\ j <= copied[p])
  BY <1>2, <1>3, <1>4, <1>8, <1>9
<1>13. Unread(p, call[r], j)
  BY <1>1, <1>11, <1>12 DEF Unread
<1> QED BY <1>8, <1>9, <1>10, <1>13

\* What comes back is the peer's input.
LEMMA CopyInStep == \A r \in Ranks : IInv /\ CopyIn(r) => IInv'
<1> SUFFICES ASSUME IInv, NEW r \in Ranks, CopyIn(r) PROVE IInv'
  OBVIOUS
<1>1. PICK p \in Ranks : p = 1 - r /\ r = 1 - p /\ r # p /\ \A q \in Ranks : q \in {r, p}
  BY PeerFacts
<1>2. PICK j : j = taken[r] + 1
  OBVIOUS
<1>3. /\ inside[r] /\ j <= Pieces(r) /\ Chunk(j) = added[r] + 1
      /\ pubFlag[p] >= published[r] + j
      /\ tmp' = [tmp EXCEPT ![r][Place(j)] = host[p][Slot(r, Chunk(j))][Place(j)]]
      /\ taken' = [taken EXCEPT ![r] = j]
      /\ UNCHANGED <<sizes, inside, call, seq, published, copied, flagged, added, done, pubFlag,
                     doneFlag, src, host>>
  BY <1>1, <1>2 DEF CopyIn, flags
<1>4. /\ taken[r] \in Nat /\ added[r] \in Nat /\ call[r] > 0 /\ call[r] \in Nat /\ seq[r] \in Nat
      /\ Pieces(r) \in Nat \ {0}
  BY <1>3, RankFacts
<1>5. j \in Nat \ {0} /\ j \in 1 .. Pieces(r) /\ taken[r] < j
  BY <1>2, <1>3, <1>4
<1>6. /\ call[p] >= call[r] /\ (call[p] = call[r] => j <= flagged[p])
      /\ call[r] \in 1 .. call[p] /\ j \in 1 .. sizes[call[r]] /\ Unread(p, call[r], j)
  BY <1>1, <1>3, <1>5, FlagUp
<1>7. Place(j) \in 1 .. Region /\ Chunk(j) \in Nat \ {0}
  BY <1>5, ChunkFacts
<1>8. host[p][Slot(r, Chunk(j))][Place(j)] = Input(p, call[r], j)
  <2>1. PICK c \in 1 .. call[p] : c = call[r]
    BY <1>6
  <2>2. host[p][Number(p, c, j) % NBuf][Place(j)] = Input(p, c, j)
    BY <1>6, <2>1 DEF IInv, UnreadThere
  <2>3. Number(p, c, j) = seq[r] + Chunk(j)
    BY <1>1, <2>1 DEF Number
  <2> QED BY <2>1, <2>2, <2>3 DEF Slot
<1>9. taken' \in [Ranks -> Nat] /\ taken'[r] = j /\ taken'[p] = taken[p]
  BY <1>1, <1>3, <1>5, Types
<1>10. /\ tmp \in [Ranks -> [1 .. Region -> Cells]]
       /\ tmp' = [tmp EXCEPT ![r][Place(j)] = Input(p, call[r], j)]
  BY <1>3, <1>8 DEF IInv, Memory
<1>11. /\ tmp' \in [Ranks -> [1 .. Region -> Cells]]
       /\ tmp'[r][Place(j)] = Input(p, call[r], j) /\ tmp'[p] = tmp[p]
       /\ \A i \in 1 .. Region : i # Place(j) => tmp'[r][i] = tmp[r][i]
  <2>1. Input(p, call[r], j) \in Cells
    <3>1. PICK c \in Nat : c = call[r]
      BY <1>4
    <3> QED BY <1>5, <3>1, CellFacts
  <2>2. \A f \in [1 .. Region -> Cells], x \in 1 .. Region, v \in Cells :
          [f EXCEPT ![x] = v] \in [1 .. Region -> Cells]
    OBVIOUS
  <2>3. tmp[r] \in [1 .. Region -> Cells]
    BY <1>10
  <2>4. PICK f : f = [tmp[r] EXCEPT ![Place(j)] = Input(p, call[r], j)]
    OBVIOUS
  <2>5. /\ f \in [1 .. Region -> Cells] /\ f[Place(j)] = Input(p, call[r], j)
        /\ \A i \in 1 .. Region : i # Place(j) => f[i] = tmp[r][i]
    BY <1>7, <2>1, <2>2, <2>3, <2>4
  <2>6. tmp' = [tmp EXCEPT ![r] = f]
    BY <1>10, <2>4
  <2> QED BY <1>1, <1>10, <2>5, <2>6
<1>12. TypeOK'
  <2>1. \A f \in {seq, published, copied, flagged, taken, added, done, pubFlag, doneFlag}' :
          f \in [Ranks -> Nat]
    BY <1>3, <1>9, Types
  <2>2. DOMAIN tmp' = Ranks
    BY <1>11
  <2> QED BY <1>3, <2>1, <2>2 DEF IInv, TypeOK
<1>13. Memory' /\ Tensor' /\ FlagsCount'
  BY <1>3, <1>11 DEF IInv, Memory, Tensor, FlagsCount, Pieces
<1>14. Progress'
  <2>1. \A q \in Ranks : taken'[q] >= taken[q] /\ taken'[q] \in Nat /\ taken[q] \in Nat
    <3>1. \A q \in Ranks : taken[q] \in Nat
      BY RankFacts
    <3> QED BY <1>1, <1>2, <1>9, <3>1
  <2>2. \A q \in Ranks : call[q] > 0 => taken'[q] <= Pieces(q)
    <3>1. call[p] > 0 => taken'[p] <= Pieces(p)
      BY <1>9 DEF IInv, Progress
    <3> QED BY <1>1, <1>3, <1>9, <3>1
  <2>3. \A q \in Ranks : call[q] > 0 => \A i \in 1 .. Pieces(q) :
          Chunk(i) <= added[q] => i <= taken'[q] /\ i <= flagged[q]
    <3> SUFFICES ASSUME NEW q \in Ranks, call[q] > 0, NEW i \in 1 .. Pieces(q), Chunk(i) <= added[q]
                 PROVE  i <= taken'[q] /\ i <= flagged[q]
      OBVIOUS
    <3>1. i <= taken[q] /\ i <= flagged[q] /\ Pieces(q) \in Nat
      BY RankFacts DEF IInv, Progress
    <3> QED BY <2>1, <3>1
  <2>4. \A q \in Ranks : call[q] > 0 => \A i \in 1 .. Pieces(q) :
          i <= taken'[q] => Chunk(i) <= added[q] + 1
    <3> SUFFICES ASSUME NEW q \in Ranks, call[q] > 0, NEW i \in 1 .. Pieces(q), i <= taken'[q]
                 PROVE  Chunk(i) <= added[q] + 1
      OBVIOUS
    <3>1. CASE q = p
      BY <1>9, <3>1 DEF IInv, Progress
    <3>2. CASE q = r
      <4>1. i \in Nat \ {0} /\ i <= j
        BY <1>4, <1>9, <3>2
      <4> QED BY <1>3, <1>5, <3>2, <4>1, ChunkMono
    <3> QED BY <1>1, <3>1, <3>2
  <2>5. \A q \in Ranks : call[q] = 0 => taken'[q] = taken[q]
    BY <1>1, <1>4, <1>9
  <2> QED BY <1>3, <2>2, <2>3, <2>4, <2>5 DEF IInv, Progress, Pieces
<1>15. Lockstep'
  <2>1. \A q \in Ranks : PublishedEnd(q)' = PublishedEnd(q) /\ SeqEnd(q)' = SeqEnd(q)
    BY <1>3 DEF PublishedEnd, SeqEnd, Pieces
  <2>2. \A q \in Ranks : call[q] > call[1 - q] => taken'[q] = taken[q]
    <3>1. call[r] \in Nat /\ call[p] \in Nat
      BY RankFacts
    <3> QED BY <1>1, <1>6, <1>9, <3>1
  <2>3. \A q \in Ranks : call[q] = call[1 - q] => taken'[q] <= flagged[1 - q]
    <3>1. call[p] = call[r] => taken'[p] <= flagged[r]
      BY <1>1, <1>9 DEF IInv, Lockstep
    <3> QED BY <1>1, <1>6, <1>9, <3>1
  <2> QED BY <1>3, <2>1, <2>2, <2>3, PeerFacts DEF IInv, Lockstep
<1>16. TakesPeersInput'
  <2> SUFFICES ASSUME NEW q \in Ranks, NEW i \in 1 .. taken'[q], inside[q], Chunk(i) = added[q] + 1
               PROVE  tmp'[q][Place(i)] = Input(1 - q, call[q], i)
    BY <1>3 DEF TakesPeersInput
  <2>1. CASE q = p
    BY <1>9, <1>11, <2>1 DEF IInv, TakesPeersInput
  <2>2. CASE q = r
    <3>1. i \in Nat \ {0} /\ i <= j /\ (i # j => i \in 1 .. taken[r])
      BY <1>2, <1>4, <1>9, <2>2
    <3>2. CASE i = j
      BY <1>1, <1>11, <2>2, <3>2
    <3>3. CASE i # j
      <4>1. Place(i) # Place(j) /\ Place(i) \in 1 .. Region
        BY <1>3, <1>5, <2>2, <3>1, <3>3, ChunkPlace, ChunkFacts
      <4>2. tmp[r][Place(i)] = Input(p, call[r], i)
        BY <1>1, <1>3, <2>2, <3>1, <3>3 DEF IInv, TakesPeersInput
      <4> QED BY <1>1, <1>11, <2>2, <4>1, <4>2
    <3> QED BY <3>2, <3>3
  <2> QED BY <1>1, <2>1, <2>2
<1>17. UnreadThere' /\ HostInputs'
  <2>1. \A c, i : Number(r, c, i)' = Number(r, c, i) /\ Number(p, c, i)' = Number(p, c, i)
    BY <1>3 DEF Number
  <2>2. \A c, i : CopiedBack(r, c, i)' = CopiedBack(r, c, i) /\ Unread(r, c, i)' = Unread(r, c, i)
    BY <1>1, <1>3, <1>9 DEF CopiedBack, Unread, Pieces
  <2>3. ASSUME NEW c \in Nat, NEW i \in Nat, CopiedBack(p, c, i) PROVE CopiedBack(p, c, i)'
    BY <1>1, <1>2, <1>3, <1>4, <1>9, <2>3 DEF CopiedBack
  <2>4. ASSUME NEW c \in Nat, NEW i \in Nat, Unread(p, c, i)
        PROVE  CopiedBack(p, c, i)' \/ Unread(p, c, i)'
    <3>1. CASE /\ c = call[r] /\ inside[r] /\ i \in taken[r] + 1 .. Pieces(r)
               /\ call[p] > c \/ (call[p] = c /\ i <= copied[p])
      <4>1. CASE i = j
        <5>1. c = call'[r] /\ i <= taken'[r]
          BY <1>3, <1>5, <1>9, <3>1, <4>1
        <5> QED BY <1>1, <5>1 DEF CopiedBack
      <4>2. CASE i # j
        <5>1. i \in taken'[r] + 1 .. Pieces(r)
          BY <1>2, <1>4, <1>9, <3>1, <4>2
        <5>2. Pieces(r)' = Pieces(r)
          BY <1>3 DEF Pieces
        <5> QED BY <1>1, <1>3, <3>1, <5>1, <5>2 DEF Unread
      <4> QED BY <4>1, <4>2
    <3>2. CASE c = call[p] /\ call[p] = call[r] + 1 /\ i \in 1 .. copied[p]
      BY <1>1, <1>3, <3>2 DEF Unread
    <3> QED BY <1>1, <2>4, <3>1, <3>2 DEF Unread
  <2>5. ASSUME NEW c \in Nat, NEW i \in Nat, Unread(p, c, i)' PROVE Unread(p, c, i)
    <3>1. CASE /\ c = call[r] /\ inside[r] /\ i \in taken'[r] + 1 .. Pieces(r)'
               /\ call[p] > c \/ (call[p] = c /\ i <= copied[p])
      <4>1. Pieces(r)' = Pieces(r)
        BY <1>3 DEF Pieces
      <4>2. i \in taken[r] + 1 .. Pieces(r)
        BY <1>2, <1>4, <1>9, <3>1, <4>1
      <4> QED BY <1>1, <3>1, <4>2 DEF Unread
    <3>2. CASE c = call[p] /\ call[p] = call[r] + 1 /\ i \in 1 .. copied[p]
      BY <1>1, <3>2 DEF Unread
    <3>3. \/ /\ c = call[r] /\ inside[r] /\ i \in taken'[r] + 1 .. Pieces(r)'
             /\ call[p] > c \/ (call[p] = c /\ i <= copied[p])
          \/ c = call[p] /\ call[p] = call[r] + 1 /\ i \in 1 .. copied[p]
      BY <1>1, <1>3, <2>5 DEF Unread
    <3> QED BY <3>1, <3>2, <3>3
  <2>6. \A q \in Ranks : call[q] \in Nat /\ \A c \in 1 .. call[q] : sizes[c] \in Nat /\ c \in Nat
    BY CallSizes
  <2>7. Accounted
    BY <1>1, <2>1, <2>2, <2>3, <2>4, <2>6 DEF Accounted
  <2>8. NoneUnread
    <3> SUFFICES ASSUME NEW q \in Ranks, NEW c \in 1 .. call[q], NEW i \in 1 .. sizes[c],
                        Unread(q, c, i)'
                 PROVE  Unread(q, c, i) /\ Number(q, c, i)' = Number(q, c, i)
      BY <1>3 DEF NoneUnread
    <3>1. c \in Nat /\ i \in Nat
      BY <2>6
    <3> QED BY <1>1, <2>1, <2>2, <2>5, <3>1
  <2>9. \A q \in Ranks : call'[q] \in Nat /\ call[q] <= call'[q]
    BY <1>3, <2>6
  <2> QED BY <1>3, <2>7, <2>8, <2>9, HostKept
<1> QED BY <1>12, <1>13, <1>14, <1>15, <1>16, <1>17 DEF IInv

-----------------------------------------------------------------------------
(* The start and the end of a call *)

\* A call that ends leaves nothing unread for its rank.
LEMMA ExitStep == \A r \in Ranks : IInv /\ Exit(r) => IInv'
<1> SUFFICES ASSUME IInv, NEW r \in Ranks, Exit(r) PROVE IInv'
  OBVIOUS
<1>1. PICK p \in Ranks : p = 1 - r /\ r = 1 - p /\ r # p /\ \A q \in Ranks : q \in {r, p}
  BY PeerFacts
<1>2. /\ inside[r] /\ done[r] = Chunk(Pieces(r))
      /\ inside' = [inside EXCEPT ![r] = FALSE]
      /\ seq' = [seq EXCEPT ![r] = @ + Chunk(Pieces(r))]
      /\ published' = [published EXCEPT ![r] = @ + Pieces(r)]
      /\ UNCHANGED <<sizes, call, copied, flagged, taken, added, done, pubFlag, doneFlag,
                     src, tmp, host>>
  BY DEF Exit, places, flags
<1>3. /\ call[r] > 0 /\ call[r] \in Nat /\ Pieces(r) \in Nat \ {0} /\ Chunk(Pieces(r)) \in Nat \ {0}
      /\ seq[r] \in Nat /\ published[r] \in Nat /\ call[p] \in Nat
  BY <1>2, RankFacts
<1>4. /\ added[r] = Chunk(Pieces(r)) /\ taken[r] = Pieces(r) /\ taken[r] > 0
      /\ flagged[r] = Pieces(r) /\ copied[r] = Pieces(r)
  BY <1>2, <1>3, AllDone
<1>5. call[r] <= call[p]
  BY <1>1, <1>3, <1>4 DEF IInv, Lockstep
<1>6. /\ inside' \in [Ranks -> BOOLEAN] /\ inside'[r] = FALSE /\ inside'[p] = inside[p]
      /\ seq' \in [Ranks -> Nat] /\ seq'[r] = seq[r] + Chunk(Pieces(r)) /\ seq'[p] = seq[p]
      /\ published' \in [Ranks -> Nat] /\ published'[r] = published[r] + Pieces(r)
      /\ published'[p] = published[p]
  <2>1. seq[r] + Chunk(Pieces(r)) \in Nat /\ published[r] + Pieces(r) \in Nat
    BY <1>3
  <2> QED BY <1>1, <1>2, <2>1, Types
<1>7. TypeOK'
  <2>1. \A f \in {seq, published, copied, flagged, taken, added, done, pubFlag, doneFlag}' :
          f \in [Ranks -> Nat]
    BY <1>2, <1>6, Types
  <2> QED BY <1>2, <1>6, <2>1 DEF IInv, TypeOK
<1>8. Memory' /\ Tensor'
  BY <1>2 DEF IInv, Memory, Tensor, Pieces
<1>9. TakesPeersInput'
  BY <1>1, <1>2, <1>6 DEF IInv, TakesPeersInput
<1>10. Progress'
  BY <1>1, <1>2, <1>3, <1>6 DEF IInv, Progress, Pieces
<1>11. FlagsCount'
  <2>1. pubFlag[r] = published[r] + flagged[r] /\ doneFlag[r] = seq[r] + done[r]
    BY <1>2 DEF IInv, FlagsCount
  <2>2. pubFlag'[r] = published'[r] /\ doneFlag'[r] = seq'[r]
    BY <1>2, <1>4, <1>6, <2>1
  <2>3. /\ pubFlag[p] = published[p] + IF inside[p] THEN flagged[p] ELSE 0
        /\ doneFlag[p] = seq[p] + IF inside[p] THEN done[p] ELSE 0
    BY DEF IInv, FlagsCount
  <2>4. /\ pubFlag'[r] = published'[r] + (IF inside'[r] THEN flagged'[r] ELSE 0)
        /\ doneFlag'[r] = seq'[r] + (IF inside'[r] THEN done'[r] ELSE 0)
    BY <1>3, <1>6, <2>2
  <2>5. /\ pubFlag'[p] = published'[p] + (IF inside'[p] THEN flagged'[p] ELSE 0)
        /\ doneFlag'[p] = seq'[p] + (IF inside'[p] THEN done'[p] ELSE 0)
    BY <1>2, <1>6, <2>3
  <2> QED BY <1>1, <2>4, <2>5 DEF FlagsCount
<1>12. Lockstep'
  <2>1. PublishedEnd(r)' = PublishedEnd(r) /\ SeqEnd(r)' = SeqEnd(r)
    BY <1>2, <1>3, <1>6 DEF PublishedEnd, SeqEnd, Pieces
  <2>2. PublishedEnd(p)' = PublishedEnd(p) /\ SeqEnd(p)' = SeqEnd(p)
    BY <1>2, <1>6 DEF PublishedEnd, SeqEnd, Pieces
  <2>3. ~(call[r] > call[p])
    BY <1>3, <1>5
  <2> QED BY <1>1, <1>2, <1>6, <2>1, <2>2, <2>3 DEF IInv, Lockstep
<1>13. UnreadThere' /\ HostInputs'
  <2>1. \A q, c, i : CopiedBack(q, c, i)' = CopiedBack(q, c, i)
    BY <1>2 DEF CopiedBack
  <2>2. ASSUME NEW c \in Nat, NEW i \in Nat
        PROVE  /\ Unread(r, c, i) <=> Unread(r, c, i)'
               /\ Unread(r, c, i) => Number(r, c, i)' = Number(r, c, i)
    <3>1. Unread(r, c, i) <=> /\ c = call[p] /\ inside[p] /\ i \in taken[p] + 1 .. Pieces(p)
                              /\ call[r] > c \/ (call[r] = c /\ i <= copied[r])
      BY <1>1, <1>3, <1>5 DEF Unread
    <3>2. Unread(r, c, i)' <=> /\ c = call[p] /\ inside[p] /\ i \in taken[p] + 1 .. Pieces(p)
                               /\ call[r] > c \/ (call[r] = c /\ i <= copied[r])
      BY <1>1, <1>2, <1>3, <1>5, <1>6 DEF Unread, Pieces
    <3>3. c = call[p] => Number(r, c, i)' = Number(r, c, i)
      BY <1>1, <1>2, <1>6 DEF Number
    <3> QED BY <3>1, <3>2, <3>3
  <2>3. ASSUME NEW c \in Nat, NEW i \in Nat
        PROVE  /\ Unread(p, c, i) <=> Unread(p, c, i)'
               /\ Unread(p, c, i) => Number(p, c, i)' = Number(p, c, i)
    <3>1. Unread(p, c, i) <=> c = call[p] /\ call[p] = call[r] + 1 /\ i \in 1 .. copied[p]
      <4>1. ~(i \in taken[r] + 1 .. Pieces(r))
        BY <1>3, <1>4
      <4> QED BY <1>1, <4>1 DEF Unread
    <3>2. Unread(p, c, i)' <=> c = call[p] /\ call[p] = call[r] + 1 /\ i \in 1 .. copied[p]
      BY <1>1, <1>2, <1>6 DEF Unread
    <3>3. (c = call[p] /\ call[p] = call[r] + 1) => Number(p, c, i)' = Number(p, c, i)
      BY <1>1, <1>2, <1>3, <1>6 DEF Number
    <3> QED BY <3>1, <3>2, <3>3
  <2>4. Accounted
    <3> SUFFICES ASSUME NEW q \in Ranks, NEW c \in 1 .. call[q], NEW j \in 1 .. sizes[c]
                 PROVE  /\ CopiedBack(q, c, j) => CopiedBack(q, c, j)'
                        /\ Unread(q, c, j) => \/ CopiedBack(q, c, j)'
                                              \/ Unread(q, c, j)' /\ Number(q, c, j)' = Number(q, c, j)
      BY DEF Accounted
    <3>1. c \in Nat /\ sizes[c] \in Nat
      BY CallSizes
    <3>2. j \in Nat
      BY <3>1
    <3> QED BY <1>1, <2>1, <2>2, <2>3, <3>1, <3>2
  <2>5. NoneUnread
    <3> SUFFICES ASSUME NEW q \in Ranks, NEW c \in 1 .. call[q], NEW i \in 1 .. sizes[c],
                        Unread(q, c, i)'
                 PROVE  Unread(q, c, i) /\ Number(q, c, i)' = Number(q, c, i)
      BY <1>2 DEF NoneUnread
    <3>1. c \in Nat /\ sizes[c] \in Nat
      BY CallSizes
    <3>2. i \in Nat
      BY <3>1
    <3> QED BY <1>1, <2>2, <2>3, <3>1, <3>2
  <2>6. \A q \in Ranks : call'[q] \in Nat /\ call[q] <= call'[q]
    BY <1>2, RankFacts
  <2> QED BY <1>2, <2>4, <2>5, <2>6, HostKept
<1> QED BY <1>7, <1>8, <1>9, <1>10, <1>11, <1>12, <1>13 DEF IInv

\* The program both ranks run only grows.
LEMMA EnterSizes ==
  ASSUME IInv, NEW r \in Ranks, Enter(r)
  PROVE  /\ sizes' \in Seq(Sizes) /\ Len(sizes') \in Nat /\ Len(sizes) <= Len(sizes')
         /\ call[r] + 1 <= Len(sizes') /\ sizes'[call[r] + 1] \in Nat \ {0}
         /\ \A c \in 1 .. Len(sizes) : sizes'[c] = sizes[c]
<1>1. sizes \in Seq(Sizes) /\ Len(sizes) \in Nat /\ call[r] \in Nat /\ call[r] <= Len(sizes)
  BY RankFacts, Types DEF IInv, TypeOK
<1>2. /\ sizes' \in Seq(Sizes) /\ Len(sizes') \in Nat /\ Len(sizes) <= Len(sizes')
      /\ call[r] + 1 <= Len(sizes')
      /\ \A c \in 1 .. Len(sizes) : sizes'[c] = sizes[c]
  <2>1. CASE call[r] = Len(sizes)
    <3>1. PICK n \in Sizes : sizes' = Append(sizes, n)
      BY <2>1 DEF Enter
    <3>2. /\ Append(sizes, n) \in Seq(Sizes) /\ Len(Append(sizes, n)) = Len(sizes) + 1
          /\ \A c \in 1 .. Len(sizes) : Append(sizes, n)[c] = sizes[c]
      BY <1>1
    <3> QED BY <1>1, <2>1, <3>1, <3>2
  <2>2. CASE call[r] # Len(sizes)
    <3>1. sizes' = sizes
      BY <2>2 DEF Enter
    <3> QED BY <1>1, <2>2, <3>1
  <2> QED BY <2>1, <2>2
<1>3. sizes'[call[r] + 1] \in Nat \ {0}
  <2>1. call[r] + 1 \in 1 .. Len(sizes')
    BY <1>1, <1>2
  <2>2. sizes'[call[r] + 1] \in Sizes
    BY <1>2, <2>1
  <2> QED BY <2>2, SizesAssumption
<1> QED BY <1>2, <1>3

\* A rank that starts its next call finds its tensor as it put it in.
LEMMA EnterStep == \A r \in Ranks : IInv /\ Enter(r) => IInv'
<1> SUFFICES ASSUME IInv, NEW r \in Ranks, Enter(r) PROVE IInv'
  OBVIOUS
<1>1. PICK p \in Ranks : p = 1 - r /\ r = 1 - p /\ r # p /\ \A q \in Ranks : q \in {r, p}
  BY PeerFacts
<1>2. PICK cc : cc = call[r] + 1
  OBVIOUS
<1>3. PICK n : n = sizes'[cc]
  OBVIOUS
<1>4. /\ sizes' \in Seq(Sizes) /\ Len(sizes') \in Nat /\ Len(sizes) <= Len(sizes')
      /\ cc <= Len(sizes') /\ n \in Nat \ {0}
      /\ \A c \in 1 .. Len(sizes) : sizes'[c] = sizes[c]
  BY <1>2, <1>3, EnterSizes
<1>5. /\ ~inside[r] /\ call[r] < MaxCalls
      /\ inside' = [inside EXCEPT ![r] = TRUE] /\ call' = [call EXCEPT ![r] = cc]
      /\ copied' = [copied EXCEPT ![r] = 0] /\ flagged' = [flagged EXCEPT ![r] = 0]
      /\ taken' = [taken EXCEPT ![r] = 0] /\ added' = [added EXCEPT ![r] = 0]
      /\ done' = [done EXCEPT ![r] = 0]
      /\ UNCHANGED <<seq, published, pubFlag, doneFlag, tmp, host>>
  BY <1>2 DEF Enter, flags
<1>6. /\ call[r] \in Nat /\ call[p] \in Nat /\ call[r] <= Len(sizes) /\ call[p] <= Len(sizes)
      /\ cc \in Nat \ {0} /\ cc \in 0 .. MaxCalls /\ inside[p] \in BOOLEAN
      /\ copied[p] \in Nat /\ taken[p] \in Nat /\ flagged[p] \in Nat /\ seq[p] \in Nat /\ seq[r] \in Nat
      /\ published[r] \in Nat /\ published[p] \in Nat /\ Len(sizes) \in Nat
      /\ (call[p] > 0 => Pieces(p) \in Nat \ {0}) /\ (inside[p] => call[p] > 0)
  <2>1. cc \in 0 .. MaxCalls
    BY <1>2, <1>5, RankFacts, MaxCallsAssumption
  <2>2. call[r] \in Nat /\ call[r] <= Len(sizes) /\ seq[r] \in Nat /\ published[r] \in Nat
    BY RankFacts
  <2>3. /\ call[p] \in Nat /\ call[p] <= Len(sizes) /\ inside[p] \in BOOLEAN
        /\ copied[p] \in Nat /\ taken[p] \in Nat /\ flagged[p] \in Nat /\ seq[p] \in Nat
        /\ published[p] \in Nat
        /\ (call[p] > 0 => Pieces(p) \in Nat \ {0}) /\ (inside[p] => call[p] > 0)
    BY RankFacts
  <2>4. cc \in Nat \ {0} /\ Len(sizes) \in Nat
    <3>1. cc \in Nat \ {0}
      BY <1>2, <2>2
    <3>2. Len(sizes) \in Nat
      BY Types
    <3> QED BY <3>1, <3>2
  <2> QED BY <2>1, <2>2, <2>3, <2>4
<1>7. /\ inside' \in [Ranks -> BOOLEAN] /\ inside'[r] = TRUE /\ inside'[p] = inside[p]
      /\ call' \in [Ranks -> 0 .. MaxCalls] /\ call'[r] = cc /\ call'[p] = call[p]
  <2>1. inside' \in [Ranks -> BOOLEAN] /\ inside'[r] = TRUE /\ inside'[p] = inside[p]
    BY <1>1, <1>5, Types
  <2>2. call' \in [Ranks -> 0 .. MaxCalls] /\ call'[r] = cc /\ call'[p] = call[p]
    BY <1>1, <1>5, <1>6, Types
  <2> QED BY <2>1, <2>2
<1>8. /\ copied' \in [Ranks -> Nat] /\ copied'[r] = 0 /\ copied'[p] = copied[p]
      /\ flagged' \in [Ranks -> Nat] /\ flagged'[r] = 0 /\ flagged'[p] = flagged[p]
      /\ taken' \in [Ranks -> Nat] /\ taken'[r] = 0 /\ taken'[p] = taken[p]
      /\ added' \in [Ranks -> Nat] /\ added'[r] = 0 /\ added'[p] = added[p]
      /\ done' \in [Ranks -> Nat] /\ done'[r] = 0 /\ done'[p] = done[p]
  BY <1>1, <1>5, Types
<1>9. /\ DOMAIN src' = Ranks /\ src'[p] = src[p]
      /\ src'[r] = [j \in 1 .. n |-> Input(r, cc, j)]
  <2>1. src' = [src EXCEPT ![r] = [j \in 1 .. sizes'[call'[r]] |-> Input(r, call'[r], j)]]
    BY DEF Enter
  <2>2. PICK f : f = [j \in 1 .. n |-> Input(r, cc, j)]
    OBVIOUS
  <2>3. src' = [src EXCEPT ![r] = f]
    BY <1>3, <1>7, <2>1, <2>2
  <2>4. DOMAIN src = Ranks
    BY DEF IInv, TypeOK
  <2> QED BY <1>1, <2>2, <2>3, <2>4
<1>10. Pieces(r)' = n /\ (call[p] > 0 => Pieces(p)' = Pieces(p))
  <2>1. call[p] > 0 => call[p] \in 1 .. Len(sizes)
    BY <1>6
  <2> QED BY <1>3, <1>4, <1>7, <2>1 DEF Pieces
\* The peer is in the call this rank enters, or has not gone beyond the last one.
<1>11. call[r] <= call[p] /\ call[p] <= call[r] + 1
  BY <1>1, <1>5, <1>6 DEF IInv, Lockstep
<1>12. TypeOK'
  <2>1. \A f \in {seq, published, copied, flagged, taken, added, done, pubFlag, doneFlag}' :
          f \in [Ranks -> Nat]
    BY <1>5, <1>8, Types
  <2>2. \A q \in Ranks : flagged'[q] <= copied'[q] /\ done'[q] <= added'[q]
    <3>1. flagged'[p] <= copied'[p] /\ done'[p] <= added'[p]
      BY <1>8, RankFacts
    <3>2. flagged'[r] <= copied'[r] /\ done'[r] <= added'[r]
      BY <1>8
    <3> QED BY <1>1, <3>1, <3>2
  <2>3. DOMAIN tmp' = Ranks /\ DOMAIN host' = Ranks
    BY <1>5 DEF IInv, TypeOK
  <2> QED BY <1>4, <1>7, <1>9, <2>1, <2>2, <2>3 DEF TypeOK
<1>13. Memory'
  BY <1>5 DEF IInv, Memory
<1>14. \A j \in 1 .. n : Chunk(j) \in Nat \ {0} /\ j > 0
  BY <1>4, ChunkFacts
<1>15. Chunk(n) \in Nat \ {0}
  BY <1>4, ChunkFacts
<1>16. Progress'
  <2> SUFFICES ASSUME NEW q \in Ranks
               PROVE  /\ call'[q] <= Len(sizes')
                      /\ call'[q] = 0 => ~inside'[q] /\ taken'[q] = 0 /\ src'[q] = <<>>
                      /\ call'[q] > 0 =>
                           /\ copied'[q] <= Pieces(q)' /\ taken'[q] <= Pieces(q)'
                           /\ added'[q] <= Chunk(Pieces(q)')
                           /\ ~inside'[q] => done'[q] = Chunk(Pieces(q)')
                           /\ \A j \in 1 .. Pieces(q)' :
                                /\ Chunk(j) <= added'[q] => j <= taken'[q] /\ j <= flagged'[q]
                                /\ j <= taken'[q] => Chunk(j) <= added'[q] + 1
    BY DEF Progress, Chunk
  <2>1. CASE q = r
    <3>1. call'[q] <= Len(sizes') /\ call'[q] # 0 /\ inside'[q]
      BY <1>4, <1>6, <1>7, <2>1
    <3>2. copied'[q] <= Pieces(q)' /\ taken'[q] <= Pieces(q)' /\ added'[q] <= Chunk(Pieces(q)')
      BY <1>4, <1>8, <1>10, <1>15, <2>1
    <3>3. \A j \in 1 .. Pieces(q)' : ~(Chunk(j) <= added'[q]) /\ ~(j <= taken'[q])
      BY <1>8, <1>10, <1>14, <2>1
    <3> QED BY <3>1, <3>2, <3>3
  <2>2. CASE q = p
    <3>1. call[p] <= Len(sizes')
      BY <1>4, <1>6
    <3>2. call[p] = 0 => ~inside'[p] /\ taken'[p] = 0 /\ src'[p] = <<>>
      BY <1>7, <1>8, <1>9 DEF IInv, Progress
    <3>3. call[p] > 0 =>
            /\ copied[p] <= Pieces(p) /\ taken[p] <= Pieces(p)
            /\ added[p] <= Chunk(Pieces(p))
            /\ ~inside[p] => done[p] = Chunk(Pieces(p))
            /\ \A j \in 1 .. Pieces(p) :
                 /\ Chunk(j) <= added[p] => j <= taken[p] /\ j <= flagged[p]
                 /\ j <= taken[p] => Chunk(j) <= added[p] + 1
      BY DEF IInv, Progress
    <3> QED BY <1>7, <1>8, <1>10, <2>2, <3>1, <3>2, <3>3
  <2> QED BY <1>1, <2>1, <2>2
<1>17. FlagsCount'
  <2>1. pubFlag[r] = published[r] + 0 /\ doneFlag[r] = seq[r] + 0
    BY <1>5 DEF IInv, FlagsCount
  <2>2. /\ pubFlag'[r] = published'[r] + (IF inside'[r] THEN flagged'[r] ELSE 0)
        /\ doneFlag'[r] = seq'[r] + (IF inside'[r] THEN done'[r] ELSE 0)
    BY <1>5, <1>7, <1>8, <2>1
  <2>3. /\ pubFlag[p] = published[p] + (IF inside[p] THEN flagged[p] ELSE 0)
        /\ doneFlag[p] = seq[p] + (IF inside[p] THEN done[p] ELSE 0)
    BY DEF IInv, FlagsCount
  <2>4. /\ pubFlag'[p] = published'[p] + (IF inside'[p] THEN flagged'[p] ELSE 0)
        /\ doneFlag'[p] = seq'[p] + (IF inside'[p] THEN done'[p] ELSE 0)
    BY <1>5, <1>7, <1>8, <2>3
  <2> QED BY <1>1, <2>2, <2>4 DEF FlagsCount
<1>18. /\ PublishedEnd(p)' = PublishedEnd(p) /\ SeqEnd(p)' = SeqEnd(p)
       /\ PublishedEnd(r)' = published[r] + n /\ SeqEnd(r)' = seq[r] + Chunk(n)
       /\ PublishedEnd(r) = published[r] /\ SeqEnd(r) = seq[r]
  <2>1. published'[p] = published[p] /\ seq'[p] = seq[p] /\ published'[r] = published[r] /\ seq'[r] = seq[r]
    BY <1>5
  <2>2. Chunk(Pieces(r))' = Chunk(n) /\ (call[p] > 0 => Chunk(Pieces(p))' = Chunk(Pieces(p)))
    BY <1>10 DEF Chunk
  <2>3. PublishedEnd(p)' = PublishedEnd(p) /\ SeqEnd(p)' = SeqEnd(p)
    BY <1>6, <1>7, <1>10, <2>1, <2>2 DEF PublishedEnd, SeqEnd
  <2>4. PublishedEnd(r)' = published[r] + n /\ SeqEnd(r)' = seq[r] + Chunk(n)
    BY <1>7, <1>10, <2>1, <2>2 DEF PublishedEnd, SeqEnd
  <2>5. PublishedEnd(r) = published[r] /\ SeqEnd(r) = seq[r]
    BY <1>5, <1>6 DEF PublishedEnd, SeqEnd
  <2> QED BY <2>3, <2>4, <2>5
\* What is known of the peer when it is ahead.
<1>19. call[p] = cc => /\ inside[p] /\ taken[p] = 0 /\ Pieces(p) = n
                       /\ published[p] = published[r] /\ seq[p] = seq[r]
                       /\ PublishedEnd(p) = published[p] + n /\ SeqEnd(p) = seq[p] + Chunk(n)
  <2> SUFFICES ASSUME call[p] = cc
               PROVE  /\ inside[p] /\ taken[p] = 0 /\ Pieces(p) = n
                      /\ published[p] = published[r] /\ seq[p] = seq[r]
                      /\ PublishedEnd(p) = published[p] + n /\ SeqEnd(p) = seq[p] + Chunk(n)
    OBVIOUS
  <2>1. inside[p] /\ taken[p] = 0 /\ published[p] = PublishedEnd(r) /\ seq[p] = SeqEnd(r)
    BY <1>1, <1>2, <1>6 DEF IInv, Lockstep
  <2>2. Pieces(p) = n
    <3>1. cc \in 1 .. Len(sizes)
      BY <1>6
    <3> QED BY <1>3, <1>4, <3>1 DEF Pieces
  <2> QED BY <1>18, <2>1, <2>2 DEF PublishedEnd, SeqEnd
<1>20. Lockstep'
  <2>1. call'[r] <= call'[p] + 1 /\ call'[p] <= call'[r] + 1 /\ ~(call'[p] > call'[r])
    BY <1>2, <1>6, <1>7, <1>11
  <2>2. ASSUME call'[r] > call'[p]
        PROVE  /\ inside'[r] /\ taken'[r] = 0
               /\ published'[r] = PublishedEnd(p)' /\ seq'[r] = SeqEnd(p)'
    <3>1. call[r] = call[p]
      BY <1>2, <1>6, <1>7, <1>11, <2>2
    <3>2. PublishedEnd(r) = PublishedEnd(p) /\ SeqEnd(r) = SeqEnd(p)
      BY <1>1, <3>1 DEF IInv, Lockstep
    <3> QED BY <1>5, <1>7, <1>8, <1>18, <3>2
  <2>3. ASSUME call'[r] = call'[p]
        PROVE  /\ taken'[r] <= flagged'[p] /\ taken'[p] <= flagged'[r]
               /\ PublishedEnd(r)' = PublishedEnd(p)' /\ SeqEnd(r)' = SeqEnd(p)'
    <3>1. call[p] = cc
      BY <1>7, <2>3
    <3>2. taken'[r] <= flagged'[p] /\ taken'[p] <= flagged'[r]
      BY <1>6, <1>8, <1>19, <3>1
    <3>3. PublishedEnd(r)' = PublishedEnd(p)' /\ SeqEnd(r)' = SeqEnd(p)'
      BY <1>18, <1>19, <3>1
    <3> QED BY <3>2, <3>3
  <2>4. ASSUME NEW q \in Ranks
        PROVE  /\ call'[q] <= call'[1 - q] + 1
               /\ call'[q] > call'[1 - q] =>
                    /\ inside'[q] /\ taken'[q] = 0
                    /\ published'[q] = PublishedEnd(1 - q)' /\ seq'[q] = SeqEnd(1 - q)'
               /\ call'[q] = call'[1 - q] =>
                    /\ taken'[q] <= flagged'[1 - q]
                    /\ PublishedEnd(q)' = PublishedEnd(1 - q)' /\ SeqEnd(q)' = SeqEnd(1 - q)'
    <3>1. CASE q = r
      BY <1>1, <2>1, <2>2, <2>3, <3>1
    <3>2. CASE q = p
      BY <1>1, <2>1, <2>3, <3>2
    <3> QED BY <1>1, <3>1, <3>2
  <2> QED BY <2>4 DEF Lockstep
<1>21. Tensor'
  <2> SUFFICES ASSUME NEW q \in Ranks, call'[q] > 0
               PROVE  src'[q] = [j \in 1 .. Pieces(q)' |->
                                  IF Chunk(j) <= added'[q] THEN Summed(call'[q], j)
                                                           ELSE Input(q, call'[q], j)]
    BY DEF Tensor, Chunk, Summed, Input, Empty
  <2>1. CASE q = p
    <3>1. src[p] = [j \in 1 .. Pieces(p) |->
                     IF Chunk(j) <= added[p] THEN Summed(call[p], j) ELSE Input(p, call[p], j)]
      BY <1>7, <2>1 DEF IInv, Tensor
    <3> QED BY <1>7, <1>8, <1>9, <1>10, <2>1, <3>1
  <2>2. CASE q = r
    <3>1. \A j \in 1 .. n : ~(Chunk(j) <= 0)
      BY <1>14
    <3>2. \A j \in 1 .. n :
            (IF Chunk(j) <= 0 THEN Summed(cc, j) ELSE Input(r, cc, j)) = Input(r, cc, j)
      BY <3>1
    <3>3. [j \in 1 .. n |-> IF Chunk(j) <= 0 THEN Summed(cc, j) ELSE Input(r, cc, j)]
            = [j \in 1 .. n |-> Input(r, cc, j)]
      BY <3>2
    <3> QED BY <1>7, <1>8, <1>9, <1>10, <2>2, <3>3
  <2> QED BY <1>1, <2>1, <2>2
<1>22. TakesPeersInput'
  <2>1. \A j \in 1 .. taken'[r] : FALSE
    BY <1>8
  <2>2. \A j \in 1 .. taken'[p] : inside'[p] /\ Chunk(j) = added'[p] + 1 =>
          tmp'[p][Place(j)] = Input(1 - p, call'[p], j)
    BY <1>5, <1>7, <1>8 DEF IInv, TakesPeersInput
  <2> QED BY <1>1, <2>1, <2>2 DEF TakesPeersInput
<1>23. UnreadThere' /\ HostInputs'
  <2>1. ASSUME NEW c \in Nat, NEW i \in Nat
        PROVE  /\ CopiedBack(r, c, i)' <=> CopiedBack(r, c, i)
               /\ CopiedBack(p, c, i) => CopiedBack(p, c, i)'
    BY <1>1, <1>2, <1>6, <1>7, <1>8 DEF CopiedBack
  <2>2. ASSUME NEW c \in Nat, NEW i \in Nat
        PROVE  /\ Unread(r, c, i) <=> Unread(r, c, i)'
               /\ Unread(r, c, i) =>
                    c <= call[r] /\ i \in 1 .. Pieces(p) /\ c = call[p] /\ Number(r, c, i)' = Number(r, c, i)
    <3>1. Unread(r, c, i) <=> /\ c = call[p] /\ inside[p] /\ i \in taken[p] + 1 .. Pieces(p)
                              /\ call[r] = c
      <4>1. ASSUME inside[p], call[r] = call[p], i \in taken[p] + 1 .. Pieces(p)
            PROVE  i <= copied[r]
        <5>1. call[p] > 0 /\ call[r] > 0 /\ Pieces(r) = Pieces(p)
          BY <1>6, <4>1 DEF Pieces
        <5>2. done[r] = Chunk(Pieces(r))
          BY <1>5, <5>1 DEF IInv, Progress
        <5>3. copied[r] = Pieces(p)
          BY <5>1, <5>2, AllDone
        <5> QED BY <1>6, <4>1, <5>1, <5>3
      <4>2. ~(call[r] > call[p]) /\ ~(call[r] = call[p] + 1)
        BY <1>6, <1>11
      <4> QED BY <1>1, <4>1, <4>2 DEF Unread
    <3>2. Unread(r, c, i)' <=> /\ c = call[p] /\ inside[p] /\ i \in taken[p] + 1 .. Pieces(p)
                               /\ call[r] = c
      <4>1. Unread(r, c, i)' <=>
              \/ /\ c = call'[p] /\ inside'[p] /\ i \in taken'[p] + 1 .. Pieces(p)'
                 /\ call'[r] > c \/ (call'[r] = c /\ i <= copied'[r])
              \/ c = call'[r] /\ call'[r] = call'[p] + 1 /\ i \in 1 .. copied'[r]
        BY <1>1 DEF Unread
      <4>2. ~(i \in 1 .. copied'[r])
        BY <1>8
      <4>3. ASSUME i \in taken[p] + 1 .. Pieces(p)', i <= copied'[r] PROVE FALSE
        BY <1>6, <1>8, <4>3
      <4>4. inside[p] => Pieces(p)' = Pieces(p)
        BY <1>6, <1>10
      <4>5. c = call[p] => (call'[r] > c <=> call[r] = c)
        BY <1>2, <1>6, <1>7, <1>11
      <4> QED BY <1>7, <1>8, <4>1, <4>2, <4>3, <4>4, <4>5
    <3>3. c = call[p] => Number(r, c, i)' = Number(r, c, i)
      BY <1>1, <1>5, <1>7 DEF Number, Chunk
    <3>4. i \in taken[p] + 1 .. Pieces(p) /\ inside[p] => i \in 1 .. Pieces(p)
      BY <1>6
    <3> QED BY <1>6, <3>1, <3>2, <3>3, <3>4
  <2>3. ASSUME NEW c \in Nat, NEW i \in Nat
        PROVE  /\ Unread(p, c, i) <=> Unread(p, c, i)'
               /\ Unread(p, c, i) =>
                    c = call[p] /\ i \in 1 .. Pieces(p) /\ call[p] > 0 /\ Number(p, c, i)' = Number(p, c, i)
    <3>1. Unread(p, c, i) <=> c = call[p] /\ call[p] = cc /\ i \in 1 .. copied[p]
      BY <1>1, <1>2, <1>5 DEF Unread
    <3>2. Unread(p, c, i)' <=> c = call[p] /\ call[p] = cc /\ i \in 1 .. copied[p]
      <4>1. Unread(p, c, i)' <=>
              \/ /\ c = call'[r] /\ inside'[r] /\ i \in taken'[r] + 1 .. Pieces(r)'
                 /\ call'[p] > c \/ (call'[p] = c /\ i <= copied'[p])
              \/ c = call'[p] /\ call'[p] = call'[r] + 1 /\ i \in 1 .. copied'[p]
        BY <1>1 DEF Unread
      <4>2. ~(call'[p] > call'[r]) /\ ~(call'[p] = call'[r] + 1)
        BY <1>2, <1>6, <1>7, <1>11
      <4>3. call[p] = cc => (i \in 1 .. copied[p] <=> i \in 0 + 1 .. n /\ i <= copied[p])
        <5>1. call[p] = cc => copied[p] <= Pieces(p) /\ Pieces(p) = n
          BY <1>6, <1>19 DEF IInv, Progress
        <5> QED BY <1>4, <1>6, <5>1
      <4> QED BY <1>7, <1>8, <1>10, <4>1, <4>2, <4>3
    <3>3. c = call[p] /\ call[p] = cc => Number(p, c, i)' = Number(p, c, i)
      <4> SUFFICES ASSUME c = call[p], call[p] = cc PROVE Number(p, c, i)' = Number(p, c, i)
        OBVIOUS
      <4>1. Number(p, c, i) = seq[p] + Chunk(i)
        BY <1>1, <1>2, <1>6 DEF Number
      <4>2. Number(p, c, i)' = seq'[r] + Chunk(i)
        BY <1>1, <1>7 DEF Number, Chunk
      <4> QED BY <1>5, <1>19, <4>1, <4>2
    <3>4. call[p] = cc /\ i \in 1 .. copied[p] => i \in 1 .. Pieces(p) /\ call[p] > 0
      <4>1. call[p] > 0 => copied[p] <= Pieces(p)
        BY DEF IInv, Progress
      <4> QED BY <1>6, <4>1
    <3> QED BY <3>1, <3>2, <3>3, <3>4
  <2>4. \A q \in Ranks : call[q] \in Nat /\ \A c \in 1 .. call[q] : c \in Nat /\ sizes[c] \in Nat
    BY CallSizes
  <2>5. Accounted
    <3> SUFFICES ASSUME NEW q \in Ranks, NEW c \in 1 .. call[q], NEW j \in 1 .. sizes[c]
                 PROVE  /\ CopiedBack(q, c, j) => CopiedBack(q, c, j)'
                        /\ Unread(q, c, j) => \/ CopiedBack(q, c, j)'
                                              \/ Unread(q, c, j)' /\ Number(q, c, j)' = Number(q, c, j)
      BY DEF Accounted
    <3>1. c \in Nat /\ sizes[c] \in Nat
      BY <2>4
    <3>2. j \in Nat
      BY <3>1
    <3> QED BY <1>1, <2>1, <2>2, <2>3, <3>1, <3>2
  <2>6. NoneUnread
    <3> SUFFICES ASSUME NEW q \in Ranks, NEW c \in 1 .. call'[q], NEW i \in 1 .. sizes'[c],
                        Unread(q, c, i)'
                 PROVE  /\ c \in 1 .. call[q] /\ i \in 1 .. sizes[c]
                        /\ Unread(q, c, i) /\ Number(q, c, i)' = Number(q, c, i)
      BY DEF NoneUnread
    <3>1. c \in Nat \ {0} /\ c \in 1 .. Len(sizes')
      <4>1. call'[q] \in Nat /\ call'[q] <= Len(sizes')
        <5>1. cc <= Len(sizes') /\ call[p] <= Len(sizes')
          BY <1>4, <1>6
        <5> QED BY <1>1, <1>6, <1>7, <5>1
      <4> QED BY <1>4, <4>1
    <3>2. sizes'[c] \in Nat
      <4>1. sizes'[c] \in Sizes
        BY <1>4, <3>1
      <4> QED BY <4>1, SizesAssumption
    <3>3. i \in Nat
      BY <3>2
    <3>4. Pieces(p) = sizes[call[p]]
      BY DEF Pieces
    <3>5. CASE q = r
      BY <1>6, <2>2, <3>1, <3>3, <3>4, <3>5
    <3>6. CASE q = p
      BY <1>6, <2>3, <3>1, <3>3, <3>4, <3>6
    <3> QED BY <1>1, <3>5, <3>6
  <2>7. \A q \in Ranks : call'[q] \in Nat /\ call[q] <= call'[q]
    BY <1>1, <1>2, <1>6, <1>7
  <2> QED BY <1>4, <1>5, <2>5, <2>6, <2>7, HostKept
<1> QED BY <1>12, <1>13, <1>16, <1>17, <1>20, <1>21, <1>22, <1>23 DEF IInv

-----------------------------------------------------------------------------
(* The step that writes the host memory *)

\* The region chunk s goes to holds no unread piece at the place of piece j: the
\* chunk that used it last is NBuf behind, and the peer has read that one back.
LEMMA NotOverwritten ==
  ASSUME IInv, NEW r \in Ranks, NEW p \in Ranks, p = 1 - r, inside[r],
         NEW j \in 1 .. Pieces(r), j = copied[r] + 1, NEW s, s = seq[r] + Chunk(j),
         s > NBuf => doneFlag[p] >= s - NBuf,
         NEW c \in 1 .. call[r], NEW i \in 1 .. sizes[c], Unread(r, c, i),
         Number(r, c, i) % NBuf = s % NBuf, Place(i) = Place(j)
  PROVE  FALSE
<1>1. r = 1 - p /\ r # p
  BY PeerFacts
<1>2. /\ call[r] \in Nat /\ call[r] > 0 /\ Pieces(r) \in Nat \ {0} /\ copied[r] \in Nat /\ seq[r] \in Nat
  BY RankFacts
<1>3. /\ call[p] \in Nat /\ inside[p] \in BOOLEAN /\ seq[p] \in Nat /\ taken[p] \in Nat
      /\ done[p] \in Nat /\ added[p] \in Nat /\ done[p] <= added[p] /\ doneFlag[p] \in Nat
      /\ (inside[p] => call[p] > 0)
      /\ (call[p] > 0 => Pieces(p) \in Nat \ {0} /\ Chunk(Pieces(p)) \in Nat \ {0})
  BY RankFacts
<1>4. i \in Nat \ {0} /\ c \in Nat
  BY CallSizes
<1>5. j \in Nat \ {0}
  BY <1>2
<1>6. Chunk(i) \in Nat \ {0} /\ Chunk(j) \in Nat \ {0} /\ s \in Nat
  BY <1>2, <1>4, <1>5, ChunkFacts
\* A piece of this call that is on the host is in an earlier chunk.
<1>7. ASSUME i <= copied[r] PROVE Chunk(i) < Chunk(j)
  <2>1. Chunk(i) <= Chunk(j) /\ i # j
    BY <1>2, <1>4, <1>5, <1>7, ChunkMono
  <2>2. Chunk(i) # Chunk(j)
    BY <1>4, <1>5, <2>1, ChunkPlace
  <2> QED BY <1>6, <2>1, <2>2
<1>8. /\ doneFlag[p] = seq[p] + IF inside[p] THEN done[p] ELSE 0
      /\ call[p] > 0 => added[p] <= Chunk(Pieces(p))
  BY DEF IInv, FlagsCount, Progress
\* Whatever the two ranks' calls, its chunk is before s and not released.
<1>9. PICK m \in Nat \ {0} : m % NBuf = s % NBuf /\ m < s /\ doneFlag[p] < m
  <2>1. CASE /\ c = call[p] /\ inside[p] /\ i \in taken[p] + 1 .. Pieces(p)
             /\ call[r] > c \/ (call[r] = c /\ i <= copied[r])
    <3>1. Number(r, c, i) = seq[p] + Chunk(i)
      BY <1>1, <2>1 DEF Number
    <3>2. call[p] > 0 /\ Pieces(p) \in Nat \ {0} /\ i <= Pieces(p) /\ i > taken[p]
          /\ i \in 1 .. Pieces(p)
      BY <1>3, <1>4, <2>1
    <3>3. ~(Chunk(i) <= added[p])
      BY <1>3, <1>4, <3>2 DEF IInv, Progress
    <3>4. doneFlag[p] < seq[p] + Chunk(i)
      BY <1>3, <1>6, <1>8, <2>1, <3>3
    <3>5. seq[p] + Chunk(i) < s
      <4>1. CASE call[r] > c
        <5>1. seq[r] = SeqEnd(p)
          BY <1>1, <2>1, <4>1 DEF IInv, Lockstep
        <5>2. seq[r] = seq[p] + Chunk(Pieces(p))
          BY <2>1, <5>1 DEF SeqEnd
        <5>3. Chunk(i) <= Chunk(Pieces(p))
          BY <1>4, <3>2, ChunkMono
        <5> QED BY <1>2, <1>3, <1>6, <3>2, <5>2, <5>3
      <4>2. CASE call[r] = c /\ i <= copied[r]
        <5>1. SeqEnd(r) = SeqEnd(p) /\ Pieces(r) = Pieces(p)
          BY <1>1, <2>1, <4>2 DEF IInv, Lockstep, Pieces
        <5>2. seq[r] + Chunk(Pieces(p)) = seq[p] + Chunk(Pieces(p))
          BY <2>1, <5>1 DEF SeqEnd
        <5>3. seq[r] = seq[p]
          BY <1>2, <1>3, <3>2, <5>2
        <5> QED BY <1>2, <1>6, <1>7, <4>2, <5>3
      <4> QED BY <2>1, <4>1, <4>2
    <3>6. seq[p] + Chunk(i) \in Nat \ {0}
      BY <1>3, <1>6
    <3> QED BY <3>1, <3>4, <3>5, <3>6
  <2>2. CASE c = call[r] /\ call[r] = call[p] + 1 /\ i \in 1 .. copied[r]
    <3>1. Number(r, c, i) = seq[r] + Chunk(i)
      BY <1>1, <1>3, <2>2 DEF Number
    <3>2. seq[r] = SeqEnd(p)
      BY <1>1, <1>2, <1>3, <2>2 DEF IInv, Lockstep
    <3>3. doneFlag[p] <= seq[r]
      <4>1. CASE inside[p]
        <5>1. seq[r] = seq[p] + Chunk(Pieces(p)) /\ doneFlag[p] = seq[p] + done[p]
          BY <1>8, <3>2, <4>1 DEF SeqEnd
        <5>2. done[p] <= Chunk(Pieces(p)) /\ Chunk(Pieces(p)) \in Nat
          BY <1>3, <1>8, <4>1
        <5> QED BY <1>3, <5>1, <5>2
      <4>2. CASE ~inside[p]
        BY <1>3, <1>8, <3>2, <4>2 DEF SeqEnd
      <4> QED BY <4>1, <4>2
    <3>4. Chunk(i) < Chunk(j)
      BY <1>2, <1>4, <1>7, <2>2
    <3>5. /\ seq[r] + Chunk(i) \in Nat \ {0} /\ seq[r] + Chunk(i) < s
          /\ doneFlag[p] < seq[r] + Chunk(i)
      BY <1>2, <1>3, <1>6, <3>3, <3>4
    <3> QED BY <3>1, <3>5
  <2> QED BY <1>1, <2>1, <2>2 DEF Unread
<1>10. m + NBuf <= s
  BY <1>6, <1>9, ModGap, NBufAssumption
<1>11. s > NBuf /\ s - NBuf >= m
  BY <1>6, <1>9, <1>10, NBufAssumption
<1> QED BY <1>3, <1>6, <1>9, <1>11, NBufAssumption

\* What d2h writes: this rank's input, over nothing unread.
LEMMA CopyOutHost ==
  ASSUME IInv, NEW r \in Ranks, CopyOut(r), NEW p \in Ranks, p = 1 - r,
         NEW j, j = copied[r] + 1, NEW s, s = seq[r] + Chunk(j)
  PROVE  /\ inside[r] /\ j \in 1 .. Pieces(r) /\ j \in Nat \ {0} /\ s \in Nat
         /\ s % NBuf \in 0 .. NBuf - 1 /\ Place(j) \in 1 .. Region
         /\ host' \in [Ranks -> [0 .. NBuf - 1 -> [1 .. Region -> Cells]]]
         /\ host'[p] = host[p] /\ host'[r][s % NBuf][Place(j)] = Input(r, call[r], j)
         /\ \A t \in 0 .. NBuf - 1, l \in 1 .. Region :
              t # s % NBuf \/ l # Place(j) => host'[r][t][l] = host[r][t][l]
         /\ \A c \in 1 .. call[r] : \A i \in 1 .. sizes[c] :
              Unread(r, c, i) => Number(r, c, i) % NBuf # s % NBuf \/ Place(i) # Place(j)
<1>1. r # p
  BY PeerFacts
<1>2. /\ inside[r] /\ j <= Pieces(r) /\ flagged[r] = copied[r]
      /\ s > NBuf => doneFlag[1 - r] >= s - NBuf
      /\ host' = [host EXCEPT ![r][Slot(r, Chunk(j))][Place(j)] = src[r][j]]
  BY DEF CopyOut
<1>3. /\ call[r] \in Nat /\ call[r] > 0 /\ Pieces(r) \in Nat \ {0} /\ copied[r] \in Nat /\ seq[r] \in Nat
      /\ flagged[r] \in Nat /\ added[r] \in Nat
  BY <1>2, RankFacts
<1>4. j \in Nat \ {0} /\ j \in 1 .. Pieces(r)
  BY <1>2, <1>3
<1>5. Chunk(j) \in Nat \ {0} /\ Place(j) \in 1 .. Region /\ s \in Nat
  BY <1>3, <1>4, ChunkFacts
<1>6. s % NBuf \in 0 .. NBuf - 1 /\ Slot(r, Chunk(j)) = s % NBuf
  BY <1>5, ModRange, NBufAssumption DEF Slot
<1>7. src[r][j] = Input(r, call[r], j)
  <2>1. ~(Chunk(j) <= added[r])
    <3> SUFFICES ASSUME Chunk(j) <= added[r] PROVE FALSE
      OBVIOUS
    <3>1. j <= flagged[r]
      BY <1>3, <1>4 DEF IInv, Progress
    <3> QED BY <1>2, <1>3, <3>1
  <2>2. src[r] = [i \in 1 .. Pieces(r) |->
                   IF Chunk(i) <= added[r] THEN Summed(call[r], i) ELSE Input(r, call[r], i)]
    BY <1>3 DEF IInv, Tensor
  <2> QED BY <1>4, <2>1, <2>2
<1>8. Input(r, call[r], j) \in Cells
  <2>1. PICK c \in Nat : c = call[r]
    BY <1>3
  <2> QED BY <1>4, <2>1, CellFacts
<1>9. /\ host' \in [Ranks -> [0 .. NBuf - 1 -> [1 .. Region -> Cells]]]
      /\ host'[p] = host[p] /\ host'[r][s % NBuf][Place(j)] = Input(r, call[r], j)
      /\ \A t \in 0 .. NBuf - 1, l \in 1 .. Region :
           t # s % NBuf \/ l # Place(j) => host'[r][t][l] = host[r][t][l]
  <2>1. host \in [Ranks -> [0 .. NBuf - 1 -> [1 .. Region -> Cells]]]
    BY DEF IInv, Memory
  <2>2. PICK w : w = s % NBuf
    OBVIOUS
  <2>3. PICK x : x = Place(j)
    OBVIOUS
  <2>4. PICK v \in Cells : v = Input(r, call[r], j)
    BY <1>8
  <2>5. w \in 0 .. NBuf - 1 /\ x \in 1 .. Region
    BY <1>5, <1>6, <2>2, <2>3
  <2>6. PICK f : f = [host[r][w] EXCEPT ![x] = v]
    OBVIOUS
  <2>7. PICK g : g = [host[r] EXCEPT ![w] = f]
    OBVIOUS
  <2>8. host' = [host EXCEPT ![r] = g]
    BY <1>2, <1>6, <1>7, <2>2, <2>3, <2>4, <2>6, <2>7
  <2>9. host[r] \in [0 .. NBuf - 1 -> [1 .. Region -> Cells]] /\ host[r][w] \in [1 .. Region -> Cells]
    BY <2>1, <2>5
  <2>10. f \in [1 .. Region -> Cells] /\ f[x] = v /\ \A l \in 1 .. Region : l # x => f[l] = host[r][w][l]
    BY <2>4, <2>5, <2>6, <2>9
  <2>11. /\ g \in [0 .. NBuf - 1 -> [1 .. Region -> Cells]] /\ g[w] = f
         /\ \A t \in 0 .. NBuf - 1 : t # w => g[t] = host[r][t]
    BY <2>5, <2>7, <2>9, <2>10
  <2>12. host' \in [Ranks -> [0 .. NBuf - 1 -> [1 .. Region -> Cells]]] /\ host'[r] = g /\ host'[p] = host[p]
    BY <1>1, <2>1, <2>8, <2>11
  <2>13. \A t \in 0 .. NBuf - 1, l \in 1 .. Region : t # w \/ l # x => host'[r][t][l] = host[r][t][l]
    BY <2>10, <2>11, <2>12
  <2> QED BY <2>2, <2>3, <2>4, <2>10, <2>11, <2>12, <2>13
<1>10. ASSUME NEW c \in 1 .. call[r], NEW i \in 1 .. sizes[c], Unread(r, c, i),
              Number(r, c, i) % NBuf = s % NBuf, Place(i) = Place(j)
       PROVE  FALSE
  BY <1>2, <1>4, <1>10, NotOverwritten
<1> QED BY <1>2, <1>4, <1>5, <1>6, <1>9, <1>10

\* A piece that is copied out is there for the peer.
LEMMA CopyOutStep == \A r \in Ranks : IInv /\ CopyOut(r) => IInv'
<1> SUFFICES ASSUME IInv, NEW r \in Ranks, CopyOut(r) PROVE IInv'
  OBVIOUS
<1>1. PICK p \in Ranks : p = 1 - r /\ r = 1 - p /\ r # p /\ \A q \in Ranks : q \in {r, p}
  BY PeerFacts
<1>2. PICK j : j = copied[r] + 1
  OBVIOUS
<1>3. PICK s : s = seq[r] + Chunk(j)
  OBVIOUS
<1>4. /\ flagged[r] = copied[r] /\ copied' = [copied EXCEPT ![r] = j]
      /\ UNCHANGED <<sizes, inside, call, seq, published, flagged, taken, added, done, pubFlag,
                     doneFlag, src, tmp>>
  BY <1>2 DEF CopyOut, flags
<1>5. /\ inside[r] /\ j \in 1 .. Pieces(r) /\ j \in Nat \ {0} /\ s \in Nat
      /\ s % NBuf \in 0 .. NBuf - 1 /\ Place(j) \in 1 .. Region
      /\ host' \in [Ranks -> [0 .. NBuf - 1 -> [1 .. Region -> Cells]]]
      /\ host'[p] = host[p] /\ host'[r][s % NBuf][Place(j)] = Input(r, call[r], j)
  BY <1>1, <1>2, <1>3, CopyOutHost
<1>6. /\ \A t \in 0 .. NBuf - 1, l \in 1 .. Region :
           t # s % NBuf \/ l # Place(j) => host'[r][t][l] = host[r][t][l]
      /\ \A c \in 1 .. call[r] : \A i \in 1 .. sizes[c] :
           Unread(r, c, i) => Number(r, c, i) % NBuf # s % NBuf \/ Place(i) # Place(j)
  BY <1>1, <1>2, <1>3, CopyOutHost
<1>7. /\ call[r] \in Nat /\ call[r] > 0 /\ Pieces(r) \in Nat \ {0} /\ copied[r] \in Nat /\ seq[r] \in Nat
      /\ call[p] \in Nat /\ inside[p] \in BOOLEAN /\ taken[p] \in Nat /\ seq[p] \in Nat
  BY <1>5, RankFacts
<1>8. copied' \in [Ranks -> Nat] /\ copied'[r] = j /\ copied'[p] = copied[p]
  BY <1>1, <1>4, <1>5, Types
<1>9. TypeOK'
  <2>1. \A f \in {seq, published, copied, flagged, taken, added, done, pubFlag, doneFlag}' :
          f \in [Ranks -> Nat]
    BY <1>4, <1>8, Types
  <2>2. \A q \in Ranks : flagged[q] <= copied'[q] /\ done[q] <= added[q]
    <3>1. flagged[r] <= copied'[r]
      BY <1>2, <1>4, <1>7, <1>8
    <3>2. flagged[p] <= copied'[p]
      BY <1>8, RankFacts
    <3>3. \A q \in Ranks : done[q] <= added[q]
      BY RankFacts
    <3> QED BY <1>1, <3>1, <3>2, <3>3
  <2>3. DOMAIN host' = Ranks
    BY <1>5
  <2> QED BY <1>4, <2>1, <2>2, <2>3 DEF IInv, TypeOK
<1>10. Memory'
  BY <1>4, <1>5 DEF IInv, Memory
<1>11. Tensor' /\ TakesPeersInput' /\ FlagsCount'
  BY <1>4 DEF IInv, Tensor, TakesPeersInput, FlagsCount, Pieces
<1>12. Progress'
  <2>1. \A q \in Ranks : call[q] > 0 => copied'[q] <= Pieces(q)
    <3>1. call[p] > 0 => copied'[p] <= Pieces(p)
      BY <1>8 DEF IInv, Progress
    <3> QED BY <1>1, <1>5, <1>7, <1>8, <3>1
  <2> QED BY <1>4, <2>1 DEF IInv, Progress, Pieces
<1>13. Lockstep'
  <2>1. \A q \in Ranks : PublishedEnd(q)' = PublishedEnd(q) /\ SeqEnd(q)' = SeqEnd(q)
    BY <1>4 DEF PublishedEnd, SeqEnd, Pieces
  <2> QED BY <1>4, <2>1, PeerFacts DEF IInv, Lockstep
<1>14. /\ \A q, c, i : CopiedBack(q, c, i)' = CopiedBack(q, c, i) /\ Number(q, c, i)' = Number(q, c, i)
       /\ \A c, i : Unread(p, c, i)' = Unread(p, c, i)
  BY <1>1, <1>4, <1>8 DEF CopiedBack, Number, Unread, Pieces
<1>15. \A q \in Ranks : call[q] \in Nat /\ \A c \in 1 .. call[q] : c \in Nat /\ sizes[c] \in Nat
  BY CallSizes
<1>16. ASSUME NEW c \in Nat, NEW i \in Nat
       PROVE  /\ Unread(r, c, i) => Unread(r, c, i)'
              /\ Unread(r, c, i)' => Unread(r, c, i) \/ (c = call[r] /\ i = j)
  <2>1. \A q \in Ranks : Pieces(q)' = Pieces(q)
    BY <1>4 DEF Pieces
  <2>2. /\ i <= copied[r] => i <= copied'[r]
        /\ i <= copied'[r] => i <= copied[r] \/ i = j
        /\ i \in 1 .. copied[r] => i \in 1 .. copied'[r]
        /\ i \in 1 .. copied'[r] => i \in 1 .. copied[r] \/ i = j
    BY <1>2, <1>7, <1>8
  <2>3. Unread(r, c, i) <=>
          \/ /\ c = call[p] /\ inside[p] /\ i \in taken[p] + 1 .. Pieces(p)
             /\ call[r] > c \/ (call[r] = c /\ i <= copied[r])
          \/ c = call[r] /\ call[r] = call[p] + 1 /\ i \in 1 .. copied[r]
    BY <1>1 DEF Unread
  <2>4. Unread(r, c, i)' <=>
          \/ /\ c = call[p] /\ inside[p] /\ i \in taken[p] + 1 .. Pieces(p)
             /\ call[r] > c \/ (call[r] = c /\ i <= copied'[r])
          \/ c = call[r] /\ call[r] = call[p] + 1 /\ i \in 1 .. copied'[r]
    BY <1>1, <1>4, <2>1 DEF Unread
  <2> QED BY <2>2, <2>3, <2>4
\* The new piece is unread where it is, or its peer needs it no more.
<1>17. PICK d \in Nat : d = call[r]
  BY <1>7
<1>18. Unread(r, d, j)' => Number(r, d, j) = s
  <2> SUFFICES ASSUME Unread(r, d, j)' PROVE Number(r, d, j) = s
    OBVIOUS
  <2>1. CASE call[r] = call[p]
    <3>1. inside[p]
      BY <1>1, <1>4, <1>7, <1>17, <2>1 DEF Unread
    <3>2. SeqEnd(r) = SeqEnd(p) /\ Pieces(r) = Pieces(p)
      BY <1>1, <2>1 DEF IInv, Lockstep, Pieces
    <3>3. Chunk(Pieces(r)) \in Nat
      BY <1>7, ChunkFacts
    <3>4. seq[r] + Chunk(Pieces(r)) = seq[p] + Chunk(Pieces(r))
      BY <1>5, <3>1, <3>2 DEF SeqEnd
    <3>5. seq[r] = seq[p]
      BY <1>7, <3>3, <3>4
    <3> QED BY <1>1, <1>3, <1>17, <2>1, <3>5 DEF Number
  <2>2. CASE call[r] # call[p]
    BY <1>1, <1>3, <1>17, <2>2 DEF Number
  <2> QED BY <2>1, <2>2
<1>19. CopiedBack(r, d, j) \/ Unread(r, d, j)'
  <2>1. CASE call[r] < call[p]
    BY <1>1, <2>1, <1>17 DEF CopiedBack
  <2>2. CASE call[r] > call[p]
    <3>1. call[r] = call[p] + 1
      BY <1>1, <1>7, <2>2 DEF IInv, Lockstep
    <3>2. j \in 1 .. copied'[r]
      BY <1>5, <1>8
    <3> QED BY <1>1, <1>4, <3>1, <3>2, <1>17 DEF Unread
  <2>3. CASE call[r] = call[p] /\ j <= taken[p]
    BY <1>1, <2>3, <1>17 DEF CopiedBack
  <2>4. CASE call[r] = call[p] /\ ~(j <= taken[p])
    <3>1. Pieces(p) = Pieces(r)
      BY <2>4 DEF Pieces
    <3>2. inside[p]
      <4> SUFFICES ASSUME ~inside[p] PROVE FALSE
        OBVIOUS
      <4>1. done[p] = Chunk(Pieces(p)) /\ call[p] > 0
        BY <1>7, <2>4 DEF IInv, Progress
      <4>2. taken[p] = Pieces(p)
        BY <4>1, AllDone
      <4> QED BY <1>5, <1>7, <2>4, <3>1, <4>2
    <3>3. j \in taken[p] + 1 .. Pieces(p) /\ j <= copied'[r]
      BY <1>5, <1>7, <1>8, <2>4, <3>1
    <3>4. Pieces(p)' = Pieces(p)
      BY <1>4 DEF Pieces
    <3> QED BY <1>1, <1>4, <2>4, <3>2, <3>3, <3>4, <1>17 DEF Unread
  <2> QED BY <1>7, <2>1, <2>2, <2>3, <2>4
<1>20. UnreadThere'
  <2> SUFFICES ASSUME NEW q \in Ranks, NEW c \in 1 .. call[q], NEW i \in 1 .. sizes[c],
                      Unread(q, c, i)'
               PROVE  host'[q][Number(q, c, i) % NBuf][Place(i)] = Input(q, c, i)
    BY <1>4, <1>14 DEF UnreadThere, Place, Input, Empty
  <2>1. c \in Nat /\ sizes[c] \in Nat
    BY <1>15
  <2>2. i \in Nat \ {0}
    BY <2>1
  <2>3. CASE q = p
    BY <1>5, <1>14, <2>3 DEF IInv, UnreadThere
  <2>4. CASE q = r
    <3>1. CASE c = call[r] /\ i = j
      BY <1>5, <1>17, <1>18, <2>4, <3>1
    <3>2. CASE ~(c = call[r] /\ i = j)
      <4>1. Unread(r, c, i)
        BY <1>16, <2>1, <2>2, <2>4, <3>2
      <4>2. host[r][Number(r, c, i) % NBuf][Place(i)] = Input(r, c, i)
        BY <2>4, <4>1 DEF IInv, UnreadThere
      <4>3. Number(r, c, i) % NBuf # s % NBuf \/ Place(i) # Place(j)
        BY <1>6, <2>4, <4>1
      <4>4. Number(r, c, i) % NBuf \in 0 .. NBuf - 1 /\ Place(i) \in 1 .. Region
        <5>1. Chunk(i) \in Nat /\ Place(i) \in 1 .. Region
          BY <2>2, ChunkFacts
        <5>2. Number(r, c, i) \in Nat
          BY <1>1, <1>7, <5>1 DEF Number
        <5> QED BY <5>1, <5>2, ModRange, NBufAssumption
      <4> QED BY <1>6, <2>4, <4>2, <4>3, <4>4
    <3> QED BY <3>1, <3>2
  <2> QED BY <1>1, <2>3, <2>4
<1>21. HostInputs'
  <2> SUFFICES ASSUME NEW q \in Ranks, NEW t \in 0 .. NBuf - 1, NEW l \in 1 .. Region,
                      host'[q][t][l] # Empty
               PROVE  \E c \in 1 .. call'[q] : \E i \in 1 .. sizes'[c] :
                        /\ host'[q][t][l] = Input(q, c, i)
                        /\ \/ CopiedBack(q, c, i)'
                           \/ Unread(q, c, i)' /\ t = Number(q, c, i)' % NBuf /\ l = Place(i)
    BY DEF HostInputs
  <2>1. CASE q = r /\ t = s % NBuf /\ l = Place(j)
    <3>1. host'[q][t][l] = Input(r, d, j)
      BY <1>5, <1>17, <2>1
    <3>2. d \in 1 .. call'[r] /\ j \in 1 .. sizes'[d]
      BY <1>4, <1>5, <1>7, <1>17 DEF Pieces
    <3>3. \/ CopiedBack(r, d, j)'
          \/ Unread(r, d, j)' /\ t = Number(r, d, j)' % NBuf /\ l = Place(j)
      BY <1>14, <1>18, <1>19, <2>1
    <3> QED BY <2>1, <3>1, <3>2, <3>3
  <2>2. CASE ~(q = r /\ t = s % NBuf /\ l = Place(j))
    <3>1. host'[q][t][l] = host[q][t][l]
      BY <1>1, <1>5, <1>6, <2>2
    <3>2. PICK c \in 1 .. call[q] : \E i \in 1 .. sizes[c] :
            /\ host[q][t][l] = Input(q, c, i)
            /\ \/ CopiedBack(q, c, i)
               \/ Unread(q, c, i) /\ t = Number(q, c, i) % NBuf /\ l = Place(i)
      BY <3>1 DEF IInv, HostInputs
    <3>3. PICK i \in 1 .. sizes[c] :
            /\ host[q][t][l] = Input(q, c, i)
            /\ \/ CopiedBack(q, c, i)
               \/ Unread(q, c, i) /\ t = Number(q, c, i) % NBuf /\ l = Place(i)
      BY <3>2
    <3>4. c \in Nat /\ sizes[c] \in Nat
      BY <1>15
    <3>5. i \in Nat
      BY <3>4
    <3>6. Unread(q, c, i) => Unread(q, c, i)'
      BY <1>1, <1>14, <1>16, <3>4, <3>5
    <3>7. \/ CopiedBack(q, c, i)'
          \/ Unread(q, c, i)' /\ t = Number(q, c, i)' % NBuf /\ l = Place(i)
      BY <1>14, <3>3, <3>6
    <3> QED BY <1>4, <3>1, <3>3, <3>7
  <2> QED BY <2>1, <2>2
<1> QED BY <1>9, <1>10, <1>11, <1>12, <1>13, <1>20, <1>21 DEF IInv

\* IInv is inductive.
LEMMA InvStep == IInv /\ [Next]_vars => IInv'
<1> SUFFICES ASSUME IInv, [Next]_vars PROVE IInv'
  OBVIOUS
<1>1. CASE UNCHANGED vars
  <2>1. UNCHANGED <<sizes, inside, call, seq, published, copied, flagged, taken, added, done,
                    pubFlag, doneFlag, src, tmp, host>>
    BY <1>1 DEF vars, places, flags
  <2>2. TypeOK' /\ Memory' /\ Progress' /\ FlagsCount' /\ Tensor' /\ TakesPeersInput'
    BY <2>1 DEF IInv, TypeOK, Memory, Progress, FlagsCount, Tensor, TakesPeersInput, Pieces
  <2>3. Lockstep'
    BY <2>1 DEF IInv, Lockstep, PublishedEnd, SeqEnd, Pieces
  <2>4. UnreadThere' /\ HostInputs'
    BY <2>1, HostUntouched
  <2> QED BY <2>2, <2>3, <2>4 DEF IInv
<1>2. CASE Next
  BY <1>2, EnterStep, ExitStep, CopyOutStep, PublishStep, CopyInStep, AddStep, ReleaseStep DEF Next
<1> QED BY <1>1, <1>2

-----------------------------------------------------------------------------
(* The properties *)

\* IInv holds in every reachable state.
THEOREM Invariance == Spec => []IInv
BY InvInit, InvStep, PTL DEF Spec

\* The variables keep their types, and no flag is ahead of its copy or its add.
THEOREM TypeCorrect == Spec => []TypeOK
<1>1. IInv => TypeOK
  BY DEF IInv
<1> QED BY <1>1, Invariance, PTL

\* What a rank copies back is what its peer put in for this call and this piece,
\* whatever the peer's h2d stream has done to its own tensor meanwhile.
THEOREM PeersInput == Spec => []TakesPeersInput
<1>1. IInv => TakesPeersInput
  BY DEF IInv
<1> QED BY <1>1, Invariance, PTL

\* A host cell that changes held nothing, or a piece the peer has copied back.
KeepsUnread ==
  \A r \in Ranks : \A s \in 0 .. NBuf - 1 : \A i \in 1 .. Region :
    host'[r][s][i] # host[r][s][i] =>
      \A n \in DOMAIN host[r][s][i][r] :
        LET c == host[r][s][i][r][n][1]
            j == host[r][s][i][r][n][2]
        IN  c < call[1 - r] \/ (c = call[1 - r] /\ j <= taken[1 - r])

\* Only CopyOut writes the host memory.
LEMMA KeepsUnreadStep ==
  ASSUME IInv, [Next]_vars
  PROVE  [KeepsUnread]_vars
<1>1. ASSUME NEW r \in Ranks, CopyOut(r) PROVE KeepsUnread
  <2>1. PICK p \in Ranks : p = 1 - r /\ r # p /\ \A q \in Ranks : q \in {r, p}
    BY PeerFacts
  <2>2. PICK j : j = copied[r] + 1
    OBVIOUS
  <2>3. PICK s : s = seq[r] + Chunk(j)
    OBVIOUS
  <2>4. /\ host'[p] = host[p]
        /\ \A t \in 0 .. NBuf - 1, l \in 1 .. Region :
             t # s % NBuf \/ l # Place(j) => host'[r][t][l] = host[r][t][l]
        /\ \A c \in 1 .. call[r] : \A i \in 1 .. sizes[c] :
             Unread(r, c, i) => Number(r, c, i) % NBuf # s % NBuf \/ Place(i) # Place(j)
    BY <1>1, <2>1, <2>2, <2>3, CopyOutHost
  <2> SUFFICES ASSUME NEW q \in Ranks, NEW t \in 0 .. NBuf - 1, NEW l \in 1 .. Region,
                      host'[q][t][l] # host[q][t][l], NEW n \in DOMAIN host[q][t][l][q]
               PROVE  \/ host[q][t][l][q][n][1] < call[1 - q]
                      \/ /\ host[q][t][l][q][n][1] = call[1 - q]
                         /\ host[q][t][l][q][n][2] <= taken[1 - q]
    BY DEF KeepsUnread
  <2>5. q = r /\ t = s % NBuf /\ l = Place(j)
    BY <2>1, <2>4
  <2>6. CASE host[q][t][l] = Empty
    BY <2>6 DEF Empty
  <2>7. CASE host[q][t][l] # Empty
    <3>1. PICK c \in 1 .. call[r] : \E i \in 1 .. sizes[c] :
            /\ host[r][t][l] = Input(r, c, i)
            /\ \/ CopiedBack(r, c, i)
               \/ Unread(r, c, i) /\ t = Number(r, c, i) % NBuf /\ l = Place(i)
      BY <2>5, <2>7 DEF IInv, HostInputs
    <3>2. PICK i \in 1 .. sizes[c] :
            /\ host[r][t][l] = Input(r, c, i)
            /\ \/ CopiedBack(r, c, i)
               \/ Unread(r, c, i) /\ t = Number(r, c, i) % NBuf /\ l = Place(i)
      BY <3>1
    <3>3. CopiedBack(r, c, i)
      BY <2>4, <2>5, <3>2
    <3>4. c \in Nat /\ sizes[c] \in Nat
      BY CallSizes
    <3>5. i \in Nat
      BY <3>4
    <3>6. host[q][t][l][q] = << <<c, i>> >>
      BY <2>5, <3>2, <3>4, <3>5, CellFacts
    <3>7. host[q][t][l][q][n][1] = c /\ host[q][t][l][q][n][2] = i
      BY <3>6
    <3> QED BY <2>5, <3>3, <3>7 DEF CopiedBack
  <2> QED BY <2>6, <2>7
<1>2. ASSUME host' = host PROVE KeepsUnread
  BY <1>2 DEF KeepsUnread
<1>3. CASE UNCHANGED vars
  BY <1>3 DEF vars
<1>4. ASSUME NEW r \in Ranks,
             Enter(r) \/ Exit(r) \/ Publish(r) \/ CopyIn(r) \/ Add(r) \/ Release(r)
      PROVE  host' = host
  BY <1>4 DEF Enter, Exit, Publish, CopyIn, Add, Release
<1> QED BY <1>1, <1>2, <1>3, <1>4 DEF Next

\* No step overwrites a piece the peer has still to read back: NBuf regions and
\* the wait for the peer's flag are enough, for any NBuf.
THEOREM UnreadKeptHolds == Spec => UnreadKept
<1>1. IInv /\ [Next]_vars => [KeepsUnread]_vars
  BY KeepsUnreadStep
<1>2. Spec => [][KeepsUnread]_vars
  BY <1>1, Invariance, PTL DEF Spec
<1>3. UnreadKept <=> [][KeepsUnread]_vars
  BY DEF UnreadKept, KeepsUnread
<1> QED BY <1>2, <1>3

-----------------------------------------------------------------------------
(* Refinement *)

\* The streams start as the contract does.
LEMMA RefinesInit == Init => Abstract!Init
BY DEF Init, Abstract!Init, Abstract!Ranks, Ranks

\* The start of a call is the contract's Begin.
LEMMA EnterBegins ==
  ASSUME IInv, NEW r \in Ranks, Enter(r)
  PROVE  Abstract!Begin(r)
<1> DEFINE ended == [q \in Ranks |-> IF inside[q] THEN call[q] - 1 ELSE call[q]]
           out == [q \in Ranks |-> IF inside[q] THEN <<>> ELSE src[q]]
<1>1. /\ inside \in [Ranks -> BOOLEAN] /\ call \in [Ranks -> 0 .. MaxCalls] /\ DOMAIN src = Ranks
      /\ \A q \in Ranks : call[q] \in Nat
  BY Types, RankFacts DEF IInv, TypeOK
<1>2. /\ ~inside[r] /\ call[r] < MaxCalls
      /\ IF call[r] = Len(sizes) THEN \E n \in Sizes : sizes' = Append(sizes, n) ELSE sizes' = sizes
      /\ inside' = [inside EXCEPT ![r] = TRUE] /\ call' = [call EXCEPT ![r] = @ + 1]
      /\ \A q \in Ranks : q # r => src'[q] = src[q]
  BY <1>1 DEF Enter
<1>3. ended' = ended
  BY <1>1, <1>2
<1>4. out' = [out EXCEPT ![r] = <<>>]
  BY <1>1, <1>2
<1>5. call[r] = ended[r]
  BY <1>2
<1> QED BY <1>2, <1>3, <1>4, <1>5 DEF Abstract!Begin

\* The end of a call is the contract's End: what it leaves is the sum.
LEMMA ExitEnds ==
  ASSUME IInv, NEW r \in Ranks, Exit(r)
  PROVE  Abstract!End(r)
<1> DEFINE ended == [q \in Ranks |-> IF inside[q] THEN call[q] - 1 ELSE call[q]]
           out == [q \in Ranks |-> IF inside[q] THEN <<>> ELSE src[q]]
<1>1. /\ inside \in [Ranks -> BOOLEAN] /\ 1 - r \in Ranks
      /\ call[r] \in Nat /\ call[1 - r] \in Nat
  BY Types, RankFacts, PeerFacts
<1>2. /\ inside[r] /\ done[r] = Chunk(Pieces(r)) /\ inside' = [inside EXCEPT ![r] = FALSE]
      /\ UNCHANGED <<sizes, call, src>>
  BY DEF Exit
<1>3. /\ call[r] > 0 /\ Pieces(r) \in Nat \ {0} /\ added[r] = Chunk(Pieces(r))
      /\ taken[r] = Pieces(r) /\ taken[r] > 0
  BY <1>2, RankFacts, AllDone
<1>4. call[1 - r] >= call[r]
  BY <1>1, <1>3 DEF IInv, Lockstep
<1>5. src[r] = [u \in 1 .. sizes[call[r]] |-> Abstract!Summed(call[r], u)]
  <2>1. src[r] = [j \in 1 .. Pieces(r) |->
                    IF Chunk(j) <= added[r] THEN Summed(call[r], j) ELSE Input(r, call[r], j)]
    BY <1>3 DEF IInv, Tensor
  <2>2. \A j \in 1 .. Pieces(r) : Chunk(j) <= added[r]
    BY <1>3, ChunkMono
  <2>3. \A j \in 1 .. Pieces(r) :
          (IF Chunk(j) <= added[r] THEN Summed(call[r], j) ELSE Input(r, call[r], j))
            = Abstract!Summed(call[r], j)
    BY <2>2 DEF Summed, Abstract!Summed, Abstract!Ranks, Ranks
  <2>4. src[r] = [j \in 1 .. Pieces(r) |-> Abstract!Summed(call[r], j)]
    BY <2>1, <2>3
  <2> QED BY <2>4 DEF Pieces
<1>6. ended' = [ended EXCEPT ![r] = call[r]]
  BY <1>1, <1>2
<1>7. out' = [out EXCEPT ![r] = [u \in 1 .. sizes[call[r]] |-> Abstract!Summed(call[r], u)]]
  <2>1. out' = [out EXCEPT ![r] = src[r]]
    BY <1>1, <1>2
  <2> QED BY <1>5, <2>1
<1>8. call[r] = ended[r] + 1
  BY <1>1, <1>2
<1> QED BY <1>2, <1>4, <1>6, <1>7, <1>8 DEF Abstract!End

\* A step that leaves the calls and the tensors that are not in one is a stutter
\* of the contract.
LEMMA Stutters ==
  ASSUME UNCHANGED <<sizes, call, inside>>,
         \A q \in Ranks : ~inside[q] => src'[q] = src[q]
  PROVE  UNCHANGED Abstract!vars
BY DEF Abstract!vars

\* The staged copies implement the all-reduce contract, for any region, any
\* number of regions, any sizes and any number of calls.
THEOREM ImplementsAllReduceHolds == Spec => ImplementsAllReduce
<1>1. ASSUME IInv, [Next]_vars PROVE [Abstract!Next]_Abstract!vars
  <2>1. ASSUME NEW r \in Ranks, Enter(r) PROVE Abstract!Next
    BY <1>1, <2>1, EnterBegins DEF Abstract!Next, Abstract!Ranks, Ranks
  <2>2. ASSUME NEW r \in Ranks, Exit(r) PROVE Abstract!Next
    BY <1>1, <2>2, ExitEnds DEF Abstract!Next, Abstract!Ranks, Ranks
  <2>3. ASSUME NEW r \in Ranks, CopyOut(r) \/ Publish(r) \/ CopyIn(r) \/ Release(r)
        PROVE  UNCHANGED Abstract!vars
    BY <2>3, Stutters DEF CopyOut, Publish, CopyIn, Release
  <2>4. ASSUME NEW r \in Ranks, Add(r) PROVE UNCHANGED Abstract!vars
    BY <1>1, <2>4, Stutters DEF Add, IInv, TypeOK
  <2>5. CASE UNCHANGED vars
    BY <2>5, Stutters DEF vars
  <2> QED BY <1>1, <2>1, <2>2, <2>3, <2>4, <2>5 DEF Next
<1> QED BY <1>1, RefinesInit, Invariance, PTL DEF Spec, ImplementsAllReduce, Abstract!Spec
=============================================================================
