------------------------ MODULE StreamMemops_proofs ------------------------
(***************************************************************************)
(* Proofs about StreamMemops for any number of slots, layers and replays   *)
(* and any depth of the stream. What is said of done needs no more; what   *)
(* is said of the slots and of the tasks' output needs a ring that is wide *)
(* for the stream (WideRing): 3 times what the stream holds, and 4.        *)
(***************************************************************************)
EXTENDS StreamMemops, SequenceTheorems, TLAPS

Op == [op : {"write"}, idx : Slots, n : Nat] \cup [op : {"wait", "clear", "use"}, idx : Slots]

\* Submit entries have the even slots, sync entries the odd ones.
Odd(i) == i % 2 = 1

Types ==
  /\ TypeOK
  /\ ~scanning => left = {}
  /\ stream \in Seq(Op) /\ graph \in Seq(Op)
  /\ asked \in [Slots -> Nat] /\ ran \in [Slots -> Nat]

\* The host takes slots in pairs: the sync's slot comes after its submit's.
Pairs ==
  /\ open = None => ringNext % 2 = 0 /\ permNext % 2 = 0
  /\ open # None => ~Odd(open) /\ ArmSlot = open + 1
  /\ open # None /\ capturing => ringNext % 2 = 0 /\ permNext % 2 = 1
  /\ open # None /\ ~capturing => ringNext % 2 = 1 /\ permNext % 2 = 0

Roles == \A e \in entries \cup snap : e.sync <=> Odd(e.idx)

\* A sync's operations are together in a queue and follow its submit's, which is
\* the slot last when the queue ends with it.
SyncBlocks(q) ==
  \A k \in 1 .. Len(q) :
    /\ q[k].op = "write" /\ Odd(q[k].idx) => k < Len(q) /\ q[k + 1] = WaitDone(q[k].idx)
    /\ q[k].op = "wait" => Odd(q[k].idx) /\ k < Len(q) /\ q[k + 1] = Clear(q[k].idx)
    /\ q[k].op = "use" => ~Odd(q[k].idx)

SubmitsFirst(q, last) ==
  \A k \in 1 .. Len(q) :
    q[k].op = "write" /\ ~Odd(q[k].idx) =>
      IF k < Len(q) THEN q[k + 1].op = "write" /\ q[k + 1].idx = q[k].idx + 1
      ELSE last = q[k].idx

Blocks(q, last) == SyncBlocks(q) /\ SubmitsFirst(q, last)

\* What a sync has asked for and not been given yet.
Asking(i) == req[i] = 1 \/ \E e \in claimed : e.idx = i

\* While a sync is in the poller's hands the stream waits for it.
Awaited ==
  \A i \in Slots :
    /\ Odd(i) /\ Asking(i) => stream # <<>> /\ stream[1] = WaitDone(i) /\ done[i] = 0
    /\ Odd(i) => ~(req[i] = 1 /\ \E e \in claimed : e.idx = i)
    /\ done[i] = 1 => Odd(i) /\ stream # <<>> /\ stream[1] \in {WaitDone(i), Clear(i)}

StreamOpen == IF capturing THEN None ELSE open
GraphOpen == IF capturing THEN open ELSE None
QueueBlocks == Blocks(stream, StreamOpen) /\ Blocks(graph, GraphOpen)

BasicInv == Types /\ Pairs /\ Roles /\ QueueBlocks /\ Awaited

-----------------------------------------------------------------------------
(* Slots *)

\* The sizes are numbers.
LEMMA Sizes == KRing \in Nat /\ KRing > 0 /\ KPerm \in Nat /\ Depth \in Nat
BY RingAssumption

\* A remainder is below the divisor.
LEMMA ModRange ==
  ASSUME NEW n \in Nat, NEW m \in Nat \ {0}
  PROVE  n % m \in 0 .. m - 1
OBVIOUS

\* A quotient is a number.
LEMMA DivRange ==
  ASSUME NEW n \in Nat, NEW m \in Nat \ {0}
  PROVE  n \div m \in Nat
OBVIOUS

\* Quotient and remainder make the number.
LEMMA DivMod ==
  ASSUME NEW n \in Nat, NEW m \in Nat \ {0}
  PROVE  n = (n \div m) * m + (n % m)
OBVIOUS

\* Division with remainder.
LEMMA Remainder ==
  ASSUME NEW n \in Nat, NEW m \in Nat \ {0}
  PROVE  \E d \in Nat : n = m * d + (n % m)
<1> DEFINE d == n \div m  t == n % m
<1>1. t \in 0 .. m - 1
  BY ModRange
<1>2. d \in Nat
  BY DivRange
<1>3. n = d * m + t
  BY DivMod
<1> HIDE DEF d, t
<1>4. n = m * d + t
  BY <1>1, <1>2, <1>3
<1>5. \E c \in Nat : n = m * c + t
  BY <1>2, <1>4
<1> QED BY <1>5 DEF t

\* The remainder is the only one there is.
LEMMA RemainderUnique ==
  ASSUME NEW n \in Nat, NEW m \in Nat \ {0}, NEW c \in Nat, NEW r \in 0 .. m - 1, n = m * c + r
  PROVE  n % m = r
<1> DEFINE t == n % m
<1>1. t \in 0 .. m - 1
  BY ModRange
<1>0. PICK d \in Nat : n = m * d + t
  BY Remainder
<1> HIDE DEF t
<1>2. CASE d = c
  <2>1. m * d = m * c /\ m * c \in Nat
    BY <1>2
  <2> QED BY <1>0, <1>1, <2>1 DEF t
<1>3. CASE d > c
  <2>1. PICK x \in Nat : d = c + 1 + x
    <3>1. d - c - 1 \in Nat /\ d = c + 1 + (d - c - 1)
      BY <1>1, <1>3
    <3> QED BY <3>1
  <2>2. m * d = m * c + m + m * x /\ m * x \in Nat /\ m * c \in Nat
    BY <2>1
  <2> QED BY <1>0, <1>1, <2>2
<1>4. CASE d < c
  <2>1. PICK x \in Nat : c = d + 1 + x
    <3>1. c - d - 1 \in Nat /\ c = d + 1 + (c - d - 1)
      BY <1>1, <1>4
    <3> QED BY <3>1
  <2>2. m * c = m * d + m + m * x /\ m * x \in Nat /\ m * d \in Nat
    BY <1>1, <2>1
  <2> QED BY <1>0, <1>1, <2>2
<1> QED BY <1>0, <1>1, <1>2, <1>3, <1>4

\* Two numbers with one remainder are a divisor apart.
LEMMA ModGap ==
  ASSUME NEW n \in Nat \ {0}, NEW a \in Nat, NEW b \in Nat, a < b, a % n = b % n
  PROVE  a + n <= b
<1>1. PICK p \in Nat, q \in Nat, r \in Nat : a = p * n + r /\ b = q * n + r
  <2>1. a \div n \in Nat /\ b \div n \in Nat
    BY DivRange
  <2>2. a % n \in 0 .. n - 1
    BY ModRange
  <2>3. a = (a \div n) * n + (a % n) /\ b = (b \div n) * n + (b % n)
    BY DivMod
  <2>4. \A x \in 0 .. n - 1 : x \in Nat
    OBVIOUS
  <2> QED BY <2>1, <2>2, <2>3, <2>4
<1>2. p * n < q * n
  BY <1>1
<1>3. p < q
  <2>1. CASE q <= p
    <3>1. q * n <= p * n
      BY <2>1
    <3> QED BY <1>2, <3>1
  <2> QED BY <2>1
<1>4. q * n = p * n + (q - p) * n /\ q - p >= 1
  BY <1>3
<1>5. (q - p) * n >= n
  BY <1>4
<1> QED BY <1>1, <1>4, <1>5

\* Wrapping around an even ring keeps the parity.
LEMMA RingParity ==
  ASSUME NEW n \in Nat
  PROVE  n % KRing \in 0 .. KRing - 1 /\ (n % KRing) % 2 = n % 2
<1> DEFINE t == n % KRing  h == KRing \div 2
<1>1. t \in 0 .. KRing - 1
  BY ModRange, RingAssumption
<1>0. PICK d \in Nat : n = KRing * d + t
  BY Remainder, RingAssumption
<1>2. h \in Nat /\ KRing = 2 * h
  BY RingAssumption
<1> HIDE DEF t, h
<1>3. KRing * d = 2 * (h * d) /\ h * d \in Nat
  BY <1>2
<1>4. PICK x \in Nat : n = 2 * x + t
  BY <1>0, <1>3
<1>5. t % 2 = n % 2
  BY <1>1, <1>4
<1> QED BY <1>1, <1>5 DEF t

\* The slot after an even ticket's is the next ticket's.
LEMMA RingPair ==
  ASSUME NEW n \in Nat, n % 2 = 0
  PROVE  (n + 1) % KRing = (n % KRing) + 1
<1> DEFINE t == n % KRing
<1>1. t \in 0 .. KRing - 1
  BY ModRange, RingAssumption
<1>0. PICK d \in Nat : n = KRing * d + t
  BY Remainder, RingAssumption
<1>2. t % 2 = 0
  BY RingParity DEF t
<1> HIDE DEF t
<1>3. t + 1 \in 0 .. KRing - 1
  BY <1>1, <1>2, RingAssumption
<1>4. n + 1 = KRing * d + (t + 1)
  <2>1. KRing * d \in Nat
    BY RingAssumption
  <2> QED BY <1>0, <1>1, <2>1
<1>5. (n + 1) % KRing = t + 1
  <2>1. n + 1 \in Nat /\ KRing \in Nat \ {0}
    BY RingAssumption
  <2> QED BY <1>1, <1>3, <1>4, <2>1, RemainderUnique
<1> QED BY <1>5 DEF t

-----------------------------------------------------------------------------
(* The queues of operations *)

\* A queue's head, its tail and the tail's operations.
LEMMA TailFacts ==
  ASSUME NEW q \in Seq(Op), q # <<>>
  PROVE  /\ Head(q) = q[1] /\ q[1] \in Op /\ Len(q) \in Nat /\ Len(q) >= 1
         /\ Tail(q) \in Seq(Op) /\ Len(Tail(q)) = Len(q) - 1
         /\ \A k \in 1 .. Len(Tail(q)) : Tail(q)[k] = q[k + 1]
<1>1. Tail(q) \in Seq(Op) /\ Len(Tail(q)) = Len(q) - 1 /\ Head(q) \in Op
      /\ \A k \in 1 .. Len(Tail(q)) : Tail(q)[k] = q[k + 1]
  BY HeadTailProperties
<1>2. Len(q) \in Nat \ {0}
  BY EmptySeq
<1>3. Head(q) = q[1]
  BY <1>2
<1> QED BY <1>1, <1>2, <1>3

\* Running the head of a queue leaves its blocks as they are.
LEMMA BlocksTail ==
  ASSUME NEW q \in Seq(Op), q # <<>>, NEW last, Blocks(q, last)
  PROVE  Blocks(Tail(q), last)
<1>1. /\ Len(q) \in Nat /\ Len(q) >= 1 /\ Len(Tail(q)) = Len(q) - 1
      /\ \A k \in 1 .. Len(Tail(q)) : Tail(q)[k] = q[k + 1]
  BY TailFacts
<1>2. ASSUME NEW k \in 1 .. Len(Tail(q))
      PROVE  /\ k + 1 \in 1 .. Len(q) /\ Tail(q)[k] = q[k + 1]
             /\ (k < Len(Tail(q)) <=> k + 1 < Len(q))
             /\ k < Len(Tail(q)) => Tail(q)[k + 1] = q[k + 2]
  BY <1>1
<1>3. SyncBlocks(Tail(q))
  <2> SUFFICES ASSUME NEW k \in 1 .. Len(Tail(q))
      PROVE  LET p == Tail(q) IN
             /\ p[k].op = "write" /\ Odd(p[k].idx) => k < Len(p) /\ p[k + 1] = WaitDone(p[k].idx)
             /\ p[k].op = "wait" => Odd(p[k].idx) /\ k < Len(p) /\ p[k + 1] = Clear(p[k].idx)
             /\ p[k].op = "use" => ~Odd(p[k].idx)
    BY DEF SyncBlocks
  <2>1. k + 1 \in 1 .. Len(q) /\ k + 1 + 1 = k + 2
    BY <1>1
  <2> QED BY <1>2, <2>1 DEF Blocks, SyncBlocks
<1>4. SubmitsFirst(Tail(q), last)
  <2> SUFFICES ASSUME NEW k \in 1 .. Len(Tail(q)),
                      Tail(q)[k].op = "write", ~Odd(Tail(q)[k].idx)
      PROVE  IF k < Len(Tail(q)) THEN Tail(q)[k + 1].op = "write" /\ Tail(q)[k + 1].idx = Tail(q)[k].idx + 1
             ELSE last = Tail(q)[k].idx
    BY DEF SubmitsFirst
  <2>1. k + 1 \in 1 .. Len(q) /\ k + 1 + 1 = k + 2
    BY <1>1
  <2> QED BY <1>2, <2>1 DEF Blocks, SubmitsFirst
<1> QED BY <1>3, <1>4 DEF Blocks

\* What comes of appending one queue to another, operation by operation.
LEMMA ConcatFacts ==
  ASSUME NEW q \in Seq(Op), NEW r \in Seq(Op)
  PROVE  /\ q \o r \in Seq(Op) /\ Len(q) \in Nat /\ Len(r) \in Nat
         /\ Len(q \o r) = Len(q) + Len(r)
         /\ \A k \in 1 .. Len(q) : (q \o r)[k] = q[k]
         /\ \A k \in 1 .. Len(r) : (q \o r)[Len(q) + k] = r[k]
         /\ q # <<>> => (q \o r)[1] = q[1]
         /\ r # <<>> => q \o r # <<>>
         /\ q # <<>> => q \o r # <<>>
<1>1. Len(q) \in Nat /\ Len(r) \in Nat /\ (q # <<>> => Len(q) >= 1) /\ (r # <<>> => Len(r) >= 1)
  BY EmptySeq
<1>2. /\ q \o r \in Seq(Op) /\ Len(q \o r) = Len(q) + Len(r)
      /\ \A i \in 1 .. Len(q) + Len(r) : (q \o r)[i] = IF i <= Len(q) THEN q[i] ELSE r[i - Len(q)]
  BY ConcatProperties
<1>3. Len(<<>>) = 0
  BY EmptySeq
<1>4. \A k \in 1 .. Len(r) : Len(q) + k \in 1 .. Len(q) + Len(r) /\ ~(Len(q) + k <= Len(q)) /\ Len(q) + k - Len(q) = k
  BY <1>1
<1>5. \A k \in 1 .. Len(r) : (q \o r)[Len(q) + k] = r[k]
  BY <1>2, <1>4
<1>6. \A k \in 1 .. Len(q) : (q \o r)[k] = q[k]
  BY <1>1, <1>2
<1>7. q # <<>> => 1 \in 1 .. Len(q)
  BY <1>1
<1>8. (q # <<>> \/ r # <<>>) => Len(q \o r) # 0
  BY <1>1, <1>2
<1> QED BY <1>1, <1>2, <1>3, <1>5, <1>6, <1>7, <1>8

\* Complete blocks follow complete blocks, and a sync's follow its submit's.
LEMMA BlocksConcat ==
  ASSUME NEW q \in Seq(Op), NEW r \in Seq(Op), NEW o, NEW last, Blocks(q, o), Blocks(r, last), r # <<>>,
         \A i \in Slots : o = i => r[1].op = "write" /\ r[1].idx = i + 1
  PROVE  Blocks(q \o r, last)
<1> DEFINE p == q \o r
<1>1. /\ p \in Seq(Op) /\ Len(q) \in Nat /\ Len(r) \in Nat /\ Len(p) = Len(q) + Len(r)
      /\ \A k \in 1 .. Len(q) : p[k] = q[k]
      /\ \A k \in 1 .. Len(r) : p[Len(q) + k] = r[k]
  BY ConcatFacts
<1>2. Len(r) >= 1
  BY EmptySeq
<1> HIDE DEF p
<1>3. ASSUME NEW k \in 1 .. Len(p)
      PROVE  /\ p[k].op = "write" /\ Odd(p[k].idx) => k < Len(p) /\ p[k + 1] = WaitDone(p[k].idx)
             /\ p[k].op = "wait" => Odd(p[k].idx) /\ k < Len(p) /\ p[k + 1] = Clear(p[k].idx)
             /\ p[k].op = "use" => ~Odd(p[k].idx)
             /\ p[k].op = "write" /\ ~Odd(p[k].idx) =>
                  IF k < Len(p) THEN p[k + 1].op = "write" /\ p[k + 1].idx = p[k].idx + 1
                  ELSE last = p[k].idx
  <2>1. CASE k < Len(q)
    <3>1. k \in 1 .. Len(q) /\ k + 1 \in 1 .. Len(q) /\ k < Len(p)
      BY <1>1, <1>2, <2>1
    <3> QED BY <1>1, <2>1, <3>1 DEF Blocks, SyncBlocks, SubmitsFirst
  <2>2. CASE k = Len(q)
    <3>1. k \in 1 .. Len(q) /\ p[k] = q[k] /\ p[k + 1] = r[1] /\ k < Len(p) /\ q[k] \in Op
      BY <1>1, <1>2, <2>2, ElementOfSeq
    <3>2. ~(k < Len(q))
      BY <1>1, <2>2
    <3>3. q[k].idx \in Slots
      BY <3>1 DEF Op
    <3> QED BY <3>1, <3>2, <3>3 DEF Blocks, SyncBlocks, SubmitsFirst
  <2>3. CASE k > Len(q)
    <3>1. PICK m \in 1 .. Len(r) : k = Len(q) + m
      <4>1. k - Len(q) \in 1 .. Len(r) /\ k = Len(q) + (k - Len(q))
        BY <1>1, <2>3
      <4> QED BY <4>1
    <3>2. (k < Len(p) <=> m < Len(r)) /\ p[k] = r[m] /\ k + 1 = Len(q) + (m + 1)
      BY <1>1, <3>1
    <3>3. m < Len(r) => p[k + 1] = r[m + 1]
      <4>1. m < Len(r) => m + 1 \in 1 .. Len(r)
        BY <1>1, <3>1
      <4> QED BY <1>1, <3>2, <4>1
    <3> QED BY <3>1, <3>2, <3>3 DEF Blocks, SyncBlocks, SubmitsFirst
  <2> QED BY <1>1, <2>1, <2>2, <2>3
<1>4. SyncBlocks(p) /\ SubmitsFirst(p, last)
  BY <1>3 DEF SyncBlocks, SubmitsFirst
<1> QED BY <1>4 DEF p, Blocks

\* What a submit gives is a block that waits for its sync.
LEMMA SubmitBlock ==
  ASSUME NEW w \in Slots, ~Odd(w), NEW n \in Nat
  PROVE  LET r == <<Write(w, n)>> IN
         r \in Seq(Op) /\ Len(r) = 1 /\ r # <<>> /\ r[1] = Write(w, n) /\ Blocks(r, w)
<1> DEFINE r == <<Write(w, n)>>
<1>1. Write(w, n) \in Op /\ Write(w, n).op = "write" /\ Write(w, n).idx = w
  BY DEF Write, Op
<1>2. r \in Seq(Op) /\ Len(r) = 1 /\ r # <<>> /\ r[1] = Write(w, n)
  BY <1>1
<1> HIDE DEF r
<1>3. \A k \in 1 .. Len(r) : k = 1 /\ r[k].op = "write" /\ r[k].idx = w /\ ~(k < Len(r))
  BY <1>1, <1>2
<1>4. Blocks(r, w)
  BY <1>3 DEF Blocks, SyncBlocks, SubmitsFirst
<1> QED BY <1>2, <1>4 DEF r

\* What a sync gives is complete.
LEMMA SyncBlock ==
  ASSUME NEW w \in Slots, Odd(w), NEW n \in Nat, NEW u \in Slots, ~Odd(u)
  PROVE  LET r == <<Write(w, n), WaitDone(w), Clear(w), Use(u)>> IN
         r \in Seq(Op) /\ Len(r) = 4 /\ r # <<>> /\ r[1] = Write(w, n) /\ Blocks(r, None)
<1> DEFINE r == <<Write(w, n), WaitDone(w), Clear(w), Use(u)>>
<1>1. /\ Write(w, n) \in Op /\ Write(w, n).op = "write" /\ Write(w, n).idx = w
      /\ WaitDone(w) \in Op /\ WaitDone(w).op = "wait" /\ WaitDone(w).idx = w
      /\ Clear(w) \in Op /\ Clear(w).op = "clear"
      /\ Use(u) \in Op /\ Use(u).op = "use" /\ Use(u).idx = u
  BY DEF Write, WaitDone, Clear, Use, Op
<1>2. /\ r \in Seq(Op) /\ Len(r) = 4 /\ r # <<>>
      /\ r[1] = Write(w, n) /\ r[2] = WaitDone(w) /\ r[3] = Clear(w) /\ r[4] = Use(u)
  BY <1>1
<1> HIDE DEF r
<1>3. ASSUME NEW k \in 1 .. Len(r)
      PROVE  /\ r[k].op = "write" /\ Odd(r[k].idx) => k < Len(r) /\ r[k + 1] = WaitDone(r[k].idx)
             /\ r[k].op = "wait" => Odd(r[k].idx) /\ k < Len(r) /\ r[k + 1] = Clear(r[k].idx)
             /\ r[k].op = "use" => ~Odd(r[k].idx)
             /\ ~(r[k].op = "write" /\ ~Odd(r[k].idx))
  <2>1. k = 1 \/ k = 2 \/ k = 3 \/ k = 4
    BY <1>2
  <2>2. CASE k = 1
    BY <1>1, <1>2, <2>2
  <2>3. CASE k = 2
    BY <1>1, <1>2, <2>3
  <2>4. CASE k = 3
    BY <1>1, <1>2, <2>4
  <2>5. CASE k = 4
    BY <1>1, <1>2, <2>5
  <2> QED BY <2>1, <2>2, <2>3, <2>4, <2>5
<1>4. Blocks(r, None)
  BY <1>3 DEF Blocks, SyncBlocks, SubmitsFirst
<1> QED BY <1>2, <1>4 DEF r

-----------------------------------------------------------------------------
(* The poller, the stream and the flags of a sync *)

\* What a host call finds: its slot is in the array and of the right parity.
LEMMA SlotFacts ==
  ASSUME Types, Pairs, capturing => permNext < KPerm
  PROVE  /\ ArmSlot \in Slots /\ Ticket \in Nat /\ ArmSlot # None
         /\ open = None => ~Odd(ArmSlot)
         /\ open # None => open \in Slots /\ ~Odd(open) /\ Odd(ArmSlot) /\ ArmSlot = open + 1
<1>1. ringNext \in Nat /\ permNext \in 0 .. KPerm /\ capturing \in BOOLEAN /\ open \in Slots \cup {None}
  BY DEF Types, TypeOK
<1>2. ringNext % KRing \in 0 .. KRing - 1 /\ (ringNext % KRing) % 2 = ringNext % 2
  BY <1>1, RingParity
<1>3. CASE capturing
  <2>1. ArmSlot = KRing + permNext /\ Ticket = permNext /\ permNext < KPerm
    BY <1>3 DEF ArmSlot, Ticket
  <2>2. (KRing + permNext) % 2 = permNext % 2
    BY <1>1, RingAssumption
  <2>3. ArmSlot \in Slots /\ Ticket \in Nat /\ ArmSlot # None
    BY <1>1, <2>1, RingAssumption DEF Slots, None
  <2> QED BY <1>1, <1>3, <2>1, <2>2, <2>3 DEF Pairs, Odd
<1>4. CASE ~capturing
  <2>1. ArmSlot = ringNext % KRing /\ Ticket = ringNext
    BY <1>4 DEF ArmSlot, Ticket
  <2>2. ArmSlot \in Slots /\ ArmSlot # None
    BY <1>2, <2>1, RingAssumption DEF Slots, None
  <2> QED BY <1>1, <1>2, <1>4, <2>1, <2>2 DEF Pairs, Odd
<1> QED BY <1>1, <1>3, <1>4

\* What the host adds to the stream comes after what the poller's flags are about.
LEMMA AwaitedStays ==
  ASSUME Awaited, UNCHANGED <<req, done, claimed>>,
         stream # <<>> => stream' # <<>> /\ stream'[1] = stream[1]
  PROVE  Awaited'
BY DEF Awaited, Asking

\* The entry a call arms is of the call's kind.
LEMMA ArmKeeps ==
  ASSUME BasicInv, NEW sync \in BOOLEAN, Arm(sync), sync <=> open # None, UNCHANGED <<snap, capturing>>
  PROVE  /\ capturing => permNext < KPerm
         /\ ringNext' \in Nat /\ permNext' \in 0 .. KPerm /\ fresh' = FALSE
         /\ (entries \cup snap)' \subseteq
              [at : Nat, n : Nat, idx : Slots, sync : BOOLEAN, permanent : BOOLEAN]
         /\ Roles'
<1>1. capturing => permNext < KPerm
  BY DEF Arm
<1>2. Types /\ Pairs /\ Roles
  BY DEF BasicInv
<1>3. ringNext \in Nat /\ permNext \in 0 .. KPerm /\ capturing \in BOOLEAN
  BY <1>2 DEF Types, TypeOK
<1>4. ArmSlot \in Slots /\ Ticket \in Nat /\ (sync <=> Odd(ArmSlot))
  BY <1>1, <1>2, SlotFacts
<1>5. Entry(sync) \in [at : Nat, n : Nat, idx : Slots, sync : BOOLEAN, permanent : BOOLEAN]
  BY <1>3, <1>4, RingAssumption DEF Entry
<1>6. entries' = entries \cup {Entry(sync)} /\ fresh' = FALSE
  BY DEF Arm
<1>7. ringNext' \in Nat /\ permNext' \in 0 .. KPerm
  BY <1>3, RingAssumption DEF Arm
<1>8. (entries \cup snap)' \subseteq
        [at : Nat, n : Nat, idx : Slots, sync : BOOLEAN, permanent : BOOLEAN]
  BY <1>2, <1>5, <1>6 DEF Types, TypeOK
<1>9. Entry(sync).sync = sync /\ Entry(sync).idx = ArmSlot
  BY DEF Entry
<1>10. Roles'
  BY <1>2, <1>4, <1>6, <1>9 DEF Roles
<1> QED BY <1>1, <1>6, <1>7, <1>8, <1>10

\* A submit takes the even slot of a pair and ends its queue.
LEMMA SubmitBasic ==
  ASSUME BasicInv, Submit
  PROVE  BasicInv'
<1>1. /\ Types /\ Pairs /\ Roles /\ QueueBlocks /\ Awaited
  BY DEF BasicInv
<1>2. /\ open = None /\ open' = ArmSlot /\ Arm(FALSE) /\ Give(<<Write(ArmSlot, Ticket)>>)
      /\ asked' = [asked EXCEPT ![ArmSlot] = 0] /\ ran' = [ran EXCEPT ![ArmSlot] = 0]
      /\ UNCHANGED <<capturing, layers, replays, req, done, pollVars, queue, overtaken>>
  BY DEF Submit
<1>3. UNCHANGED <<snap, scanning, left, claimed, retire>>
  BY <1>2 DEF pollVars
<1>4. /\ capturing => permNext < KPerm
      /\ ringNext' \in Nat /\ permNext' \in 0 .. KPerm /\ fresh' = FALSE
      /\ (entries \cup snap)' \subseteq
           [at : Nat, n : Nat, idx : Slots, sync : BOOLEAN, permanent : BOOLEAN]
      /\ Roles'
  BY <1>2, <1>3, ArmKeeps
<1>5. ArmSlot \in Slots /\ Ticket \in Nat /\ ArmSlot # None /\ ~Odd(ArmSlot)
  BY <1>1, <1>2, <1>4, SlotFacts
<1>6. asked' \in [Slots -> Nat] /\ ran' \in [Slots -> Nat]
  BY <1>1, <1>2 DEF Types
<1> DEFINE r == <<Write(ArmSlot, Ticket)>>
<1>7. r \in Seq(Op) /\ r # <<>> /\ Blocks(r, ArmSlot)
  BY <1>5, SubmitBlock
<1>8. stream \in Seq(Op) /\ graph \in Seq(Op) /\ capturing \in BOOLEAN
      /\ Blocks(stream, None) /\ Blocks(graph, None)
  BY <1>1, <1>2 DEF Types, TypeOK, QueueBlocks, StreamOpen, GraphOpen
<1> HIDE DEF r
<1>9. \A i \in Slots : None # i
  BY RingAssumption DEF Slots, None
<1>10. ASSUME NEW q \in Seq(Op), Blocks(q, None)
       PROVE  /\ q \o r \in Seq(Op) /\ Blocks(q \o r, ArmSlot)
              /\ q # <<>> => q \o r # <<>> /\ (q \o r)[1] = q[1]
  BY <1>7, <1>9, <1>10, BlocksConcat, ConcatFacts
<1>11. Give(r)
  BY <1>2 DEF r
<1>12. /\ stream' \in Seq(Op) /\ graph' \in Seq(Op) /\ QueueBlocks'
       /\ stream # <<>> => stream' # <<>> /\ stream'[1] = stream[1]
  <2>1. CASE capturing
    <3>1. graph' = graph \o r /\ stream' = stream /\ capturing'
      BY <1>2, <1>11, <2>1 DEF Give
    <3>2. StreamOpen' = None /\ GraphOpen' = ArmSlot
      BY <1>2, <3>1 DEF StreamOpen, GraphOpen
    <3> QED BY <1>8, <1>10, <3>1, <3>2 DEF QueueBlocks
  <2>2. CASE ~capturing
    <3>1. stream' = stream \o r /\ graph' = graph /\ ~capturing'
      BY <1>2, <1>11, <2>2 DEF Give
    <3>2. StreamOpen' = ArmSlot /\ GraphOpen' = None
      BY <1>2, <3>1 DEF StreamOpen, GraphOpen
    <3> QED BY <1>8, <1>10, <3>1, <3>2 DEF QueueBlocks
  <2> QED BY <1>8, <2>1, <2>2
<1>13. Types'
  BY <1>1, <1>2, <1>3, <1>4, <1>5, <1>6, <1>12 DEF Types, TypeOK
<1>14. Awaited'
  BY <1>1, <1>2, <1>3, <1>12, AwaitedStays
<1>15. Pairs'
  <2>1. ringNext % 2 = 0 /\ permNext % 2 = 0 /\ ringNext \in Nat /\ permNext \in Nat
    BY <1>1, <1>2, RingAssumption DEF Pairs, Types, TypeOK
  <2>2. CASE capturing
    <3>1. permNext' = permNext + 1 /\ ringNext' = ringNext /\ capturing' = capturing
      BY <1>2, <2>2 DEF Arm
    <3>2. ArmSlot = KRing + permNext /\ ArmSlot' = KRing + (permNext + 1)
      BY <2>2, <3>1 DEF ArmSlot
    <3> QED BY <1>2, <1>5, <2>1, <2>2, <3>1, <3>2, RingAssumption DEF Pairs
  <2>3. CASE ~capturing
    <3>1. ringNext' = ringNext + 1 /\ permNext' = permNext /\ capturing' = capturing
      BY <1>2, <2>3 DEF Arm
    <3>2. ArmSlot = ringNext % KRing /\ ArmSlot' = (ringNext + 1) % KRing
      BY <2>3, <3>1 DEF ArmSlot
    <3>3. ArmSlot' = ArmSlot + 1
      BY <2>1, <3>2, RingPair
    <3> QED BY <1>2, <1>5, <2>1, <2>3, <3>1, <3>3 DEF Pairs
  <2> QED BY <2>2, <2>3
<1> QED BY <1>4, <1>12, <1>13, <1>14, <1>15 DEF BasicInv

\* A sync takes the odd slot of the pair, next to its submit's.
LEMMA SyncBasic ==
  ASSUME BasicInv, Sync
  PROVE  BasicInv'
<1>1. /\ Types /\ Pairs /\ Roles /\ QueueBlocks /\ Awaited
  BY DEF BasicInv
<1> DEFINE r == <<Write(ArmSlot, Ticket), WaitDone(ArmSlot), Clear(ArmSlot), Use(open)>>
<1>2. /\ open # None /\ open' = None /\ Arm(TRUE) /\ Give(r)
      /\ UNCHANGED <<capturing, replays, req, done, pollVars, queue, ghostVars>>
  BY DEF Sync
<1>3. UNCHANGED <<snap, scanning, left, claimed, retire, asked, ran, overtaken>>
  BY <1>2 DEF pollVars, ghostVars
<1>4. /\ capturing => permNext < KPerm
      /\ ringNext' \in Nat /\ permNext' \in 0 .. KPerm /\ fresh' = FALSE
      /\ (entries \cup snap)' \subseteq
           [at : Nat, n : Nat, idx : Slots, sync : BOOLEAN, permanent : BOOLEAN]
      /\ Roles'
  BY <1>2, <1>3, ArmKeeps
<1>5. ArmSlot \in Slots /\ Ticket \in Nat /\ Odd(ArmSlot) /\ open \in Slots /\ ~Odd(open) /\ ArmSlot = open + 1
  BY <1>1, <1>2, <1>4, SlotFacts
<1>6. r \in Seq(Op) /\ r # <<>> /\ Blocks(r, None) /\ r[1] = Write(ArmSlot, Ticket)
  BY <1>5, SyncBlock
<1>7. r[1].op = "write" /\ r[1].idx = open + 1
  BY <1>5, <1>6 DEF Write
<1>8. stream \in Seq(Op) /\ graph \in Seq(Op) /\ capturing \in BOOLEAN
      /\ Blocks(stream, StreamOpen) /\ Blocks(graph, GraphOpen)
  BY <1>1 DEF Types, TypeOK, QueueBlocks
<1> HIDE DEF r
<1>9. \A i \in Slots : None # i
  BY RingAssumption DEF Slots, None
<1>10. ASSUME NEW q \in Seq(Op), Blocks(q, open)
       PROVE  /\ q \o r \in Seq(Op) /\ Blocks(q \o r, None)
              /\ q # <<>> => q \o r # <<>> /\ (q \o r)[1] = q[1]
  <2>1. \A i \in Slots : open = i => r[1].op = "write" /\ r[1].idx = i + 1
    BY <1>7
  <2> QED BY <1>6, <1>10, <2>1, BlocksConcat, ConcatFacts
<1>11. StreamOpen' = None /\ GraphOpen' = None
  BY <1>2 DEF StreamOpen, GraphOpen
<1>12. /\ stream' \in Seq(Op) /\ graph' \in Seq(Op) /\ QueueBlocks'
       /\ stream # <<>> => stream' # <<>> /\ stream'[1] = stream[1]
  <2>1. CASE capturing
    <3>1. graph' = graph \o r /\ stream' = stream
      BY <1>2, <2>1 DEF Give
    <3>2. StreamOpen = None /\ GraphOpen = open
      BY <2>1 DEF StreamOpen, GraphOpen
    <3> QED BY <1>8, <1>10, <1>11, <3>1, <3>2 DEF QueueBlocks
  <2>2. CASE ~capturing
    <3>1. stream' = stream \o r /\ graph' = graph
      BY <1>2, <2>2 DEF Give
    <3>2. StreamOpen = open /\ GraphOpen = None
      BY <2>2 DEF StreamOpen, GraphOpen
    <3> QED BY <1>8, <1>10, <1>11, <3>1, <3>2 DEF QueueBlocks
  <2> QED BY <1>8, <2>1, <2>2
<1>13. Types'
  BY <1>1, <1>2, <1>3, <1>4, <1>12 DEF Types, TypeOK
<1>14. Awaited'
  BY <1>1, <1>2, <1>3, <1>12, AwaitedStays
<1>15. Pairs'
  <2>1. ringNext \in Nat /\ permNext \in Nat /\ capturing \in BOOLEAN
    BY <1>1, RingAssumption DEF Types, TypeOK
  <2>2. /\ capturing => ringNext % 2 = 0 /\ permNext % 2 = 1
        /\ ~capturing => ringNext % 2 = 1 /\ permNext % 2 = 0
    BY <1>1, <1>2 DEF Pairs
  <2>3. /\ capturing => permNext' = permNext + 1 /\ ringNext' = ringNext
        /\ ~capturing => ringNext' = ringNext + 1 /\ permNext' = permNext
    BY <1>2 DEF Arm
  <2>4. ringNext' % 2 = 0 /\ permNext' % 2 = 0
    BY <2>1, <2>2, <2>3
  <2> QED BY <1>2, <2>4 DEF Pairs
<1> QED BY <1>4, <1>12, <1>13, <1>14, <1>15 DEF BasicInv

\* A capture starts and ends, and a graph is replayed, between whole pairs.
LEMMA GraphBasic ==
  ASSUME BasicInv, BeginCapture \/ EndCapture \/ Replay
  PROVE  BasicInv'
<1>1. /\ Types /\ Pairs /\ Roles /\ QueueBlocks /\ Awaited
  BY DEF BasicInv
<1>2. /\ open = None /\ open' = None /\ capturing' \in BOOLEAN
      /\ UNCHANGED <<entries, fresh, ringNext, permNext, graph, req, done,
                     snap, scanning, left, claimed, retire, queue, asked, ran, overtaken>>
  <2>1. CASE BeginCapture
    BY <2>1 DEF BeginCapture, pollVars, ghostVars
  <2>2. CASE EndCapture
    BY <2>2 DEF EndCapture, pollVars, ghostVars
  <2>3. CASE Replay
    BY <1>1, <2>3 DEF Replay, pollVars, ghostVars, Types, TypeOK
  <2> QED BY <2>1, <2>2, <2>3
<1>3. stream \in Seq(Op) /\ graph \in Seq(Op) /\ Blocks(stream, None) /\ Blocks(graph, None)
  BY <1>1, <1>2 DEF Types, QueueBlocks, StreamOpen, GraphOpen
<1>4. /\ stream' \in Seq(Op) /\ Blocks(stream', None)
      /\ stream # <<>> => stream' # <<>> /\ stream'[1] = stream[1]
  <2>1. CASE BeginCapture \/ EndCapture
    BY <1>3, <2>1 DEF BeginCapture, EndCapture
  <2>2. CASE Replay
    <3>1. stream' = stream \o graph /\ graph # <<>>
      BY <2>2 DEF Replay
    <3>2. \A i \in Slots : None # i
      BY RingAssumption DEF Slots, None
    <3>3. Blocks(stream \o graph, None)
      BY <1>3, <3>1, <3>2, BlocksConcat
    <3> QED BY <1>3, <3>1, <3>3, ConcatFacts
  <2> QED BY <2>1, <2>2
<1>5. StreamOpen' = None /\ GraphOpen' = None
  BY <1>2 DEF StreamOpen, GraphOpen
<1>6. QueueBlocks'
  BY <1>2, <1>3, <1>4, <1>5 DEF QueueBlocks
<1>7. Types'
  BY <1>1, <1>2, <1>4 DEF Types, TypeOK
<1>8. Awaited'
  BY <1>1, <1>2, <1>4, AwaitedStays
<1>9. Pairs' /\ Roles'
  BY <1>1, <1>2 DEF Pairs, Roles
<1> QED BY <1>6, <1>7, <1>8, <1>9 DEF BasicInv

\* The GPU runs the operation at the head of its stream.
LEMMA GpuFacts ==
  ASSUME Types, GpuStep
  PROVE  /\ stream # <<>> /\ stream \in Seq(Op) /\ stream[1] \in Op /\ stream' = Tail(stream)
         /\ stream[1].idx \in Slots /\ stream[1].op \in {"write", "wait", "clear", "use"}
         /\ stream[1].op = "write" => /\ stream[1].n \in Nat
                                      /\ req' = [req EXCEPT ![stream[1].idx] = 1] /\ done' = done
                                      /\ asked' = [asked EXCEPT ![stream[1].idx] = @ + 1]
         /\ stream[1].op = "wait" => done[stream[1].idx] = 1 /\ UNCHANGED <<req, done, asked>>
         /\ stream[1].op = "clear" => /\ done' = [done EXCEPT ![stream[1].idx] = 0]
                                      /\ UNCHANGED <<req, asked>>
         /\ stream[1].op = "use" => UNCHANGED <<req, done, asked>>
         /\ UNCHANGED <<entries, fresh, ringNext, permNext, open, capturing, graph,
                        snap, scanning, left, claimed, retire, queue, ran, overtaken>>
<1>1. stream # <<>> /\ stream \in Seq(Op) /\ stream' = Tail(stream)
  BY DEF GpuStep, Types
<1>2. Head(stream) = stream[1] /\ stream[1] \in Op
  BY <1>1, TailFacts
<1>3. stream[1].idx \in Slots /\ stream[1].op \in {"write", "wait", "clear", "use"}
      /\ (stream[1].op = "write" => stream[1].n \in Nat)
  BY <1>2 DEF Op
<1>4. /\ stream[1].op = "write" => /\ req' = [req EXCEPT ![stream[1].idx] = 1] /\ done' = done
                                   /\ asked' = [asked EXCEPT ![stream[1].idx] = @ + 1]
      /\ stream[1].op = "wait" => done[stream[1].idx] = 1 /\ UNCHANGED <<req, done, asked>>
      /\ stream[1].op = "clear" => /\ done' = [done EXCEPT ![stream[1].idx] = 0]
                                   /\ UNCHANGED <<req, asked>>
      /\ stream[1].op = "use" => UNCHANGED <<req, done, asked>>
  BY <1>2, <1>3 DEF GpuStep
<1>5. UNCHANGED <<entries, fresh, ringNext, permNext, open, capturing, graph,
                  snap, scanning, left, claimed, retire, queue, ran, overtaken>>
  BY DEF GpuStep, hostVars, pollVars
<1> QED BY <1>1, <1>2, <1>3, <1>4, <1>5

\* Done goes down before the stream gets past the sync's clear.
LEMMA GpuBasic ==
  ASSUME BasicInv, GpuStep
  PROVE  BasicInv'
<1>1. /\ Types /\ Pairs /\ Roles /\ QueueBlocks /\ Awaited
  BY DEF BasicInv
<1> DEFINE o == stream[1]
<1>2. /\ stream # <<>> /\ stream \in Seq(Op) /\ o \in Op /\ stream' = Tail(stream)
      /\ o.idx \in Slots /\ o.op \in {"write", "wait", "clear", "use"}
      /\ o.op = "write" => /\ req' = [req EXCEPT ![o.idx] = 1] /\ done' = done
                           /\ asked' = [asked EXCEPT ![o.idx] = @ + 1]
      /\ o.op = "wait" => done[o.idx] = 1 /\ UNCHANGED <<req, done, asked>>
      /\ o.op = "clear" => /\ done' = [done EXCEPT ![o.idx] = 0]
                           /\ UNCHANGED <<req, asked>>
      /\ o.op = "use" => UNCHANGED <<req, done, asked>>
      /\ UNCHANGED <<entries, fresh, ringNext, permNext, open, capturing, graph,
                     snap, scanning, left, claimed, retire, queue, ran, overtaken>>
  BY <1>1, GpuFacts
<1> HIDE DEF o
<1>3. /\ Len(stream) \in Nat /\ Len(stream) >= 1
      /\ Tail(stream) \in Seq(Op) /\ Len(Tail(stream)) = Len(stream) - 1
      /\ \A k \in 1 .. Len(Tail(stream)) : Tail(stream)[k] = stream[k + 1]
  BY <1>2, TailFacts
<1>4. req \in [Slots -> {0, 1}] /\ done \in [Slots -> {0, 1}] /\ asked \in [Slots -> Nat]
  BY <1>1 DEF Types, TypeOK
<1>5. req' \in [Slots -> {0, 1}] /\ done' \in [Slots -> {0, 1}] /\ asked' \in [Slots -> Nat]
  <2>1. CASE o.op = "write"
    <3>1. asked' = [asked EXCEPT ![o.idx] = asked[o.idx] + 1] /\ asked[o.idx] + 1 \in Nat
      BY <1>2, <1>4, <2>1
    <3>2. asked' \in [Slots -> Nat]
      BY <1>4, <3>1
    <3> QED BY <1>2, <1>4, <2>1, <3>2
  <2>2. CASE o.op = "wait"
    BY <1>2, <1>4, <2>2
  <2>3. CASE o.op = "clear"
    BY <1>2, <1>4, <2>3
  <2>4. CASE o.op = "use"
    BY <1>2, <1>4, <2>4
  <2> QED BY <1>2, <2>1, <2>2, <2>3, <2>4
<1>6. Types'
  BY <1>1, <1>2, <1>3, <1>5 DEF Types, TypeOK
<1>7. QueueBlocks'
  <2>1. StreamOpen' = StreamOpen /\ GraphOpen' = GraphOpen
    BY <1>2 DEF StreamOpen, GraphOpen
  <2>2. Blocks(stream, StreamOpen) /\ Blocks(graph, GraphOpen)
    BY <1>1 DEF QueueBlocks
  <2>3. Blocks(Tail(stream), StreamOpen)
    BY <1>2, <2>2, BlocksTail
  <2> QED BY <1>2, <2>1, <2>2, <2>3 DEF QueueBlocks
<1>8. Pairs' /\ Roles'
  <2>1. ArmSlot' = ArmSlot
    BY <1>2 DEF ArmSlot
  <2> QED BY <1>1, <1>2, <2>1 DEF Pairs, Roles
<1>9. SyncBlocks(stream) /\ 1 \in 1 .. Len(stream) /\ o = stream[1]
  BY <1>1, <1>3 DEF QueueBlocks, Blocks, o
<1>10. Len(stream) > 1 => stream' # <<>> /\ stream'[1] = stream[2]
  <2> SUFFICES ASSUME Len(stream) > 1 PROVE stream' # <<>> /\ stream'[1] = stream[2]
    OBVIOUS
  <2>1. Len(<<>>) = 0
    BY EmptySeq
  <2>2. 1 \in 1 .. Len(Tail(stream)) /\ 1 + 1 = 2 /\ Len(Tail(stream)) # 0
    BY <1>3
  <2>3. Tail(stream)[1] = stream[2]
    BY <1>3, <2>2
  <2> QED BY <1>2, <2>1, <2>2, <2>3
<1>11. Awaited'
  <2>1. ASSUME NEW i \in Slots, o \in {WaitDone(i), Clear(i)}
        PROVE  o.idx = i /\ (o.op = "wait" \/ o.op = "clear")
    BY <2>1 DEF WaitDone, Clear
  <2>2. CASE o.op = "write"
    <3>1. \A i \in Slots : done[i] = 0 /\ (Odd(i) => ~Asking(i))
      <4> SUFFICES ASSUME NEW i \in Slots PROVE done[i] = 0 /\ (Odd(i) => ~Asking(i))
        OBVIOUS
      <4>1. o \notin {WaitDone(i), Clear(i)}
        BY <2>1, <2>2
      <4> QED BY <1>1, <1>4, <1>9, <4>1 DEF Awaited
    <3>2. Odd(o.idx) => stream' # <<>> /\ stream'[1] = WaitDone(o.idx)
      <4>1. Odd(o.idx) => 1 < Len(stream) /\ stream[1 + 1] = WaitDone(o.idx)
        BY <1>9, <2>2 DEF SyncBlocks
      <4> QED BY <1>10, <4>1
    <3> SUFFICES ASSUME NEW i \in Slots
        PROVE  /\ Odd(i) /\ Asking(i)' => stream' # <<>> /\ stream'[1] = WaitDone(i) /\ done'[i] = 0
               /\ Odd(i) => ~(req'[i] = 1 /\ \E e \in claimed' : e.idx = i)
               /\ done'[i] = 0
      BY DEF Awaited, Asking
    <3>3. done'[i] = 0 /\ claimed' = claimed
      BY <1>2, <2>2, <3>1
    <3>4. i # o.idx => req'[i] = req[i]
      BY <1>2, <1>4, <2>2
    <3> QED BY <3>1, <3>2, <3>3, <3>4 DEF Asking
  <2>3. CASE o.op = "wait"
    <3>1. Odd(o.idx) /\ 1 < Len(stream) /\ stream[1 + 1] = Clear(o.idx)
      BY <1>9, <2>3 DEF SyncBlocks
    <3>2. stream' # <<>> /\ stream'[1] = Clear(o.idx)
      BY <1>10, <3>1
    <3>3. done[o.idx] = 1
      BY <1>2, <2>3
    <3> SUFFICES ASSUME NEW i \in Slots
        PROVE  /\ Odd(i) => ~Asking(i)
               /\ done[i] = 1 => i = o.idx
      BY <1>2, <2>3, <3>1, <3>2 DEF Awaited, Asking
    <3>4. Odd(i) /\ Asking(i) => o = WaitDone(i) /\ done[i] = 0
      BY <1>1, <1>9 DEF Awaited
    <3>5. WaitDone(i).idx = i
      BY DEF WaitDone
    <3>6. done[i] = 1 => o \in {WaitDone(i), Clear(i)}
      BY <1>1, <1>9 DEF Awaited
    <3> QED BY <2>1, <3>3, <3>4, <3>5, <3>6
  <2>4. CASE o.op = "clear" \/ o.op = "use"
    <3> SUFFICES ASSUME NEW i \in Slots
        PROVE  done'[i] = 0 /\ (Odd(i) => ~Asking(i)')
      BY DEF Awaited, Asking
    <3>1. WaitDone(i).op = "wait"
      BY DEF WaitDone
    <3>2. Odd(i) => ~Asking(i)
      BY <1>1, <1>9, <2>4, <3>1 DEF Awaited
    <3>3. done[i] = 1 => o.op = "clear" /\ o.idx = i
      BY <1>1, <1>9, <2>1, <2>4 DEF Awaited
    <3>4. done'[i] = 0
      BY <1>2, <1>4, <2>4, <3>3
    <3> QED BY <1>2, <2>4, <3>2, <3>4 DEF Asking
  <2> QED BY <1>2, <2>2, <2>3, <2>4
<1> QED BY <1>6, <1>7, <1>8, <1>11 DEF BasicInv

\* The poller's copy, its scan and the entry in its hands keep their types.
LEMMA PollTypes ==
  ASSUME Types, Poller
  PROVE  /\ Types' /\ UNCHANGED <<ringNext, permNext, open, capturing, graph, stream>>
         /\ entries' \subseteq entries /\ snap' \subseteq entries \cup snap
<1>1. TypeOK
  BY DEF Types
<1>2. CASE PollTop
  BY <1>1, <1>2 DEF Types, TypeOK, PollTop, hostVars, ghostVars
<1>3. CASE PollSkip
  BY <1>1, <1>3 DEF Types, TypeOK, PollSkip, IsNext, hostVars, ghostVars
<1>4. CASE PollClaim
  <2>1. PICK e \in left : /\ req' = [req EXCEPT ![e.idx] = 0] /\ claimed' = {e}
                          /\ overtaken' = (overtaken \/ (e.sync /\ \E f \in snap : f.at < e.at /\ req[f.idx] = 1))
    BY <1>4 DEF PollClaim
  <2>2. UNCHANGED <<entries, fresh, hostVars, stream, done, snap, scanning, left, retire, queue, asked, ran>>
    BY <1>4 DEF PollClaim
  <2>3. req' \in [Slots -> {0, 1}] /\ claimed' \subseteq left /\ (\A f, g \in claimed' : f = g)
    BY <1>1, <2>1 DEF TypeOK
  <2>4. overtaken' \in BOOLEAN
    BY <1>1, <2>1 DEF TypeOK
  <2> QED BY <1>1, <2>2, <2>3, <2>4 DEF Types, TypeOK, hostVars
<1>5. CASE PollSubmit
  <2>1. PICK e \in claimed : queue' = Append(queue, e.idx) /\ Handled(e)
    BY <1>5 DEF PollSubmit
  <2>2. UNCHANGED <<entries, fresh, hostVars, stream, req, done, snap, scanning, ghostVars>>
    BY <1>5 DEF PollSubmit
  <2>3. e.idx \in Slots
    BY <1>1 DEF TypeOK
  <2>4. queue' \in Seq(Slots)
    BY <1>1, <2>1, <2>3, AppendProperties DEF TypeOK
  <2>5. claimed' = {} /\ left' \subseteq left /\ retire' \subseteq Slots
    BY <1>1, <2>1, <2>3 DEF Handled, TypeOK
  <2> QED BY <1>1, <2>2, <2>4, <2>5 DEF Types, TypeOK, hostVars, ghostVars
<1>6. CASE PollSync
  <2>1. PICK e \in claimed : done' = [done EXCEPT ![e.idx] = 1] /\ Handled(e)
    BY <1>6 DEF PollSync
  <2>2. UNCHANGED <<entries, fresh, hostVars, stream, req, snap, scanning, queue, ghostVars>>
    BY <1>6 DEF PollSync
  <2>3. e.idx \in Slots
    BY <1>1 DEF TypeOK
  <2>4. done' \in [Slots -> {0, 1}]
    BY <1>1, <2>1, <2>3 DEF TypeOK
  <2>5. claimed' = {} /\ left' \subseteq left /\ retire' \subseteq Slots
    BY <1>1, <2>1, <2>3 DEF Handled, TypeOK
  <2> QED BY <1>1, <2>2, <2>4, <2>5 DEF Types, TypeOK, hostVars, ghostVars
<1>7. CASE PollEnd
  BY <1>1, <1>7 DEF Types, TypeOK, PollEnd, hostVars, ghostVars
<1> QED BY <1>2, <1>3, <1>4, <1>5, <1>6, <1>7 DEF Poller

\* The poller raises done for the sync the stream is waiting at, and for no other.
LEMMA PollBasic ==
  ASSUME BasicInv, Poller
  PROVE  BasicInv'
<1>1. /\ Types /\ Pairs /\ Roles /\ QueueBlocks /\ Awaited /\ TypeOK
  BY DEF BasicInv, Types
<1>2. /\ Types' /\ UNCHANGED <<ringNext, permNext, open, capturing, graph, stream>>
      /\ entries' \subseteq entries /\ snap' \subseteq entries \cup snap
  BY <1>1, PollTypes
<1>3. Pairs' /\ Roles'
  <2>1. ArmSlot' = ArmSlot
    BY <1>2 DEF ArmSlot
  <2>2. Pairs'
    BY <1>1, <1>2, <2>1 DEF Pairs
  <2>3. Roles'
    BY <1>1, <1>2 DEF Roles
  <2> QED BY <2>2, <2>3
<1>4. QueueBlocks'
  <2>1. StreamOpen' = StreamOpen /\ GraphOpen' = GraphOpen
    BY <1>2 DEF StreamOpen, GraphOpen
  <2> QED BY <1>1, <1>2, <2>1 DEF QueueBlocks
<1>5. Awaited'
  <2>1. CASE PollTop \/ PollSkip \/ PollEnd
    <3>1. UNCHANGED <<req, done, claimed>>
      BY <2>1 DEF PollTop, PollSkip, PollEnd
    <3> QED BY <1>1, <1>2, <3>1, AwaitedStays
  <2>2. CASE PollClaim
    <3>1. PICK e \in left : /\ req[e.idx] = 1 /\ req' = [req EXCEPT ![e.idx] = 0] /\ claimed' = {e}
      BY <2>2 DEF PollClaim
    <3>2. e.idx \in Slots /\ req \in [Slots -> {0, 1}]
      BY <1>1 DEF TypeOK
    <3>3. claimed = {} /\ done' = done
      BY <2>2 DEF PollClaim
    <3> SUFFICES ASSUME NEW i \in Slots
        PROVE  /\ Asking(i)' => Asking(i)
               /\ ~(req'[i] = 1 /\ \E f \in claimed' : f.idx = i)
      BY <1>1, <1>2, <3>3 DEF Awaited, Asking
    <3> QED BY <3>1, <3>2, <3>3 DEF Asking
  <2>3. CASE PollSubmit
    <3>1. claimed' = {} /\ UNCHANGED <<req, done>>
      BY <2>3 DEF PollSubmit, Handled
    <3> QED BY <1>1, <1>2, <3>1 DEF Awaited, Asking
  <2>4. CASE PollSync
    <3>1. PICK e \in claimed : e.sync /\ done' = [done EXCEPT ![e.idx] = 1] /\ Handled(e)
      BY <2>4 DEF PollSync
    <3>2. e.idx \in Slots /\ Odd(e.idx) /\ done \in [Slots -> {0, 1}]
      BY <1>1, <3>1 DEF TypeOK, Roles
    <3>3. claimed' = {} /\ req' = req
      BY <2>4, <3>1 DEF PollSync, Handled
    <3>4. stream # <<>> /\ stream[1] = WaitDone(e.idx) /\ req[e.idx] # 1
      BY <1>1, <3>2 DEF Awaited, Asking
    <3> SUFFICES ASSUME NEW i \in Slots
        PROVE  /\ Odd(i) => req[i] # 1
               /\ done'[i] = 1 => Odd(i) /\ stream[1] \in {WaitDone(i), Clear(i)}
      BY <1>2, <3>3, <3>4 DEF Awaited, Asking
    <3>5. Odd(i) /\ req[i] = 1 => WaitDone(e.idx) = WaitDone(i)
      BY <1>1, <3>4 DEF Awaited, Asking
    <3>6. WaitDone(e.idx).idx = e.idx /\ WaitDone(i).idx = i
      BY DEF WaitDone
    <3>7. i # e.idx => done'[i] = done[i]
      BY <3>1, <3>2
    <3> QED BY <1>1, <3>2, <3>4, <3>5, <3>6, <3>7 DEF Awaited
  <2> QED BY <2>1, <2>2, <2>3, <2>4 DEF Poller
<1> QED BY <1>2, <1>3, <1>4, <1>5 DEF BasicInv

\* The worker touches no flag.
LEMMA WorkerBasic ==
  ASSUME BasicInv, Worker
  PROVE  BasicInv'
<1>1. /\ Types /\ Pairs /\ Roles /\ QueueBlocks /\ Awaited /\ TypeOK
  BY DEF BasicInv, Types
<1>2. /\ queue # <<>> /\ queue \in Seq(Slots)
      /\ queue' = Tail(queue) /\ ran' = [ran EXCEPT ![Head(queue)] = @ + 1]
      /\ UNCHANGED <<entries, fresh, hostVars, stream, req, done, pollVars, asked, overtaken>>
  BY <1>1 DEF Worker, TypeOK
<1>3. UNCHANGED <<ringNext, permNext, open, capturing, graph, snap, scanning, left, claimed, retire>>
  BY <1>2 DEF hostVars, pollVars
<1>4. queue' \in Seq(Slots) /\ ran' \in [Slots -> Nat]
  <2>1. Head(queue) \in Slots /\ Tail(queue) \in Seq(Slots)
    BY <1>2, HeadTailProperties
  <2> QED BY <1>1, <1>2, <2>1 DEF Types
<1>5. Types'
  BY <1>1, <1>2, <1>3, <1>4 DEF Types, TypeOK
<1>6. QueueBlocks' /\ Pairs' /\ Roles'
  <2>1. StreamOpen' = StreamOpen /\ GraphOpen' = GraphOpen /\ ArmSlot' = ArmSlot
    BY <1>3 DEF StreamOpen, GraphOpen, ArmSlot
  <2> QED BY <1>1, <1>2, <1>3, <2>1 DEF QueueBlocks, Pairs, Roles
<1>7. Awaited'
  BY <1>1, <1>2, <1>3, AwaitedStays
<1> QED BY <1>5, <1>6, <1>7 DEF BasicInv

\* At the start nothing is armed and no flag is up.
LEMMA InitBasic == Init => BasicInv
<1> SUFFICES ASSUME Init PROVE BasicInv
  OBVIOUS
<1>1. <<>> \in Seq(Op) /\ <<>> \in Seq(Slots) /\ Len(<<>>) = 0
  BY EmptySeq
<1>2. Types
  <2>1. TypeOK
    <3>1. 0 \in Nat /\ 0 \in 0 .. KPerm
      BY RingAssumption
    <3>2. [i \in Slots |-> 0] \in [Slots -> {0, 1}]
      OBVIOUS
    <3> QED BY <1>1, <3>1, <3>2 DEF Init, TypeOK
  <2>2. [i \in Slots |-> 0] \in [Slots -> Nat]
    OBVIOUS
  <2> QED BY <1>1, <2>1, <2>2 DEF Init, Types
<1>3. Pairs /\ Roles /\ Awaited
  BY DEF Init, Pairs, Roles, Awaited, Asking
<1>4. \A last : Blocks(<<>>, last)
  BY <1>1 DEF Blocks, SyncBlocks, SubmitsFirst
<1>5. QueueBlocks
  BY <1>4 DEF Init, QueueBlocks
<1> QED BY <1>2, <1>3, <1>5 DEF BasicInv

\* Every step keeps the basic invariant.
LEMMA StepBasic == BasicInv /\ [Next]_vars => BasicInv'
<1> SUFFICES ASSUME BasicInv, [Next]_vars PROVE BasicInv'
  OBVIOUS
<1>1. CASE Host
  BY <1>1, SubmitBasic, SyncBasic, GraphBasic DEF Host
<1>2. CASE GpuStep
  BY <1>2, GpuBasic
<1>3. CASE Poller
  BY <1>3, PollBasic
<1>4. CASE Worker
  BY <1>4, WorkerBasic
<1>5. CASE UNCHANGED vars
  BY <1>5 DEF BasicInv, Types, TypeOK, Pairs, ArmSlot, Roles, QueueBlocks, StreamOpen, GraphOpen, Awaited, Asking,
     vars, hostVars, pollVars, ghostVars
<1> QED BY <1>1, <1>2, <1>3, <1>4, <1>5 DEF Next

\* The hand-over's part that needs nothing of the ring's width holds throughout.
THEOREM Invariance == Spec => []BasicInv
<1>1. Init => BasicInv
  BY InitBasic
<1>2. BasicInv /\ [Next]_vars => BasicInv'
  BY StepBasic
<1> QED BY <1>1, <1>2, PTL DEF Spec

\* The types: slots stay within the array of flags, permanent ones included, and
\* the poller holds one entry at most (memop_arm, memop_poller).
THEOREM TypeCorrect == Spec => []TypeOK
<1>1. BasicInv => TypeOK
  BY DEF BasicInv, Types
<1> QED BY <1>1, Invariance, PTL

\* done is up only while the stream is at the sync that asked for it, whatever the
\* ring's width and however a graph is replayed: no sync passes on an answer to
\* another (sync_with_cuda_stream's last write).
THEOREM DoneAwaited == Spec => []DoneIsAwaited
<1>1. BasicInv => DoneIsAwaited
  <2> SUFFICES ASSUME BasicInv, NEW i \in Slots, done[i] = 1
      PROVE  stream # <<>> /\ Head(stream) \in {WaitDone(i), Clear(i)}
    BY DEF DoneIsAwaited
  <2>1. stream # <<>> /\ stream[1] \in {WaitDone(i), Clear(i)} /\ stream \in Seq(Op)
    BY DEF BasicInv, Awaited, Types
  <2>2. Head(stream) = stream[1]
    BY <2>1, TailFacts
  <2> QED BY <2>1, <2>2
<1> QED BY <1>1, Invariance, PTL

-----------------------------------------------------------------------------
(* The ring *)

\* The ring is wide for what a stream can hold: 4096 slots for 1024 operations.
WideRing == KRing > 3 * Depth + 4

\* A queue holds the ring writes with tickets from g to below top, in order and
\* each among its first Depth operations.
RingWrite(o) == o.op = "write" /\ o.idx < KRing

InOrder(q, g, top) ==
  /\ \A k \in 1 .. Len(q) :
       RingWrite(q[k]) => g <= q[k].n /\ q[k].n < top /\ q[k].idx = q[k].n % KRing /\ k <= Depth
  /\ \A n \in Nat : g <= n /\ n < top => \E k \in 1 .. Len(q) : RingWrite(q[k]) /\ q[k].n = n
  /\ \A k, l \in 1 .. Len(q) :
       RingWrite(q[k]) /\ RingWrite(q[l]) /\ k < l => q[k].n < q[l].n /\ q[l].n - q[k].n <= l - k

\* The stream has run the ring writes with tickets below g.
Tickets(g) == InOrder(stream, g, ringNext)

\* Graphs hold permanent slots that have been given out.
GivenOut == {i \in Slots : i < KRing + permNext}

PermanentOps ==
  /\ \A k \in 1 .. Len(stream) : stream[k].idx \in GivenOut
  /\ \A k \in 1 .. Len(graph) : graph[k].idx >= KRing /\ graph[k].idx \in GivenOut
  /\ open # None => open \in GivenOut /\ (capturing => open >= KRing)

\* Entries are named by their tickets, in arming order; permanent ones stay.
Armed ==
  /\ \A e \in entries :
       /\ e.at < ringNext + permNext
       /\ e.permanent => e.n < permNext /\ e.idx = KRing + e.n
       /\ ~e.permanent => e.n < ringNext /\ e.idx = e.n % KRing
  /\ \A e, f \in entries :
       e.permanent = f.permanent => (e.n = f.n => e = f) /\ (e.n < f.n => e.at < f.at)
  /\ \A n \in Nat : n < permNext => \E e \in entries : e.permanent /\ e.n = n

\* The copy is what was armed before it was taken, at a, less what has left since.
Copy(a) ==
  /\ fresh => snap = entries
  /\ scanning => a <= ringNext + permNext /\ snap = {e \in entries : e.at < a}

\* g1 and s are the tickets run and armed when the copy was taken, g0 the tickets
\* run when the copy before it was.
Window(g0, g1, s, g) ==
  /\ g0 <= g1 /\ g1 <= g /\ g <= ringNext /\ s <= ringNext
  /\ g1 <= g0 + Depth + 2 /\ s <= g1 + Depth /\ g <= s + 2

\* What the stream has asked for by then is handled in the scan and then leaves;
\* what it has not asked for is still there.
Live(g0, g1, s, g) ==
  /\ \A e \in entries : ~e.permanent =>
       /\ g0 <= e.n /\ (~scanning => g1 <= e.n)
       /\ e.n < g => req[e.idx] = 1 \/ e \in claimed \/ (scanning /\ e.idx \in retire)
       /\ scanning /\ e.n < g1 => (e \in left /\ req[e.idx] = 1) \/ e \in claimed \/ e.idx \in retire
  /\ \A n \in Nat : n < ringNext /\ (g <= n \/ s <= n) =>
       \E e \in entries : ~e.permanent /\ e.n = n

\* Flags are of entries the stream has reached, and one handled is down.
Raised(s, g) ==
  /\ \A i \in Slots : req[i] = 1 =>
       IF i < KRing THEN \E e \in entries : ~e.permanent /\ e.idx = i /\ e.n < g ELSE i \in GivenOut
  /\ scanning => /\ \A e \in snap : ~e.permanent => e.n < s
                 /\ \A i \in retire :
                      /\ req[i] = 0
                      /\ \E e \in snap : ~e.permanent /\ e.idx = i /\ e.n < g
  /\ \A e \in claimed : ~e.permanent => e.n < g /\ req[e.idx] = 0

RingInv(g0, g1, s, a, g) ==
  /\ Tickets(g) /\ PermanentOps /\ Armed /\ Copy(a)
  /\ Window(g0, g1, s, g) /\ Live(g0, g1, s, g) /\ Raised(s, g)

RingSafe == \E g0, g1, s, a, g \in Nat : RingInv(g0, g1, s, a, g)

\* A write is an operation that has a ticket.
LEMMA WriteTicket ==
  ASSUME NEW q \in Seq(Op), NEW k \in 1 .. Len(q)
  PROVE  q[k] \in Op /\ q[k].idx \in Slots /\ (q[k].op = "write" => q[k].n \in Nat)
<1>1. q[k] \in Op
  BY ElementOfSeq
<1> QED BY <1>1 DEF Op

\* A queue holds no more than Depth ring writes.
LEMMA AtMostDepth ==
  ASSUME NEW q \in Seq(Op), NEW g \in Nat, NEW top \in Nat, g <= top, InOrder(q, g, top)
  PROVE  top <= g + Depth
<1>1. CASE g = top
  BY <1>1, Sizes
<1>2. CASE g < top
  <2>1. PICK k \in 1 .. Len(q) : RingWrite(q[k]) /\ q[k].n = g
    BY <1>2 DEF InOrder
  <2>2. top - 1 \in Nat /\ g <= top - 1 /\ top - 1 < top
    BY <1>2
  <2>3. PICK l \in 1 .. Len(q) : RingWrite(q[l]) /\ q[l].n = top - 1
    BY <2>2 DEF InOrder
  <2>4. k <= Depth /\ l <= Depth /\ Len(q) \in Nat
    BY <2>1, <2>3, LenProperties DEF InOrder
  <2>5. CASE k = l
    BY <1>2, <2>1, <2>3, <2>4, <2>5, Sizes
  <2>6. CASE k < l
    <3>1. q[l].n - q[k].n <= l - k
      BY <2>1, <2>3, <2>6 DEF InOrder
    <3> QED BY <1>2, <2>1, <2>3, <2>4, <2>6, <3>1, Sizes
  <2>7. CASE l < k
    <3>1. q[l].n < q[k].n
      BY <2>1, <2>3, <2>7 DEF InOrder
    <3> QED BY <1>2, <2>1, <2>3, <3>1
  <2> QED BY <2>4, <2>5, <2>6, <2>7
<1> QED BY <1>1, <1>2

\* Running the head of a queue runs the next ticket or none.
LEMMA TicketsTail ==
  ASSUME NEW q \in Seq(Op), q # <<>>, NEW g \in Nat, NEW top \in Nat, InOrder(q, g, top)
  PROVE  IF RingWrite(q[1]) THEN q[1].n = g /\ g < top /\ InOrder(Tail(q), g + 1, top)
                            ELSE InOrder(Tail(q), g, top)
<1> DEFINE t == Tail(q)
<1>1. /\ Len(q) \in Nat /\ Len(q) >= 1 /\ t \in Seq(Op) /\ Len(t) = Len(q) - 1
      /\ \A k \in 1 .. Len(t) : t[k] = q[k + 1]
  BY TailFacts
<1> HIDE DEF t
<1>2. \A k \in 1 .. Len(t) : k + 1 \in 1 .. Len(q) /\ t[k] = q[k + 1]
  BY <1>1
<1>3. \A k \in 2 .. Len(q) : k - 1 \in 1 .. Len(t) /\ t[k - 1] = q[k]
  <2>1. \A k \in 2 .. Len(q) : k - 1 \in 1 .. Len(t) /\ (k - 1) + 1 = k
    BY <1>1
  <2> QED BY <1>1, <2>1
<1>4. \A k \in 1 .. Len(q) : RingWrite(q[k]) => q[k].n \in Nat
  BY WriteTicket DEF RingWrite
<1>5. \A k, l \in 1 .. Len(t) :
        RingWrite(t[k]) /\ RingWrite(t[l]) /\ k < l => t[k].n < t[l].n /\ t[l].n - t[k].n <= l - k
  <2> SUFFICES ASSUME NEW k \in 1 .. Len(t), NEW l \in 1 .. Len(t), RingWrite(t[k]), RingWrite(t[l]), k < l
      PROVE  t[k].n < t[l].n /\ t[l].n - t[k].n <= l - k
    OBVIOUS
  <2>1. k + 1 \in 1 .. Len(q) /\ l + 1 \in 1 .. Len(q) /\ k + 1 < l + 1 /\ t[k] = q[k + 1] /\ t[l] = q[l + 1]
    BY <1>1, <1>2
  <2>2. q[k + 1].n < q[l + 1].n /\ q[l + 1].n - q[k + 1].n <= (l + 1) - (k + 1)
    BY <2>1 DEF InOrder
  <2>3. (l + 1) - (k + 1) = l - k
    BY <1>1
  <2> QED BY <2>1, <2>2, <2>3
<1>6. 1 \in 1 .. Len(q)
  BY <1>1
<1>7. CASE RingWrite(q[1])
  <2>1. q[1].n \in Nat /\ g <= q[1].n /\ q[1].n < top
    BY <1>4, <1>6, <1>7 DEF InOrder
  <2>2. q[1].n = g
    <3>1. g <= g /\ g < top
      BY <2>1
    <3>2. PICK k \in 1 .. Len(q) : RingWrite(q[k]) /\ q[k].n = g
      BY <3>1 DEF InOrder
    <3>3. 1 < k => q[1].n < q[k].n
      BY <1>6, <1>7, <3>2 DEF InOrder
    <3>4. k = 1 \/ 1 < k
      BY <1>1
    <3> QED BY <2>1, <3>2, <3>3, <3>4
  <2>3. ASSUME NEW k \in 1 .. Len(t), RingWrite(t[k])
        PROVE  g + 1 <= t[k].n /\ t[k].n < top /\ t[k].idx = t[k].n % KRing /\ k <= Depth
    <3>1. k + 1 \in 1 .. Len(q) /\ t[k] = q[k + 1] /\ 1 < k + 1
      BY <1>1, <1>2
    <3>2. /\ q[k + 1].n < top /\ q[k + 1].idx = q[k + 1].n % KRing /\ k + 1 <= Depth
          /\ q[1].n < q[k + 1].n /\ q[k + 1].n \in Nat
      BY <1>4, <1>6, <1>7, <2>3, <3>1 DEF InOrder
    <3> QED BY <1>1, <2>1, <2>2, <3>1, <3>2, Sizes
  <2>4. ASSUME NEW n \in Nat, g + 1 <= n, n < top
        PROVE  \E k \in 1 .. Len(t) : RingWrite(t[k]) /\ t[k].n = n
    <3>1. PICK k \in 1 .. Len(q) : RingWrite(q[k]) /\ q[k].n = n
      BY <2>4 DEF InOrder
    <3>2. k # 1
      BY <2>2, <2>4, <3>1
    <3>3. k \in 2 .. Len(q)
      BY <1>1, <3>2
    <3> QED BY <1>3, <3>1, <3>3
  <2>5. InOrder(t, g + 1, top)
    BY <1>5, <2>3, <2>4 DEF InOrder
  <2> QED BY <1>7, <2>1, <2>2, <2>5 DEF t
<1>8. CASE ~RingWrite(q[1])
  <2>1. ASSUME NEW k \in 1 .. Len(t), RingWrite(t[k])
        PROVE  g <= t[k].n /\ t[k].n < top /\ t[k].idx = t[k].n % KRing /\ k <= Depth
    <3>1. k + 1 \in 1 .. Len(q) /\ t[k] = q[k + 1]
      BY <1>1, <1>2
    <3>2. /\ g <= q[k + 1].n /\ q[k + 1].n < top /\ q[k + 1].idx = q[k + 1].n % KRing /\ k + 1 <= Depth
      BY <2>1, <3>1 DEF InOrder
    <3> QED BY <1>1, <3>1, <3>2, Sizes
  <2>2. ASSUME NEW n \in Nat, g <= n, n < top
        PROVE  \E k \in 1 .. Len(t) : RingWrite(t[k]) /\ t[k].n = n
    <3>1. PICK k \in 1 .. Len(q) : RingWrite(q[k]) /\ q[k].n = n
      BY <2>2 DEF InOrder
    <3>2. k \in 2 .. Len(q)
      BY <1>1, <1>8, <3>1
    <3> QED BY <1>3, <3>1, <3>2
  <2>3. InOrder(t, g, top)
    BY <1>5, <2>1, <2>2 DEF InOrder
  <2> QED BY <1>8, <2>3 DEF t
<1> QED BY <1>7, <1>8

\* Operations that write no ring slot can follow.
LEMMA TicketsSame ==
  ASSUME NEW q \in Seq(Op), NEW r \in Seq(Op), NEW g \in Nat, NEW top \in Nat, InOrder(q, g, top),
         \A k \in 1 .. Len(r) : ~RingWrite(r[k])
  PROVE  InOrder(q \o r, g, top)
<1> DEFINE p == q \o r
<1>1. /\ p \in Seq(Op) /\ Len(q) \in Nat /\ Len(r) \in Nat /\ Len(p) = Len(q) + Len(r)
      /\ \A k \in 1 .. Len(q) : p[k] = q[k]
      /\ \A k \in 1 .. Len(r) : p[Len(q) + k] = r[k]
  BY ConcatFacts
<1> HIDE DEF p
<1>2. \A k \in 1 .. Len(p) : RingWrite(p[k]) => k \in 1 .. Len(q) /\ p[k] = q[k]
  <2> SUFFICES ASSUME NEW k \in 1 .. Len(p), RingWrite(p[k]), k > Len(q) PROVE FALSE
    BY <1>1
  <2>1. k - Len(q) \in 1 .. Len(r) /\ Len(q) + (k - Len(q)) = k
    BY <1>1
  <2> QED BY <1>1, <2>1
<1>3. \A k \in 1 .. Len(q) : k \in 1 .. Len(p) /\ p[k] = q[k]
  BY <1>1
<1>4. InOrder(p, g, top)
  BY <1>2, <1>3 DEF InOrder
<1> QED BY <1>4 DEF p

\* A call's operations, of which the first writes the next ring slot, can follow when
\* there is room.
LEMMA TicketsGive ==
  ASSUME NEW q \in Seq(Op), NEW r \in Seq(Op), NEW g \in Nat, NEW top \in Nat, InOrder(q, g, top), g <= top,
         Len(q) < Depth, r # <<>>, r[1] = Write(top % KRing, top),
         \A k \in 1 .. Len(r) : k > 1 => r[k].op # "write"
  PROVE  InOrder(q \o r, g, top + 1)
<1> DEFINE p == q \o r
<1>1. /\ p \in Seq(Op) /\ Len(q) \in Nat /\ Len(r) \in Nat /\ Len(p) = Len(q) + Len(r)
      /\ \A k \in 1 .. Len(q) : p[k] = q[k]
      /\ \A k \in 1 .. Len(r) : p[Len(q) + k] = r[k]
  BY ConcatFacts
<1> HIDE DEF p
<1>2. Len(r) >= 1
  BY EmptySeq
<1> DEFINE m == Len(q) + 1
<1>3. top % KRing \in 0 .. KRing - 1
  BY ModRange, Sizes
<1>4. m \in 1 .. Len(p) /\ p[m] = Write(top % KRing, top) /\ m <= Depth
  BY <1>1, <1>2, Sizes
<1>5. RingWrite(p[m]) /\ p[m].n = top /\ p[m].idx = top % KRing
  BY <1>3, <1>4, Sizes DEF RingWrite, Write
<1> HIDE DEF m
<1>6. m = Len(q) + 1
  BY DEF m
<1>7. \A k \in 1 .. Len(p) : RingWrite(p[k]) => k = m \/ (k \in 1 .. Len(q) /\ p[k] = q[k])
  <2> SUFFICES ASSUME NEW k \in 1 .. Len(p), RingWrite(p[k]), k > Len(q) + 1 PROVE FALSE
    BY <1>1, <1>6
  <2>1. k - Len(q) \in 1 .. Len(r) /\ Len(q) + (k - Len(q)) = k /\ k - Len(q) > 1
    BY <1>1
  <2> QED BY <1>1, <2>1 DEF RingWrite
<1>8. \A k \in 1 .. Len(q) : k \in 1 .. Len(p) /\ p[k] = q[k] /\ k < m
  BY <1>1, <1>6
<1>9. \A k \in 1 .. Len(q) : RingWrite(q[k]) =>
        q[k].n \in Nat /\ g <= q[k].n /\ q[k].n < top /\ top - q[k].n <= m - k
  <2> SUFFICES ASSUME NEW k \in 1 .. Len(q), RingWrite(q[k])
      PROVE  q[k].n \in Nat /\ g <= q[k].n /\ q[k].n < top /\ top - q[k].n <= m - k
    OBVIOUS
  <2>1. q[k].n \in Nat /\ g <= q[k].n /\ q[k].n < top
    BY WriteTicket DEF RingWrite, InOrder
  <2>2. top - 1 \in Nat /\ g <= top - 1 /\ top - 1 < top
    BY <2>1
  <2>3. PICK l \in 1 .. Len(q) : RingWrite(q[l]) /\ q[l].n = top - 1
    BY <2>2 DEF InOrder
  <2>4. CASE k = l
    BY <1>1, <1>6, <2>1, <2>3, <2>4
  <2>5. CASE k < l
    <3>1. q[l].n - q[k].n <= l - k
      BY <2>3, <2>5 DEF InOrder
    <3> QED BY <1>1, <1>6, <2>1, <2>3, <3>1
  <2>6. CASE l < k
    <3>1. q[l].n < q[k].n
      BY <2>3, <2>6 DEF InOrder
    <3> QED BY <2>1, <2>3, <3>1
  <2> QED BY <1>1, <2>4, <2>5, <2>6
<1>10. ASSUME NEW k \in 1 .. Len(p), RingWrite(p[k])
       PROVE  g <= p[k].n /\ p[k].n < top + 1 /\ p[k].idx = p[k].n % KRing /\ k <= Depth
  <2>1. CASE k = m
    BY <1>4, <1>5, <1>10, <2>1
  <2>2. CASE k \in 1 .. Len(q) /\ p[k] = q[k]
    <3>1. g <= q[k].n /\ q[k].n < top /\ q[k].idx = q[k].n % KRing /\ k <= Depth
      BY <1>10, <2>2 DEF InOrder
    <3> QED BY <1>9, <1>10, <2>2, <3>1
  <2> QED BY <1>7, <1>10, <2>1, <2>2
<1>11. ASSUME NEW n \in Nat, g <= n, n < top + 1
       PROVE  \E k \in 1 .. Len(p) : RingWrite(p[k]) /\ p[k].n = n
  <2>1. CASE n = top
    BY <1>4, <1>5, <2>1
  <2>2. CASE n < top
    <3>1. PICK k \in 1 .. Len(q) : RingWrite(q[k]) /\ q[k].n = n
      BY <1>11, <2>2 DEF InOrder
    <3> QED BY <1>8, <3>1
  <2> QED BY <1>11, <2>1, <2>2
<1>12. ASSUME NEW k \in 1 .. Len(p), NEW l \in 1 .. Len(p), RingWrite(p[k]), RingWrite(p[l]), k < l
       PROVE  p[k].n < p[l].n /\ p[l].n - p[k].n <= l - k
  <2>1. k \in 1 .. Len(q) /\ p[k] = q[k]
    BY <1>1, <1>6, <1>7, <1>12
  <2>2. CASE l = m
    BY <1>5, <1>9, <1>12, <2>1, <2>2
  <2>3. CASE l \in 1 .. Len(q) /\ p[l] = q[l]
    BY <1>12, <2>1, <2>3 DEF InOrder
  <2> QED BY <1>7, <1>12, <2>2, <2>3
<1>13. InOrder(p, g, top + 1)
  BY <1>10, <1>11, <1>12 DEF InOrder
<1> QED BY <1>13 DEF p

\* The live ring entries span less than the ring, so no two entries share a slot.
LEMMA Room ==
  ASSUME WideRing, Types, NEW g0 \in Nat, NEW g1 \in Nat, NEW s \in Nat, NEW a \in Nat, NEW g \in Nat,
         RingInv(g0, g1, s, a, g)
  PROVE  /\ ringNext <= g + Depth /\ ringNext < g0 + KRing
         /\ \A e \in entries : IF e.permanent THEN e.idx >= KRing ELSE e.idx < KRing
         /\ \A e, f \in entries : e.idx = f.idx => e = f
<1>1. ringNext \in Nat /\ stream \in Seq(Op)
      /\ entries \subseteq [at : Nat, n : Nat, idx : Slots, sync : BOOLEAN, permanent : BOOLEAN]
  BY DEF Types, TypeOK
<1>2. InOrder(stream, g, ringNext) /\ Window(g0, g1, s, g) /\ Armed /\ Live(g0, g1, s, g)
  BY DEF RingInv, Tickets
<1>3. ringNext <= g + Depth
  BY <1>1, <1>2, AtMostDepth DEF Window
<1>4. ringNext < g0 + KRing
  BY <1>1, <1>2, <1>3, Sizes DEF Window, WideRing
<1>5. ASSUME NEW e \in entries
      PROVE  /\ e.n \in Nat /\ e.permanent \in BOOLEAN
             /\ e.permanent => e.idx = KRing + e.n /\ e.idx >= KRing
             /\ ~e.permanent => /\ e.idx = e.n % KRing /\ e.idx < KRing
                                /\ g0 <= e.n /\ e.n < ringNext
  <2>1. e.n \in Nat /\ e.permanent \in BOOLEAN
    BY <1>1
  <2>2. e.permanent => e.idx = KRing + e.n /\ e.idx >= KRing
    BY <1>2, <2>1, Sizes DEF Armed
  <2>3. ~e.permanent => e.idx = e.n % KRing /\ g0 <= e.n /\ e.n < ringNext
    BY <1>2 DEF Armed, Live
  <2>4. e.n % KRing \in 0 .. KRing - 1
    BY <2>1, ModRange, Sizes
  <2>5. ~e.permanent => e.idx < KRing
    BY <2>3, <2>4, Sizes
  <2> QED BY <2>1, <2>2, <2>3, <2>5
<1>6. ASSUME NEW e \in entries, NEW f \in entries, e.idx = f.idx
      PROVE  e = f
  <2>1. e.permanent = f.permanent
    <3>1. CASE e.permanent
      <4>1. e.idx \in Nat /\ ~(f.idx < KRing)
        BY <1>1, <1>5, <1>6, <3>1, Sizes DEF Slots
      <4>2. f.permanent
        BY <1>5, <4>1
      <4> QED BY <3>1, <4>2, <1>5
    <3>2. CASE ~e.permanent
      <4>1. e.idx < KRing /\ e.idx \in Slots
        BY <1>1, <1>5, <3>2
      <4>2. ~(e.idx >= KRing)
        BY <4>1, Sizes DEF Slots
      <4>3. ~f.permanent
        BY <1>5, <1>6, <4>2
      <4> QED BY <1>5, <3>2, <4>3
    <3> QED BY <1>5, <3>1, <3>2
  <2>2. e.n = f.n
    <3>1. CASE e.permanent
      BY <1>5, <1>6, <2>1, <3>1, Sizes
    <3>2. CASE ~e.permanent
      <4>1. e.n % KRing = f.n % KRing /\ g0 <= e.n /\ e.n < ringNext /\ g0 <= f.n /\ f.n < ringNext
            /\ e.n \in Nat /\ f.n \in Nat
        BY <1>5, <1>6, <2>1, <3>2
      <4>2. e.n < f.n => e.n + KRing <= f.n
        BY <4>1, ModGap, Sizes
      <4>3. f.n < e.n => f.n + KRing <= e.n
        BY <4>1, ModGap, Sizes
      <4> QED BY <1>1, <1>4, <4>1, <4>2, <4>3, Sizes
    <3> QED BY <3>1, <3>2
  <2> QED BY <1>2, <2>1, <2>2 DEF Armed
<1> QED BY <1>3, <1>4, <1>5, <1>6

\* At the start all tickets are 0.
LEMMA InitRing == Init => RingInv(0, 0, 0, 0, 0)
<1> SUFFICES ASSUME Init PROVE RingInv(0, 0, 0, 0, 0)
  OBVIOUS
<1>1. Len(<<>>) = 0 /\ 0 \in Nat
  BY EmptySeq
<1>2. Tickets(0)
  BY <1>1 DEF Init, Tickets, InOrder
<1>3. PermanentOps /\ Armed /\ Copy(0)
  BY <1>1 DEF Init, PermanentOps, Armed, Copy
<1>4. Window(0, 0, 0, 0)
  BY Sizes DEF Init, Window
<1>5. Live(0, 0, 0, 0) /\ Raised(0, 0)
  BY DEF Init, Live, Raised
<1> QED BY <1>2, <1>3, <1>4, <1>5 DEF RingInv

\* The operations of a call: it writes its slot, and names no slot but that and the
\* one its pair began with.
CallOps(r) ==
  /\ r # <<>> /\ r[1] = Write(ArmSlot, Ticket)
  /\ \A k \in 1 .. Len(r) :
       /\ k > 1 => r[k].op # "write"
       /\ r[k].idx = ArmSlot \/ (open # None /\ r[k].idx = open)

\* A call that arms an entry: the next ticket, at the end of the vector and of a queue.
LEMMA ArmRing ==
  ASSUME BasicInv, NEW g0 \in Nat, NEW g1 \in Nat, NEW s \in Nat, NEW a \in Nat, NEW g \in Nat,
         RingInv(g0, g1, s, a, g),
         NEW sync \in BOOLEAN, Arm(sync),
         NEW r \in Seq(Op), Give(r), CallOps(r),
         open' \in {ArmSlot, None},
         UNCHANGED <<capturing, req, claimed, snap, scanning, left, retire>>
  PROVE  RingInv(g0, g1, s, a, g)'
<1>1. /\ Types /\ Pairs /\ Tickets(g) /\ PermanentOps /\ Armed /\ Copy(a)
      /\ Window(g0, g1, s, g) /\ Live(g0, g1, s, g) /\ Raised(s, g)
  BY DEF BasicInv, RingInv
<1>2. /\ ringNext \in Nat /\ permNext \in Nat /\ capturing \in BOOLEAN
      /\ stream \in Seq(Op) /\ graph \in Seq(Op)
      /\ entries \subseteq [at : Nat, n : Nat, idx : Slots, sync : BOOLEAN, permanent : BOOLEAN]
  BY <1>1, Sizes DEF Types, TypeOK
<1>2n. ringNext \in Nat /\ permNext \in Nat /\ KRing \in Nat
  BY <1>2, Sizes
<1> DEFINE E == Entry(sync)
<1>3. /\ E.at = ringNext + permNext /\ E.n = Ticket /\ E.idx = ArmSlot /\ E.permanent = capturing
      /\ entries' = entries \cup {E} /\ fresh' = FALSE
  BY DEF Entry, Arm
<1> HIDE DEF E
<1>4. capturing => /\ permNext' = permNext + 1 /\ ringNext' = ringNext
                   /\ Ticket = permNext /\ ArmSlot = KRing + permNext
                   /\ graph' = graph \o r /\ stream' = stream
  BY DEF Arm, Give, Ticket, ArmSlot
<1>5. ~capturing => /\ permNext' = permNext /\ ringNext' = ringNext + 1
                    /\ Ticket = ringNext /\ ArmSlot = ringNext % KRing
                    /\ Len(stream) < Depth /\ stream' = stream \o r /\ graph' = graph
  BY DEF Arm, Give, Ticket, ArmSlot
<1>6. PICK top \in Nat, given \in Nat :
        /\ ringNext' = top /\ permNext' = given /\ ringNext <= top /\ permNext <= given
        /\ ringNext + permNext < top + given
  <2>1. CASE capturing
    <3>1. permNext + 1 \in Nat /\ ringNext + permNext < ringNext + (permNext + 1)
          /\ permNext <= permNext + 1
      BY <1>2n
    <3> QED BY <1>2n, <1>4, <2>1, <3>1
  <2>2. CASE ~capturing
    <3>1. ringNext + 1 \in Nat /\ ringNext + permNext < (ringNext + 1) + permNext
          /\ ringNext <= ringNext + 1
      BY <1>2n
    <3> QED BY <1>2n, <1>5, <2>2, <3>1
  <2> QED BY <2>1, <2>2
<1>7. Tickets(g)'
  <2>1. InOrder(stream, g, ringNext) /\ g <= ringNext
    BY <1>1 DEF Tickets, Window
  <2>2. CASE capturing
    BY <1>4, <2>1, <2>2 DEF Tickets
  <2>3. CASE ~capturing
    <3>1. /\ r # <<>> /\ r[1] = Write(ringNext % KRing, ringNext)
          /\ \A k \in 1 .. Len(r) : k > 1 => r[k].op # "write"
      BY <1>5, <2>3 DEF CallOps
    <3>2. InOrder(stream \o r, g, ringNext + 1)
      BY <1>2, <1>5, <2>1, <2>3, <3>1, TicketsGive
    <3> QED BY <1>5, <2>3, <3>2 DEF Tickets
  <2> QED BY <2>2, <2>3
<1>8. ArmSlot \in GivenOut' /\ \A i \in Slots : i \in GivenOut => i \in GivenOut'
  <2>1. \A i \in Slots : i \in GivenOut => i \in GivenOut'
    <3> SUFFICES ASSUME NEW i \in Slots, i < KRing + permNext PROVE i < KRing + given
      BY <1>6 DEF GivenOut
    <3>1. i \in Nat
      BY Sizes DEF Slots
    <3> QED BY <1>2n, <1>6, <3>1
  <2>2. ringNext % KRing \in 0 .. KRing - 1
    BY <1>2, ModRange, Sizes
  <2>3. ArmSlot < KRing + given
    <3>1. CASE capturing
      <4>1. given = permNext + 1 /\ ArmSlot = KRing + permNext
        BY <1>4, <1>6, <3>1
      <4> QED BY <1>2n, <4>1
    <3>2. CASE ~capturing
      <4>1. ArmSlot \in 0 .. KRing - 1
        BY <1>5, <2>2, <3>2
      <4> QED BY <1>2n, <1>6, <4>1
    <3> QED BY <3>1, <3>2
  <2>4. ArmSlot \in Slots
    BY <1>1, SlotFacts DEF Arm
  <2> QED BY <1>6, <2>1, <2>3, <2>4 DEF GivenOut
<1>9. PermanentOps'
  <2>1. open # None => open \in Slots /\ open \in GivenOut /\ (capturing => open >= KRing)
    BY <1>1 DEF PermanentOps, Types, TypeOK
  <2>2. capturing => ArmSlot >= KRing
    BY <1>2, <1>4, Sizes
  <2>3. \A k \in 1 .. Len(r) : r[k].idx \in GivenOut' /\ (capturing => r[k].idx >= KRing)
    BY <1>8, <2>1, <2>2 DEF CallOps
  <2>4. ASSUME NEW q \in Seq(Op)
        PROVE  /\ Len(q \o r) = Len(q) + Len(r) /\ Len(q) \in Nat /\ Len(r) \in Nat
               /\ \A k \in 1 .. Len(q \o r) :
                    \/ k \in 1 .. Len(q) /\ (q \o r)[k] = q[k]
                    \/ \E m \in 1 .. Len(r) : (q \o r)[k] = r[m]
    <3>1. /\ Len(q \o r) = Len(q) + Len(r) /\ Len(q) \in Nat /\ Len(r) \in Nat
          /\ \A k \in 1 .. Len(q) : (q \o r)[k] = q[k]
          /\ \A k \in 1 .. Len(r) : (q \o r)[Len(q) + k] = r[k]
      BY ConcatFacts
    <3>2. ASSUME NEW k \in 1 .. Len(q \o r), k \notin 1 .. Len(q)
          PROVE  \E m \in 1 .. Len(r) : (q \o r)[k] = r[m]
      <4>1. k - Len(q) \in 1 .. Len(r) /\ Len(q) + (k - Len(q)) = k
        BY <3>1, <3>2
      <4> QED BY <3>1, <4>1
    <3> QED BY <3>1, <3>2
  <2>5. \A k \in 1 .. Len(stream') : stream'[k].idx \in GivenOut'
    <3>1. \A k \in 1 .. Len(stream) : stream[k].idx \in GivenOut'
      BY <1>1, <1>2, <1>8, WriteTicket DEF PermanentOps
    <3>2. CASE capturing
      BY <1>4, <3>1, <3>2
    <3>3. CASE ~capturing
      <4> SUFFICES ASSUME NEW k \in 1 .. Len(stream \o r) PROVE (stream \o r)[k].idx \in GivenOut'
        BY <1>5, <3>3
      <4>1. \/ k \in 1 .. Len(stream) /\ (stream \o r)[k] = stream[k]
            \/ \E m \in 1 .. Len(r) : (stream \o r)[k] = r[m]
        BY <1>2, <2>4
      <4> QED BY <2>3, <3>1, <4>1
    <3> QED BY <3>2, <3>3
  <2>6. \A k \in 1 .. Len(graph') : graph'[k].idx >= KRing /\ graph'[k].idx \in GivenOut'
    <3>1. \A k \in 1 .. Len(graph) : graph[k].idx >= KRing /\ graph[k].idx \in GivenOut'
      BY <1>1, <1>2, <1>8, WriteTicket DEF PermanentOps
    <3>2. CASE capturing
      <4> SUFFICES ASSUME NEW k \in 1 .. Len(graph \o r)
          PROVE  (graph \o r)[k].idx >= KRing /\ (graph \o r)[k].idx \in GivenOut'
        BY <1>4, <3>2
      <4>1. \/ k \in 1 .. Len(graph) /\ (graph \o r)[k] = graph[k]
            \/ \E m \in 1 .. Len(r) : (graph \o r)[k] = r[m]
        BY <1>2, <2>4
      <4> QED BY <2>3, <3>1, <3>2, <4>1
    <3>3. CASE ~capturing
      BY <1>5, <3>1, <3>3
    <3> QED BY <3>2, <3>3
  <2>7. open' # None => open' \in GivenOut' /\ (capturing' => open' >= KRing)
    BY <1>8, <2>2
  <2> QED BY <2>5, <2>6, <2>7 DEF PermanentOps
<1>10. Armed'
  <2>1. ASSUME NEW e \in entries'
        PROVE  /\ e.at < ringNext' + permNext'
               /\ e.permanent => e.n < permNext' /\ e.idx = KRing + e.n
               /\ ~e.permanent => e.n < ringNext' /\ e.idx = e.n % KRing
    <3>1. CASE e \in entries
      <4>1. e.at \in Nat /\ e.n \in Nat
        BY <1>2, <3>1
      <4>2. /\ e.at < ringNext + permNext
            /\ e.permanent => e.n < permNext /\ e.idx = KRing + e.n
            /\ ~e.permanent => e.n < ringNext /\ e.idx = e.n % KRing
        BY <1>1, <3>1 DEF Armed
      <4>3. e.at < top + given /\ (e.n < permNext => e.n < given) /\ (e.n < ringNext => e.n < top)
        BY <1>2n, <1>6, <4>1, <4>2
      <4> QED BY <1>6, <4>2, <4>3
    <3>2. CASE e = E
      <4>1. CASE capturing
        <5>1. e.at = ringNext + permNext /\ e.n = permNext /\ e.idx = KRing + permNext /\ e.permanent
          BY <1>3, <1>4, <3>2, <4>1
        <5>2. given = permNext + 1 /\ e.n < given /\ e.at < top + given
          BY <1>2n, <1>4, <1>6, <4>1, <5>1
        <5> QED BY <1>6, <5>1, <5>2
      <4>2. CASE ~capturing
        <5>1. e.at = ringNext + permNext /\ e.n = ringNext /\ e.idx = ringNext % KRing /\ ~e.permanent
          BY <1>3, <1>5, <3>2, <4>2
        <5>2. top = ringNext + 1 /\ e.n < top /\ e.at < top + given
          BY <1>2n, <1>5, <1>6, <4>2, <5>1
        <5> QED BY <1>6, <5>1, <5>2
      <4> QED BY <4>1, <4>2
    <3> QED BY <1>3, <3>1, <3>2
  <2>2. ASSUME NEW e \in entries, e.permanent = E.permanent
        PROVE  e.n < E.n /\ e.at < E.at /\ e.n \in Nat /\ e.at \in Nat /\ E.n \in Nat /\ E.at \in Nat
    <3>1. e.at \in Nat /\ e.n \in Nat /\ e.at < ringNext + permNext
      BY <1>1, <1>2 DEF Armed
    <3>0. /\ e.permanent => e.n < permNext
          /\ ~e.permanent => e.n < ringNext
      BY <1>1 DEF Armed
    <3>2. CASE capturing
      BY <1>2, <1>3, <1>4, <2>2, <3>0, <3>1, <3>2
    <3>3. CASE ~capturing
      BY <1>2, <1>3, <1>5, <2>2, <3>0, <3>1, <3>3
    <3> QED BY <3>2, <3>3
  <2>3. ASSUME NEW e \in entries', NEW f \in entries', e.permanent = f.permanent
        PROVE  (e.n = f.n => e = f) /\ (e.n < f.n => e.at < f.at)
    <3>1. CASE e \in entries /\ f \in entries
      BY <1>1, <2>3, <3>1 DEF Armed
    <3>2. CASE e \in entries /\ f = E
      BY <2>2, <2>3, <3>2
    <3>3. CASE e = E /\ f \in entries
      BY <2>2, <2>3, <3>3
    <3>4. CASE e = E /\ f = E
      <4>1. E.n \in Nat
        BY <1>2, <1>3, <1>4, <1>5
      <4> QED BY <3>4, <4>1
    <3> QED BY <1>3, <3>1, <3>2, <3>3, <3>4
  <2>4. ASSUME NEW n \in Nat, n < permNext'
        PROVE  \E e \in entries' : e.permanent /\ e.n = n
    <3>1. CASE n < permNext
      BY <1>1, <1>3, <3>1 DEF Armed
    <3>2. CASE ~(n < permNext)
      <4>1. capturing /\ n = permNext
        BY <1>2, <1>4, <1>5, <2>4, <3>2
      <4>2. E \in entries' /\ E.permanent /\ E.n = n
        BY <1>3, <1>4, <4>1
      <4> QED BY <4>2
    <3> QED BY <3>1, <3>2
  <2> QED BY <2>1, <2>3, <2>4 DEF Armed
<1>11. Copy(a)'
  <2>1. scanning => a <= top + given /\ E.at \in Nat /\ ~(E.at < a)
    <3>1. scanning => a <= ringNext + permNext
      BY <1>1 DEF Copy
    <3> QED BY <1>2n, <1>3, <1>6, <3>1
  <2>2. scanning => {e \in entries' : e.at < a} = {e \in entries : e.at < a}
    BY <1>3, <2>1
  <2> QED BY <1>1, <1>3, <1>6, <2>1, <2>2 DEF Copy
<1>12. Window(g0, g1, s, g)'
  BY <1>1, <1>2, <1>6 DEF Window
<1>13. ASSUME ~E.permanent
       PROVE  E.n = ringNext /\ g0 <= E.n /\ g1 <= E.n /\ g <= E.n /\ ~(E.n < g) /\ ~(E.n < g1)
  BY <1>1, <1>2, <1>3, <1>5, <1>13 DEF Window
<1>14. Live(g0, g1, s, g)'
  <2>1. ASSUME NEW e \in entries', ~e.permanent
        PROVE  /\ g0 <= e.n /\ (~scanning => g1 <= e.n)
               /\ e.n < g => req[e.idx] = 1 \/ e \in claimed \/ (scanning /\ e.idx \in retire)
               /\ scanning /\ e.n < g1 => (e \in left /\ req[e.idx] = 1) \/ e \in claimed \/ e.idx \in retire
    <3>1. CASE e \in entries
      BY <1>1, <2>1, <3>1 DEF Live
    <3>2. CASE e = E
      BY <1>13, <2>1, <3>2
    <3> QED BY <1>3, <3>1, <3>2
  <2>2. ASSUME NEW n \in Nat, n < ringNext', g <= n \/ s <= n
        PROVE  \E e \in entries' : ~e.permanent /\ e.n = n
    <3>1. CASE n < ringNext
      BY <1>1, <1>3, <2>2, <3>1 DEF Live
    <3>2. CASE ~(n < ringNext)
      <4>1. ~capturing /\ n = ringNext
        BY <1>2, <1>4, <1>5, <2>2, <3>2
      <4>2. E \in entries' /\ ~E.permanent /\ E.n = n
        BY <1>3, <1>5, <4>1
      <4> QED BY <4>2
    <3> QED BY <3>1, <3>2
  <2> QED BY <2>1, <2>2 DEF Live
<1>15. Raised(s, g)'
  <2>1. \A i \in Slots : req[i] = 1 =>
          IF i < KRing THEN \E e \in entries' : ~e.permanent /\ e.idx = i /\ e.n < g ELSE i \in GivenOut'
    BY <1>1, <1>3, <1>8 DEF Raised
  <2> QED BY <1>1, <2>1 DEF Raised
<1> QED BY <1>7, <1>9, <1>10, <1>11, <1>12, <1>14, <1>15 DEF RingInv

\* A submit arms the next ticket.
LEMMA SubmitRing ==
  ASSUME BasicInv, NEW g0 \in Nat, NEW g1 \in Nat, NEW s \in Nat, NEW a \in Nat, NEW g \in Nat,
         RingInv(g0, g1, s, a, g), Submit
  PROVE  RingInv(g0, g1, s, a, g)'
<1> DEFINE r == <<Write(ArmSlot, Ticket)>>
<1>1. /\ open = None /\ open' = ArmSlot /\ Arm(FALSE) /\ Give(r)
      /\ UNCHANGED <<capturing, req, claimed, snap, scanning, left, retire>>
  BY DEF Submit, pollVars
<1>2. ArmSlot \in Slots /\ Ticket \in Nat /\ ~Odd(ArmSlot)
  BY <1>1, SlotFacts DEF BasicInv, Arm
<1>3. r \in Seq(Op) /\ Len(r) = 1 /\ r # <<>> /\ r[1] = Write(ArmSlot, Ticket)
  BY <1>2, SubmitBlock
<1> HIDE DEF r
<1>4. Write(ArmSlot, Ticket).idx = ArmSlot
  BY DEF Write
<1>5. \A k \in 1 .. Len(r) : k = 1
  BY <1>3
<1>6. CallOps(r)
  BY <1>3, <1>4, <1>5 DEF CallOps
<1> QED BY <1>1, <1>3, <1>6, ArmRing

\* A sync arms the next ticket.
LEMMA SyncRing ==
  ASSUME BasicInv, NEW g0 \in Nat, NEW g1 \in Nat, NEW s \in Nat, NEW a \in Nat, NEW g \in Nat,
         RingInv(g0, g1, s, a, g), Sync
  PROVE  RingInv(g0, g1, s, a, g)'
<1> DEFINE r == <<Write(ArmSlot, Ticket), WaitDone(ArmSlot), Clear(ArmSlot), Use(open)>>
<1>1. /\ open # None /\ open' = None /\ Arm(TRUE) /\ Give(r)
      /\ UNCHANGED <<capturing, req, claimed, snap, scanning, left, retire>>
  BY DEF Sync, pollVars
<1>2. ArmSlot \in Slots /\ Ticket \in Nat /\ Odd(ArmSlot) /\ open \in Slots /\ ~Odd(open)
  BY <1>1, SlotFacts DEF BasicInv, Arm
<1>3. r \in Seq(Op) /\ Len(r) = 4 /\ r # <<>> /\ r[1] = Write(ArmSlot, Ticket)
  BY <1>2, SyncBlock
<1>4. r[2] = WaitDone(ArmSlot) /\ r[3] = Clear(ArmSlot) /\ r[4] = Use(open)
  OBVIOUS
<1> HIDE DEF r
<1>5. /\ Write(ArmSlot, Ticket).idx = ArmSlot
      /\ WaitDone(ArmSlot).idx = ArmSlot /\ WaitDone(ArmSlot).op = "wait"
      /\ Clear(ArmSlot).idx = ArmSlot /\ Clear(ArmSlot).op = "clear"
      /\ Use(open).idx = open /\ Use(open).op = "use"
  BY DEF Write, WaitDone, Clear, Use
<1>6. \A k \in 1 .. Len(r) : k = 1 \/ k = 2 \/ k = 3 \/ k = 4
  BY <1>3
<1>7. CallOps(r)
  BY <1>1, <1>3, <1>4, <1>5, <1>6 DEF CallOps
<1> QED BY <1>1, <1>3, <1>7, ArmRing

\* A graph writes permanent slots, so a replay adds no ticket.
LEMMA GraphRing ==
  ASSUME BasicInv, NEW g0 \in Nat, NEW g1 \in Nat, NEW s \in Nat, NEW a \in Nat, NEW g \in Nat,
         RingInv(g0, g1, s, a, g), BeginCapture \/ EndCapture \/ Replay
  PROVE  RingInv(g0, g1, s, a, g)'
<1>1. /\ Types /\ Tickets(g) /\ PermanentOps /\ Armed /\ Copy(a)
      /\ Window(g0, g1, s, g) /\ Live(g0, g1, s, g) /\ Raised(s, g)
  BY DEF BasicInv, RingInv
<1>2. /\ open = None /\ open' = None
      /\ UNCHANGED <<entries, fresh, ringNext, permNext, graph, req, snap, scanning, left, claimed, retire>>
  <2>1. CASE BeginCapture
    BY <2>1 DEF BeginCapture, pollVars
  <2>2. CASE EndCapture
    BY <2>2 DEF EndCapture, pollVars
  <2>3. CASE Replay
    BY <2>3 DEF Replay, pollVars
  <2> QED BY <2>1, <2>2, <2>3
<1>3. GivenOut' = GivenOut
  BY <1>2 DEF GivenOut
<1>4. Armed' /\ Copy(a)' /\ Window(g0, g1, s, g)' /\ Live(g0, g1, s, g)' /\ Raised(s, g)'
  BY <1>1, <1>2, <1>3 DEF Armed, Copy, Window, Live, Raised
<1>5. Tickets(g)' /\ PermanentOps'
  <2>1. CASE stream' = stream
    BY <1>1, <1>2, <1>3, <2>1 DEF Tickets, PermanentOps
  <2>2. CASE stream' = stream \o graph
    <3>1. stream \in Seq(Op) /\ graph \in Seq(Op) /\ ringNext \in Nat
      BY <1>1 DEF Types, TypeOK
    <3>2. \A k \in 1 .. Len(graph) : ~RingWrite(graph[k])
      <4> SUFFICES ASSUME NEW k \in 1 .. Len(graph) PROVE ~(graph[k].idx < KRing)
        BY DEF RingWrite
      <4>1. graph[k].idx >= KRing /\ graph[k].idx \in Slots
        BY <1>1, <3>1, WriteTicket DEF PermanentOps
      <4> QED BY <4>1, Sizes DEF Slots
    <3>3. Tickets(g)'
      BY <1>1, <1>2, <2>2, <3>1, <3>2, TicketsSame DEF Tickets
    <3>4. /\ Len(stream \o graph) = Len(stream) + Len(graph) /\ Len(stream) \in Nat /\ Len(graph) \in Nat
          /\ \A k \in 1 .. Len(stream) : (stream \o graph)[k] = stream[k]
          /\ \A k \in 1 .. Len(graph) : (stream \o graph)[Len(stream) + k] = graph[k]
      BY <3>1, ConcatFacts
    <3>5. ASSUME NEW k \in 1 .. Len(stream \o graph) PROVE (stream \o graph)[k].idx \in GivenOut
      <4>1. CASE k \in 1 .. Len(stream)
        BY <1>1, <3>4, <4>1 DEF PermanentOps
      <4>2. CASE k \notin 1 .. Len(stream)
        <5>1. k - Len(stream) \in 1 .. Len(graph) /\ Len(stream) + (k - Len(stream)) = k
          BY <3>4, <4>2
        <5> QED BY <1>1, <3>4, <5>1 DEF PermanentOps
      <4> QED BY <4>1, <4>2
    <3>6. PermanentOps'
      BY <1>1, <1>2, <1>3, <2>2, <3>5 DEF PermanentOps
    <3> QED BY <3>3, <3>6
  <2> QED BY <2>1, <2>2 DEF BeginCapture, EndCapture, Replay
<1> QED BY <1>4, <1>5 DEF RingInv

\* The stream's next operation: with a ring write one ticket more is run. It raises the
\* flag of the one entry that has the ticket; syncs run before it are handled.
LEMMA GpuRing ==
  ASSUME WideRing, BasicInv, NEW g0 \in Nat, NEW g1 \in Nat, NEW s \in Nat, NEW a \in Nat, NEW g \in Nat,
         RingInv(g0, g1, s, a, g), GpuStep
  PROVE  \E h \in Nat : h = (IF RingWrite(stream[1]) THEN g + 1 ELSE g) /\ RingInv(g0, g1, s, a, h)'
<1>1. /\ Types /\ TypeOK /\ Roles /\ Awaited /\ Tickets(g) /\ PermanentOps /\ Armed /\ Copy(a)
      /\ Window(g0, g1, s, g) /\ Live(g0, g1, s, g) /\ Raised(s, g)
  BY DEF BasicInv, RingInv, Types
<1> DEFINE o == stream[1]
<1>2. /\ stream # <<>> /\ stream \in Seq(Op) /\ o \in Op /\ stream' = Tail(stream)
      /\ o.idx \in Slots
      /\ o.op = "write" => o.n \in Nat /\ req' = [req EXCEPT ![o.idx] = 1]
      /\ o.op # "write" => req' = req
      /\ UNCHANGED <<entries, fresh, ringNext, permNext, open, capturing, graph,
                     snap, scanning, left, claimed, retire>>
  BY <1>1, GpuFacts
<1> HIDE DEF o
<1>3. /\ Len(stream) \in Nat /\ Len(stream) >= 1 /\ Len(Tail(stream)) = Len(stream) - 1
      /\ \A k \in 1 .. Len(Tail(stream)) : Tail(stream)[k] = stream[k + 1]
  BY <1>2, TailFacts
<1>4. /\ ringNext \in Nat /\ req \in [Slots -> {0, 1}]
      /\ entries \subseteq [at : Nat, n : Nat, idx : Slots, sync : BOOLEAN, permanent : BOOLEAN]
      /\ claimed \subseteq snap
  BY <1>1 DEF TypeOK
<1>5. GivenOut' = GivenOut /\ o.idx \in GivenOut
  <2>1. 1 \in 1 .. Len(stream)
    BY <1>3
  <2> QED BY <1>1, <1>2, <2>1 DEF GivenOut, PermanentOps, o
<1>6. PermanentOps'
  <2>1. ASSUME NEW k \in 1 .. Len(Tail(stream)) PROVE Tail(stream)[k].idx \in GivenOut
    <3>1. k + 1 \in 1 .. Len(stream)
      BY <1>3
    <3> QED BY <1>1, <1>3, <3>1 DEF PermanentOps
  <2> QED BY <1>1, <1>2, <1>5, <2>1 DEF PermanentOps
<1>7. Armed' /\ Copy(a)'
  BY <1>1, <1>2 DEF Armed, Copy
<1>8. /\ \A e \in entries : IF e.permanent THEN e.idx >= KRing ELSE e.idx < KRing
      /\ \A e, f \in entries : e.idx = f.idx => e = f
  BY <1>1, Room
<1>9. snap \subseteq entries \/ ~scanning
  BY <1>1 DEF Copy
<1>10. \A e \in claimed : scanning
  BY <1>1 DEF TypeOK, Types
<1>11. InOrder(stream, g, ringNext) /\ g <= ringNext
  BY <1>1 DEF Tickets, Window
<1>12. CASE RingWrite(o)
  <2>1. o.n = g /\ g < ringNext /\ InOrder(Tail(stream), g + 1, ringNext)
    BY <1>2, <1>4, <1>11, <1>12, TicketsTail DEF o
  <2>2. o.op = "write" /\ req' = [req EXCEPT ![o.idx] = 1] /\ o.idx < KRing
    BY <1>2, <1>12 DEF RingWrite
  <2>3. o.idx = g % KRing
    <3>1. 1 \in 1 .. Len(stream)
      BY <1>3
    <3> QED BY <1>11, <1>12, <2>1, <3>1 DEF InOrder, o
  <2>4. PICK w \in entries : ~w.permanent /\ w.n = g
    BY <1>1, <2>1 DEF Live
  <2>5. w.idx = o.idx
    BY <1>1, <2>3, <2>4 DEF Armed
  <2>6. \A e \in entries : e # w => e.idx # o.idx
    BY <1>8, <2>5
  <2>7. \A i \in Slots : req'[i] = IF i = o.idx THEN 1 ELSE req[i]
    BY <1>2, <1>4, <2>2
  \* A sync armed outside the copy and run would still hold the stream.
  <2>8. g < s + 2
    <3> SUFFICES ASSUME g = s + 2 PROVE FALSE
      BY <1>1, <1>4 DEF Window
    <3>1. PICK n \in Nat : n % 2 = 1 /\ s <= n /\ n < g
      <4>1. CASE s % 2 = 1
        BY <4>1
      <4>2. CASE s % 2 # 1
        <5>1. (s + 1) % 2 = 1 /\ s + 1 \in Nat /\ s <= s + 1 /\ s + 1 < g
          BY <4>2
        <5> QED BY <5>1
      <4> QED BY <4>1, <4>2
    <3>2. n < ringNext
      BY <1>4, <2>1, <3>1
    <3>3. PICK e \in entries : ~e.permanent /\ e.n = n
      BY <1>1, <3>1, <3>2 DEF Live
    <3>4. e.idx = n % KRing /\ e.idx \in Slots
      BY <1>1, <1>4, <3>3 DEF Armed
    <3>5. Odd(e.idx)
      BY <3>1, <3>4, RingParity DEF Odd
    <3>6. ~Asking(e.idx)
      <4>1. WaitDone(e.idx).op = "wait"
        BY DEF WaitDone
      <4> QED BY <1>1, <2>2, <3>4, <3>5, <4>1 DEF Awaited, o
    <3>7. scanning /\ e.idx \in retire
      BY <1>1, <3>1, <3>3, <3>6 DEF Live, Asking
    <3>8. PICK f \in snap : ~f.permanent /\ f.idx = e.idx
      BY <1>1, <3>7 DEF Raised
    <3>9. f = e
      BY <1>8, <1>9, <3>7, <3>8
    <3>10. e.n < s
      BY <1>1, <3>7, <3>8, <3>9 DEF Raised
    <3> QED BY <3>1, <3>3, <3>10
  <2>9. Tickets(g + 1)'
    BY <1>2, <2>1 DEF Tickets
  <2>10. Window(g0, g1, s, g + 1)'
    BY <1>1, <1>2, <1>4, <2>1, <2>8 DEF Window
  <2>11. Live(g0, g1, s, g + 1)'
    <3>1. ASSUME NEW e \in entries, ~e.permanent
          PROVE  /\ g0 <= e.n /\ (~scanning => g1 <= e.n)
                 /\ e.n < g + 1 => req'[e.idx] = 1 \/ e \in claimed \/ (scanning /\ e.idx \in retire)
                 /\ scanning /\ e.n < g1 => (e \in left /\ req'[e.idx] = 1) \/ e \in claimed \/ e.idx \in retire
      <4>1. /\ g0 <= e.n /\ (~scanning => g1 <= e.n)
            /\ e.n < g => req[e.idx] = 1 \/ e \in claimed \/ (scanning /\ e.idx \in retire)
            /\ scanning /\ e.n < g1 => (e \in left /\ req[e.idx] = 1) \/ e \in claimed \/ e.idx \in retire
        BY <1>1, <3>1 DEF Live
      <4>2. e.n \in Nat /\ e.idx \in Slots
        BY <1>4
      <4>3. req[e.idx] = 1 => req'[e.idx] = 1
        BY <2>7, <4>2
      <4>4. CASE e.n = g
        <5>1. e = w
          <6>1. e.permanent = w.permanent
            BY <1>4, <2>4, <3>1
          <6> QED BY <1>1, <2>4, <4>4, <6>1 DEF Armed
        <5>2. req'[e.idx] = 1
          BY <2>5, <2>7, <4>2, <5>1
        <5>3. ~(e.n < g1)
          BY <1>1, <4>4 DEF Window
        <5> QED BY <4>1, <5>2, <5>3
      <4>5. CASE e.n # g
        <5>1. e.n < g + 1 => e.n < g
          BY <4>2, <4>5
        <5> QED BY <4>1, <4>3, <5>1
      <4> QED BY <4>4, <4>5
    <3>2. ASSUME NEW n \in Nat, n < ringNext, g + 1 <= n \/ s <= n
          PROVE  \E e \in entries : ~e.permanent /\ e.n = n
      <4>1. g <= n \/ s <= n
        BY <3>2
      <4> QED BY <1>1, <3>2, <4>1 DEF Live
    <3> QED BY <1>2, <3>1, <3>2 DEF Live
  <2>12. Raised(s, g + 1)'
    <3>1. ASSUME NEW i \in Slots, req'[i] = 1
          PROVE  IF i < KRing THEN \E e \in entries : ~e.permanent /\ e.idx = i /\ e.n < g + 1 ELSE i \in GivenOut
      <4>1. CASE i = o.idx
        BY <2>2, <2>4, <2>5, <4>1
      <4>2. CASE i # o.idx
        <5>1. req[i] = 1
          BY <2>7, <3>1, <4>2
        <5>2. \A e \in entries : e.n < g => e.n < g + 1
          BY <1>4
        <5> QED BY <1>1, <5>1, <5>2 DEF Raised
      <4> QED BY <4>1, <4>2
    <3>2. scanning => \A e \in snap : ~e.permanent => e.n < s
      BY <1>1 DEF Raised
    <3>3. ASSUME scanning, NEW i \in retire
          PROVE  req'[i] = 0 /\ \E e \in snap : ~e.permanent /\ e.idx = i /\ e.n < g + 1
      <4>1. PICK e \in snap : ~e.permanent /\ e.idx = i /\ e.n < g
        BY <1>1, <3>3 DEF Raised
      <4>2. e \in entries /\ e.n \in Nat
        BY <1>4, <1>9, <3>3
      <4>3. e # w
        BY <2>4, <4>1, <4>2
      <4>4. i # o.idx /\ i \in Slots
        BY <1>4, <2>6, <4>1, <4>2, <4>3
      <4>5. req[i] = 0
        BY <1>1, <3>3 DEF Raised
      <4>6. e.n < g + 1
        BY <4>1, <4>2
      <4> QED BY <2>7, <4>1, <4>4, <4>5, <4>6
    <3>4. ASSUME NEW e \in claimed, ~e.permanent PROVE e.n < g + 1 /\ req'[e.idx] = 0
      <4>1. e.n < g /\ req[e.idx] = 0
        BY <1>1, <3>4 DEF Raised
      <4>2. e \in entries /\ e.n \in Nat /\ e.idx \in Slots
        BY <1>4, <1>9, <1>10, <3>4
      <4>3. e # w
        BY <2>4, <4>1, <4>2
      <4>4. e.idx # o.idx
        BY <2>6, <4>2, <4>3
      <4> QED BY <2>7, <4>1, <4>2, <4>4
    <3> QED BY <1>2, <1>5, <3>1, <3>2, <3>3, <3>4 DEF Raised
  <2>13. RingInv(g0, g1, s, a, g + 1)'
    BY <1>6, <1>7, <2>9, <2>10, <2>11, <2>12 DEF RingInv
  <2>14. PICK h \in Nat : h = g + 1
    OBVIOUS
  <2> QED BY <1>12, <2>13, <2>14 DEF o
<1>13. CASE ~RingWrite(o)
  <2>1. Tickets(g)'
    BY <1>2, <1>4, <1>11, <1>13, TicketsTail DEF Tickets, o
  <2>2. \A i \in Slots : i < KRing => req'[i] = req[i]
    <3>1. CASE o.op = "write"
      BY <1>2, <1>4, <1>13, <3>1 DEF RingWrite
    <3> QED BY <1>2, <3>1
  <2>3. \A i \in Slots : i # o.idx => req'[i] = req[i]
    BY <1>2, <1>4
  <2>4. \A e \in entries : ~e.permanent => e.idx \in Slots /\ req'[e.idx] = req[e.idx]
    BY <1>4, <1>8, <2>2
  <2>5. Window(g0, g1, s, g)'
    BY <1>1, <1>2 DEF Window
  <2>6. Live(g0, g1, s, g)'
    BY <1>1, <1>2, <2>4 DEF Live
  <2>7. Raised(s, g)'
    <3>1. ASSUME NEW i \in Slots, req'[i] = 1
          PROVE  IF i < KRing THEN \E e \in entries : ~e.permanent /\ e.idx = i /\ e.n < g ELSE i \in GivenOut
      <4>1. CASE i < KRing
        BY <1>1, <2>2, <3>1, <4>1 DEF Raised
      <4>2. CASE ~(i < KRing)
        BY <1>1, <1>5, <2>3, <3>1, <4>2 DEF Raised
      <4> QED BY <4>1, <4>2
    <3>2. ASSUME scanning, NEW i \in retire
          PROVE  req'[i] = 0 /\ \E e \in snap : ~e.permanent /\ e.idx = i /\ e.n < g
      <4>1. req[i] = 0 /\ \E e \in snap : ~e.permanent /\ e.idx = i /\ e.n < g
        BY <1>1, <3>2 DEF Raised
      <4> QED BY <1>9, <2>4, <3>2, <4>1
    <3>3. \A e \in claimed : ~e.permanent => e.n < g /\ req'[e.idx] = 0
      BY <1>1, <1>4, <1>9, <1>10, <2>4 DEF Raised
    <3>4. scanning => \A e \in snap : ~e.permanent => e.n < s
      BY <1>1 DEF Raised
    <3> QED BY <1>2, <1>5, <3>1, <3>2, <3>3, <3>4 DEF Raised
  <2>8. RingInv(g0, g1, s, a, g)'
    BY <1>6, <1>7, <2>1, <2>5, <2>6, <2>7 DEF RingInv
  <2> QED BY <1>13, <2>8 DEF o
<1> QED BY <1>12, <1>13

\* A new scan: what the stream has run by now is the window of this scan.
LEMMA PollTopRing ==
  ASSUME BasicInv, NEW g0 \in Nat, NEW g1 \in Nat, NEW s \in Nat, NEW a \in Nat, NEW g \in Nat,
         RingInv(g0, g1, s, a, g), PollTop
  PROVE  RingInv(g1, g, ringNext, ringNext + permNext, g)'
<1>1. /\ Types /\ TypeOK /\ Tickets(g) /\ PermanentOps /\ Armed /\ Copy(a)
      /\ Window(g0, g1, s, g) /\ Live(g0, g1, s, g) /\ Raised(s, g)
  BY DEF BasicInv, RingInv, Types
<1>2. /\ ~scanning /\ scanning' /\ snap' = (IF fresh THEN snap ELSE entries) /\ left' = snap' /\ retire' = {}
      /\ UNCHANGED <<entries, ringNext, permNext, open, capturing, graph, stream, req, claimed>>
  BY DEF PollTop, hostVars
<1>3. snap' = entries /\ claimed = {}
  BY <1>1, <1>2 DEF Copy, Types, TypeOK
<1>4. /\ ringNext \in Nat /\ permNext \in Nat
      /\ entries \subseteq [at : Nat, n : Nat, idx : Slots, sync : BOOLEAN, permanent : BOOLEAN]
  BY <1>1, Sizes DEF TypeOK
<1>5. GivenOut' = GivenOut
  BY <1>2 DEF GivenOut
<1>6. Tickets(g)' /\ PermanentOps' /\ Armed'
  BY <1>1, <1>2, <1>5 DEF Tickets, PermanentOps, Armed
<1>7. Copy(ringNext + permNext)'
  <2>1. entries = {e \in entries : e.at < ringNext + permNext}
    BY <1>1 DEF Armed
  <2>2. ringNext + permNext <= ringNext + permNext
    BY <1>4
  <2> QED BY <1>2, <1>3, <2>1, <2>2 DEF Copy
<1>8. Window(g1, g, ringNext, g)'
  <2>1. stream \in Seq(Op) /\ InOrder(stream, g, ringNext) /\ g <= ringNext
    BY <1>1 DEF Types, Tickets, Window
  <2>2. ringNext <= g + Depth
    BY <1>4, <2>1, AtMostDepth
  <2> QED BY <1>1, <1>2, <1>4, <2>2, Sizes DEF Window
<1>9. Live(g1, g, ringNext, g)'
  <2>1. ASSUME NEW e \in entries, ~e.permanent
        PROVE  g1 <= e.n /\ (e.n < g => e \in left' /\ req[e.idx] = 1)
    BY <1>1, <1>2, <1>3, <2>1 DEF Live
  <2>2. ASSUME NEW n \in Nat, n < ringNext, g <= n \/ ringNext <= n
        PROVE  \E e \in entries : ~e.permanent /\ e.n = n
    <3>1. g <= n
      BY <1>4, <2>2
    <3> QED BY <1>1, <2>2, <3>1 DEF Live
  <2> QED BY <1>2, <2>1, <2>2 DEF Live
<1>10. Raised(ringNext, g)'
  <2>1. \A e \in snap' : ~e.permanent => e.n < ringNext
    BY <1>1, <1>3 DEF Armed
  <2> QED BY <1>1, <1>2, <1>3, <1>5, <2>1 DEF Raised
<1> QED BY <1>6, <1>7, <1>8, <1>9, <1>10, <1>2 DEF RingInv

\* The end of a scan: what was handled leaves, and it was all the stream had asked for
\* when the copy was taken.
LEMMA PollEndRing ==
  ASSUME WideRing, BasicInv, NEW g0 \in Nat, NEW g1 \in Nat, NEW s \in Nat, NEW a \in Nat, NEW g \in Nat,
         RingInv(g0, g1, s, a, g), PollEnd
  PROVE  RingInv(g0, g1, s, a, g)'
<1>1. /\ Types /\ TypeOK /\ Tickets(g) /\ PermanentOps /\ Armed /\ Copy(a)
      /\ Window(g0, g1, s, g) /\ Live(g0, g1, s, g) /\ Raised(s, g)
  BY DEF BasicInv, RingInv, Types
<1>2. /\ scanning /\ ~scanning' /\ left = {}
      /\ entries' = {e \in entries : e.permanent \/ e.idx \notin retire}
      /\ fresh' = (fresh /\ retire = {})
      /\ UNCHANGED <<ringNext, permNext, open, capturing, graph, stream, req, snap, left, claimed, retire>>
  BY DEF PollEnd, hostVars
<1>3. claimed = {}
  BY <1>1, <1>2 DEF TypeOK
<1>4. snap \subseteq entries
      /\ entries \subseteq [at : Nat, n : Nat, idx : Slots, sync : BOOLEAN, permanent : BOOLEAN]
  BY <1>1, <1>2 DEF Copy, TypeOK
<1>5. \A e, f \in entries : e.idx = f.idx => e = f
  BY <1>1, Room
<1>6. ASSUME NEW e \in entries, e \notin entries'
      PROVE  ~e.permanent /\ e.n < g /\ e.n < s /\ req[e.idx] = 0
  <2>1. ~e.permanent /\ e.idx \in retire
    BY <1>2, <1>6
  <2>2. PICK f \in snap : ~f.permanent /\ f.idx = e.idx /\ f.n < g
    BY <1>1, <1>2, <2>1 DEF Raised
  <2>3. f = e
    BY <1>4, <1>5, <2>2
  <2> QED BY <1>1, <1>2, <2>1, <2>2, <2>3 DEF Raised
<1>7. GivenOut' = GivenOut
  BY <1>2 DEF GivenOut
<1>8. Tickets(g)' /\ PermanentOps' /\ Window(g0, g1, s, g)'
  BY <1>1, <1>2, <1>7 DEF Tickets, PermanentOps, Window
<1>9. Armed'
  <2>1. \A n \in Nat : n < permNext => \E e \in entries' : e.permanent /\ e.n = n
    BY <1>1, <1>2 DEF Armed
  <2> QED BY <1>1, <1>2, <2>1 DEF Armed
<1>10. Copy(a)'
  <2>1. fresh' => entries' = entries /\ fresh
    BY <1>2
  <2> QED BY <1>1, <1>2, <2>1 DEF Copy
<1>11. Live(g0, g1, s, g)'
  <2>1. ASSUME NEW e \in entries', ~e.permanent
        PROVE  g0 <= e.n /\ g1 <= e.n /\ (e.n < g => req[e.idx] = 1)
    <3>1. e \in entries /\ e.idx \notin retire /\ e.n \in Nat
      BY <1>2, <1>4, <2>1
    <3>2. ~(e.n < g1)
      BY <1>1, <1>2, <1>3, <2>1, <3>1 DEF Live
    <3>3. g0 <= e.n /\ (e.n < g => req[e.idx] = 1)
      BY <1>1, <1>3, <2>1, <3>1 DEF Live
    <3> QED BY <3>1, <3>2, <3>3
  <2>2. ASSUME NEW n \in Nat, n < ringNext, g <= n \/ s <= n
        PROVE  \E e \in entries' : ~e.permanent /\ e.n = n
    <3>1. PICK e \in entries : ~e.permanent /\ e.n = n
      BY <1>1, <2>2 DEF Live
    <3>2. e \in entries'
      BY <1>6, <2>2, <3>1
    <3> QED BY <3>1, <3>2
  <2> QED BY <1>2, <2>1, <2>2 DEF Live
<1>12. Raised(s, g)'
  <2>1. ASSUME NEW i \in Slots, req[i] = 1
        PROVE  IF i < KRing THEN \E e \in entries' : ~e.permanent /\ e.idx = i /\ e.n < g ELSE i \in GivenOut
    BY <1>1, <1>6, <2>1 DEF Raised
  <2> QED BY <1>2, <1>3, <1>7, <2>1 DEF Raised
<1> QED BY <1>8, <1>9, <1>10, <1>11, <1>12 DEF RingInv

\* An entry of the copy, whatever the poller does with it, goes from not visited to in
\* hand to retired.
LEMMA PollEntryRing ==
  ASSUME WideRing, BasicInv, NEW g0 \in Nat, NEW g1 \in Nat, NEW s \in Nat, NEW a \in Nat, NEW g \in Nat,
         RingInv(g0, g1, s, a, g), PollSkip \/ PollClaim \/ PollSubmit \/ PollSync
  PROVE  RingInv(g0, g1, s, a, g)'
<1>1. /\ Types /\ TypeOK /\ Tickets(g) /\ PermanentOps /\ Armed /\ Copy(a)
      /\ Window(g0, g1, s, g) /\ Live(g0, g1, s, g) /\ Raised(s, g)
  BY DEF BasicInv, RingInv, Types
<1>2. UNCHANGED <<entries, fresh, ringNext, permNext, open, capturing, graph, stream, snap, scanning>>
  BY DEF PollSkip, PollClaim, PollSubmit, PollSync, hostVars
<1>3. /\ entries \subseteq [at : Nat, n : Nat, idx : Slots, sync : BOOLEAN, permanent : BOOLEAN]
      /\ claimed \subseteq left /\ left \subseteq snap /\ (scanning => snap \subseteq entries)
      /\ req \in [Slots -> {0, 1}] /\ (left # {} => scanning)
  BY <1>1 DEF Types, TypeOK, Copy
<1>4. /\ \A e \in entries : IF e.permanent THEN e.idx >= KRing ELSE e.idx < KRing
      /\ \A e, f \in entries : e.idx = f.idx => e = f
  BY <1>1, Room
<1>5. GivenOut' = GivenOut
  BY <1>2 DEF GivenOut
<1>6. Tickets(g)' /\ PermanentOps' /\ Window(g0, g1, s, g)' /\ Armed' /\ Copy(a)'
  BY <1>1, <1>2, <1>5 DEF Tickets, PermanentOps, Window, Armed, Copy
<1>7. Live(g0, g1, s, g)' /\ Raised(s, g)'
  <2>1. CASE PollSkip
    <3>1. PICK e \in left : req[e.idx] # 1 /\ left' = left \ {e}
      BY <2>1 DEF PollSkip
    <3>2. UNCHANGED <<req, claimed, retire>>
      BY <2>1 DEF PollSkip
    <3> QED BY <1>1, <1>2, <1>5, <3>1, <3>2 DEF Live, Raised
  <2>2. CASE PollClaim
    <3>1. PICK e \in left : req[e.idx] = 1 /\ req' = [req EXCEPT ![e.idx] = 0] /\ claimed' = {e}
      BY <2>2 DEF PollClaim
    <3>2. claimed = {} /\ UNCHANGED <<left, retire>>
      BY <2>2 DEF PollClaim
    <3>3. scanning /\ e \in snap /\ e \in entries /\ e.idx \in Slots /\ e.permanent \in BOOLEAN
      BY <1>3, <3>1
    <3>4. \A i \in Slots : req'[i] = IF i = e.idx THEN 0 ELSE req[i]
      BY <1>3, <3>1, <3>3
    <3>5. Live(g0, g1, s, g)'
      <4>1. ASSUME NEW f \in entries, ~f.permanent
            PROVE  /\ f.n < g => req'[f.idx] = 1 \/ f \in claimed' \/ (scanning /\ f.idx \in retire)
                   /\ scanning /\ f.n < g1 => (f \in left /\ req'[f.idx] = 1) \/ f \in claimed' \/ f.idx \in retire
        <5>1. f # e => f.idx # e.idx /\ f.idx \in Slots
          BY <1>3, <1>4, <3>3
        <5>2. f # e => req'[f.idx] = req[f.idx]
          BY <3>4, <5>1
        <5> QED BY <1>1, <3>1, <3>2, <4>1, <5>2 DEF Live
      <4> QED BY <1>1, <1>2, <3>2, <4>1 DEF Live
    <3>6. ~e.permanent => e.n < g
      <4> SUFFICES ASSUME ~e.permanent PROVE e.n < g
        OBVIOUS
      <4>1. e.idx < KRing
        BY <1>4, <3>3
      <4>2. PICK f \in entries : f.idx = e.idx /\ f.n < g
        BY <1>1, <3>1, <3>3, <4>1 DEF Raised
      <4> QED BY <1>4, <3>3, <4>2
    <3>7. Raised(s, g)'
      <4>1. \A i \in Slots : req'[i] = 1 => req[i] = 1
        BY <3>4
      <4>2. \A i \in retire : req'[i] = 0
        BY <1>1, <3>3, <3>4 DEF Raised, TypeOK
      <4>3. \A f \in claimed' : ~f.permanent => f.n < g /\ req'[f.idx] = 0
        BY <3>1, <3>3, <3>4, <3>6
      <4> QED BY <1>1, <1>2, <1>5, <3>2, <4>1, <4>2, <4>3 DEF Raised
    <3> QED BY <3>5, <3>7
  <2>3. CASE PollSubmit \/ PollSync
    <3>1. PICK e \in claimed : Handled(e)
      BY <2>3 DEF PollSubmit, PollSync
    <3>2. req' = req
      BY <2>3 DEF PollSubmit, PollSync
    <3>3. /\ claimed' = {} /\ left' = left \ {e}
          /\ retire' = IF e.permanent THEN retire ELSE retire \cup {e.idx}
      BY <3>1 DEF Handled
    <3>4. \A f \in claimed : f = e
      BY <1>1, <3>1 DEF TypeOK
    <3>5. scanning /\ e \in snap /\ e \in entries
      BY <1>3, <3>1
    <3>6. Live(g0, g1, s, g)'
      <4>1. ASSUME NEW f \in entries, ~f.permanent
            PROVE  /\ f.n < g => req[f.idx] = 1 \/ f.idx \in retire'
                   /\ f.n < g1 => (f \in left' /\ req[f.idx] = 1) \/ f.idx \in retire'
        <5>1. CASE f = e
          BY <3>3, <4>1, <5>1
        <5>2. CASE f # e
          BY <1>1, <3>3, <3>4, <3>5, <4>1, <5>2 DEF Live
        <5> QED BY <5>1, <5>2
      <4> QED BY <1>1, <1>2, <3>2, <3>5, <4>1 DEF Live
    <3>7. Raised(s, g)'
      <4>1. ASSUME NEW i \in retire'
            PROVE  req[i] = 0 /\ \E f \in snap : ~f.permanent /\ f.idx = i /\ f.n < g
        <5>1. CASE i \in retire
          BY <1>1, <3>5, <5>1 DEF Raised
        <5>2. CASE ~e.permanent /\ i = e.idx
          BY <1>1, <3>1, <3>5, <5>2 DEF Raised
        <5> QED BY <3>3, <4>1, <5>1, <5>2
      <4> QED BY <1>1, <1>2, <1>5, <3>2, <3>3, <4>1 DEF Raised
    <3> QED BY <3>6, <3>7
  <2> QED BY <2>1, <2>2, <2>3
<1> QED BY <1>6, <1>7 DEF RingInv

\* The worker leaves the ring alone.
LEMMA WorkerRing ==
  ASSUME NEW g0 \in Nat, NEW g1 \in Nat, NEW s \in Nat, NEW a \in Nat, NEW g \in Nat,
         RingInv(g0, g1, s, a, g), Worker \/ UNCHANGED vars
  PROVE  RingInv(g0, g1, s, a, g)'
<1>1. UNCHANGED <<entries, fresh, ringNext, permNext, open, capturing, graph, stream, req,
                  snap, scanning, left, claimed, retire>>
  BY DEF Worker, vars, hostVars, pollVars
<1>2. GivenOut' = GivenOut
  BY <1>1 DEF GivenOut
<1> QED BY <1>1, <1>2 DEF RingInv, Tickets, PermanentOps, Armed, Copy, Window, Live, Raised

\* Every step keeps the ring's invariant, for some window.
LEMMA StepRing == WideRing /\ BasicInv /\ RingSafe /\ [Next]_vars => RingSafe'
<1> SUFFICES ASSUME WideRing, BasicInv, RingSafe, [Next]_vars PROVE RingSafe'
  OBVIOUS
<1>1. PICK g0 \in Nat, g1 \in Nat, s \in Nat, a \in Nat, g \in Nat : RingInv(g0, g1, s, a, g)
  BY DEF RingSafe
<1>2. CASE Host
  <2>1. RingInv(g0, g1, s, a, g)'
    BY <1>1, <1>2, SubmitRing, SyncRing, GraphRing DEF Host
  <2> QED BY <2>1 DEF RingSafe
<1>3. CASE GpuStep
  <2>1. PICK h \in Nat : RingInv(g0, g1, s, a, h)'
    BY <1>1, <1>3, GpuRing
  <2> QED BY <2>1 DEF RingSafe
<1>4. CASE PollTop
  <2>1. RingInv(g1, g, ringNext, ringNext + permNext, g)'
    BY <1>1, <1>4, PollTopRing
  <2>2. UNCHANGED <<ringNext, permNext>>
    BY <1>4 DEF PollTop, hostVars
  <2>3. PICK top \in Nat, b \in Nat : top = ringNext /\ b = ringNext + permNext
    <3>1. ringNext \in Nat /\ permNext \in Nat
      BY Sizes DEF BasicInv, Types, TypeOK
    <3>2. ringNext + permNext \in Nat
      BY <3>1
    <3> QED BY <3>1, <3>2
  <2>4. RingInv(g1, g, top, b, g)'
    BY <2>1, <2>2, <2>3
  <2> QED BY <2>4 DEF RingSafe
<1>5. CASE PollEnd
  <2>1. RingInv(g0, g1, s, a, g)'
    BY <1>1, <1>5, PollEndRing
  <2> QED BY <2>1 DEF RingSafe
<1>6. CASE PollSkip \/ PollClaim \/ PollSubmit \/ PollSync
  <2>1. RingInv(g0, g1, s, a, g)'
    BY <1>1, <1>6, PollEntryRing
  <2> QED BY <2>1 DEF RingSafe
<1>7. CASE Worker \/ UNCHANGED vars
  <2>1. RingInv(g0, g1, s, a, g)'
    BY <1>1, <1>7, WorkerRing
  <2> QED BY <2>1 DEF RingSafe
<1> QED BY <1>2, <1>3, <1>4, <1>5, <1>6, <1>7 DEF Next, Poller

\* No two armed entries share a slot's flags, when the ring is wide for the stream:
\* ring_next_ % kRing names nobody the poller has not retired, for however long it
\* runs (memop_arm, memop_poller).
THEOREM SlotsDistinct == WideRing => (Spec => []RingSlotsDistinct)
<1> SUFFICES ASSUME WideRing PROVE Spec => []RingSlotsDistinct
  OBVIOUS
<1>1. Init => BasicInv /\ RingSafe
  <2>1. Init => RingInv(0, 0, 0, 0, 0)
    BY InitRing
  <2> QED BY <2>1, InitBasic DEF RingSafe
<1>2. BasicInv /\ RingSafe /\ [Next]_vars => (BasicInv /\ RingSafe)'
  BY StepBasic, StepRing
<1>3. BasicInv /\ RingSafe => RingSlotsDistinct
  BY Room DEF BasicInv, RingSafe, RingSlotsDistinct
<1> QED BY <1>1, <1>2, <1>3, PTL DEF Spec

-----------------------------------------------------------------------------
(* The tasks and their output *)

\* A task the stream has asked for and the worker has not finished.
Queued(i) == \E k \in 1 .. Len(queue) : queue[k] = i
InHand(i) == \E e \in claimed : e.idx = i
Busy(i) == req[i] = 1 \/ InHand(i) \/ Queued(i)

\* The stream has its sync to run next.
BeforeSync(i) ==
  IF stream = <<>> THEN ~capturing /\ open = i
  ELSE stream[1].op \in {"write", "wait"} /\ stream[1].idx = i + 1

\* While no sync has overtaken its submit, at most one task is busy: the one whose sync
\* comes next in the stream. All others have run as often as they were asked for.
OneTask(g) ==
  /\ Len(queue) <= 1
  /\ \A i \in Slots : ~Odd(i) =>
       /\ ~Busy(i) => ran[i] = asked[i]
       /\ Busy(i) => asked[i] = ran[i] + 1 /\ BeforeSync(i)
       /\ ~(req[i] = 1 /\ InHand(i)) /\ ~(req[i] = 1 /\ Queued(i)) /\ ~(InHand(i) /\ Queued(i))
       /\ Busy(i) => \A j \in Slots : j = i + 1 => done[j] = 0
       /\ Busy(i) /\ i < KRing => \E n \in Nat : n < g /\ g <= n + 2 /\ i = n % KRing
  /\ \A i \in Slots : Odd(i) => ~Queued(i)
  /\ \A e \in claimed : e.sync => \A i \in Slots : e.idx = i + 1 => req[i] = 0

TaskInv(g) == ~overtaken => OneTask(g)

\* Two busy tasks are one: both have the next sync.
LEMMA OneBusy ==
  ASSUME NEW g \in Nat, OneTask(g),
         NEW i \in Slots, ~Odd(i), Busy(i), NEW j \in Slots, ~Odd(j), Busy(j)
  PROVE  i = j
<1>1. BeforeSync(i) /\ BeforeSync(j)
  BY DEF OneTask
<1>2. i \in Nat /\ j \in Nat
  BY Sizes DEF Slots
<1> QED BY <1>1, <1>2 DEF BeforeSync

\* A step that touches no flag and no task leaves the tasks in their places if it
\* leaves the stream's next operation.
LEMMA TaskStays ==
  ASSUME NEW g \in Nat, TaskInv(g), UNCHANGED <<req, claimed, queue, done, asked, ran, overtaken>>,
         \A i \in Slots : ~Odd(i) /\ BeforeSync(i) => BeforeSync(i)'
  PROVE  TaskInv(g)'
<1> SUFFICES ASSUME ~overtaken' PROVE OneTask(g)'
  BY DEF TaskInv
<1>1. OneTask(g)
  BY DEF TaskInv
<1>2. \A i \in Slots : (Busy(i)' <=> Busy(i)) /\ (InHand(i)' <=> InHand(i)) /\ (Queued(i)' <=> Queued(i))
  BY DEF Busy, InHand, Queued
<1> QED BY <1>1, <1>2 DEF OneTask

\* A submit arms a slot whose task is not busy, and puts nothing ahead of the next sync.
LEMMA SubmitTask ==
  ASSUME WideRing, BasicInv, NEW g0 \in Nat, NEW g1 \in Nat, NEW s \in Nat, NEW a \in Nat, NEW g \in Nat,
         RingInv(g0, g1, s, a, g), TaskInv(g), Submit
  PROVE  TaskInv(g)'
<1>1. /\ Types /\ Pairs /\ PermanentOps /\ Window(g0, g1, s, g)
      /\ req \in [Slots -> {0, 1}] /\ stream \in Seq(Op) /\ ringNext \in Nat /\ permNext \in Nat
      /\ asked \in [Slots -> Nat] /\ ran \in [Slots -> Nat] /\ capturing \in BOOLEAN
  BY Sizes DEF BasicInv, RingInv, Types, TypeOK
<1> DEFINE r == <<Write(ArmSlot, Ticket)>>
<1>2. /\ open = None /\ Arm(FALSE) /\ Give(r)
      /\ asked' = [asked EXCEPT ![ArmSlot] = 0] /\ ran' = [ran EXCEPT ![ArmSlot] = 0]
      /\ UNCHANGED <<capturing, req, done, claimed, queue, overtaken>>
  BY DEF Submit, pollVars
<1>3. ArmSlot \in Slots /\ Ticket \in Nat /\ ~Odd(ArmSlot)
  BY <1>1, <1>2, SlotFacts DEF Arm
<1> SUFFICES ASSUME ~overtaken' PROVE OneTask(g)'
  BY DEF TaskInv
<1>4. OneTask(g)
  BY <1>2 DEF TaskInv
<1>5. r \in Seq(Op)
  BY <1>3, SubmitBlock
<1> HIDE DEF r
<1>6. \A i \in Slots : BeforeSync(i) => stream # <<>>
  BY <1>2, Sizes DEF BeforeSync, Slots, None
<1>7. \A i \in Slots : BeforeSync(i) => BeforeSync(i)'
  <2>1. stream # <<>> => stream' # <<>> /\ stream'[1] = stream[1]
    BY <1>1, <1>2, <1>5, ConcatFacts DEF Give
  <2> QED BY <1>6, <2>1 DEF BeforeSync
<1>8. ~Busy(ArmSlot)
  <2> SUFFICES ASSUME Busy(ArmSlot) PROVE FALSE
    OBVIOUS
  <2>1. BeforeSync(ArmSlot) /\ stream # <<>>
    BY <1>3, <1>4, <1>6 DEF OneTask
  <2>2. CASE capturing
    <3>1. ArmSlot = KRing + permNext
      BY <2>2 DEF ArmSlot
    <3>2. stream[1].idx = ArmSlot + 1
      BY <2>1 DEF BeforeSync
    <3>3. 1 \in 1 .. Len(stream)
      BY <1>1, <2>1, TailFacts
    <3>4. stream[1].idx < KRing + permNext
      BY <1>1, <3>3 DEF PermanentOps, GivenOut
    <3> QED BY <1>1, <3>1, <3>2, <3>4, Sizes
  <2>3. CASE ~capturing
    <3>1. ArmSlot = ringNext % KRing
      BY <2>3 DEF ArmSlot
    <3>2. ringNext % KRing \in 0 .. KRing - 1
      BY <1>1, ModRange, RingAssumption
    <3>3. ArmSlot < KRing
      BY <3>1, <3>2, Sizes
    <3>4. PICK n \in Nat : n < g /\ g <= n + 2 /\ ArmSlot = n % KRing
      BY <1>3, <1>4, <3>3 DEF OneTask
    <3>5. ringNext <= g + Depth /\ g <= ringNext
      BY <1>1, Room DEF Window
    <3>6. n < ringNext /\ n % KRing = ringNext % KRing
      BY <1>1, <3>1, <3>4, <3>5
    <3>7. n + KRing <= ringNext
      BY <1>1, <3>6, ModGap, RingAssumption
    <3> QED BY <1>1, <3>4, <3>5, <3>7, Sizes DEF WideRing
  <2> QED BY <2>2, <2>3
<1>9. \A i \in Slots : (Busy(i)' <=> Busy(i)) /\ (InHand(i)' <=> InHand(i)) /\ (Queued(i)' <=> Queued(i))
  BY <1>2 DEF Busy, InHand, Queued
<1>10. \A i \in Slots : IF i = ArmSlot THEN asked'[i] = 0 /\ ran'[i] = 0
                                      ELSE asked'[i] = asked[i] /\ ran'[i] = ran[i]
  BY <1>1, <1>2
<1>11. ASSUME NEW i \in Slots, ~Odd(i)
       PROVE  /\ ~Busy(i) => ran'[i] = asked'[i]
              /\ Busy(i) => asked'[i] = ran'[i] + 1 /\ BeforeSync(i)'
  <2>1. /\ ~Busy(i) => ran[i] = asked[i]
        /\ Busy(i) => asked[i] = ran[i] + 1 /\ BeforeSync(i)
    BY <1>4, <1>11 DEF OneTask
  <2>2. CASE i = ArmSlot
    BY <1>8, <1>10, <2>2
  <2>3. CASE i # ArmSlot
    BY <1>7, <1>10, <2>1, <2>3
  <2> QED BY <2>2, <2>3
<1> QED BY <1>2, <1>4, <1>9, <1>11 DEF OneTask

\* A sync comes next when the stream has run its submit, and last otherwise.
LEMMA SyncTask ==
  ASSUME BasicInv, NEW g \in Nat, TaskInv(g), Sync
  PROVE  TaskInv(g)'
<1> DEFINE r == <<Write(ArmSlot, Ticket), WaitDone(ArmSlot), Clear(ArmSlot), Use(open)>>
<1>1. /\ open # None /\ Arm(TRUE) /\ Give(r)
      /\ UNCHANGED <<capturing, req, done, claimed, queue, asked, ran, overtaken>>
  BY DEF Sync, pollVars, ghostVars
<1>2. ArmSlot \in Slots /\ Ticket \in Nat /\ Odd(ArmSlot) /\ open \in Slots /\ ~Odd(open) /\ ArmSlot = open + 1
  BY <1>1, SlotFacts DEF BasicInv, Arm
<1>3. r \in Seq(Op) /\ r # <<>> /\ r[1] = Write(ArmSlot, Ticket) /\ Len(r) = 4
  BY <1>2, SyncBlock
<1>4. r[1].op = "write" /\ r[1].idx = open + 1
  BY <1>2, <1>3 DEF Write
<1> HIDE DEF r
<1>5. stream \in Seq(Op)
  BY DEF BasicInv, Types
<1>6. \A i \in Slots : BeforeSync(i) => BeforeSync(i)'
  <2>1. CASE stream = <<>>
    <3>1. CASE capturing
      BY <2>1, <3>1 DEF BeforeSync
    <3>2. CASE ~capturing
      <4>1. stream' = stream \o r
        BY <1>1, <3>2 DEF Give
      <4>2. Len(stream) = 0
        BY <2>1, EmptySeq
      <4>3. /\ stream \o r # <<>>
            /\ \A k \in 1 .. Len(r) : (stream \o r)[Len(stream) + k] = r[k]
        BY <1>3, <1>5, ConcatFacts
      <4>4. 1 \in 1 .. Len(r) /\ Len(stream) + 1 = 1
        BY <1>3, <4>2
      <4>5. stream' # <<>> /\ stream'[1] = r[1]
        BY <4>1, <4>3, <4>4
      <4> QED BY <1>4, <2>1, <4>5 DEF BeforeSync
    <3> QED BY <3>1, <3>2
  <2>2. CASE stream # <<>>
    <3>1. stream' # <<>> /\ stream'[1] = stream[1]
      BY <1>1, <1>3, <1>5, <2>2, ConcatFacts DEF Give
    <3> QED BY <2>2, <3>1 DEF BeforeSync
  <2> QED BY <2>1, <2>2
<1> QED BY <1>1, <1>6, TaskStays

\* A replay goes behind what the stream holds.
LEMMA GraphTask ==
  ASSUME BasicInv, NEW g \in Nat, TaskInv(g), BeginCapture \/ EndCapture \/ Replay
  PROVE  TaskInv(g)'
<1>1. open = None /\ UNCHANGED <<req, done, claimed, queue, asked, ran, overtaken>>
  BY DEF BeginCapture, EndCapture, Replay, pollVars, ghostVars
<1>2. stream \in Seq(Op) /\ graph \in Seq(Op)
  BY DEF BasicInv, Types
<1>3. stream # <<>> => stream' # <<>> /\ stream'[1] = stream[1]
  <2>1. stream' = stream \/ stream' = stream \o graph
    BY DEF BeginCapture, EndCapture, Replay
  <2> QED BY <1>2, <2>1, ConcatFacts
<1>4. \A i \in Slots : BeforeSync(i) => BeforeSync(i)'
  <2>1. \A i \in Slots : i # None
    BY Sizes DEF Slots, None
  <2> QED BY <1>1, <1>3, <2>1 DEF BeforeSync
<1> QED BY <1>1, <1>4, TaskStays

\* What follows the head of the stream is its head once that has run.
LEMMA NextHead ==
  ASSUME Types, GpuStep
  PROVE  /\ Len(stream) \in Nat /\ 1 \in 1 .. Len(stream)
         /\ Len(stream) > 1 => stream' # <<>> /\ stream'[1] = stream[2]
         /\ ~(Len(stream) > 1) => stream' = <<>>
<1>1. stream # <<>> /\ stream \in Seq(Op) /\ stream' = Tail(stream)
  BY GpuFacts
<1>2. /\ Len(stream) \in Nat /\ Len(stream) >= 1
      /\ Tail(stream) \in Seq(Op) /\ Len(Tail(stream)) = Len(stream) - 1
      /\ \A k \in 1 .. Len(Tail(stream)) : Tail(stream)[k] = stream[k + 1]
  BY <1>1, TailFacts
<1>3. Len(<<>>) = 0
  BY EmptySeq
<1>4. Len(stream) > 1 => stream' # <<>> /\ stream'[1] = stream[2]
  <2> SUFFICES ASSUME Len(stream) > 1 PROVE stream' # <<>> /\ stream'[1] = stream[2]
    OBVIOUS
  <2>1. 1 \in 1 .. Len(Tail(stream)) /\ 1 + 1 = 2 /\ Len(Tail(stream)) # 0
    BY <1>2
  <2> QED BY <1>1, <1>2, <1>3, <2>1
<1>5. ~(Len(stream) > 1) => stream' = <<>>
  <2> SUFFICES ASSUME ~(Len(stream) > 1) PROVE stream' = <<>>
    OBVIOUS
  <2>1. Len(Tail(stream)) = 0
    BY <1>2
  <2> QED BY <1>1, <1>2, <2>1, EmptySeq
<1> QED BY <1>2, <1>4, <1>5

\* While a write is next, no sync is in the poller's hands and done is down.
LEMMA AtWrite ==
  ASSUME BasicInv, stream # <<>>, stream[1].op = "write"
  PROVE  (\A e \in claimed : ~e.sync) /\ (\A j \in Slots : done[j] = 0)
<1>1. /\ Types /\ TypeOK /\ Roles /\ Awaited /\ done \in [Slots -> {0, 1}]
  BY DEF BasicInv, Types, TypeOK
<1>2. ASSUME NEW e \in claimed PROVE ~e.sync
  <2>1. e \in snap /\ e.idx \in Slots
    BY <1>1 DEF TypeOK
  <2>2. WaitDone(e.idx).op = "wait"
    BY DEF WaitDone
  <2>3. ~Odd(e.idx)
    BY <1>1, <2>1, <2>2 DEF Awaited, Asking
  <2> QED BY <1>1, <2>1, <2>3 DEF Roles
<1>3. ASSUME NEW j \in Slots PROVE done[j] = 0
  <2>1. WaitDone(j).op = "wait" /\ Clear(j).op = "clear"
    BY DEF WaitDone, Clear
  <2> QED BY <1>1, <2>1 DEF Awaited
<1> QED BY <1>2, <1>3

\* The write of a submit comes when no task is busy and makes its own busy; its sync
\* comes next.
LEMMA GpuSubmitTask ==
  ASSUME WideRing, BasicInv, NEW g \in Nat, NEW h \in Nat, Tickets(g), OneTask(g), GpuStep,
         stream[1].op = "write", ~Odd(stream[1].idx), g <= ringNext,
         h = IF RingWrite(stream[1]) THEN g + 1 ELSE g
  PROVE  OneTask(h)'
<1>0. PICK i \in Slots : i = stream[1].idx
  BY GpuFacts DEF BasicInv
<1>1. /\ Types /\ TypeOK /\ Pairs /\ QueueBlocks
      /\ req \in [Slots -> {0, 1}] /\ asked \in [Slots -> Nat] /\ ran \in [Slots -> Nat]
  BY DEF BasicInv, Types, TypeOK
<1>2. /\ stream # <<>> /\ stream \in Seq(Op) /\ stream[1] \in Op /\ stream' = Tail(stream)
      /\ i \in Slots /\ ~Odd(i)
      /\ req' = [req EXCEPT ![i] = 1] /\ done' = done /\ asked' = [asked EXCEPT ![i] = @ + 1]
      /\ UNCHANGED <<open, capturing, claimed, queue, ran>>
  BY <1>0, <1>1, GpuFacts
<1>3. /\ Len(stream) \in Nat /\ 1 \in 1 .. Len(stream)
      /\ Len(stream) > 1 => stream' # <<>> /\ stream'[1] = stream[2]
      /\ ~(Len(stream) > 1) => stream' = <<>>
  BY <1>1, NextHead
<1>4. (\A e \in claimed : ~e.sync) /\ (\A j \in Slots : done[j] = 0)
  BY <1>2, AtWrite
<1>5. \A j \in Slots : j \in Nat /\ j # None /\ (~Odd(j) => Odd(j + 1))
  BY Sizes DEF Slots, None, Odd
<1>6. BeforeSync(i)'
  <2>1. SubmitsFirst(stream, StreamOpen)
    BY <1>1 DEF QueueBlocks, Blocks
  <2>2. IF 1 < Len(stream) THEN stream[1 + 1].op = "write" /\ stream[1 + 1].idx = i + 1
        ELSE StreamOpen = i
    BY <1>0, <1>2, <1>3, <2>1 DEF SubmitsFirst
  <2>3. CASE Len(stream) > 1
    BY <1>3, <2>2, <2>3 DEF BeforeSync
  <2>4. CASE ~(Len(stream) > 1)
    <3>1. StreamOpen = i
      BY <1>3, <2>2, <2>4
    <3>2. ~capturing /\ open = i
      BY <1>2, <1>5, <3>1 DEF StreamOpen
    <3> QED BY <1>2, <1>3, <2>4, <3>2 DEF BeforeSync
  <2> QED BY <2>3, <2>4
<1>7. ASSUME NEW j \in Slots, ~Odd(j) PROVE ~Busy(j) /\ ran[j] = asked[j]
  <2>1. ~BeforeSync(j)
    BY <1>0, <1>2, <1>5, <1>7 DEF BeforeSync
  <2> QED BY <1>7, <2>1 DEF OneTask
<1>8. i < KRing => \E n \in Nat : n < h /\ h <= n + 2 /\ i = n % KRing
  <2> SUFFICES ASSUME i < KRing PROVE \E n \in Nat : n < h /\ h <= n + 2 /\ i = n % KRing
    OBVIOUS
  <2>1. RingWrite(stream[1])
    BY <1>0 DEF RingWrite
  <2>2. ringNext \in Nat
    BY <1>1 DEF TypeOK
  <2>3. stream[1].n = g
    BY <1>2, <2>1, <2>2, TicketsTail DEF Tickets
  <2>4. i = g % KRing
    BY <1>0, <1>3, <2>1, <2>3 DEF Tickets, InOrder
  <2>5. h = g + 1
    BY <2>1
  <2>6. g < h /\ h <= g + 2
    BY <2>5
  <2> QED BY <2>4, <2>6
<1>9. \A j \in Slots : req'[j] = IF j = i THEN 1 ELSE req[j]
  BY <1>1, <1>2
<1>10. asked'[i] = asked[i] + 1 /\ \A j \in Slots : j # i => asked'[j] = asked[j]
  BY <1>1, <1>2
<1>11. \A j \in Slots : (InHand(j)' <=> InHand(j)) /\ (Queued(j)' <=> Queued(j))
  BY <1>2 DEF InHand, Queued
<1>12. \A j \in Slots : ~Odd(j) => (Busy(j)' <=> j = i) /\ ~InHand(j)' /\ ~Queued(j)'
  BY <1>7, <1>9, <1>11 DEF Busy
<1>13. ASSUME NEW j \in Slots, ~Odd(j)
       PROVE  /\ ~Busy(j)' => ran'[j] = asked'[j]
              /\ Busy(j)' => asked'[j] = ran'[j] + 1 /\ BeforeSync(j)'
              /\ Busy(j)' => \A m \in Slots : m = j + 1 => done'[m] = 0
              /\ Busy(j)' /\ j < KRing => \E n \in Nat : n < h /\ h <= n + 2 /\ j = n % KRing
  <2>1. CASE j = i
    <3>1. ran'[j] = ran[j] /\ ran[j] = asked[j] /\ asked'[j] = asked[j] + 1
      BY <1>2, <1>7, <1>10, <1>13, <2>1
    <3>2. asked'[j] = ran'[j] + 1
      BY <3>1
    <3>3. Busy(j)'
      BY <1>12, <1>13, <2>1
    <3>4. BeforeSync(j)' /\ \A m \in Slots : m = j + 1 => done'[m] = 0
      BY <1>2, <1>4, <1>6, <2>1
    <3>5. j < KRing => \E n \in Nat : n < h /\ h <= n + 2 /\ j = n % KRing
      BY <1>8, <2>1
    <3> QED BY <3>2, <3>3, <3>4, <3>5
  <2>2. CASE j # i
    <3>1. ~Busy(j)' /\ ran'[j] = ran[j] /\ asked'[j] = asked[j]
      BY <1>2, <1>10, <1>12, <1>13, <2>2
    <3> QED BY <1>7, <1>13, <3>1
  <2> QED BY <2>1, <2>2
<1>14. Len(queue') <= 1 /\ \A j \in Slots : Odd(j) => ~Queued(j)'
  BY <1>2, <1>11 DEF OneTask
<1> QED BY <1>2, <1>4, <1>12, <1>13, <1>14 DEF OneTask

\* The write of a sync leaves the tasks as they are.
LEMMA GpuSyncTask ==
  ASSUME WideRing, BasicInv, NEW g \in Nat, NEW h \in Nat, Tickets(g), OneTask(g), GpuStep,
         stream[1].op = "write", Odd(stream[1].idx), g <= ringNext,
         h = IF RingWrite(stream[1]) THEN g + 1 ELSE g
  PROVE  OneTask(h)'
<1> DEFINE i == stream[1].idx
<1>1. /\ Types /\ TypeOK /\ QueueBlocks
      /\ req \in [Slots -> {0, 1}] /\ asked \in [Slots -> Nat] /\ ran \in [Slots -> Nat]
  BY DEF BasicInv, Types, TypeOK
<1>2. /\ stream # <<>> /\ stream \in Seq(Op) /\ stream[1] \in Op /\ stream' = Tail(stream)
      /\ i \in Slots /\ Odd(i)
      /\ req' = [req EXCEPT ![i] = 1] /\ done' = done /\ asked' = [asked EXCEPT ![i] = @ + 1]
      /\ UNCHANGED <<open, capturing, claimed, queue, ran>>
  BY <1>1, GpuFacts
<1>3. /\ Len(stream) \in Nat /\ 1 \in 1 .. Len(stream)
      /\ Len(stream) > 1 => stream' # <<>> /\ stream'[1] = stream[2]
  BY <1>1, NextHead
<1>4. \A e \in claimed : ~e.sync
  BY <1>2, AtWrite
<1>5. stream' # <<>> /\ stream'[1] = WaitDone(i)
  <2>1. SyncBlocks(stream)
    BY <1>1 DEF QueueBlocks, Blocks
  <2>2. 1 < Len(stream) /\ stream[1 + 1] = WaitDone(i)
    BY <1>2, <1>3, <2>1 DEF SyncBlocks
  <2> QED BY <1>3, <2>2
<1>6. \A j \in Slots : BeforeSync(j) => BeforeSync(j)'
  <2>1. stream'[1].op = "wait" /\ stream'[1].idx = i
    BY <1>5 DEF WaitDone
  <2> QED BY <1>2, <1>5, <2>1 DEF BeforeSync
<1>7. ASSUME NEW n \in Nat, n < g, g <= n + 2, NEW j \in Slots, ~Odd(j), j = n % KRing
      PROVE  n < h /\ h <= n + 2
  <2>1. CASE RingWrite(stream[1])
    <3>1. h = g + 1 /\ ringNext \in Nat
      BY <1>1, <2>1 DEF TypeOK
    <3>2. stream[1].n = g
      BY <1>2, <2>1, <3>1, TicketsTail DEF Tickets
    <3>3. i = g % KRing
      BY <1>3, <2>1, <3>2 DEF Tickets, InOrder
    <3>4. g % 2 = 1
      BY <1>2, <3>3, RingParity DEF Odd
    <3>5. n % 2 # 1
      BY <1>7, RingParity DEF Odd
    <3>6. g # n + 2
      BY <3>4, <3>5
    <3>7. g <= n + 1
      BY <1>7, <3>6
    <3> QED BY <1>7, <3>1, <3>7
  <2>2. CASE ~RingWrite(stream[1])
    BY <1>7, <2>2
  <2> QED BY <2>1, <2>2
<1> HIDE DEF i
<1>8. \A j \in Slots : ~Odd(j) => req'[j] = req[j] /\ asked'[j] = asked[j]
  BY <1>1, <1>2
<1>9. \A j \in Slots : (InHand(j)' <=> InHand(j)) /\ (Queued(j)' <=> Queued(j))
  BY <1>2 DEF InHand, Queued
<1>10. \A j \in Slots : ~Odd(j) => (Busy(j)' <=> Busy(j))
  BY <1>8, <1>9 DEF Busy
<1>11. ASSUME NEW j \in Slots, ~Odd(j)
       PROVE  /\ ~Busy(j)' => ran'[j] = asked'[j]
              /\ Busy(j)' => asked'[j] = ran'[j] + 1 /\ BeforeSync(j)'
              /\ ~(req'[j] = 1 /\ InHand(j)') /\ ~(req'[j] = 1 /\ Queued(j)') /\ ~(InHand(j)' /\ Queued(j)')
              /\ Busy(j)' => \A m \in Slots : m = j + 1 => done'[m] = 0
  BY <1>2, <1>6, <1>8, <1>9, <1>10, <1>11 DEF OneTask
<1>12. ASSUME NEW j \in Slots, ~Odd(j), Busy(j)', j < KRing
       PROVE  \E n \in Nat : n < h /\ h <= n + 2 /\ j = n % KRing
  <2>1. PICK n \in Nat : n < g /\ g <= n + 2 /\ j = n % KRing
    BY <1>10, <1>12 DEF OneTask
  <2> QED BY <1>7, <1>12, <2>1
<1>13. Len(queue') <= 1 /\ \A j \in Slots : Odd(j) => ~Queued(j)'
  BY <1>2, <1>9 DEF OneTask
<1> QED BY <1>2, <1>4, <1>11, <1>12, <1>13 DEF OneTask

\* A wait that passes, and what follows it, find no task busy.
LEMMA GpuPassTask ==
  ASSUME BasicInv, NEW g \in Nat, OneTask(g), GpuStep, stream[1].op # "write"
  PROVE  OneTask(g)'
<1>1. /\ Types /\ TypeOK
      /\ req \in [Slots -> {0, 1}] /\ done \in [Slots -> {0, 1}]
  BY DEF BasicInv, Types, TypeOK
<1>2. /\ stream # <<>> /\ stream[1].op \in {"wait", "clear", "use"}
      /\ stream[1].op = "wait" => done[stream[1].idx] = 1
      /\ UNCHANGED <<claimed, queue, ran, req, asked>>
  BY <1>1, GpuFacts
<1>3. ASSUME NEW j \in Slots, ~Odd(j) PROVE ~Busy(j)
  <2> SUFFICES ASSUME Busy(j) PROVE FALSE
    OBVIOUS
  <2>1. BeforeSync(j) /\ \A m \in Slots : m = j + 1 => done[m] = 0
    BY <1>3 DEF OneTask
  <2>2. stream[1].op = "wait" /\ stream[1].idx = j + 1
    BY <1>2, <2>1 DEF BeforeSync
  <2>3. stream[1].idx \in Slots
    BY <1>1, GpuFacts
  <2> QED BY <1>2, <2>1, <2>2, <2>3
<1>4. \A j \in Slots : (Busy(j)' <=> Busy(j)) /\ (InHand(j)' <=> InHand(j)) /\ (Queued(j)' <=> Queued(j))
  BY <1>2 DEF Busy, InHand, Queued
<1> QED BY <1>2, <1>3, <1>4 DEF OneTask

\* The GPU runs the operation at the head of its stream.
LEMMA GpuTask ==
  ASSUME WideRing, BasicInv, NEW g \in Nat, NEW h \in Nat, Tickets(g), TaskInv(g), GpuStep,
         g <= ringNext, h = IF RingWrite(stream[1]) THEN g + 1 ELSE g
  PROVE  TaskInv(h)'
<1> SUFFICES ASSUME ~overtaken' PROVE OneTask(h)'
  BY DEF TaskInv
<1>1. OneTask(g)
  <2>1. overtaken' = overtaken
    BY DEF GpuStep
  <2> QED BY <2>1 DEF TaskInv
<1>2. CASE stream[1].op = "write" /\ ~Odd(stream[1].idx)
  BY <1>1, <1>2, GpuSubmitTask
<1>3. CASE stream[1].op = "write" /\ Odd(stream[1].idx)
  BY <1>1, <1>3, GpuSyncTask
<1>4. CASE stream[1].op # "write"
  <2>1. h = g
    BY <1>4 DEF RingWrite
  <2> QED BY <1>1, <1>4, <2>1, GpuPassTask
<1> QED BY <1>2, <1>3, <1>4

\* A claimed sync's submit has its flag down: else the copy holds its entry, armed just
\* before, and the sync has overtaken it.
LEMMA ClaimedSync ==
  ASSUME WideRing, BasicInv, NEW g0 \in Nat, NEW g1 \in Nat, NEW s \in Nat, NEW a \in Nat, NEW g \in Nat,
         RingInv(g0, g1, s, a, g), scanning, NEW e \in snap, NEW j \in Slots, ~Odd(j), e.idx = j + 1,
         req[j] = 1
  PROVE  \E f \in snap : f.at < e.at /\ req[f.idx] = 1
<1>1. /\ Types /\ TypeOK /\ PermanentOps /\ Armed /\ Copy(a)
      /\ Window(g0, g1, s, g) /\ Live(g0, g1, s, g) /\ Raised(s, g)
  BY DEF BasicInv, RingInv, Types
<1>2. /\ snap = {x \in entries : x.at < a} /\ ringNext \in Nat
      /\ entries \subseteq [at : Nat, n : Nat, idx : Slots, sync : BOOLEAN, permanent : BOOLEAN]
  BY <1>1 DEF Copy, TypeOK
<1>3. /\ ringNext < g0 + KRing
      /\ \A x \in entries : IF x.permanent THEN x.idx >= KRing ELSE x.idx < KRing
  BY <1>1, Room
<1>4. e \in entries /\ e.at < a /\ e.at \in Nat /\ e.n \in Nat /\ e.permanent \in BOOLEAN /\ j \in Nat
  BY <1>2, Sizes DEF Slots
<1>5. PICK f \in entries : f.idx = j /\ f.at < e.at
  <2>1. CASE j < KRing
    <3>1. PICK f \in entries : ~f.permanent /\ f.idx = j /\ f.n < g
      BY <1>1, <2>1 DEF Raised
    <3>2. f.n \in Nat /\ f.idx = f.n % KRing /\ g0 <= f.n /\ f.n < ringNext
      BY <1>1, <1>2, <3>1 DEF Armed, Live
    <3>3. f.n % 2 = 0
      <4>1. f.n % 2 = j % 2
        BY <3>1, <3>2, RingParity
      <4>2. j % 2 # 1
        BY DEF Odd
      <4> QED BY <3>2, <4>1, <4>2
    <3>5. PICK m \in Nat : m = f.n + 1
      BY <3>2
    <3>4. m % KRing = e.idx
      BY <3>1, <3>2, <3>3, <3>5, RingPair
    <3>6. e.idx \in 0 .. KRing - 1
      BY <3>4, <3>5, ModRange, RingAssumption
    <3>7. ~e.permanent
      BY <1>3, <1>4, <3>6, Sizes
    <3>8. e.idx = e.n % KRing /\ g0 <= e.n /\ e.n < ringNext
      BY <1>1, <1>4, <3>7 DEF Armed, Live
    <3>9. PICK k \in Nat : k = e.n
      BY <1>4
    <3>10. k % KRing = m % KRing
      BY <3>4, <3>8, <3>9
    <3>11. (k < m => k + KRing <= m) /\ (m < k => m + KRing <= k)
      BY <3>10, ModGap, RingAssumption
    <3>13. f.n < e.n
      BY <1>2, <1>3, <3>2, <3>5, <3>8, <3>9, <3>11, Sizes
    <3>12. f.permanent = e.permanent
      BY <1>2, <1>4, <3>1, <3>7
    <3> QED BY <1>1, <1>4, <3>1, <3>12, <3>13 DEF Armed
  <2>2. CASE ~(j < KRing)
    <3>1. permNext \in Nat
      BY <1>1, Sizes DEF TypeOK
    <3>2. j < KRing + permNext
      BY <1>1, <2>2 DEF Raised, GivenOut
    <3>3. j - KRing \in Nat /\ j - KRing < permNext
      BY <1>4, <2>2, <3>1, <3>2, Sizes
    <3>4. PICK f \in entries : f.permanent /\ f.n = j - KRing
      BY <1>1, <3>3 DEF Armed
    <3>5. f.idx = KRing + f.n
      BY <1>1, <3>4 DEF Armed
    <3>6. f.idx = j
      BY <1>4, <3>4, <3>5, Sizes
    <3>7. e.permanent
      BY <1>3, <1>4, <2>2, Sizes
    <3>8. e.idx = KRing + e.n
      BY <1>1, <1>4, <3>7 DEF Armed
    <3>9. f.n < e.n
      BY <1>4, <3>4, <3>8, Sizes
    <3>10. f.permanent = e.permanent
      BY <1>2, <1>4, <3>4, <3>7
    <3> QED BY <1>1, <1>4, <3>6, <3>9, <3>10 DEF Armed
  <2> QED BY <2>1, <2>2
<1>6. f \in snap
  <2>1. f.at \in Nat
    BY <1>2
  <2> QED BY <1>2, <1>4, <1>5, <2>1
<1> QED BY <1>5, <1>6

\* The poller takes up an entry: its task goes from asked for to in hand.
LEMMA ClaimTask ==
  ASSUME WideRing, BasicInv, NEW g0 \in Nat, NEW g1 \in Nat, NEW s \in Nat, NEW a \in Nat, NEW g \in Nat,
         RingInv(g0, g1, s, a, g), TaskInv(g), PollClaim
  PROVE  TaskInv(g)'
<1> SUFFICES ASSUME ~overtaken' PROVE OneTask(g)'
  BY DEF TaskInv
<1>1. PICK e \in left : /\ req[e.idx] = 1 /\ req' = [req EXCEPT ![e.idx] = 0] /\ claimed' = {e}
                        /\ overtaken' = (overtaken \/ (e.sync /\ \E f \in snap : f.at < e.at /\ req[f.idx] = 1))
  BY DEF PollClaim
<1>2. /\ claimed = {} /\ left # {}
      /\ UNCHANGED <<open, capturing, stream, done, queue, asked, ran>>
  BY <1>1 DEF PollClaim, hostVars
<1>3. ~overtaken /\ ~(e.sync /\ \E f \in snap : f.at < e.at /\ req[f.idx] = 1)
  BY <1>1
<1>4. OneTask(g)
  BY <1>3 DEF TaskInv
<1>5. /\ req \in [Slots -> {0, 1}] /\ e \in snap /\ e.idx \in Slots /\ scanning
      /\ (e.sync <=> Odd(e.idx))
  BY <1>2 DEF BasicInv, Types, TypeOK, Roles
<1>6. \A j \in Slots : req'[j] = IF j = e.idx THEN 0 ELSE req[j]
  BY <1>1, <1>5
<1>7. \A j \in Slots : (InHand(j)' <=> j = e.idx) /\ ~InHand(j) /\ (Queued(j)' <=> Queued(j))
  BY <1>1, <1>2 DEF InHand, Queued
<1>8. \A j \in Slots : Busy(j)' <=> Busy(j)
  BY <1>1, <1>6, <1>7 DEF Busy
<1>9. \A j \in Slots : BeforeSync(j)' <=> BeforeSync(j)
  BY <1>2 DEF BeforeSync
<1>10. ASSUME e.sync, NEW j \in Slots, e.idx = j + 1
       PROVE  req'[j] = 0
  <2>1. ~Odd(j) /\ j # e.idx
    BY <1>5, <1>10, Sizes DEF Odd, Slots
  <2>2. req[j] # 1
    BY <1>3, <1>5, <1>10, <2>1, ClaimedSync
  <2> QED BY <1>5, <1>6, <2>1, <2>2
<1>11. ASSUME NEW j \in Slots, ~Odd(j)
       PROVE  /\ ~Busy(j)' => ran'[j] = asked'[j]
              /\ Busy(j)' => asked'[j] = ran'[j] + 1 /\ BeforeSync(j)'
              /\ ~(req'[j] = 1 /\ InHand(j)') /\ ~(req'[j] = 1 /\ Queued(j)') /\ ~(InHand(j)' /\ Queued(j)')
              /\ Busy(j)' => \A m \in Slots : m = j + 1 => done'[m] = 0
              /\ Busy(j)' /\ j < KRing => \E n \in Nat : n < g /\ g <= n + 2 /\ j = n % KRing
  <2>1. ~(req[j] = 1 /\ Queued(j))
    BY <1>4, <1>11 DEF OneTask
  <2>2. ~(req'[j] = 1 /\ InHand(j)') /\ ~(req'[j] = 1 /\ Queued(j)') /\ ~(InHand(j)' /\ Queued(j)')
    BY <1>1, <1>6, <1>7, <2>1
  <2>3. Busy(j)' /\ j < KRing => \E n \in Nat : n < g /\ g <= n + 2 /\ j = n % KRing
    BY <1>4, <1>8, <1>11 DEF OneTask
  <2> QED BY <1>2, <1>4, <1>8, <1>9, <1>11, <2>2, <2>3 DEF OneTask
<1>12. Len(queue') <= 1 /\ \A j \in Slots : Odd(j) => ~Queued(j)'
  BY <1>2, <1>4, <1>7 DEF OneTask
<1> QED BY <1>1, <1>10, <1>11, <1>12 DEF OneTask

\* The poller puts the task in its hands on the queue, which is empty: two tasks would be busy.
LEMMA EnqueueTask ==
  ASSUME BasicInv, NEW g \in Nat, TaskInv(g), PollSubmit
  PROVE  TaskInv(g)'
<1> SUFFICES ASSUME ~overtaken' PROVE OneTask(g)'
  BY DEF TaskInv
<1>1. PICK e \in claimed : ~e.sync /\ queue' = Append(queue, e.idx) /\ claimed' = {}
  BY DEF PollSubmit, Handled
<1>2. UNCHANGED <<open, capturing, stream, req, done, asked, ran, overtaken>>
  BY DEF PollSubmit, hostVars, ghostVars
<1>3. OneTask(g)
  BY <1>2 DEF TaskInv
<1>4. /\ e.idx \in Slots /\ ~Odd(e.idx) /\ queue \in Seq(Slots) /\ \A f \in claimed : f = e
  BY <1>1 DEF BasicInv, Types, TypeOK, Roles
<1>5. InHand(e.idx) /\ Busy(e.idx)
  BY DEF InHand, Busy
<1>6. queue = <<>>
  <2> SUFFICES ASSUME queue # <<>> PROVE FALSE
    OBVIOUS
  <2>1. Len(queue) \in Nat \ {0}
    BY <1>4, EmptySeq
  <2>2. 1 \in 1 .. Len(queue)
    BY <2>1
  <2>3. queue[1] \in Slots
    BY <1>4, <2>2, ElementOfSeq
  <2>4. Queued(queue[1]) /\ Busy(queue[1])
    BY <2>2 DEF Queued, Busy
  <2>5. ~Odd(queue[1])
    BY <1>3, <2>3, <2>4 DEF OneTask
  <2>6. queue[1] = e.idx
    BY <1>3, <1>4, <1>5, <2>3, <2>4, <2>5, OneBusy
  <2> QED BY <1>3, <1>4, <1>5, <2>4, <2>6 DEF OneTask
<1>7. queue' = <<e.idx>>
  BY <1>1, <1>4, <1>6
<1>8. Len(queue') = 1 /\ queue'[1] = e.idx
  BY <1>7
<1>9. ASSUME NEW j \in Slots
      PROVE  (Queued(j)' <=> j = e.idx) /\ ~Queued(j) /\ ~InHand(j)' /\ (InHand(j) <=> j = e.idx)
  <2>1. Queued(j)' <=> j = e.idx
    BY <1>8 DEF Queued
  <2>2. ~Queued(j)
    <3>1. Len(queue) = 0
      BY <1>6, EmptySeq
    <3> QED BY <3>1 DEF Queued
  <2> QED BY <1>1, <1>4, <2>1, <2>2 DEF InHand
<1>10. \A j \in Slots : (Busy(j)' <=> Busy(j)) /\ (BeforeSync(j)' <=> BeforeSync(j))
  BY <1>2, <1>9 DEF Busy, BeforeSync
<1>11. \A j \in Slots : ~Odd(j) => ~(req[j] = 1 /\ InHand(j))
  BY <1>3 DEF OneTask
<1>12. ASSUME NEW j \in Slots, ~Odd(j)
       PROVE  /\ ~Busy(j)' => ran'[j] = asked'[j]
              /\ Busy(j)' => asked'[j] = ran'[j] + 1 /\ BeforeSync(j)'
              /\ ~(req'[j] = 1 /\ InHand(j)') /\ ~(req'[j] = 1 /\ Queued(j)') /\ ~(InHand(j)' /\ Queued(j)')
              /\ Busy(j)' => \A m \in Slots : m = j + 1 => done'[m] = 0
              /\ Busy(j)' /\ j < KRing => \E n \in Nat : n < g /\ g <= n + 2 /\ j = n % KRing
  <2>1. ~(req'[j] = 1 /\ InHand(j)') /\ ~(req'[j] = 1 /\ Queued(j)') /\ ~(InHand(j)' /\ Queued(j)')
    BY <1>2, <1>9, <1>11, <1>12
  <2>2. Busy(j)' /\ j < KRing => \E n \in Nat : n < g /\ g <= n + 2 /\ j = n % KRing
    BY <1>3, <1>10, <1>12 DEF OneTask
  <2> QED BY <1>2, <1>3, <1>10, <1>12, <2>1, <2>2 DEF OneTask
<1>13. Len(queue') <= 1 /\ \A j \in Slots : Odd(j) => ~Queued(j)'
  BY <1>4, <1>8, <1>9
<1> QED BY <1>1, <1>12, <1>13 DEF OneTask

\* The poller raises done for a sync: the queue is empty and the submit's flag down, so no
\* task is busy.
LEMMA RaiseTask ==
  ASSUME BasicInv, NEW g \in Nat, TaskInv(g), PollSync
  PROVE  TaskInv(g)'
<1> SUFFICES ASSUME ~overtaken' PROVE OneTask(g)'
  BY DEF TaskInv
<1>1. PICK e \in claimed : e.sync /\ claimed' = {}
  BY DEF PollSync, Handled
<1>2. queue = <<>> /\ UNCHANGED <<stream, req, queue, asked, ran, overtaken>>
  BY DEF PollSync, hostVars, ghostVars
<1>3. OneTask(g)
  BY <1>2 DEF TaskInv
<1>4. e.idx \in Slots /\ Odd(e.idx) /\ \A f \in claimed : f = e
  BY <1>1 DEF BasicInv, Types, TypeOK, Roles
<1>5. stream # <<>> /\ stream[1] = WaitDone(e.idx)
  BY <1>4 DEF BasicInv, Awaited, Asking
<1>6. \A j \in Slots : ~Queued(j)
  <2>1. Len(queue) = 0
    BY <1>2, EmptySeq
  <2> QED BY <2>1 DEF Queued
<1>7. ASSUME NEW j \in Slots, ~Odd(j) PROVE ~Busy(j)
  <2> SUFFICES ASSUME Busy(j) PROVE FALSE
    OBVIOUS
  <2>1. BeforeSync(j)
    BY <1>3, <1>7 DEF OneTask
  <2>2. e.idx = j + 1
    BY <1>5, <2>1 DEF BeforeSync, WaitDone
  <2>3. req[j] = 0
    BY <1>1, <1>3, <2>2 DEF OneTask
  <2>4. ~InHand(j)
    BY <1>4, <1>7 DEF InHand
  <2> QED BY <1>6, <2>3, <2>4 DEF Busy
<1>8. \A j \in Slots : ~InHand(j)' /\ ~Queued(j)'
  BY <1>1, <1>2, <1>6 DEF InHand, Queued
<1>9. \A j \in Slots : ~Odd(j) => ~Busy(j)'
  BY <1>2, <1>7, <1>8 DEF Busy
<1>10. \A j \in Slots : ~Odd(j) => ran'[j] = asked'[j]
  BY <1>2, <1>3, <1>7 DEF OneTask
<1>11. Len(queue') <= 1
  BY <1>2, <1>3 DEF OneTask
<1> QED BY <1>1, <1>8, <1>9, <1>10, <1>11 DEF OneTask

\* The worker finishes the one task on the queue.
LEMMA WorkerTask ==
  ASSUME BasicInv, NEW g \in Nat, TaskInv(g), Worker
  PROVE  TaskInv(g)'
<1> SUFFICES ASSUME ~overtaken' PROVE OneTask(g)'
  BY DEF TaskInv
<1>1. /\ queue # <<>> /\ queue' = Tail(queue) /\ ran' = [ran EXCEPT ![Head(queue)] = @ + 1]
      /\ UNCHANGED <<open, capturing, stream, req, done, claimed, asked, overtaken>>
  BY DEF Worker, hostVars, pollVars
<1>2. OneTask(g)
  BY <1>1 DEF TaskInv
<1>3. queue \in Seq(Slots) /\ ran \in [Slots -> Nat]
  BY DEF BasicInv, Types, TypeOK
<1>4. Len(queue) = 1
  <2>1. PICK l \in Nat \ {0} : l = Len(queue)
    BY <1>1, <1>3, EmptySeq
  <2>2. Len(queue) <= 1
    BY <1>2 DEF OneTask
  <2>3. l <= 1
    BY <2>1, <2>2
  <2>4. l = 1
    BY <2>3
  <2> QED BY <2>1, <2>4
<1>5. PICK i \in Slots : i = queue[1]
  BY <1>3, <1>4, ElementOfSeq
<1>6. Head(queue) = i /\ Len(queue') = 0
  BY <1>1, <1>3, <1>4, <1>5
<1>7. \A j \in Slots : (Queued(j) <=> j = i) /\ ~Queued(j)' /\ (InHand(j)' <=> InHand(j))
  <2>1. \A j \in Slots : Queued(j) <=> j = i
    BY <1>4, <1>5 DEF Queued
  <2>2. \A j \in Slots : ~Queued(j)'
    BY <1>6 DEF Queued
  <2>3. \A j \in Slots : InHand(j)' <=> InHand(j)
    BY <1>1 DEF InHand
  <2> QED BY <2>1, <2>2, <2>3
<1>8. ~Odd(i)
  BY <1>2, <1>7 DEF OneTask
<1>9. req[i] # 1 /\ ~InHand(i) /\ asked[i] = ran[i] + 1
  BY <1>2, <1>7, <1>8 DEF OneTask, Busy
<1>10. \A j \in Slots : Busy(j)' <=> (Busy(j) /\ j # i)
  BY <1>1, <1>7, <1>9 DEF Busy
<1>11. ran'[i] = ran[i] + 1 /\ \A j \in Slots : j # i => ran'[j] = ran[j]
  BY <1>1, <1>3, <1>6
<1>12. \A j \in Slots : BeforeSync(j)' <=> BeforeSync(j)
  BY <1>1 DEF BeforeSync
<1>13. ASSUME NEW j \in Slots, ~Odd(j)
       PROVE  /\ ~Busy(j)' => ran'[j] = asked'[j]
              /\ Busy(j)' => asked'[j] = ran'[j] + 1 /\ BeforeSync(j)'
              /\ ~(req'[j] = 1 /\ InHand(j)')
              /\ Busy(j)' => \A m \in Slots : m = j + 1 => done'[m] = 0
              /\ Busy(j)' /\ j < KRing => \E n \in Nat : n < g /\ g <= n + 2 /\ j = n % KRing
  <2>1. CASE j = i
    BY <1>1, <1>2, <1>7, <1>8, <1>9, <1>10, <1>11, <2>1 DEF OneTask
  <2>2. CASE j # i
    <3>1. ran'[j] = ran[j] /\ asked'[j] = asked[j] /\ (Busy(j)' <=> Busy(j)) /\ req'[j] = req[j]
          /\ done' = done /\ (InHand(j)' <=> InHand(j))
      BY <1>1, <1>7, <1>10, <1>11, <2>2
    <3>2. Busy(j)' /\ j < KRing => \E n \in Nat : n < g /\ g <= n + 2 /\ j = n % KRing
      BY <1>2, <1>13, <3>1 DEF OneTask
    <3> QED BY <1>2, <1>12, <1>13, <3>1, <3>2 DEF OneTask
  <2> QED BY <2>1, <2>2
<1>14. \A f \in claimed' : f.sync => \A j \in Slots : f.idx = j + 1 => req'[j] = 0
  BY <1>1, <1>2 DEF OneTask
<1>15. Len(queue') <= 1
  BY <1>6
<1> QED BY <1>7, <1>13, <1>14, <1>15 DEF OneTask

\* At the start nothing is asked for.
LEMMA InitTask == Init => TaskInv(0)
<1> SUFFICES ASSUME Init PROVE OneTask(0)
  BY DEF TaskInv
<1>1. Len(queue) = 0 /\ \A i \in Slots : req[i] = 0 /\ asked[i] = 0 /\ ran[i] = 0
  BY EmptySeq DEF Init
<1>2. claimed = {}
  BY DEF Init
<1>3. \A i \in Slots : ~InHand(i) /\ ~Queued(i) /\ ~Busy(i)
  BY <1>1, <1>2 DEF InHand, Queued, Busy
<1> QED BY <1>1, <1>2, <1>3 DEF OneTask

\* The ring's invariant and the tasks', which share the tickets the stream has run.
TaskSafe ==
  \E g0, g1, s, a, g \in Nat : RingInv(g0, g1, s, a, g) /\ TaskInv(g)

\* Every step keeps both.
LEMMA StepTask == WideRing /\ BasicInv /\ TaskSafe /\ [Next]_vars => TaskSafe'
<1> SUFFICES ASSUME WideRing, BasicInv, TaskSafe, [Next]_vars PROVE TaskSafe'
  OBVIOUS
<1>1. PICK g0 \in Nat, g1 \in Nat, s \in Nat, a \in Nat, g \in Nat :
        RingInv(g0, g1, s, a, g) /\ TaskInv(g)
  BY DEF TaskSafe
<1>2. CASE Host
  <2>1. RingInv(g0, g1, s, a, g)'
    BY <1>1, <1>2, SubmitRing, SyncRing, GraphRing DEF Host
  <2>2. TaskInv(g)'
    BY <1>1, <1>2, SubmitTask, SyncTask, GraphTask DEF Host
  <2> QED BY <2>1, <2>2 DEF TaskSafe
<1>3. CASE GpuStep
  <2>1. PICK h \in Nat : h = (IF RingWrite(stream[1]) THEN g + 1 ELSE g) /\ RingInv(g0, g1, s, a, h)'
    BY <1>1, <1>3, GpuRing
  <2>2. Tickets(g) /\ g <= ringNext
    BY <1>1 DEF RingInv, Window
  <2>3. TaskInv(h)'
    BY <1>1, <1>3, <2>1, <2>2, GpuTask
  <2> QED BY <2>1, <2>3 DEF TaskSafe
<1>4. CASE PollTop
  <2>1. RingInv(g1, g, ringNext, ringNext + permNext, g)'
    BY <1>1, <1>4, PollTopRing
  <2>2. UNCHANGED <<ringNext, permNext>>
    BY <1>4 DEF PollTop, hostVars
  <2>3. PICK top \in Nat, b \in Nat : top = ringNext /\ b = ringNext + permNext
    <3>1. ringNext \in Nat /\ permNext \in Nat
      BY Sizes DEF BasicInv, Types, TypeOK
    <3>2. ringNext + permNext \in Nat
      BY <3>1
    <3> QED BY <3>1, <3>2
  <2>4. RingInv(g1, g, top, b, g)'
    BY <2>1, <2>2, <2>3
  <2>5. TaskInv(g)'
    <3>1. /\ UNCHANGED <<req, claimed, queue, done, asked, ran, overtaken>>
          /\ UNCHANGED <<stream, open, capturing>>
      BY <1>4 DEF PollTop, hostVars, ghostVars
    <3>2. \A i \in Slots : BeforeSync(i) => BeforeSync(i)'
      BY <3>1 DEF BeforeSync
    <3> QED BY <1>1, <3>1, <3>2, TaskStays
  <2> QED BY <2>4, <2>5 DEF TaskSafe
<1>5. CASE PollEnd
  <2>1. RingInv(g0, g1, s, a, g)'
    BY <1>1, <1>5, PollEndRing
  <2>2. TaskInv(g)'
    <3>1. /\ UNCHANGED <<req, claimed, queue, done, asked, ran, overtaken>>
          /\ UNCHANGED <<stream, open, capturing>>
      BY <1>5 DEF PollEnd, hostVars, ghostVars
    <3>2. \A i \in Slots : BeforeSync(i) => BeforeSync(i)'
      BY <3>1 DEF BeforeSync
    <3> QED BY <1>1, <3>1, <3>2, TaskStays
  <2> QED BY <2>1, <2>2 DEF TaskSafe
<1>6. CASE PollSkip \/ PollClaim \/ PollSubmit \/ PollSync
  <2>1. RingInv(g0, g1, s, a, g)'
    BY <1>1, <1>6, PollEntryRing
  <2>2. CASE PollSkip
    <3>1. /\ UNCHANGED <<req, claimed, queue, done, asked, ran, overtaken>>
          /\ UNCHANGED <<stream, open, capturing>>
      BY <2>2 DEF PollSkip, hostVars, ghostVars
    <3>2. \A i \in Slots : BeforeSync(i) => BeforeSync(i)'
      BY <3>1 DEF BeforeSync
    <3>3. TaskInv(g)'
      BY <1>1, <3>1, <3>2, TaskStays
    <3> QED BY <2>1, <3>3 DEF TaskSafe
  <2>3. CASE PollClaim \/ PollSubmit \/ PollSync
    <3>1. TaskInv(g)'
      BY <1>1, <2>3, ClaimTask, EnqueueTask, RaiseTask
    <3> QED BY <2>1, <3>1 DEF TaskSafe
  <2> QED BY <1>6, <2>2, <2>3
<1>7. CASE Worker
  <2>1. RingInv(g0, g1, s, a, g)' /\ TaskInv(g)'
    BY <1>1, <1>7, WorkerRing, WorkerTask
  <2> QED BY <2>1 DEF TaskSafe
<1>8. CASE UNCHANGED vars
  <2>1. RingInv(g0, g1, s, a, g)'
    BY <1>1, <1>8, WorkerRing
  <2>2. /\ UNCHANGED <<req, claimed, queue, done, asked, ran, overtaken>>
        /\ UNCHANGED <<stream, open, capturing>>
    BY <1>8 DEF vars, hostVars, pollVars, ghostVars
  <2>3. \A i \in Slots : BeforeSync(i) => BeforeSync(i)'
    BY <2>2 DEF BeforeSync
  <2>4. TaskInv(g)'
    BY <1>1, <2>2, <2>3, TaskStays
  <2> QED BY <2>1, <2>4 DEF TaskSafe
<1> QED BY <1>2, <1>3, <1>4, <1>5, <1>6, <1>7, <1>8 DEF Next, Poller

\* A kernel that reads the experts' output finds the task done as often as the stream
\* asked for it, as long as no sync has overtaken a submit: the poller's scan, its wait
\* for the queue and the stream's wait on done add up to a hand-over.
THEOREM OutputComplete == WideRing => (Spec => []OutputReady)
<1> SUFFICES ASSUME WideRing PROVE Spec => []OutputReady
  OBVIOUS
<1>1. Init => BasicInv /\ TaskSafe
  <2>1. Init => RingInv(0, 0, 0, 0, 0) /\ TaskInv(0)
    BY InitRing, InitTask
  <2> QED BY <2>1, InitBasic DEF TaskSafe
<1>2. BasicInv /\ TaskSafe /\ [Next]_vars => (BasicInv /\ TaskSafe)'
  BY StepBasic, StepTask
<1>3. BasicInv /\ TaskSafe => OutputReady
  <2> SUFFICES ASSUME BasicInv, TaskSafe, stream # <<>>, Head(stream).op = "use", ~overtaken
               PROVE  ran[Head(stream).idx] = asked[Head(stream).idx]
    BY DEF OutputReady
  <2>1. PICK g \in Nat : OneTask(g)
    BY DEF TaskSafe, TaskInv
  <2>2. /\ Head(stream) = stream[1] /\ stream[1].idx \in Slots /\ 1 \in 1 .. Len(stream)
    <3>1. stream \in Seq(Op)
      BY DEF BasicInv, Types
    <3>2. Head(stream) = stream[1] /\ Len(stream) \in Nat /\ Len(stream) >= 1
      BY <3>1, TailFacts
    <3> QED BY <3>1, <3>2, WriteTicket
  <2>3. ~Odd(stream[1].idx)
    BY <2>2 DEF BasicInv, QueueBlocks, Blocks, SyncBlocks
  <2>4. ~BeforeSync(stream[1].idx)
    BY <2>2 DEF BeforeSync
  <2>5. ~Busy(stream[1].idx)
    BY <2>1, <2>2, <2>3, <2>4 DEF OneTask
  <2> QED BY <2>1, <2>2, <2>3, <2>5 DEF OneTask
<1> QED BY <1>1, <1>2, <1>3, PTL DEF Spec
=============================================================================
