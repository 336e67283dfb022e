---------------------------- MODULE KTLend_proofs ----------------------------
(***************************************************************************)
(* Proofs about KTLend for any number of layers, any thresholds, any mix   *)
(* and any number of forwards. The queue positions below count from the    *)
(* operation a stream runs next; Ran turns them into the numbers events    *)
(* hold.                                                                   *)
(***************************************************************************)
EXTENDS KTLend, TLAPS

Op == [op : {"wait"}, upto : Nat]
        \cup [op : {"read"}, layer : Layers, from : Places]
        \cup [op : {"copy"}, layer : Layers, to : Places]

\* The streams are queues of operations, and have been given what they run.
Queues ==
  /\ cur \in Seq(Op) /\ side \in Seq(Op)
  /\ given \in [cur : Nat, side : Nat]
  /\ Len(cur) <= given.cur /\ Len(side) <= given.side

\* What has begun is a copy at the head of its stream.
CopyingHeads ==
  /\ "cur" \in copying => cur # <<>> /\ cur[1].op = "copy"
  /\ "side" \in copying => side # <<>> /\ side[1].op = "copy"

\* What is mapped goes with the phase, and once _check_room has raised nothing
\* runs any more.
Mapping ==
  /\ phase = "load" => mapped = Places
  /\ phase = "decode" => mapped = Spans
  /\ phase = "prefill" => mapped = IF alive THEN Places \ Spans ELSE {}
  /\ ~alive => phase = "prefill" /\ forward = Idle /\ Drained /\ pfCur = None

\* The layer the hooks entered last, seen from the layer the host queues next.
HostAt ==
  /\ phase # "prefill" => pfCur = None
  /\ phase = "prefill" /\ forward # Idle => forward.extend
  /\ phase = "prefill" /\ (forward = Idle \/ (layer = 0 /\ ~entered)) => pfCur \in {None, N - 1}
  /\ phase = "prefill" /\ forward # Idle /\ layer > 0 /\ ~entered => pfCur = layer - 1
  /\ forward # Idle /\ entered => layer < N /\ (phase = "prefill" => pfCur = layer)

\* The layer being run points at its slot.
CurrentAway == pfCur # None => point[pfCur] = SlotOf(pfCur)

CopyAt(q, n, p) == q[n].op = "copy" /\ q[n].to = p

\* Outside a prefill window the side stream has nothing, no stream waits, and
\* copies and reads go to the layers' own addresses.
HomeOps ==
  phase # "prefill" =>
    /\ side = <<>>
    /\ \A n \in 1 .. Len(cur) :
         /\ cur[n].op \in {"read", "copy"}
         /\ cur[n].op = "read" => cur[n].from = Span(cur[n].layer)
         /\ cur[n].op = "copy" => cur[n].to = Span(cur[n].layer)

\* ... and a layer's weights are home, or their one copy home comes before every
\* read of them.
HomeFilled ==
  phase # "prefill" =>
    \A i \in Layers :
      \E m \in 0 .. Len(cur) :
        /\ IF m = 0 THEN holds[Span(i)] = i ELSE CopyAt(cur, m, Span(i))
        /\ \A n \in 1 .. Len(cur) :
             /\ CopyAt(cur, n, Span(i)) => n = m
             /\ cur[n].op = "read" /\ cur[n].layer = i => n > m

\* In a prefill window cur waits and reads slots, side waits and fills them.
SlotOps ==
  phase = "prefill" =>
    /\ \A n \in 1 .. Len(cur) :
         /\ cur[n].op \in {"wait", "read"}
         /\ cur[n].op = "read" => cur[n].from = SlotOf(cur[n].layer)
    /\ \A n \in 1 .. Len(side) :
         /\ side[n].op \in {"wait", "copy"}
         /\ side[n].op = "copy" => side[n].to = SlotOf(side[n].layer)

\* Place p holds layer i's weights (m = 0), or will when side has run its
\* operation m, which is at most the event e.
Filled(p, i, m, e) ==
  IF m = 0 THEN holds[p] = i
           ELSE CopyAt(side, m, p) /\ side[m].layer = i /\ Ran("side", side) + m <= e

\* The event operation h of cur waits for.
Upto(h) == IF h > 0 /\ cur[h].op = "wait" THEN cur[h].upto ELSE 0

\* Operation n of cur finds layer i's weights in x, filled by a copy that cur has
\* waited for before, and every later copy to x waits for it.
Guarded(x, i, n) ==
  \E m \in 0 .. Len(side) : \E h \in 0 .. n - 1 :
    /\ Filled(x, i, m, Upto(h))
    /\ \A q \in m + 1 .. Len(side) :
         CopyAt(side, q, x) =>
           q > 1 /\ side[q - 1].op = "wait" /\ side[q - 1].upto >= Ran("cur", cur) + n

ReadsGuarded ==
  phase = "prefill" =>
    \A n \in 1 .. Len(cur) :
      cur[n].op = "read" => Guarded(cur[n].from, cur[n].layer, n)

\* The done event of a slot comes after every read of it, but for those of the
\* layer that is still being run.
DoneAfterReads ==
  phase = "prefill" =>
    \A n \in 1 .. Len(cur) :
      cur[n].op = "read" =>
        Ran("cur", cur) + n <= done[cur[n].layer % 2]
          \/ (pfCur # None /\ cur[n].layer % 2 = pfCur % 2)

\* Layer i has its slot filled, or being filled by a copy cur waits for, and
\* nobody has asked for the slot's next filling.
Awaited(i) ==
  \E m \in 0 .. Len(side) : \E h \in 0 .. Len(cur) :
    /\ Filled(SlotOf(i), i, m, Upto(h))
    /\ \A q \in m + 1 .. Len(side) : ~CopyAt(side, q, SlotOf(i))

\* The same by a copy that the slot's ready event tells of.
Told(i) ==
  \E m \in 0 .. Len(side) :
    /\ Filled(SlotOf(i), i, m, ready[i % 2])
    /\ \A q \in m + 1 .. Len(side) : ~CopyAt(side, q, SlotOf(i))

\* The layer being run and the one after it.
CurrentFilled == phase = "prefill" /\ pfCur # None => Awaited(pfCur)

NextFilled ==
  phase = "prefill" /\ pfCur # None =>
    /\ \A i \in issued : i <= pfCur + 1
    /\ pfCur + 1 < N => pfCur + 1 \in issued /\ Told(pfCur + 1)

IInv ==
  /\ TypeOK /\ Queues /\ CopyingHeads /\ Mapping /\ HostAt /\ OthersAtHome /\ CurrentAway
  /\ HomeOps /\ HomeFilled
  /\ SlotOps /\ ReadsGuarded /\ DoneAfterReads /\ CurrentFilled /\ NextFilled

-----------------------------------------------------------------------------
(* Places and queues *)

\* Spans and slots are apart, a span is one layer's, and two layers share a slot
\* when they are an even number apart.
LEMMA PlaceFacts ==
  ASSUME NEW i \in Layers, NEW j \in Layers
  PROVE  /\ i \in Nat /\ i < N /\ i % 2 \in Slots
         /\ Span(i) \in Places /\ Span(i) \in Spans
         /\ SlotOf(i) \in Places /\ SlotOf(i) \notin Spans
         /\ Span(i) = Span(j) <=> i = j
         /\ Span(i) # SlotOf(j)
         /\ SlotOf(i) = SlotOf(j) <=> i % 2 = j % 2
BY NAssumption DEF Span, SlotOf, Places, Spans, Slots, Layers

\* What the operations hold.
LEMMA OpFields ==
  /\ \A n \in Nat : Wait(n) \in Op /\ Wait(n).op = "wait" /\ Wait(n).upto = n
  /\ \A i \in Layers, x \in Places :
       /\ Read(i, x) \in Op /\ Read(i, x).op = "read" /\ Read(i, x).layer = i
       /\ Read(i, x).from = x
       /\ Copy(i, x) \in Op /\ Copy(i, x).op = "copy" /\ Copy(i, x).layer = i
       /\ Copy(i, x).to = x
BY DEF Wait, Read, Copy, Op

\* The fields an operation of each kind has.
LEMMA OpTypes ==
  ASSUME NEW o \in Op
  PROVE  /\ o.op \in {"wait", "read", "copy"}
         /\ o.op = "wait" => o.upto \in Nat
         /\ o.op = "read" => o.layer \in Layers /\ o.from \in Places
         /\ o.op = "copy" => o.layer \in Layers /\ o.to \in Places
BY DEF Op

\* Running the operation at the head of a queue.
LEMMA TailFacts ==
  ASSUME NEW q \in Seq(Op), q # <<>>
  PROVE  /\ Tail(q) \in Seq(Op) /\ Head(q) = q[1] /\ q[1] \in Op
         /\ Len(q) \in Nat /\ Len(q) >= 1
         /\ Len(Tail(q)) = Len(q) - 1
         /\ \A n \in 1 .. Len(q) - 1 : Tail(q)[n] = q[n + 1]
OBVIOUS

\* Giving a stream one more operation.
LEMMA AppendFacts ==
  ASSUME NEW q \in Seq(Op), NEW o \in Op
  PROVE  /\ Append(q, o) \in Seq(Op) /\ Len(q) \in Nat
         /\ Len(Append(q, o)) = Len(q) + 1
         /\ Append(q, o)[Len(q) + 1] = o
         /\ \A n \in 1 .. Len(q) : Append(q, o)[n] = q[n]
OBVIOUS

\* Giving a stream a wait and a copy.
LEMMA AppendTwo ==
  ASSUME NEW q \in Seq(Op), NEW a \in Op, NEW b \in Op
  PROVE  LET r == q \o <<a, b>>
         IN  /\ r \in Seq(Op) /\ Len(q) \in Nat
             /\ Len(r) = Len(q) + 2
             /\ r[Len(q) + 1] = a /\ r[Len(q) + 2] = b
             /\ \A n \in 1 .. Len(q) : r[n] = q[n]
<1>1. <<a, b>> \in Seq(Op) /\ Len(<<a, b>>) = 2 /\ <<a, b>>[1] = a /\ <<a, b>>[2] = b
  OBVIOUS
<1> QED BY <1>1

\* What the streams have run is a number of operations.
LEMMA RanNat ==
  ASSUME Queues
  PROVE  /\ Len(cur) \in Nat /\ Len(side) \in Nat
         /\ Ran("cur", cur) = given.cur - Len(cur) /\ Ran("cur", cur) \in Nat
         /\ Ran("side", side) = given.side - Len(side) /\ Ran("side", side) \in Nat
BY DEF Queues, Ran

\* A place filled by an event that has come is filled.
LEMMA FilledAlready ==
  ASSUME Queues, NEW x, NEW i, NEW m \in Nat, NEW e \in Nat, e <= Ran("side", side),
         Filled(x, i, m, e)
  PROVE  m = 0 /\ holds[x] = i
BY RanNat DEF Filled

\* Events are numbers.
LEMMA UptoNat ==
  ASSUME Queues, NEW h \in 0 .. Len(cur)
  PROVE  Upto(h) \in Nat
<1>1. CASE h > 0
  <2>1. cur[h] \in Op
    BY <1>1 DEF Queues
  <2> QED BY <2>1, OpTypes DEF Upto
<1>2. CASE h = 0
  BY <1>2 DEF Upto
<1> QED BY <1>1, <1>2

-----------------------------------------------------------------------------
(* Type correctness and where the tensors point: the invariants that do not *)
(* look into the queues.                                                    *)

Outer == TypeOK /\ Queues /\ CopyingHeads /\ Mapping /\ HostAt /\ OthersAtHome /\ CurrentAway

Home == HomeOps /\ HomeFilled

Window == SlotOps /\ ReadsGuarded /\ DoneAfterReads /\ CurrentFilled /\ NextFilled

\* Its three parts make the invariant, in the next state too.
LEMMA Assembled ==
  ASSUME Outer', Home', Window'
  PROVE  IInv'
BY DEF IInv, Outer, Home, Window

\* A window has nothing to say of Home, and outside there is nothing to say of a
\* window.
LEMMA OtherPart ==
  /\ phase' = "prefill" => Home'
  /\ phase' # "prefill" => Window'
BY DEF Home, HomeOps, HomeFilled, Window, SlotOps, ReadsGuarded, DoneAfterReads,
       CurrentFilled, NextFilled

\* The invariant holds at the start.
LEMMA InvInit == Init => IInv
<1> SUFFICES ASSUME Init PROVE IInv
  OBVIOUS
<1>1. \A i \in Layers : Span(i) \in Places /\ holds[Span(i)] = i
  BY PlaceFacts DEF Init, Span
<1>2. TypeOK
  <2>1. holds \in [Places -> 0 .. N]
    BY NAssumption DEF Init, Places, Spans, Layers, Junk
  <2>2. point \in [Layers -> Places]
    BY <1>1 DEF Init
  <2>3. ready \in [Slots -> Nat] /\ done \in [Slots -> Nat]
    BY DEF Init
  <2>4. /\ phase = "load" /\ alive = TRUE /\ forward = Idle /\ layer = 0 /\ entered = FALSE
        /\ forwards = 0 /\ pfCur = N /\ issued = {} /\ mapped = Places /\ copying = {}
    BY DEF Init, None
  <2>5. /\ layer \in 0 .. N /\ forwards \in 0 .. MaxForwards /\ pfCur \in 0 .. N
        /\ issued \subseteq Layers /\ mapped \subseteq Places /\ copying \subseteq {"cur", "side"}
    BY <2>4, NAssumption, MaxForwardsAssumption
  <2>7. phase \in {"load", "decode", "prefill"} /\ alive \in BOOLEAN /\ entered \in BOOLEAN
    BY <2>4
  <2>6. forward \in Batches \cup {Idle}
    BY <2>4
  <2> QED BY <2>1, <2>2, <2>3, <2>5, <2>6, <2>7 DEF TypeOK
<1>3. Queues /\ CopyingHeads /\ Mapping /\ HostAt /\ OthersAtHome /\ CurrentAway
  BY DEF Init, Queues, CopyingHeads, Mapping, HostAt, OthersAtHome, CurrentAway
<1>4. HomeOps /\ HomeFilled
  BY <1>1 DEF Init, HomeOps, HomeFilled
<1>5. Window
  BY DEF Init, Window, SlotOps, ReadsGuarded, DoneAfterReads, CurrentFilled, NextFilled
<1> QED BY <1>2, <1>3, <1>4, <1>5 DEF IInv, Window

-----------------------------------------------------------------------------
(* The device *)

\* What a step of the device leaves alone, but for the stream it pops.
LEMMA DeviceOuter ==
  ASSUME IInv, UNCHANGED <<hostVars, lendVars, mapped, given>>,
         cur' \in Seq(Op), side' \in Seq(Op), Len(cur') <= Len(cur), Len(side') <= Len(side),
         holds' \in [Places -> 0 .. N], copying' \subseteq {"cur", "side"},
         CopyingHeads', cur # <<>> \/ side # <<>>
  PROVE  Outer'
<1> USE DEF IInv, hostVars, lendVars
<1>1. Queues'
  BY RanNat DEF Queues
<1>2. TypeOK' /\ HostAt' /\ OthersAtHome' /\ CurrentAway'
  BY DEF TypeOK, HostAt, OthersAtHome, CurrentAway
<1>3. alive
  BY DEF Mapping, Drained
<1>4. Mapping'
  BY <1>3 DEF Mapping
<1> QED BY <1>1, <1>2, <1>4 DEF Outer

\* Outside a window the device runs copies home and reads.
LEMMA CurStepHome ==
  ASSUME IInv, CurStep, phase # "prefill"
  PROVE  Home'
<1> USE DEF IInv
<1>1. /\ cur # <<>> /\ cur \in Seq(Op) /\ cur' = Tail(cur) /\ phase' = phase
      /\ side' = side /\ holds' = holds /\ side = <<>>
  BY DEF CurStep, Queues, HomeOps, memVars, hostVars
<1>2. /\ Len(cur') = Len(cur) - 1 /\ Len(cur) \in Nat /\ Len(cur) >= 1
      /\ \A n \in 1 .. Len(cur) - 1 : cur'[n] = cur[n + 1]
  BY <1>1, TailFacts
<1>3. cur[1].op = "read"
  BY <1>1, <1>2, TailFacts DEF CurStep, HomeOps
<1>4. HomeOps'
  BY <1>1, <1>2 DEF HomeOps
<1>5. HomeFilled'
  <2> SUFFICES ASSUME NEW i \in Layers
               PROVE  \E m \in 0 .. Len(cur') :
                        /\ IF m = 0 THEN holds[Span(i)] = i ELSE CopyAt(cur', m, Span(i))
                        /\ \A n \in 1 .. Len(cur') :
                             /\ CopyAt(cur', n, Span(i)) => n = m
                             /\ cur'[n].op = "read" /\ cur'[n].layer = i => n > m
    BY <1>1 DEF HomeFilled, CopyAt
  <2>1. PICK m \in 0 .. Len(cur) :
          /\ IF m = 0 THEN holds[Span(i)] = i ELSE CopyAt(cur, m, Span(i))
          /\ \A n \in 1 .. Len(cur) :
               /\ CopyAt(cur, n, Span(i)) => n = m
               /\ cur[n].op = "read" /\ cur[n].layer = i => n > m
    BY <1>1 DEF HomeFilled
  <2>2. m # 1
    BY <1>3, <2>1 DEF CopyAt
  <2>3. CASE m = 0
    <3>1. \A n \in 1 .. Len(cur') : n + 1 \in 1 .. Len(cur) /\ cur'[n] = cur[n + 1]
      BY <1>2
    <3>2. \A n \in 1 .. Len(cur') :
            /\ ~CopyAt(cur', n, Span(i))
            /\ cur'[n].op = "read" /\ cur'[n].layer = i => n > 0
      BY <2>1, <2>3, <3>1 DEF CopyAt
    <3> QED BY <1>2, <2>1, <2>3, <3>2
  <2>4. CASE m > 1
    <3>1. m - 1 \in 0 .. Len(cur') /\ m - 1 # 0 /\ cur'[m - 1] = cur[m]
      BY <1>2, <2>4
    <3>2. CopyAt(cur', m - 1, Span(i))
      BY <2>1, <2>4, <3>1 DEF CopyAt
    <3>3. \A n \in 1 .. Len(cur') :
            /\ CopyAt(cur', n, Span(i)) => n = m - 1
            /\ cur'[n].op = "read" /\ cur'[n].layer = i => n > m - 1
      <4> TAKE n \in 1 .. Len(cur')
      <4>1. n + 1 \in 1 .. Len(cur) /\ cur'[n] = cur[n + 1]
        BY <1>2
      <4>2. /\ CopyAt(cur, n + 1, Span(i)) => n + 1 = m
            /\ cur[n + 1].op = "read" /\ cur[n + 1].layer = i => n + 1 > m
        BY <2>1, <4>1
      <4> QED BY <1>2, <4>1, <4>2 DEF CopyAt
    <3> QED BY <3>1, <3>2, <3>3
  <2> QED BY <1>2, <2>2, <2>3, <2>4
<1> QED BY <1>4, <1>5 DEF Home

\* In a window cur runs waits that have passed and reads.
LEMMA CurStepWindow ==
  ASSUME IInv, CurStep, phase = "prefill"
  PROVE  Window'
<1> USE DEF IInv
<1>1. /\ cur # <<>> /\ cur \in Seq(Op) /\ cur' = Tail(cur) /\ phase' = phase
      /\ UNCHANGED <<side, holds, given, pfCur, issued, ready, done>>
  BY DEF CurStep, Queues, memVars, hostVars, lendVars
<1>2. /\ Len(cur') = Len(cur) - 1 /\ Len(cur) \in Nat /\ Len(cur) >= 1
      /\ \A n \in 1 .. Len(cur) - 1 : cur'[n] = cur[n + 1]
  BY <1>1, TailFacts
<1>3. cur[1].op = "wait" => Ran("side", side) >= cur[1].upto
  BY <1>1, TailFacts DEF CurStep
<1>4. Ran("cur", cur)' = Ran("cur", cur) + 1 /\ Ran("cur", cur) \in Nat
      /\ Ran("side", side)' = Ran("side", side) /\ Ran("side", side) \in Nat /\ Len(side) \in Nat
  BY <1>1, <1>2, RanNat DEF Ran, Queues
<1>5. SlotOps'
  BY <1>1, <1>2 DEF SlotOps
\* An event cur waited for is one it still waits for, or has come.
<1>6. ASSUME NEW x, NEW i, NEW m \in 0 .. Len(side), NEW h \in 0 .. Len(cur),
             Filled(x, i, m, Upto(h))
      PROVE  \E g \in 0 .. Len(cur') : (g = 0 \/ g = h - 1) /\ Filled(x, i, m, Upto(g))'
  <2>1. CASE h > 1
    <3>1. h - 1 \in 0 .. Len(cur') /\ h - 1 > 0 /\ cur'[h - 1] = cur[h]
      BY <1>2, <2>1
    <3>2. Upto(h - 1)' = Upto(h)
      BY <2>1, <3>1 DEF Upto
    <3>3. Filled(x, i, m, Upto(h - 1))'
      BY <1>1, <1>4, <1>6, <3>2 DEF Filled, CopyAt
    <3> QED BY <3>1, <3>3
  <2>2. CASE h <= 1
    <3>1. Upto(h) <= Ran("side", side) /\ Upto(h) \in Nat
      <4>1. Upto(h) \in Nat
        BY UptoNat
      <4> QED BY <1>3, <1>4, <2>2, <4>1 DEF Upto
    <3>2. m = 0 /\ holds[x] = i
      BY <1>6, <3>1, FilledAlready
    <3>3. Filled(x, i, m, Upto(0))'
      BY <1>1, <3>2 DEF Filled
    <3>4. 0 \in 0 .. Len(cur')
      BY <1>2
    <3> QED BY <3>3, <3>4
  <2> QED BY <1>2, <2>1, <2>2
<1>7. ReadsGuarded'
  <2>1. ASSUME NEW x, NEW i, NEW n \in 1 .. Len(cur'), Guarded(x, i, n + 1)
        PROVE  Guarded(x, i, n)'
    <3>1. n + 1 \in 1 .. Len(cur) /\ n \in Nat
      BY <1>2
    <3>2. PICK m \in 0 .. Len(side), h \in 0 .. n :
            /\ Filled(x, i, m, Upto(h))
            /\ \A q \in m + 1 .. Len(side) :
                 CopyAt(side, q, x) =>
                   q > 1 /\ side[q - 1].op = "wait" /\ side[q - 1].upto >= Ran("cur", cur) + (n + 1)
      BY <2>1, <3>1 DEF Guarded
    <3>3. h \in 0 .. Len(cur)
      BY <1>2, <3>1
    <3>4. PICK g \in 0 .. Len(cur') : (g = 0 \/ g = h - 1) /\ Filled(x, i, m, Upto(g))'
      BY <1>6, <3>2, <3>3
    <3>5. g \in 0 .. n - 1
      BY <3>1, <3>2, <3>4
    <3>6. m \in 0 .. Len(side')
      BY <1>1
    <3>7. \A q \in m + 1 .. Len(side') :
            CopyAt(side', q, x) =>
              q > 1 /\ side'[q - 1].op = "wait" /\ side'[q - 1].upto >= Ran("cur", cur)' + n
      <4> TAKE q \in m + 1 .. Len(side')
      <4> HAVE CopyAt(side', q, x)
      <4>1. q > 1 /\ side[q - 1].op = "wait" /\ side[q - 1].upto >= Ran("cur", cur) + (n + 1)
        BY <1>1, <3>2 DEF CopyAt
      <4>2. side[q - 1] \in Op
        BY <1>1, <1>4, <4>1 DEF Queues
      <4>3. side[q - 1].upto \in Nat
        BY <4>1, <4>2, OpTypes
      <4> QED BY <1>1, <1>4, <3>1, <4>1, <4>3
    <3> QED BY <3>4, <3>5, <3>6, <3>7 DEF Guarded, CopyAt
  <2>2. ASSUME NEW n \in 1 .. Len(cur'), cur'[n].op = "read"
        PROVE  Guarded(cur[n].from, cur[n].layer, n)'
    <3>1. n + 1 \in 1 .. Len(cur) /\ cur'[n] = cur[n + 1]
      BY <1>2
    <3>2. PICK x, i : x = cur'[n].from /\ i = cur'[n].layer
      OBVIOUS
    <3>3. Guarded(x, i, n + 1)
      BY <2>2, <3>1, <3>2 DEF ReadsGuarded
    <3> QED BY <2>1, <3>2, <3>3
  <2> QED BY <2>2 DEF ReadsGuarded
<1>8. DoneAfterReads'
  <2> SUFFICES ASSUME NEW n \in 1 .. Len(cur'), cur'[n].op = "read"
               PROVE  Ran("cur", cur)' + n <= done[cur'[n].layer % 2]
                        \/ (pfCur # None /\ cur'[n].layer % 2 = pfCur % 2)
    BY <1>1 DEF DoneAfterReads, None
  <2>1. n + 1 \in 1 .. Len(cur) /\ cur'[n] = cur[n + 1]
    BY <1>2
  <2>2. Ran("cur", cur) + (n + 1) <= done[cur[n + 1].layer % 2]
          \/ (pfCur # None /\ cur[n + 1].layer % 2 = pfCur % 2)
    BY <1>1, <2>1 DEF DoneAfterReads
  <2>3. done[cur[n + 1].layer % 2] \in Nat
    <3>1. cur[n + 1] \in Op /\ cur[n + 1].op = "read"
      BY <1>1, <2>1
    <3>2. cur[n + 1].layer % 2 \in Slots
      BY <3>1, OpTypes, PlaceFacts
    <3> QED BY <3>2 DEF TypeOK
  <2> QED BY <1>4, <2>1, <2>2, <2>3
<1>9. CurrentFilled'
  <2>1. ASSUME NEW i, Awaited(i) PROVE Awaited(i)'
    BY <1>1, <1>6, <2>1 DEF Awaited, CopyAt, SlotOf
  <2> QED BY <1>1, <2>1 DEF CurrentFilled, None
<1>10. NextFilled'
  <2>1. ASSUME NEW i, Told(i) PROVE Told(i)'
    BY <1>1, <1>4, <2>1 DEF Told, Filled, CopyAt, SlotOf
  <2> QED BY <1>1, <2>1 DEF NextFilled, None
<1> QED BY <1>5, <1>7, <1>8, <1>9, <1>10 DEF Window

\* A step of cur other than a copy keeps the invariant.
LEMMA CurStepStep == IInv /\ CurStep => IInv'
<1> SUFFICES ASSUME IInv, CurStep PROVE IInv'
  OBVIOUS
<1>1. Outer'
  <2>1. /\ cur # <<>> /\ cur \in Seq(Op) /\ cur' = Tail(cur)
        /\ cur[1].op \in {"wait", "read"}
        /\ UNCHANGED <<hostVars, lendVars, memVars, side, given, copying>>
    <3>1. cur # <<>> /\ cur \in Seq(Op) /\ cur' = Tail(cur)
          /\ UNCHANGED <<hostVars, lendVars, memVars, side, given, copying>>
      BY DEF CurStep, IInv, Queues
    <3> QED BY <3>1, TailFacts DEF CurStep
  <2>2. Tail(cur) \in Seq(Op) /\ Len(Tail(cur)) <= Len(cur)
    BY <2>1, TailFacts
  <2>3. CopyingHeads'
    BY <2>1 DEF IInv, CopyingHeads
  <2> QED BY <2>1, <2>2, <2>3, DeviceOuter DEF IInv, TypeOK, Queues, memVars
<1>2. phase' = phase
  BY DEF CurStep, hostVars
<1>3. CASE phase = "prefill"
  BY <1>1, <1>2, <1>3, CurStepWindow, OtherPart, Assembled
<1>4. CASE phase # "prefill"
  BY <1>1, <1>2, <1>4, CurStepHome, OtherPart, Assembled
<1> QED BY <1>3, <1>4

\* The side stream has work in a window only.
LEMMA SideInWindow ==
  ASSUME IInv, side # <<>>
  PROVE  phase = "prefill"
BY DEF IInv, HomeOps

\* A wait of side that has passed names an event before every read that is still
\* to run.
LEMMA SideWaitStep == IInv /\ SideWait => IInv'
<1> SUFFICES ASSUME IInv, SideWait PROVE IInv'
  OBVIOUS
<1> USE DEF IInv
<1>1. /\ side # <<>> /\ side \in Seq(Op) /\ side' = Tail(side) /\ phase' = phase
      /\ phase = "prefill"
      /\ UNCHANGED <<hostVars, lendVars, memVars, cur, given, copying>>
      /\ UNCHANGED <<holds, pfCur, issued, ready, done>>
  BY SideInWindow DEF SideWait, Queues, memVars, hostVars, lendVars
<1>2. /\ Len(side') = Len(side) - 1 /\ Len(side) \in Nat /\ Len(side) >= 1
      /\ \A n \in 1 .. Len(side) - 1 : side'[n] = side[n + 1]
      /\ side' \in Seq(Op)
  BY <1>1, TailFacts
<1>3. side[1].op = "wait" /\ Ran("cur", cur) >= side[1].upto /\ side[1].upto \in Nat
  BY <1>1, TailFacts, OpTypes DEF SideWait
<1>4. Ran("side", side)' = Ran("side", side) + 1 /\ Ran("side", side) \in Nat
      /\ Ran("cur", cur)' = Ran("cur", cur) /\ Ran("cur", cur) \in Nat /\ Len(cur) \in Nat
  BY <1>1, <1>2, RanNat DEF Ran, Queues
<1>5. Outer'
  <2>1. CopyingHeads'
    BY <1>1, <1>3 DEF CopyingHeads
  <2> QED BY <1>1, <1>2, <2>1, DeviceOuter DEF TypeOK, Queues, memVars
<1>6. SlotOps'
  BY <1>1, <1>2 DEF SlotOps
\* The copies move up; none was the head.
<1>7. ASSUME NEW x, NEW i, NEW m \in 0 .. Len(side), NEW e, Filled(x, i, m, e)
      PROVE  \E g \in 0 .. Len(side') : g = (IF m = 0 THEN 0 ELSE m - 1) /\ Filled(x, i, g, e)'
  <2>1. CASE m = 0
    BY <1>1, <1>2, <1>7, <2>1 DEF Filled
  <2>2. CASE m > 0
    <3>1. CopyAt(side, m, x) /\ m # 1
      BY <1>3, <1>7, <2>2 DEF Filled, CopyAt
    <3>2. m - 1 \in 0 .. Len(side') /\ m - 1 # 0 /\ side'[m - 1] = side[m]
      BY <1>2, <2>2, <3>1
    <3>3. Ran("side", side)' + (m - 1) = Ran("side", side) + m
      BY <1>4
    <3>4. Filled(x, i, m - 1, e)'
      BY <1>7, <2>2, <3>1, <3>2, <3>3 DEF Filled, CopyAt
    <3> QED BY <2>2, <3>2, <3>4
  <2> QED BY <2>1, <2>2
<1>8. ReadsGuarded'
  <2>1. ASSUME NEW x, NEW i, NEW n \in 1 .. Len(cur), Guarded(x, i, n)
        PROVE  Guarded(x, i, n)'
    <3>1. PICK m \in 0 .. Len(side), h \in 0 .. n - 1 :
            /\ Filled(x, i, m, Upto(h))
            /\ \A q \in m + 1 .. Len(side) :
                 CopyAt(side, q, x) =>
                   q > 1 /\ side[q - 1].op = "wait" /\ side[q - 1].upto >= Ran("cur", cur) + n
      BY <2>1 DEF Guarded
    <3>2. PICK u : u = Upto(h) /\ Upto(h)' = u
      BY <1>1 DEF Upto
    <3>3. PICK g \in 0 .. Len(side') : g = (IF m = 0 THEN 0 ELSE m - 1) /\ Filled(x, i, g, u)'
      BY <1>7, <3>1, <3>2
    <3>4. \A q \in g + 1 .. Len(side') :
            CopyAt(side', q, x) =>
              q > 1 /\ side'[q - 1].op = "wait" /\ side'[q - 1].upto >= Ran("cur", cur)' + n
      <4> TAKE q \in g + 1 .. Len(side')
      <4> HAVE CopyAt(side', q, x)
      <4>1. q \in Nat /\ q >= 1 /\ q + 1 \in m + 1 .. Len(side) /\ side'[q] = side[q + 1]
        BY <1>2, <3>3
      <4>2. side[q].op = "wait" /\ side[q].upto >= Ran("cur", cur) + n
        BY <3>1, <4>1 DEF CopyAt
      <4>3. q # 1
        BY <1>3, <1>4, <4>2
      <4>4. q - 1 \in 1 .. Len(side) - 1 /\ side'[q - 1] = side[q]
        <5>1. q - 1 \in 1 .. Len(side) - 1 /\ (q - 1) + 1 = q
          BY <1>2, <4>1, <4>3
        <5> QED BY <1>2, <5>1
      <4> QED BY <1>4, <4>1, <4>2, <4>3, <4>4
    <3>5. Filled(x, i, g, Upto(h))'
      BY <3>2, <3>3
    <3> QED BY <3>1, <3>3, <3>4, <3>5 DEF Guarded, CopyAt
  <2>2. ASSUME NEW n \in 1 .. Len(cur'), cur'[n].op = "read"
        PROVE  Guarded(cur[n].from, cur[n].layer, n)'
    <3>1. PICK x, i : x = cur[n].from /\ i = cur[n].layer
      OBVIOUS
    <3>2. Guarded(x, i, n)
      BY <1>1, <2>2, <3>1 DEF ReadsGuarded
    <3> QED BY <1>1, <2>1, <3>1, <3>2
  <2> QED BY <2>2 DEF ReadsGuarded
<1>9. DoneAfterReads'
  BY <1>1, <1>4 DEF DoneAfterReads, None
\* A slot's last copy stays its last.
<1>10. ASSUME NEW m \in 0 .. Len(side), NEW g, g = (IF m = 0 THEN 0 ELSE m - 1), NEW x,
              \A q \in m + 1 .. Len(side) : ~CopyAt(side, q, x)
       PROVE  \A q \in g + 1 .. Len(side') : ~CopyAt(side', q, x)
  <2> SUFFICES ASSUME NEW q \in g + 1 .. Len(side'), CopyAt(side', q, x) PROVE FALSE
    OBVIOUS
  <2>1. q + 1 \in m + 1 .. Len(side) /\ side'[q] = side[q + 1]
    BY <1>2, <1>10
  <2> QED BY <1>10, <2>1 DEF CopyAt
<1>11. CurrentFilled'
  <2>1. ASSUME NEW i, Awaited(i) PROVE Awaited(i)'
    <3>1. PICK m \in 0 .. Len(side), h \in 0 .. Len(cur) :
            /\ Filled(SlotOf(i), i, m, Upto(h))
            /\ \A q \in m + 1 .. Len(side) : ~CopyAt(side, q, SlotOf(i))
      BY <2>1 DEF Awaited
    <3>2. PICK u : u = Upto(h) /\ Upto(h)' = u
      BY <1>1 DEF Upto
    <3>3. PICK g \in 0 .. Len(side') :
            g = (IF m = 0 THEN 0 ELSE m - 1) /\ Filled(SlotOf(i), i, g, u)'
      BY <1>7, <3>1, <3>2 DEF SlotOf
    <3>4. \A q \in g + 1 .. Len(side') : ~CopyAt(side', q, SlotOf(i))
      BY <1>10, <3>1, <3>3
    <3>5. Filled(SlotOf(i), i, g, Upto(h))'
      BY <3>2, <3>3
    <3> QED BY <1>1, <3>3, <3>4, <3>5 DEF Awaited, CopyAt, SlotOf
  <2> QED BY <1>1, <2>1 DEF CurrentFilled, None
<1>12. NextFilled'
  <2>1. ASSUME NEW i, Told(i) PROVE Told(i)'
    <3>1. PICK m \in 0 .. Len(side) :
            /\ Filled(SlotOf(i), i, m, ready[i % 2])
            /\ \A q \in m + 1 .. Len(side) : ~CopyAt(side, q, SlotOf(i))
      BY <2>1 DEF Told
    <3>2. PICK u : u = ready[i % 2] /\ ready'[i % 2] = u
      BY <1>1
    <3>3. PICK g \in 0 .. Len(side') :
            g = (IF m = 0 THEN 0 ELSE m - 1) /\ Filled(SlotOf(i), i, g, u)'
      BY <1>7, <3>1, <3>2 DEF SlotOf
    <3>4. \A q \in g + 1 .. Len(side') : ~CopyAt(side', q, SlotOf(i))
      BY <1>10, <3>1, <3>3
    <3>5. Filled(SlotOf(i), i, g, ready[i % 2])'
      BY <3>2, <3>3
    <3> QED BY <3>3, <3>4, <3>5 DEF Told, CopyAt, SlotOf
  <2> QED BY <1>1, <2>1 DEF NextFilled, None
<1>13. Window'
  BY <1>6, <1>8, <1>9, <1>11, <1>12 DEF Window
<1> QED BY <1>1, <1>5, <1>13, OtherPart, Assembled

\* A copy that begins is of cur outside a window, of side in one.
LEMMA CopyOf ==
  ASSUME IInv, NEW s \in {"cur", "side"}, NEW q, q = (IF s = "cur" THEN cur ELSE side),
         q # <<>>, q[1].op = "copy"
  PROVE  /\ s = "cur" <=> phase # "prefill"
         /\ q \in Seq(Op) /\ Len(q) \in Nat /\ Len(q) >= 1 /\ Head(q) = q[1]
         /\ q[1].layer \in Layers /\ q[1].to \in Places
         /\ q[1].to = IF s = "cur" THEN Span(q[1].layer) ELSE SlotOf(q[1].layer)
<1> USE DEF IInv
<1>1. q \in Seq(Op)
  BY DEF Queues
<1>2. Len(q) \in Nat /\ Len(q) >= 1 /\ Head(q) = q[1] /\ q[1] \in Op
  BY <1>1, TailFacts
<1>3. q[1].layer \in Layers /\ q[1].to \in Places
  BY <1>2, OpTypes
<1>4. CASE s = "cur"
  <2>1. q = cur /\ 1 \in 1 .. Len(cur)
    BY <1>2, <1>4
  <2> QED BY <1>1, <1>2, <1>3, <1>4, <2>1 DEF HomeOps, SlotOps
<1>5. CASE s = "side"
  <2>1. q = side /\ 1 \in 1 .. Len(side) /\ s # "cur"
    BY <1>2, <1>5
  <2> QED BY <1>1, <1>2, <1>3, <1>5, <2>1, SideInWindow DEF SlotOps
<1> QED BY <1>4, <1>5

\* What is being written has nothing in it, and a read of it is still to come.
LEMMA CopyBeginsStep ==
  ASSUME IInv, NEW s \in {"cur", "side"}, NEW q, q = (IF s = "cur" THEN cur ELSE side),
         CopyBegins(s, q)
  PROVE  IInv'
<1> USE DEF IInv
<1>1. /\ q # <<>> /\ q[1].op = "copy" /\ s \notin copying /\ copying' = copying \cup {s}
      /\ holds' = [holds EXCEPT ![q[1].to] = Junk]
      /\ UNCHANGED <<hostVars, lendVars, mapped, cur, side, given>>
  <2>1. q # <<>> /\ q \in Seq(Op)
    BY DEF CopyBegins, Queues
  <2> QED BY <2>1, TailFacts DEF CopyBegins
<1>2. /\ s = "cur" <=> phase # "prefill"
      /\ q \in Seq(Op) /\ Len(q) \in Nat /\ Len(q) >= 1
      /\ q[1].layer \in Layers /\ q[1].to \in Places
      /\ q[1].to = IF s = "cur" THEN Span(q[1].layer) ELSE SlotOf(q[1].layer)
  BY <1>1, CopyOf
<1>3. \A x \in Places : holds'[x] = IF x = q[1].to THEN Junk ELSE holds[x]
  BY <1>1 DEF TypeOK
<1>4. Outer'
  <2>1. CopyingHeads'
    BY <1>1, <1>2 DEF CopyingHeads
  <2>2. holds' \in [Places -> 0 .. N]
    <3>1. holds \in [Places -> 0 .. N] /\ Junk \in 0 .. N
      BY NAssumption DEF TypeOK, Junk
    <3>2. \A f \in [Places -> 0 .. N], x \in Places, v \in 0 .. N :
            [f EXCEPT ![x] = v] \in [Places -> 0 .. N]
      OBVIOUS
    <3> QED BY <1>1, <1>2, <3>1, <3>2
  <2>3. copying' \subseteq {"cur", "side"}
    BY <1>1 DEF TypeOK
  <2> QED BY <1>1, <2>1, <2>2, <2>3, DeviceOuter DEF Queues, hostVars
<1>5. UNCHANGED <<phase, pfCur, issued, ready, done, cur, side, given>>
  BY <1>1 DEF hostVars, lendVars
<1>6. ASSUME s = "cur" PROVE Home'
  <2>1. HomeOps'
    BY <1>5 DEF HomeOps
  <2>2. HomeFilled'
    <3> SUFFICES ASSUME NEW i \in Layers
                 PROVE  \E m \in 0 .. Len(cur) :
                          /\ IF m = 0 THEN holds'[Span(i)] = i ELSE CopyAt(cur, m, Span(i))
                          /\ \A n \in 1 .. Len(cur) :
                               /\ CopyAt(cur, n, Span(i)) => n = m
                               /\ cur[n].op = "read" /\ cur[n].layer = i => n > m
      BY <1>5 DEF HomeFilled, CopyAt
    <3>1. PICK m \in 0 .. Len(cur) :
            /\ IF m = 0 THEN holds[Span(i)] = i ELSE CopyAt(cur, m, Span(i))
            /\ \A n \in 1 .. Len(cur) :
                 /\ CopyAt(cur, n, Span(i)) => n = m
                 /\ cur[n].op = "read" /\ cur[n].layer = i => n > m
      BY <1>2, <1>6 DEF HomeFilled
    <3>2. CASE m = 0
      <4>1. ~CopyAt(cur, 1, Span(i))
        BY <1>2, <1>6, <3>1, <3>2
      <4>2. holds'[Span(i)] = holds[Span(i)]
        BY <1>1, <1>3, <1>6, <4>1, PlaceFacts DEF CopyAt
      <4> QED BY <3>1, <3>2, <4>2
    <3>3. CASE m # 0
      BY <3>1, <3>3
    <3> QED BY <3>2, <3>3
  <2> QED BY <2>1, <2>2 DEF Home
<1>7. ASSUME s = "side" PROVE Window'
\* A place that is filled already is not the one being written.
  <2>1. ASSUME NEW x \in Places, NEW i, NEW m \in 0 .. Len(side), NEW e, Filled(x, i, m, e),
               m = 0 => ~CopyAt(side, 1, x)
        PROVE  Filled(x, i, m, e)'
    <3>1. CASE m = 0
      <4>1. holds'[x] = holds[x]
        BY <1>1, <1>3, <1>7, <2>1, <3>1 DEF CopyAt
      <4> QED BY <2>1, <3>1, <4>1 DEF Filled
    <3>2. CASE m # 0
      BY <1>5, <2>1, <3>2 DEF Filled, CopyAt, Ran
    <3> QED BY <3>1, <3>2
  <2>2. SlotOps' /\ DoneAfterReads'
    BY <1>5 DEF SlotOps, DoneAfterReads, Ran, None
  <2>3. ReadsGuarded'
    <3>1. ASSUME NEW x \in Places, NEW i, NEW n \in 1 .. Len(cur), Guarded(x, i, n)
          PROVE  Guarded(x, i, n)'
      <4>1. PICK m \in 0 .. Len(side), h \in 0 .. n - 1 :
              /\ Filled(x, i, m, Upto(h))
              /\ \A p \in m + 1 .. Len(side) :
                   CopyAt(side, p, x) =>
                     p > 1 /\ side[p - 1].op = "wait" /\ side[p - 1].upto >= Ran("cur", cur) + n
        BY <3>1 DEF Guarded
      <4>2. PICK u : u = Upto(h) /\ Upto(h)' = u
        BY <1>5 DEF Upto
      <4>3. m = 0 => ~CopyAt(side, 1, x)
        BY <1>2, <1>7, <4>1
      <4>4. Filled(x, i, m, u)'
        BY <2>1, <4>1, <4>2, <4>3
      <4>5. Filled(x, i, m, Upto(h))'
        BY <4>2, <4>4
      <4> QED BY <1>5, <4>1, <4>5 DEF Guarded, CopyAt, Ran
    <3>2. ASSUME NEW n \in 1 .. Len(cur'), cur'[n].op = "read"
          PROVE  Guarded(cur[n].from, cur[n].layer, n)'
      <4>1. cur[n] \in Op /\ cur[n].from \in Places
        <5>1. cur[n] \in Op
          BY <1>5 DEF Queues
        <5> QED BY <1>5, <3>2, <5>1, OpTypes
      <4>2. PICK x \in Places, i \in {cur[n].layer} : x = cur[n].from
        BY <4>1
      <4>3. Guarded(x, i, n)
        BY <1>2, <1>5, <1>7, <3>2, <4>2 DEF ReadsGuarded
      <4> QED BY <1>5, <3>1, <4>2, <4>3
    <3> QED BY <3>2 DEF ReadsGuarded
  <2>4. CurrentFilled'
    <3>1. ASSUME NEW i \in Layers, Awaited(i) PROVE Awaited(i)'
      <4>1. PICK m \in 0 .. Len(side), h \in 0 .. Len(cur) :
              /\ Filled(SlotOf(i), i, m, Upto(h))
              /\ \A p \in m + 1 .. Len(side) : ~CopyAt(side, p, SlotOf(i))
        BY <3>1 DEF Awaited
      <4>2. PICK u : u = Upto(h) /\ Upto(h)' = u
        BY <1>5 DEF Upto
      <4>3. m = 0 => ~CopyAt(side, 1, SlotOf(i))
        BY <1>2, <1>7, <4>1
      <4>4. Filled(SlotOf(i), i, m, u)'
        <5>1. PICK y \in Places : y = SlotOf(i)
          BY PlaceFacts
        <5>2. Filled(y, i, m, u)'
          BY <2>1, <4>1, <4>2, <4>3, <5>1
        <5> QED BY <5>1, <5>2 DEF SlotOf
      <4>5. Filled(SlotOf(i), i, m, Upto(h))'
        BY <4>2, <4>4
      <4> QED BY <1>5, <4>1, <4>5 DEF Awaited, CopyAt, SlotOf
    <3>2. pfCur # None => pfCur \in Layers
      BY NAssumption DEF TypeOK, Layers, None
    <3> QED BY <1>5, <3>1, <3>2 DEF CurrentFilled, None
  <2>5. NextFilled'
    <3>1. ASSUME NEW i \in Layers, Told(i) PROVE Told(i)'
      <4>1. PICK m \in 0 .. Len(side) :
              /\ Filled(SlotOf(i), i, m, ready[i % 2])
              /\ \A p \in m + 1 .. Len(side) : ~CopyAt(side, p, SlotOf(i))
        BY <3>1 DEF Told
      <4>2. PICK u : u = ready[i % 2] /\ ready'[i % 2] = u
        BY <1>5
      <4>3. m = 0 => ~CopyAt(side, 1, SlotOf(i))
        BY <1>2, <1>7, <4>1
      <4>4. Filled(SlotOf(i), i, m, u)'
        BY <2>1, <4>1, <4>2, <4>3, PlaceFacts DEF SlotOf
      <4>5. Filled(SlotOf(i), i, m, ready[i % 2])'
        BY <4>2, <4>4
      <4> QED BY <1>5, <4>1, <4>5 DEF Told, CopyAt, SlotOf
    <3>2. pfCur + 1 < N => pfCur + 1 \in Layers
      BY NAssumption DEF TypeOK, Layers
    <3> QED BY <1>5, <3>1, <3>2 DEF NextFilled, None
  <2> QED BY <2>2, <2>3, <2>4, <2>5 DEF Window
<1> QED BY <1>2, <1>4, <1>5, <1>6, <1>7, OtherPart, Assembled
\* A copy that ends has filled its place, for every reader that waits for it.
LEMMA CopyEndsHome ==
  ASSUME IInv, CopyEnds("cur", cur)
  PROVE  IInv'
<1> USE DEF IInv
<1>1. /\ cur # <<>> /\ cur[1].op = "copy" /\ copying' = copying \ {"cur"} /\ cur' = Tail(cur)
      /\ cur \in Seq(Op) /\ holds' = [holds EXCEPT ![cur[1].to] = cur[1].layer]
      /\ UNCHANGED <<hostVars, lendVars, mapped, side, given>>
  <2>1. cur # <<>> /\ cur \in Seq(Op)
    BY DEF CopyEnds, Queues, CopyingHeads
  <2> QED BY <2>1, TailFacts DEF CopyEnds, CopyingHeads
<1>2. /\ phase # "prefill" /\ Len(cur) \in Nat /\ Len(cur) >= 1
      /\ cur[1].layer \in Layers /\ cur[1].to \in Places
      /\ cur[1].to = Span(cur[1].layer)
  BY <1>1, CopyOf
<1>3. \A x \in Places : holds'[x] = IF x = cur[1].to THEN cur[1].layer ELSE holds[x]
  BY <1>1 DEF TypeOK
<1>4. /\ cur' \in Seq(Op) /\ Len(cur') = Len(cur) - 1
      /\ \A n \in 1 .. Len(cur) - 1 : cur'[n] = cur[n + 1]
  BY <1>1, TailFacts
<1>5. Outer'
  <2>1. CopyingHeads'
    BY <1>1 DEF CopyingHeads
  <2>2. holds' \in [Places -> 0 .. N]
    <3>1. holds \in [Places -> 0 .. N]
      BY DEF TypeOK
    <3>3. cur[1].layer \in 0 .. N
      BY <1>2, NAssumption DEF Layers
    <3>2. \A f \in [Places -> 0 .. N], x \in Places, v \in 0 .. N :
            [f EXCEPT ![x] = v] \in [Places -> 0 .. N]
      OBVIOUS
    <3> QED BY <1>1, <1>2, <3>1, <3>2, <3>3
  <2>3. copying' \subseteq {"cur", "side"}
    BY <1>1 DEF TypeOK
  <2> QED BY <1>1, <1>2, <1>4, <2>1, <2>2, <2>3, DeviceOuter DEF Queues
<1>6. phase' = phase /\ side' = side
  BY <1>1 DEF hostVars
<1>7. HomeOps'
  <2>1. \A n \in 1 .. Len(cur') : n + 1 \in 1 .. Len(cur) /\ cur'[n] = cur[n + 1]
    BY <1>2, <1>4
  <2> QED BY <1>2, <1>6, <2>1 DEF HomeOps
<1>8. HomeFilled'
  <2> SUFFICES ASSUME NEW i \in Layers
               PROVE  \E m \in 0 .. Len(cur') :
                        /\ IF m = 0 THEN holds'[Span(i)] = i ELSE CopyAt(cur', m, Span(i))
                        /\ \A n \in 1 .. Len(cur') :
                             /\ CopyAt(cur', n, Span(i)) => n = m
                             /\ cur'[n].op = "read" /\ cur'[n].layer = i => n > m
    BY <1>6 DEF HomeFilled, CopyAt
  <2>1. PICK m \in 0 .. Len(cur) :
          /\ IF m = 0 THEN holds[Span(i)] = i ELSE CopyAt(cur, m, Span(i))
          /\ \A n \in 1 .. Len(cur) :
               /\ CopyAt(cur, n, Span(i)) => n = m
               /\ cur[n].op = "read" /\ cur[n].layer = i => n > m
    BY <1>2 DEF HomeFilled
  <2>2. ASSUME NEW g \in 0 .. Len(cur'), g = (IF m = 0 THEN 0 ELSE m - 1)
        PROVE  \A n \in 1 .. Len(cur') :
                 /\ CopyAt(cur', n, Span(i)) => n = g
                 /\ cur'[n].op = "read" /\ cur'[n].layer = i => n > g
    <3> TAKE n \in 1 .. Len(cur')
    <3>1. n + 1 \in 1 .. Len(cur) /\ cur'[n] = cur[n + 1]
      BY <1>2, <1>4
    <3>2. /\ CopyAt(cur, n + 1, Span(i)) => n + 1 = m
          /\ cur[n + 1].op = "read" /\ cur[n + 1].layer = i => n + 1 > m
      BY <2>1, <3>1
    <3> QED BY <1>2, <1>4, <2>2, <3>1, <3>2 DEF CopyAt
  <2>3. CASE m = 0
    <3>1. ~CopyAt(cur, 1, Span(i))
      BY <1>2, <2>1, <2>3
    <3>2. holds'[Span(i)] = holds[Span(i)]
      BY <1>1, <1>3, <3>1, PlaceFacts DEF CopyAt
    <3>3. 0 \in 0 .. Len(cur') /\ 0 = (IF m = 0 THEN 0 ELSE m - 1)
      BY <1>2, <1>4, <2>3
    <3>4. \A n \in 1 .. Len(cur') :
            /\ CopyAt(cur', n, Span(i)) => n = 0
            /\ cur'[n].op = "read" /\ cur'[n].layer = i => n > 0
      BY <2>2, <3>3
    <3> QED BY <2>1, <2>3, <3>2, <3>3, <3>4
  <2>4. CASE m = 1
    <3>1. cur[1].to = Span(i)
      BY <2>1, <2>4 DEF CopyAt
    <3>2. cur[1].layer = i
      BY <1>2, <3>1, PlaceFacts
    <3>3. holds'[Span(i)] = i
      BY <1>3, <3>1, <3>2, PlaceFacts
    <3>4. 0 \in 0 .. Len(cur') /\ 0 = (IF m = 0 THEN 0 ELSE m - 1)
      BY <1>2, <1>4, <2>4
    <3>5. \A n \in 1 .. Len(cur') :
            /\ CopyAt(cur', n, Span(i)) => n = 0
            /\ cur'[n].op = "read" /\ cur'[n].layer = i => n > 0
      BY <2>2, <3>4
    <3> QED BY <3>3, <3>4, <3>5
  <2>5. CASE m > 1
    <3>1. /\ m - 1 \in 0 .. Len(cur') /\ m - 1 # 0 /\ cur'[m - 1] = cur[m]
          /\ m - 1 = (IF m = 0 THEN 0 ELSE m - 1)
      BY <1>2, <1>4, <2>5
    <3>2. CopyAt(cur', m - 1, Span(i))
      BY <2>1, <2>5, <3>1 DEF CopyAt
    <3>3. \A n \in 1 .. Len(cur') :
            /\ CopyAt(cur', n, Span(i)) => n = m - 1
            /\ cur'[n].op = "read" /\ cur'[n].layer = i => n > m - 1
      BY <2>2, <3>1
    <3> QED BY <3>1, <3>2, <3>3
  <2> QED BY <2>3, <2>4, <2>5
<1> QED BY <1>2, <1>5, <1>6, <1>7, <1>8, OtherPart, Assembled DEF Home

\* The same of a copy to a slot.
LEMMA CopyEndsWindow ==
  ASSUME IInv, CopyEnds("side", side)
  PROVE  IInv'
<1> USE DEF IInv
<1>1. /\ side # <<>> /\ side[1].op = "copy" /\ copying' = copying \ {"side"}
      /\ side' = Tail(side) /\ side \in Seq(Op)
      /\ holds' = [holds EXCEPT ![side[1].to] = side[1].layer]
      /\ UNCHANGED <<hostVars, lendVars, mapped, cur, given>>
  <2>1. side # <<>> /\ side \in Seq(Op)
    BY DEF CopyEnds, Queues, CopyingHeads
  <2> QED BY <2>1, TailFacts DEF CopyEnds, CopyingHeads
<1>2. /\ phase = "prefill" /\ Len(side) \in Nat /\ Len(side) >= 1
      /\ side[1].layer \in Layers /\ side[1].to \in Places
  BY <1>1, CopyOf
<1>3. \A x \in Places : holds'[x] = IF x = side[1].to THEN side[1].layer ELSE holds[x]
  BY <1>1 DEF TypeOK
<1>4. /\ side' \in Seq(Op) /\ Len(side') = Len(side) - 1
      /\ \A n \in 1 .. Len(side) - 1 : side'[n] = side[n + 1]
  BY <1>1, TailFacts
<1>5. UNCHANGED <<phase, pfCur, issued, ready, done, cur, given>>
  BY <1>1 DEF hostVars, lendVars
<1>6. Ran("side", side)' = Ran("side", side) + 1 /\ Ran("side", side) \in Nat
      /\ Ran("cur", cur)' = Ran("cur", cur) /\ Ran("cur", cur) \in Nat /\ Len(cur) \in Nat
  BY <1>2, <1>4, <1>5, RanNat DEF Ran, Queues
<1>7. Outer'
  <2>1. CopyingHeads'
    BY <1>1 DEF CopyingHeads
  <2>2. holds' \in [Places -> 0 .. N]
    <3>1. holds \in [Places -> 0 .. N]
      BY DEF TypeOK
    <3>3. side[1].layer \in 0 .. N
      BY <1>2, NAssumption DEF Layers
    <3>2. \A f \in [Places -> 0 .. N], x \in Places, v \in 0 .. N :
            [f EXCEPT ![x] = v] \in [Places -> 0 .. N]
      OBVIOUS
    <3> QED BY <1>1, <1>2, <3>1, <3>2, <3>3
  <2>3. copying' \subseteq {"cur", "side"}
    BY <1>1 DEF TypeOK
  <2> QED BY <1>1, <1>2, <1>4, <2>1, <2>2, <2>3, DeviceOuter DEF Queues
<1>8. SlotOps' /\ DoneAfterReads'
  <2>1. SlotOps'
    <3>1. \A n \in 1 .. Len(side') :
            /\ side'[n].op \in {"wait", "copy"}
            /\ side'[n].op = "copy" => side'[n].to = SlotOf(side'[n].layer)
      BY <1>2, <1>4 DEF SlotOps
    <3> QED BY <1>2, <1>5, <3>1 DEF SlotOps
  <2>2. DoneAfterReads'
    BY <1>2, <1>5, <1>6 DEF DoneAfterReads, None
  <2> QED BY <2>1, <2>2
\* The copies move up; the head's place is filled.
<1>9. ASSUME NEW x \in Places, NEW i, NEW m \in 0 .. Len(side), NEW e, Filled(x, i, m, e),
             m = 0 => ~CopyAt(side, 1, x)
      PROVE  \E g \in 0 .. Len(side') : g = (IF m = 0 THEN 0 ELSE m - 1) /\ Filled(x, i, g, e)'
  <2>1. CASE m = 0
    <3>1. holds'[x] = holds[x]
      BY <1>1, <1>3, <1>9, <2>1 DEF CopyAt
    <3> QED BY <1>2, <1>4, <1>9, <2>1, <3>1 DEF Filled
  <2>2. CASE m = 1
    <3>1. side[1].to = x /\ side[1].layer = i
      BY <1>9, <2>2 DEF Filled, CopyAt
    <3>2. holds'[x] = i
      BY <1>3, <1>9, <3>1
    <3> QED BY <1>2, <1>4, <2>2, <3>2 DEF Filled
  <2>3. CASE m > 1
    <3>1. CopyAt(side, m, x) /\ m # 0
      BY <1>9, <2>3 DEF Filled
    <3>2. m - 1 \in 0 .. Len(side') /\ m - 1 # 0 /\ side'[m - 1] = side[m]
      BY <1>2, <1>4, <2>3
    <3>3. Ran("side", side)' + (m - 1) = Ran("side", side) + m
      BY <1>6
    <3>4. Filled(x, i, m - 1, e)'
      BY <1>9, <3>1, <3>2, <3>3 DEF Filled, CopyAt
    <3> QED BY <3>1, <3>2, <3>4
  <2> QED BY <2>1, <2>2, <2>3
<1>10. ReadsGuarded'
  <2>1. ASSUME NEW x \in Places, NEW i, NEW n \in 1 .. Len(cur), Guarded(x, i, n)
        PROVE  Guarded(x, i, n)'
    <3>1. PICK m \in 0 .. Len(side), h \in 0 .. n - 1 :
            /\ Filled(x, i, m, Upto(h))
            /\ \A q \in m + 1 .. Len(side) :
                 CopyAt(side, q, x) =>
                   q > 1 /\ side[q - 1].op = "wait" /\ side[q - 1].upto >= Ran("cur", cur) + n
      BY <2>1 DEF Guarded
    <3>2. PICK u : u = Upto(h) /\ Upto(h)' = u
      BY <1>5 DEF Upto
    <3>3. m = 0 => ~CopyAt(side, 1, x)
      BY <1>2, <3>1
    <3>4. PICK g \in 0 .. Len(side') : g = (IF m = 0 THEN 0 ELSE m - 1) /\ Filled(x, i, g, u)'
      BY <1>9, <3>1, <3>2, <3>3
    <3>5. \A q \in g + 1 .. Len(side') :
            CopyAt(side', q, x) =>
              q > 1 /\ side'[q - 1].op = "wait" /\ side'[q - 1].upto >= Ran("cur", cur)' + n
      <4> TAKE q \in g + 1 .. Len(side')
      <4> HAVE CopyAt(side', q, x)
      <4>1. q \in Nat /\ q >= 1 /\ q + 1 \in m + 1 .. Len(side) /\ side'[q] = side[q + 1]
        BY <1>2, <1>4, <3>4
      <4>2. side[q].op = "wait" /\ side[q].upto >= Ran("cur", cur) + n
        BY <3>1, <4>1 DEF CopyAt
      <4>3. q # 1
        BY <1>1, <4>2
      <4>4. q - 1 \in 1 .. Len(side) - 1 /\ side'[q - 1] = side[q]
        BY <1>2, <1>4, <4>1, <4>3
      <4> QED BY <1>6, <4>1, <4>2, <4>3, <4>4
    <3>6. Filled(x, i, g, Upto(h))'
      BY <3>2, <3>4
    <3> QED BY <3>1, <3>4, <3>5, <3>6 DEF Guarded, CopyAt
  <2>2. ASSUME NEW n \in 1 .. Len(cur'), cur'[n].op = "read"
        PROVE  Guarded(cur[n].from, cur[n].layer, n)'
    <3>1. cur[n] \in Op /\ cur[n].from \in Places
      <4>1. cur[n] \in Op
        BY <1>5 DEF Queues
      <4> QED BY <1>5, <2>2, <4>1, OpTypes
    <3>2. PICK x \in Places, i \in {cur[n].layer} : x = cur[n].from
      BY <3>1
    <3>3. Guarded(x, i, n)
      BY <1>2, <1>5, <2>2, <3>2 DEF ReadsGuarded
    <3> QED BY <1>5, <2>1, <3>2, <3>3
  <2> QED BY <2>2 DEF ReadsGuarded
\* A slot's last copy stays its last.
<1>11. ASSUME NEW m \in 0 .. Len(side), NEW g, g = (IF m = 0 THEN 0 ELSE m - 1), NEW x,
              \A q \in m + 1 .. Len(side) : ~CopyAt(side, q, x)
       PROVE  \A q \in g + 1 .. Len(side') : ~CopyAt(side', q, x)
  <2> SUFFICES ASSUME NEW q \in g + 1 .. Len(side'), CopyAt(side', q, x) PROVE FALSE
    OBVIOUS
  <2>1. q + 1 \in m + 1 .. Len(side) /\ side'[q] = side[q + 1]
    BY <1>2, <1>4, <1>11
  <2> QED BY <1>11, <2>1 DEF CopyAt
<1>12. CurrentFilled'
  <2>1. ASSUME NEW i \in Layers, Awaited(i) PROVE Awaited(i)'
    <3>1. PICK m \in 0 .. Len(side), h \in 0 .. Len(cur) :
            /\ Filled(SlotOf(i), i, m, Upto(h))
            /\ \A q \in m + 1 .. Len(side) : ~CopyAt(side, q, SlotOf(i))
      BY <2>1 DEF Awaited
    <3>2. PICK u : u = Upto(h) /\ Upto(h)' = u
      BY <1>5 DEF Upto
    <3>3. m = 0 => ~CopyAt(side, 1, SlotOf(i))
      BY <1>2, <3>1
    <3>4. PICK g \in 0 .. Len(side') :
            g = (IF m = 0 THEN 0 ELSE m - 1) /\ Filled(SlotOf(i), i, g, u)'
      <4>1. PICK x \in Places : x = SlotOf(i)
        BY PlaceFacts
      <4>2. \E g \in 0 .. Len(side') : g = (IF m = 0 THEN 0 ELSE m - 1) /\ Filled(x, i, g, u)'
        BY <1>9, <3>1, <3>2, <3>3, <4>1
      <4> QED BY <4>1, <4>2 DEF SlotOf
    <3>5. \A q \in g + 1 .. Len(side') : ~CopyAt(side', q, SlotOf(i))
      BY <1>11, <3>1, <3>4
    <3>6. Filled(SlotOf(i), i, g, Upto(h))'
      BY <3>2, <3>4
    <3> QED BY <1>5, <3>4, <3>5, <3>6 DEF Awaited, CopyAt, SlotOf
  <2>2. pfCur # None => pfCur \in Layers
    BY NAssumption DEF TypeOK, Layers, None
  <2> QED BY <1>5, <2>1, <2>2 DEF CurrentFilled, None
<1>13. NextFilled'
  <2>1. ASSUME NEW i \in Layers, Told(i) PROVE Told(i)'
    <3>1. PICK m \in 0 .. Len(side) :
            /\ Filled(SlotOf(i), i, m, ready[i % 2])
            /\ \A q \in m + 1 .. Len(side) : ~CopyAt(side, q, SlotOf(i))
      BY <2>1 DEF Told
    <3>2. PICK u : u = ready[i % 2] /\ ready'[i % 2] = u
      BY <1>5
    <3>3. m = 0 => ~CopyAt(side, 1, SlotOf(i))
      BY <1>2, <3>1
    <3>4. PICK g \in 0 .. Len(side') :
            g = (IF m = 0 THEN 0 ELSE m - 1) /\ Filled(SlotOf(i), i, g, u)'
      <4>1. PICK x \in Places : x = SlotOf(i)
        BY PlaceFacts
      <4>2. \E g \in 0 .. Len(side') : g = (IF m = 0 THEN 0 ELSE m - 1) /\ Filled(x, i, g, u)'
        BY <1>9, <3>1, <3>2, <3>3, <4>1
      <4> QED BY <4>1, <4>2 DEF SlotOf
    <3>5. \A q \in g + 1 .. Len(side') : ~CopyAt(side', q, SlotOf(i))
      BY <1>11, <3>1, <3>4
    <3>6. Filled(SlotOf(i), i, g, ready[i % 2])'
      BY <3>2, <3>4
    <3> QED BY <3>4, <3>5, <3>6 DEF Told, CopyAt, SlotOf
  <2>2. pfCur + 1 < N => pfCur + 1 \in Layers
    BY NAssumption DEF TypeOK, Layers
  <2> QED BY <1>5, <2>1, <2>2 DEF NextFilled, None
<1>14. Window'
  BY <1>8, <1>10, <1>12, <1>13 DEF Window
<1> QED BY <1>2, <1>5, <1>7, <1>14, OtherPart, Assembled

-----------------------------------------------------------------------------
(* The host, outside the hooks *)

\* A host step that gives the streams nothing and stays on its side of a window.
LEMMA SameStreams ==
  ASSUME IInv, UNCHANGED <<lendVars, holds, streamVars>>,
         (phase' = "prefill") = (phase = "prefill")
  PROVE  Queues' /\ CopyingHeads' /\ OthersAtHome' /\ CurrentAway' /\ Home' /\ Window'
<1> USE DEF IInv, lendVars, streamVars
<1>1. Queues' /\ CopyingHeads' /\ OthersAtHome' /\ CurrentAway'
  BY DEF Queues, CopyingHeads, OthersAtHome, CurrentAway
<1>2. Home'
  BY DEF Home, HomeOps, HomeFilled, CopyAt
<1>3. SlotOps' /\ DoneAfterReads'
  BY DEF SlotOps, DoneAfterReads, Ran, None
<1>4. ASSUME NEW x, NEW i, NEW n PROVE Guarded(x, i, n)' = Guarded(x, i, n)
  BY DEF Guarded, Filled, Upto, CopyAt, Ran
<1>5. ReadsGuarded'
  <2> SUFFICES ASSUME phase' = "prefill", NEW n \in 1 .. Len(cur), cur[n].op = "read"
               PROVE  Guarded(cur[n].from, cur[n].layer, n)'
    BY DEF ReadsGuarded
  <2>1. PICK x, i : x = cur[n].from /\ i = cur[n].layer
    OBVIOUS
  <2> QED BY <1>4, <2>1 DEF ReadsGuarded
<1>6. CurrentFilled' /\ NextFilled'
  <2>1. ASSUME NEW i PROVE Awaited(i)' = Awaited(i) /\ Told(i)' = Told(i)
    BY DEF Awaited, Told, Filled, Upto, CopyAt, Ran, SlotOf
  <2> QED BY <2>1 DEF CurrentFilled, NextFilled, None
<1> QED BY <1>1, <1>2, <1>3, <1>5, <1>6 DEF Window

\* Nothing is queued when the scratch is released.
LEMMA AfterLoadStep == IInv /\ AfterLoad => IInv'
<1> SUFFICES ASSUME IInv, AfterLoad PROVE IInv'
  OBVIOUS
<1>1. /\ phase = "load" /\ phase' = "decode" /\ mapped' = Spans
      /\ UNCHANGED <<alive, forward, layer, entered, forwards, pfCur, issued, ready, done>>
      /\ UNCHANGED <<lendVars, holds, streamVars>> /\ UNCHANGED <<point, copying>>
  BY DEF AfterLoad, lendVars, streamVars
<1>2. Queues' /\ CopyingHeads' /\ OthersAtHome' /\ CurrentAway' /\ Home' /\ Window'
  BY <1>1, SameStreams
<1>3. TypeOK'
  BY <1>1 DEF IInv, TypeOK, Places
<1>4. Mapping' /\ HostAt'
  BY <1>1 DEF IInv, Mapping, HostAt
<1> QED BY <1>2, <1>3, <1>4, Assembled DEF Outer

\* A forward starts at its first layer, and there is room to count it.
LEMMA StartsOuter ==
  ASSUME IInv, NEW b \in Batches, Starts(b)
  PROVE  /\ alive /\ forward = Idle /\ forward' = b /\ layer' = 0 /\ entered' = FALSE
         /\ forward' \in Batches \cup {Idle} /\ layer' \in 0 .. N /\ entered' \in BOOLEAN
         /\ forwards' \in 0 .. MaxForwards
<1>1. /\ alive /\ forward = Idle /\ forwards < MaxForwards /\ forward' = b /\ layer' = 0
      /\ entered' = FALSE /\ forwards' = forwards + 1 /\ forwards \in 0 .. MaxForwards
  BY DEF Starts, IInv, TypeOK
<1>2. forwards' \in 0 .. MaxForwards /\ layer' \in 0 .. N
  BY <1>1, NAssumption, MaxForwardsAssumption
<1> QED BY <1>1, <1>2

\* A forward that starts in the phase it needs changes nothing.
LEMMA StartAsIsStep == \A b \in Batches : IInv /\ StartAsIs(b) => IInv'
<1> SUFFICES ASSUME IInv, NEW b \in Batches, StartAsIs(b) PROVE IInv'
  OBVIOUS
<1>1. /\ Starts(b) /\ UNCHANGED <<phase, alive, lendVars, memVars, streamVars>>
      /\ UNCHANGED <<pfCur, issued, ready, done, point, mapped, holds, copying>>
      /\ phase = "load" \/ Streamed(b) = (phase = "prefill")
  BY DEF StartAsIs, lendVars, streamVars, memVars
<1>2. /\ alive /\ forward = Idle /\ forward' = b /\ layer' = 0 /\ entered' = FALSE
      /\ forward' \in Batches \cup {Idle} /\ layer' \in 0 .. N /\ entered' \in BOOLEAN
      /\ forwards' \in 0 .. MaxForwards
  BY <1>1, StartsOuter
<1>3. Queues' /\ CopyingHeads' /\ OthersAtHome' /\ CurrentAway' /\ Home' /\ Window'
  BY <1>1, SameStreams
<1>4. TypeOK'
  BY <1>1, <1>2 DEF IInv, TypeOK
<1>5. Mapping'
  BY <1>1, <1>2 DEF IInv, Mapping
<1>6. phase = "prefill" => b.extend
  BY <1>1 DEF Streamed
<1>7. HostAt'
  BY <1>1, <1>2, <1>6 DEF IInv, HostAt, None
<1> QED BY <1>3, <1>4, <1>5, <1>7, Assembled DEF Outer

\* Freshly mapped memory holds junk.
LEMMA AllJunk == [p \in Places |-> Junk] \in [Places -> 0 .. N]
<1>1. Junk \in 0 .. N
  BY NAssumption DEF Junk
<1> QED BY <1>1

\* With empty queues, and no current layer, there is nothing to guard.
LEMMA EmptyWindow ==
  ASSUME cur' = <<>>, side' = <<>>, pfCur' = None
  PROVE  Window'
BY DEF Window, SlotOps, ReadsGuarded, DoneAfterReads, CurrentFilled, NextFilled, None

\* A window opens on drained streams.
LEMMA StartPrefillStep == \A b \in Batches : IInv /\ StartPrefill(b) => IInv'
<1> SUFFICES ASSUME IInv, NEW b \in Batches, StartPrefill(b) PROVE IInv'
  OBVIOUS
<1>1. /\ Starts(b) /\ phase = "decode" /\ phase' = "prefill" /\ Streamed(b)
      /\ cur = <<>> /\ side = <<>> /\ issued' = {} /\ mapped' = Places \ Spans
      /\ holds' = [p \in Places |-> Junk]
      /\ UNCHANGED <<alive, pfCur, ready, done, point>>
      /\ UNCHANGED <<cur, side, given, copying>>
  BY DEF StartPrefill, Drained, streamVars
<1>2. /\ alive /\ forward = Idle /\ forward' = b /\ layer' = 0 /\ entered' = FALSE
      /\ forward' \in Batches \cup {Idle} /\ layer' \in 0 .. N /\ entered' \in BOOLEAN
      /\ forwards' \in 0 .. MaxForwards
  BY <1>1, StartsOuter
<1>3. pfCur = None
  BY <1>1 DEF IInv, HostAt
<1>4. TypeOK'
  BY <1>1, <1>2, AllJunk DEF IInv, TypeOK
<1>5. Queues' /\ CopyingHeads'
  BY <1>1 DEF IInv, Queues, CopyingHeads
<1>6. Mapping'
  BY <1>1, <1>2 DEF Mapping
<1>7. b.extend
  BY <1>1 DEF Streamed
<1>8. HostAt'
  BY <1>1, <1>2, <1>3, <1>7 DEF HostAt, None
<1>9. OthersAtHome' /\ CurrentAway'
  BY <1>1, <1>3 DEF IInv, OthersAtHome, CurrentAway, None
<1>10. Window'
  BY <1>1, <1>3, EmptyWindow DEF None
<1> QED BY <1>1, <1>4, <1>5, <1>6, <1>8, <1>9, <1>10, OtherPart, Assembled DEF Outer

\* The layer that ran last is the only one away, so _leave brings all home.
LEMMA LeftHome ==
  ASSUME IInv
  PROVE  Left \in [Layers -> Places] /\ \A i \in Layers : Left[i] = Span(i)
<1> USE DEF IInv
<1>1. point \in [Layers -> Places] /\ (pfCur # None => pfCur \in Layers)
  BY NAssumption DEF TypeOK, Layers, None
<1>2. \A i \in Layers : Span(i) \in Places /\ (point[i] # Span(i) => pfCur = i /\ pfCur # None)
  BY PlaceFacts DEF OthersAtHome, None
<1>3. CASE pfCur = None
  BY <1>1, <1>2, <1>3 DEF Left
<1>4. CASE pfCur # None
  <2>1. Left = [point EXCEPT ![pfCur] = Span(pfCur)]
    BY <1>4 DEF Left
  <2> QED BY <1>1, <1>2, <1>4, <2>1
<1> QED BY <1>3, <1>4

\* A window ends with a copy home of every layer, before anything that reads it.
LEMMA EndWindowStep == \A b \in Batches : IInv /\ EndWindow(b) => IInv'
<1> SUFFICES ASSUME IInv, NEW b \in Batches, EndWindow(b) PROVE IInv'
  OBVIOUS
<1>1. /\ Starts(b) /\ phase = "prefill" /\ phase' = "decode" /\ cur = <<>> /\ side = <<>>
      /\ pfCur' = None /\ point' = Left /\ mapped' = Spans
      /\ holds' = [p \in Places |-> Junk]
      /\ cur' = [n \in 1 .. N |-> Copy(n - 1, Span(n - 1))]
      /\ given' = [given EXCEPT !.cur = @ + N]
      /\ UNCHANGED <<alive, issued, ready, done>> /\ UNCHANGED <<side, copying>>
  BY DEF EndWindow, Drained
<1>2. /\ alive /\ forward = Idle /\ forward' = b /\ layer' = 0 /\ entered' = FALSE
      /\ forward' \in Batches \cup {Idle} /\ layer' \in 0 .. N /\ entered' \in BOOLEAN
      /\ forwards' \in 0 .. MaxForwards
  BY <1>1, StartsOuter
<1>3. Left \in [Layers -> Places] /\ \A i \in Layers : Left[i] = Span(i)
  BY LeftHome
<1>4. TypeOK'
  <2>1. None \in 0 .. N
    BY NAssumption DEF None
  <2> QED BY <1>1, <1>2, <1>3, <2>1, AllJunk DEF IInv, TypeOK, Places
\* cur is given the copies.
<1>5. \A n \in 1 .. N : n - 1 \in Layers /\ Span(n - 1) \in Places
  <2>1. \A n \in 1 .. N : n - 1 \in Layers
    BY NAssumption DEF Layers
  <2> QED BY <2>1, PlaceFacts
<1>6. /\ cur' \in Seq(Op) /\ Len(cur') = N
      /\ \A n \in 1 .. N : /\ cur'[n].op = "copy" /\ cur'[n].layer = n - 1
                           /\ cur'[n].to = Span(n - 1)
  <2>1. \A n \in 1 .. N : /\ Copy(n - 1, Span(n - 1)) \in Op /\ Copy(n - 1, Span(n - 1)).op = "copy"
                          /\ Copy(n - 1, Span(n - 1)).layer = n - 1
                          /\ Copy(n - 1, Span(n - 1)).to = Span(n - 1)
    BY <1>5, OpFields
  <2>2. cur' \in Seq(Op) /\ Len(cur') = N
    BY <1>1, <2>1, NAssumption
  <2> QED BY <1>1, <2>1, <2>2
<1>7. Queues'
  <2>1. given' \in [cur : Nat, side : Nat] /\ given'.cur = given.cur + N /\ given'.side = given.side
    BY <1>1, NAssumption DEF IInv, Queues
  <2> QED BY <1>1, <1>6, <2>1, NAssumption DEF IInv, Queues
<1>8. CopyingHeads'
  BY <1>1 DEF IInv, CopyingHeads
<1>9. Mapping' /\ HostAt' /\ OthersAtHome' /\ CurrentAway'
  BY <1>1, <1>2, <1>3 DEF Mapping, HostAt, OthersAtHome, CurrentAway, None
<1>10. HomeOps'
  BY <1>1, <1>6 DEF HomeOps
<1>11. HomeFilled'
  <2> SUFFICES ASSUME NEW i \in Layers
               PROVE  \E m \in 0 .. Len(cur') :
                        /\ IF m = 0 THEN holds'[Span(i)] = i ELSE CopyAt(cur', m, Span(i))
                        /\ \A n \in 1 .. Len(cur') :
                             /\ CopyAt(cur', n, Span(i)) => n = m
                             /\ cur'[n].op = "read" /\ cur'[n].layer = i => n > m
    BY <1>1 DEF HomeFilled, CopyAt
  <2>1. i + 1 \in 1 .. N /\ i + 1 # 0 /\ (i + 1) - 1 = i
    BY NAssumption DEF Layers
  <2>2. CopyAt(cur', i + 1, Span(i))
    BY <1>6, <2>1 DEF CopyAt
  <2>3. \A n \in 1 .. N : CopyAt(cur', n, Span(i)) => n = i + 1
    <3> SUFFICES ASSUME NEW n \in 1 .. N, CopyAt(cur', n, Span(i)) PROVE n = i + 1
      OBVIOUS
    <3>1. Span(n - 1) = Span(i) /\ n - 1 \in Layers
      BY <1>5, <1>6 DEF CopyAt
    <3>2. n - 1 = i
      BY <3>1, PlaceFacts
    <3> QED BY <3>2, NAssumption DEF Layers
  <2>4. \A n \in 1 .. N : cur'[n].op # "read"
    BY <1>6
  <2> QED BY <1>6, <2>1, <2>2, <2>3, <2>4
<1> QED BY <1>1, <1>4, <1>7, <1>8, <1>9, <1>10, <1>11, OtherPart, Assembled DEF Outer, Home

\* A window that cannot end leaves nothing queued.
LEMMA EndWindowNoRoomStep == \A b \in Batches : IInv /\ EndWindowNoRoom(b) => IInv'
<1> SUFFICES ASSUME IInv, NEW b \in Batches, EndWindowNoRoom(b) PROVE IInv'
  OBVIOUS
<1>1. /\ phase = "prefill" /\ cur = <<>> /\ side = <<>> /\ forward = Idle
      /\ pfCur' = None /\ point' = Left /\ alive' = FALSE /\ mapped' = {}
      /\ holds' = [p \in Places |-> Junk]
      /\ UNCHANGED <<phase, forward, layer, entered, forwards, issued, ready, done>>
      /\ UNCHANGED <<cur, side, given, copying>>
  BY DEF EndWindowNoRoom, Drained, streamVars
<1>2. Left \in [Layers -> Places] /\ \A i \in Layers : Left[i] = Span(i)
  BY LeftHome
<1>3. TypeOK'
  <2>1. None \in 0 .. N
    BY NAssumption DEF None
  <2> QED BY <1>1, <1>2, <2>1, AllJunk DEF IInv, TypeOK
<1>4. Queues' /\ CopyingHeads'
  BY <1>1 DEF IInv, Queues, CopyingHeads
<1>5. Mapping' /\ HostAt' /\ OthersAtHome' /\ CurrentAway'
  BY <1>1, <1>2 DEF Mapping, HostAt, OthersAtHome, CurrentAway, None, Drained
<1>6. Window'
  BY <1>1, EmptyWindow
<1> QED BY <1>1, <1>3, <1>4, <1>5, <1>6, OtherPart, Assembled DEF Outer

\* The forward's return changes nothing that is queued.
LEMMA ForwardReturnsStep == IInv /\ ForwardReturns => IInv'
<1> SUFFICES ASSUME IInv, ForwardReturns PROVE IInv'
  OBVIOUS
<1>1. /\ forward # Idle /\ layer = N /\ forward' = Idle
      /\ UNCHANGED <<phase, alive, layer, entered, forwards, lendVars, memVars, streamVars>>
      /\ UNCHANGED <<pfCur, issued, ready, done, point, mapped, holds, copying>>
  BY DEF ForwardReturns, lendVars, memVars, streamVars
<1>2. Queues' /\ CopyingHeads' /\ OthersAtHome' /\ CurrentAway' /\ Home' /\ Window'
  BY <1>1, SameStreams
<1>3. TypeOK'
  BY <1>1 DEF IInv, TypeOK
<1>4. Mapping'
  BY <1>1 DEF IInv, Mapping
<1>5. HostAt'
  BY <1>1, NAssumption DEF IInv, HostAt, None, TypeOK
<1> QED BY <1>2, <1>3, <1>4, <1>5, Assembled DEF Outer

-----------------------------------------------------------------------------
(* Giving work to the streams *)

Extends(q, r) ==
  r \in Seq(Op) /\ Len(q) <= Len(r) /\ \A n \in 1 .. Len(q) : r[n] = q[n]

\* What was queued is found at the same place when more is queued behind it.
LEMMA MoreQueued ==
  ASSUME Queues, Extends(cur, cur'), Extends(side, side'), holds' = holds,
         Ran("cur", cur)' = Ran("cur", cur), Ran("side", side)' = Ran("side", side)
  PROVE  /\ \A h \in 0 .. Len(cur) : Upto(h)' = Upto(h)
         /\ \A x, i, e : \A m \in 0 .. Len(side) : Filled(x, i, m, e)' = Filled(x, i, m, e)
<1>1. Len(cur) \in Nat /\ Len(side) \in Nat
  BY RanNat
<1>2. \A h \in 0 .. Len(cur) : Upto(h)' = Upto(h)
  BY <1>1 DEF Upto, Extends
<1>3. ASSUME NEW x, NEW i, NEW e, NEW m \in 0 .. Len(side)
      PROVE  Filled(x, i, m, e)' = Filled(x, i, m, e)
  BY <1>1 DEF Filled, Extends, CopyAt
<1> QED BY <1>2, <1>3

\* A layer's kernels are queued behind the wait for its slot, or at home behind
\* the copies.
LEMMA LaunchStep == IInv /\ Launch => IInv'
<1> SUFFICES ASSUME IInv, Launch PROVE IInv'
  OBVIOUS
<1> USE DEF IInv
<1> DEFINE from == IF forward.graph THEN Span(layer) ELSE point[layer]
<1>1. /\ forward # Idle /\ layer < N /\ entered
      /\ cur' = Append(cur, Read(layer, from))
      /\ given' = [given EXCEPT !.cur = @ + 1]
      /\ layer' = layer + 1 /\ entered' = FALSE
      /\ UNCHANGED <<phase, alive, forward, forwards, side, copying>>
      /\ UNCHANGED <<pfCur, issued, ready, done, point, mapped, holds>>
  BY DEF Launch, lendVars, memVars
<1>2. layer \in Layers /\ alive
  BY <1>1, NAssumption DEF TypeOK, Layers, Mapping
<1>3. from \in Places
  BY <1>2, PlaceFacts DEF TypeOK
<1>4. PICK i \in Layers, x \in Places : i = layer /\ x = from
  BY <1>2, <1>3
<1> HIDE DEF from
<1>5. /\ cur' \in Seq(Op) /\ Len(cur) \in Nat /\ Len(cur') = Len(cur) + 1
      /\ cur'[Len(cur) + 1] = Read(i, x)
      /\ \A n \in 1 .. Len(cur) : cur'[n] = cur[n]
  <2>1. cur \in Seq(Op) /\ Read(i, x) \in Op /\ cur' = Append(cur, Read(i, x))
    BY <1>1, <1>4, OpFields DEF Queues
  <2> QED BY <2>1, AppendFacts
<1>6. /\ cur'[Len(cur) + 1].op = "read" /\ cur'[Len(cur) + 1].layer = i
      /\ cur'[Len(cur) + 1].from = x
  BY <1>4, <1>5, OpFields
<1>7. /\ given' \in [cur : Nat, side : Nat] /\ given'.cur = given.cur + 1
      /\ given'.side = given.side
  BY <1>1 DEF Queues
<1>8. Queues'
  BY <1>1, <1>5, <1>7 DEF Queues
<1>9. Outer'
  <2>1. TypeOK'
    <3>1. layer' \in 0 .. N
      BY <1>1, <1>2, NAssumption DEF Layers
    <3>2. entered' \in BOOLEAN
      BY <1>1
    <3> QED BY <1>1, <3>1, <3>2 DEF TypeOK
  <2>2. CopyingHeads'
    <3>1. cur # <<>> => cur' # <<>> /\ cur'[1] = cur[1]
      BY <1>5 DEF Queues
    <3> QED BY <1>1, <3>1 DEF CopyingHeads
  <2>3. Mapping' /\ OthersAtHome' /\ CurrentAway'
    BY <1>1, <1>2 DEF Mapping, OthersAtHome, CurrentAway
  <2>4. HostAt'
    <3>1. layer + 1 > 0 /\ (layer + 1) - 1 = layer
      BY <1>2, NAssumption DEF Layers
    <3> QED BY <1>1, <3>1 DEF HostAt, None
  <2> QED BY <1>8, <2>1, <2>2, <2>3, <2>4 DEF Outer
<1>10. ASSUME phase # "prefill" PROVE Home'
  <2>1. x = Span(i)
    <3>1. point[layer] = Span(layer)
      BY <1>2, <1>10 DEF OthersAtHome
    <3> QED BY <1>4, <3>1 DEF from
  <2>2. HomeOps'
    <3> SUFFICES ASSUME NEW n \in 1 .. Len(cur')
                 PROVE  /\ cur'[n].op \in {"read", "copy"}
                        /\ cur'[n].op = "read" => cur'[n].from = Span(cur'[n].layer)
                        /\ cur'[n].op = "copy" => cur'[n].to = Span(cur'[n].layer)
      BY <1>1, <1>10 DEF HomeOps
    <3>1. CASE n \in 1 .. Len(cur)
      BY <1>5, <1>10, <3>1 DEF HomeOps
    <3>2. CASE n = Len(cur) + 1
      BY <1>6, <2>1, <3>2
    <3> QED BY <1>5, <3>1, <3>2
  <2>3. HomeFilled'
    <3> SUFFICES ASSUME NEW j \in Layers
                 PROVE  \E m \in 0 .. Len(cur') :
                          /\ IF m = 0 THEN holds[Span(j)] = j ELSE CopyAt(cur', m, Span(j))
                          /\ \A n \in 1 .. Len(cur') :
                               /\ CopyAt(cur', n, Span(j)) => n = m
                               /\ cur'[n].op = "read" /\ cur'[n].layer = j => n > m
      BY <1>1 DEF HomeFilled, CopyAt
    <3>1. PICK m \in 0 .. Len(cur) :
            /\ IF m = 0 THEN holds[Span(j)] = j ELSE CopyAt(cur, m, Span(j))
            /\ \A n \in 1 .. Len(cur) :
                 /\ CopyAt(cur, n, Span(j)) => n = m
                 /\ cur[n].op = "read" /\ cur[n].layer = j => n > m
      BY <1>10 DEF HomeFilled
    <3>2. m \in 0 .. Len(cur') /\ (m # 0 => cur'[m] = cur[m])
      BY <1>5
    <3>3. \A n \in 1 .. Len(cur') :
            /\ CopyAt(cur', n, Span(j)) => n = m
            /\ cur'[n].op = "read" /\ cur'[n].layer = j => n > m
      <4> TAKE n \in 1 .. Len(cur')
      <4>1. CASE n \in 1 .. Len(cur)
        BY <1>5, <3>1, <4>1 DEF CopyAt
      <4>2. CASE n = Len(cur) + 1
        <5>1. n > m /\ cur'[n].op = "read"
          BY <1>5, <1>6, <4>2
        <5> QED BY <5>1 DEF CopyAt
      <4> QED BY <1>5, <4>1, <4>2
    <3> QED BY <3>1, <3>2, <3>3 DEF CopyAt
  <2> QED BY <2>2, <2>3 DEF Home
<1>11. ASSUME phase = "prefill" PROVE Window'
  <2>1. pfCur = i /\ pfCur # None /\ x = SlotOf(i)
    <3>1. pfCur = layer /\ pfCur # None
      BY <1>1, <1>2, <1>11, NAssumption DEF HostAt, None
    <3>2. ~forward.graph
      BY <1>1, <1>11, BatchesAssumption DEF HostAt, TypeOK
    <3> QED BY <1>4, <3>1, <3>2 DEF CurrentAway, from
  <2>2. Ran("cur", cur)' = Ran("cur", cur) /\ Ran("side", side)' = Ran("side", side)
        /\ Ran("cur", cur) \in Nat
    BY <1>1, <1>5, <1>7, RanNat DEF Ran, Queues
  <2>3. Extends(cur, cur') /\ Extends(side, side')
    BY <1>1, <1>5 DEF Extends, Queues
  <2>4. /\ \A h \in 0 .. Len(cur) : Upto(h)' = Upto(h)
        /\ \A y, j, e : \A m \in 0 .. Len(side) : Filled(y, j, m, e)' = Filled(y, j, m, e)
    BY <1>1, <2>2, <2>3, MoreQueued
  <2>5. Len(side) \in Nat
    BY RanNat
  <2>6. SlotOps'
    <3>1. \A n \in 1 .. Len(cur') :
            /\ cur'[n].op \in {"wait", "read"}
            /\ cur'[n].op = "read" => cur'[n].from = SlotOf(cur'[n].layer)
      <4> TAKE n \in 1 .. Len(cur')
      <4>1. CASE n \in 1 .. Len(cur)
        BY <1>5, <1>11, <4>1 DEF SlotOps
      <4>2. CASE n = Len(cur) + 1
        BY <1>6, <2>1, <4>2
      <4> QED BY <1>5, <4>1, <4>2
    <3> QED BY <1>1, <1>11, <3>1 DEF SlotOps
  <2>7. ASSUME NEW j, NEW y, NEW n \in 1 .. Len(cur'), cur'[n].op = "read",
               j = cur'[n].layer, y = cur'[n].from
        PROVE  Guarded(y, j, n)'
    <3>1. CASE n \in 1 .. Len(cur)
      <4>1. Guarded(y, j, n)
        BY <1>5, <1>11, <2>7, <3>1 DEF ReadsGuarded
      <4>2. PICK m \in 0 .. Len(side), h \in 0 .. n - 1 :
              /\ Filled(y, j, m, Upto(h))
              /\ \A q \in m + 1 .. Len(side) :
                   CopyAt(side, q, y) =>
                     q > 1 /\ side[q - 1].op = "wait" /\ side[q - 1].upto >= Ran("cur", cur) + n
        BY <4>1 DEF Guarded
      <4>3. PICK u : u = Upto(h) /\ Upto(h)' = u
        BY <1>5, <2>4, <3>1
      <4>4. Filled(y, j, m, u)'
        BY <2>4, <4>2, <4>3
      <4>5. Filled(y, j, m, Upto(h))'
        BY <4>3, <4>4
      <4> QED BY <1>1, <2>2, <4>2, <4>5 DEF Guarded, CopyAt
    <3>2. CASE n = Len(cur) + 1
      <4>1. j = i /\ y = SlotOf(i)
        BY <1>6, <2>1, <2>7, <3>2
      <4>2. PICK m \in 0 .. Len(side), h \in 0 .. Len(cur) :
              /\ Filled(y, j, m, Upto(h))
              /\ \A q \in m + 1 .. Len(side) : ~CopyAt(side, q, y)
        BY <1>11, <2>1, <4>1 DEF CurrentFilled, Awaited
      <4>3. PICK u : u = Upto(h) /\ Upto(h)' = u
        BY <2>4
      <4>4. Filled(y, j, m, u)'
        BY <2>4, <4>2, <4>3
      <4>5. Filled(y, j, m, Upto(h))' /\ h \in 0 .. n - 1
        BY <1>5, <3>2, <4>3, <4>4
      <4> QED BY <1>1, <4>2, <4>5 DEF Guarded, CopyAt
    <3> QED BY <1>5, <3>1, <3>2
  <2>8. ReadsGuarded'
    <3> SUFFICES ASSUME NEW n \in 1 .. Len(cur'), cur'[n].op = "read"
                 PROVE  Guarded(cur[n].from, cur[n].layer, n)'
      BY DEF ReadsGuarded
    <3>1. PICK y, j : y = cur'[n].from /\ j = cur'[n].layer
      OBVIOUS
    <3> QED BY <2>7, <3>1
  <2>9. DoneAfterReads'
    <3> SUFFICES ASSUME NEW n \in 1 .. Len(cur'), cur'[n].op = "read"
                 PROVE  \/ Ran("cur", cur) + n <= done[cur'[n].layer % 2]
                        \/ cur'[n].layer % 2 = pfCur % 2
      BY <1>1, <2>1, <2>2 DEF DoneAfterReads, None
    <3>1. CASE n \in 1 .. Len(cur)
      BY <1>5, <1>11, <2>1, <3>1 DEF DoneAfterReads
    <3>2. CASE n = Len(cur) + 1
      BY <1>6, <2>1, <3>2
    <3> QED BY <1>5, <3>1, <3>2
  <2>10. CurrentFilled'
    <3>1. PICK m \in 0 .. Len(side), h \in 0 .. Len(cur) :
            /\ Filled(SlotOf(i), i, m, Upto(h))
            /\ \A q \in m + 1 .. Len(side) : ~CopyAt(side, q, SlotOf(i))
      BY <1>11, <2>1 DEF CurrentFilled, Awaited
    <3>2. PICK u, y : u = Upto(h) /\ Upto(h)' = u /\ y = SlotOf(i)
      BY <2>4
    <3>3. Filled(y, i, m, u)'
      BY <2>4, <3>1, <3>2
    <3>4. Filled(SlotOf(i), i, m, Upto(h))' /\ h \in 0 .. Len(cur')
      BY <1>5, <3>2, <3>3 DEF SlotOf
    <3>5. Awaited(i)'
      BY <1>1, <3>1, <3>4 DEF Awaited, CopyAt, SlotOf
    <3> QED BY <1>1, <2>1, <3>5 DEF CurrentFilled, None
  <2>11. NextFilled'
    <3>1. ASSUME NEW j, Told(j) PROVE Told(j)'
      BY <1>1, <2>2, <3>1 DEF Told, Filled, CopyAt, SlotOf
    <3> QED BY <1>1, <3>1 DEF NextFilled, None
  <2> QED BY <2>6, <2>8, <2>9, <2>10, <2>11 DEF Window
<1> QED BY <1>1, <1>9, <1>10, <1>11, OtherPart, Assembled

-----------------------------------------------------------------------------
(* The hooks of a layer *)

\* What _enter has left of the streams' work at some point.
Work == [cur : Seq(Op), side : Seq(Op), given : [cur : Nat, side : Nat],
         ready : [Slots -> Nat], done : [Slots -> Nat], issued : SUBSET Layers]

\* It only adds work to side, and a copy it adds waits for its slot's done event.
Ahead(w) ==
  /\ Extends(side, w.side)
  /\ w.given.side = Ran("side", side) + Len(w.side)
  /\ \A n \in Len(side) + 1 .. Len(w.side) :
       /\ w.side[n].op \in {"wait", "copy"}
       /\ w.side[n].op = "copy" =>
            /\ w.side[n].layer \in Layers /\ w.side[n].to = SlotOf(w.side[n].layer)
            /\ n - 1 \in 1 .. Len(w.side) /\ w.side[n - 1].op = "wait"
            /\ w.side[n - 1].upto = w.done[w.side[n].layer % 2]

\* Told, of that work.
ToldBy(w, i) ==
  \E m \in 0 .. Len(w.side) :
    /\ IF m = 0 THEN holds[SlotOf(i)] = i
                ELSE /\ CopyAt(w.side, m, SlotOf(i)) /\ w.side[m].layer = i
                     /\ Ran("side", side) + m <= w.ready[i % 2]
    /\ \A q \in m + 1 .. Len(w.side) : ~CopyAt(w.side, q, SlotOf(i))

\* wait_stream gives side a wait.
LEMMA WaitStreamAhead ==
  ASSUME Queues, NEW w \in Work, Ahead(w)
  PROVE  LET r == WaitStream(w)
         IN  /\ r \in Work /\ Ahead(r)
             /\ r.cur = w.cur /\ r.given.cur = w.given.cur /\ r.done = w.done
             /\ r.issued = w.issued
<1> DEFINE r == WaitStream(w)
<1>1. w.side \in Seq(Op) /\ w.given.cur \in Nat /\ w.given.side \in Nat /\ Len(w.side) \in Nat
  BY DEF Work
<1>2. Wait(w.given.cur) \in Op /\ Wait(w.given.cur).op = "wait"
  BY <1>1, OpFields
<1>3. /\ r.side = Append(w.side, Wait(w.given.cur)) /\ r.given.side = w.given.side + 1
      /\ r.cur = w.cur /\ r.given.cur = w.given.cur /\ r.done = w.done /\ r.issued = w.issued
  BY DEF Work, WaitStream
<1>4. /\ r.side \in Seq(Op) /\ Len(r.side) = Len(w.side) + 1
      /\ r.side[Len(w.side) + 1] = Wait(w.given.cur)
      /\ \A n \in 1 .. Len(w.side) : r.side[n] = w.side[n]
  BY <1>1, <1>2, <1>3, AppendFacts
<1>5. r \in Work
  <2>1. Append(w.side, Wait(w.given.cur)) \in Seq(Op)
    BY <1>1, <1>2
  <2>2. w.given.side + 1 \in Nat
    BY <1>1
  <2> QED BY <2>1, <2>2 DEF Work, WaitStream
<1> HIDE DEF r
<1>6. Len(side) \in Nat /\ Ran("side", side) \in Nat
  BY RanNat
<1>7. Extends(side, r.side) /\ r.given.side = Ran("side", side) + Len(r.side)
  <2>1. PICK l \in Nat, k \in Nat, v \in Nat :
          l = Len(side) /\ k = Len(w.side) /\ v = Ran("side", side)
    BY <1>1, <1>6
  <2>2. Len(r.side) = k + 1 /\ l <= k /\ w.given.side = v + k
    BY <1>4, <2>1 DEF Ahead, Extends
  <2>3. l <= k + 1 /\ (v + k) + 1 = v + (k + 1)
    BY <2>1, <2>2
  <2>4. \A n \in 1 .. Len(side) : r.side[n] = side[n]
    <3>1. \A n \in 1 .. l : n \in 1 .. k
      BY <2>1, <2>2
    <3>2. \A n \in 1 .. l : w.side[n] = side[n]
      BY <2>1 DEF Ahead, Extends
    <3> QED BY <1>4, <2>1, <3>1, <3>2
  <2> QED BY <1>3, <1>4, <2>1, <2>2, <2>3, <2>4 DEF Extends
<1>8. ASSUME NEW n \in Len(side) + 1 .. Len(r.side)
      PROVE  /\ r.side[n].op \in {"wait", "copy"}
             /\ r.side[n].op = "copy" =>
                  /\ r.side[n].layer \in Layers /\ r.side[n].to = SlotOf(r.side[n].layer)
                  /\ n - 1 \in 1 .. Len(r.side) /\ r.side[n - 1].op = "wait"
                  /\ r.side[n - 1].upto = r.done[r.side[n].layer % 2]
  <2>1. CASE n = Len(w.side) + 1
    BY <1>2, <1>4, <2>1
  <2>2. CASE n \in Len(side) + 1 .. Len(w.side)
    <3>1. n \in 1 .. Len(w.side) /\ r.side[n] = w.side[n]
      BY <1>1, <1>4, <1>6, <2>2
    <3>2. n - 1 \in 1 .. Len(w.side) => n - 1 \in 1 .. Len(r.side) /\ r.side[n - 1] = w.side[n - 1]
      BY <1>1, <1>4
    <3> QED BY <1>3, <2>2, <3>1, <3>2 DEF Ahead
  <2> QED BY <1>1, <1>4, <1>6, <2>1, <2>2
<1>9. Ahead(r)
  BY <1>7, <1>8 DEF Ahead
<1> QED BY <1>3, <1>5, <1>9 DEF r

\* _prefetch gives side a wait and a copy, and the slot's ready event tells of
\* it. What the other slot was told stays.
LEMMA PrefetchAhead ==
  ASSUME Queues, NEW w \in Work, Ahead(w), NEW i \in Layers, i \notin w.issued
  PROVE  LET r == Prefetch(i, w)
         IN  /\ r \in Work /\ Ahead(r) /\ ToldBy(r, i)
             /\ r.cur = w.cur /\ r.given.cur = w.given.cur /\ r.done = w.done
             /\ r.issued = w.issued \cup {i}
             /\ \A j \in Layers : j % 2 # i % 2 =>
                  r.ready[j % 2] = w.ready[j % 2] /\ (ToldBy(w, j) => ToldBy(r, j))
<1> DEFINE r == Prefetch(i, w)
<1>1. /\ w.side \in Seq(Op) /\ w.given.cur \in Nat /\ w.given.side \in Nat /\ Len(w.side) \in Nat
      /\ w.done \in [Slots -> Nat] /\ w.ready \in [Slots -> Nat]
  BY DEF Work
<1>2. i % 2 \in Slots /\ SlotOf(i) \in Places /\ ~(i >= N) /\ w.done[i % 2] \in Nat
  <2>1. i % 2 \in Slots /\ SlotOf(i) \in Places /\ i \in Nat /\ i < N
    BY PlaceFacts
  <2>2. ~(i >= N)
    BY <2>1, NAssumption
  <2> QED BY <1>1, <2>1, <2>2
<1>3. PICK a \in Op, b \in Op :
        /\ a = Wait(w.done[i % 2]) /\ b = Copy(i, SlotOf(i))
        /\ a.op = "wait" /\ a.upto = w.done[i % 2]
        /\ b.op = "copy" /\ b.layer = i /\ b.to = SlotOf(i)
  BY <1>2, OpFields
<1>4. r = [w EXCEPT !.side = @ \o <<a, b>>,
                    !.given.side = @ + 2,
                    !.ready[i % 2] = w.given.side + 2,
                    !.issued = @ \cup {i}]
  BY <1>2, <1>3 DEF Prefetch
<1> HIDE DEF r
<1>5. /\ r.given.side = w.given.side + 2
      /\ r.cur = w.cur /\ r.given.cur = w.given.cur /\ r.done = w.done
      /\ r.issued = w.issued \cup {i}
  BY <1>4 DEF Work
<1>6. r.side = w.side \o <<a, b>> /\ r.ready = [w.ready EXCEPT ![i % 2] = w.given.side + 2]
  BY <1>4 DEF Work
<1>7. /\ r.side \in Seq(Op) /\ Len(r.side) = Len(w.side) + 2
      /\ r.side[Len(w.side) + 1] = a /\ r.side[Len(w.side) + 2] = b
      /\ \A n \in 1 .. Len(w.side) : r.side[n] = w.side[n]
  BY <1>1, <1>3, <1>6, AppendTwo
<1>8. r \in Work
  <2>1. w.side \o <<a, b>> \in Seq(Op)
    BY <1>6, <1>7
  <2>2. w.given.side + 2 \in Nat
    BY <1>1
  <2>3. w.issued \cup {i} \in SUBSET Layers
    BY DEF Work
  <2> QED BY <1>2, <1>4, <2>1, <2>2, <2>3 DEF Work
<1>9. Len(side) \in Nat /\ Ran("side", side) \in Nat
  BY RanNat
<1>10. /\ Len(side) <= Len(w.side) /\ \A n \in 1 .. Len(side) : w.side[n] = side[n]
       /\ w.given.side = Ran("side", side) + Len(w.side)
  BY DEF Ahead, Extends
<1>11. Extends(side, r.side) /\ r.given.side = Ran("side", side) + Len(r.side)
  <2>1. Len(side) <= Len(r.side) /\ r.given.side = Ran("side", side) + Len(r.side)
    <3>1. PICK l \in Nat, k \in Nat, v \in Nat :
            l = Len(side) /\ k = Len(w.side) /\ v = Ran("side", side)
      BY <1>1, <1>9
    <3>2. Len(r.side) = k + 2 /\ l <= k /\ w.given.side = v + k
      BY <1>7, <1>10, <3>1
    <3> QED BY <1>5, <3>1, <3>2
  <2>2. \A n \in 1 .. Len(side) : r.side[n] = side[n]
    BY <1>1, <1>7, <1>9, <1>10
  <2> QED BY <1>7, <2>1, <2>2 DEF Extends
<1>12. ASSUME NEW n \in Len(side) + 1 .. Len(r.side)
      PROVE  /\ r.side[n].op \in {"wait", "copy"}
             /\ r.side[n].op = "copy" =>
                  /\ r.side[n].layer \in Layers /\ r.side[n].to = SlotOf(r.side[n].layer)
                  /\ n - 1 \in 1 .. Len(r.side) /\ r.side[n - 1].op = "wait"
                  /\ r.side[n - 1].upto = r.done[r.side[n].layer % 2]
  <2>1. CASE n = Len(w.side) + 1
    BY <1>3, <1>7, <2>1
  <2>2. CASE n = Len(w.side) + 2
    <3>1. r.side[n] = b /\ n - 1 \in 1 .. Len(r.side) /\ r.side[n - 1] = a
      BY <1>1, <1>7, <2>2
    <3> QED BY <1>3, <1>5, <3>1
  <2>3. CASE n \in Len(side) + 1 .. Len(w.side)
    <3>1. n \in 1 .. Len(w.side) /\ r.side[n] = w.side[n]
      <4>1. n \in 1 .. Len(w.side)
        BY <1>1, <1>9, <2>3
      <4> QED BY <1>7, <4>1
    <3>2. n - 1 \in 1 .. Len(w.side) => n - 1 \in 1 .. Len(r.side) /\ r.side[n - 1] = w.side[n - 1]
      BY <1>1, <1>7
    <3> QED BY <1>5, <2>3, <3>1, <3>2 DEF Ahead
  <2>4. n = Len(w.side) + 1 \/ n = Len(w.side) + 2 \/ n \in Len(side) + 1 .. Len(w.side)
    <3>1. PICK l \in Nat, k \in Nat : l = Len(side) /\ k = Len(w.side)
      BY <1>1, <1>9
    <3>2. Len(r.side) = k + 2 /\ l <= k
      BY <1>7, <1>10, <3>1
    <3> QED BY <3>1, <3>2
  <2> QED BY <2>1, <2>2, <2>3, <2>4
<1>13. Ahead(r)
  BY <1>11, <1>12 DEF Ahead
<1>14. ToldBy(r, i)
  <2>1. Len(r.side) \in 0 .. Len(r.side) /\ Len(r.side) # 0
    BY <1>1, <1>7
  <2>2. CopyAt(r.side, Len(r.side), SlotOf(i)) /\ r.side[Len(r.side)].layer = i
    BY <1>3, <1>7 DEF CopyAt
  <2>3. Ran("side", side) + Len(r.side) <= r.ready[i % 2]
    <3>1. r.ready[i % 2] = w.given.side + 2
      BY <1>1, <1>2, <1>6
    <3> QED BY <1>1, <1>5, <1>7, <1>9, <1>10, <1>11, <3>1
  <2>4. \A q \in Len(r.side) + 1 .. Len(r.side) : ~CopyAt(r.side, q, SlotOf(i))
    BY <1>1, <1>7
  <2> QED BY <2>1, <2>2, <2>3, <2>4 DEF ToldBy
<1>15. ASSUME NEW j \in Layers, j % 2 # i % 2
       PROVE  r.ready[j % 2] = w.ready[j % 2] /\ (ToldBy(w, j) => ToldBy(r, j))
  <2>1. j % 2 \in Slots /\ SlotOf(j) # SlotOf(i)
    BY <1>15, PlaceFacts
  <2>2. r.ready[j % 2] = w.ready[j % 2]
    BY <1>1, <1>6, <1>15, <2>1
  <2>3. ASSUME ToldBy(w, j) PROVE ToldBy(r, j)
    <3>1. PICK m \in 0 .. Len(w.side) :
            /\ IF m = 0 THEN holds[SlotOf(j)] = j
                        ELSE /\ CopyAt(w.side, m, SlotOf(j)) /\ w.side[m].layer = j
                             /\ Ran("side", side) + m <= w.ready[j % 2]
            /\ \A q \in m + 1 .. Len(w.side) : ~CopyAt(w.side, q, SlotOf(j))
      BY <2>3 DEF ToldBy
    <3>2. m \in 0 .. Len(r.side) /\ (m # 0 => r.side[m] = w.side[m])
      BY <1>1, <1>7
    <3>3. \A q \in m + 1 .. Len(r.side) : ~CopyAt(r.side, q, SlotOf(j))
      <4> TAKE q \in m + 1 .. Len(r.side)
      <4>1. CASE q \in m + 1 .. Len(w.side)
        <5>1. r.side[q] = w.side[q]
          BY <1>1, <1>7, <4>1
        <5> QED BY <3>1, <4>1, <5>1 DEF CopyAt
      <4>2. CASE q = Len(w.side) + 1
        BY <1>3, <1>7, <4>2 DEF CopyAt
      <4>3. CASE q = Len(w.side) + 2
        BY <1>3, <1>7, <2>1, <4>3 DEF CopyAt
      <4>4. PICK l \in Nat : l = Len(w.side) /\ Len(r.side) = l + 2 /\ m \in 0 .. l
        BY <1>1, <1>7
      <4>5. q \in m + 1 .. l \/ q = l + 1 \/ q = l + 2
        BY <4>4
      <4> QED BY <4>1, <4>2, <4>3, <4>4, <4>5
    <3> QED BY <2>2, <3>1, <3>2, <3>3 DEF ToldBy, CopyAt
  <2> QED BY <2>2, <2>3
<1> QED BY <1>5, <1>8, <1>13, <1>14, <1>15 DEF r

\* What _enter(i) has left when it is done: cur waits for layer i's copy, and the
\* copy of the layer after it is asked for.
Entered(i, w) ==
  /\ Ahead(w) /\ ToldBy(w, i)
  /\ w.cur = Append(cur, Wait(w.ready[i % 2])) /\ w.given.cur = given.cur + 1
  /\ \A k \in Slots :
       w.done[k] = IF pfCur # None /\ k = pfCur % 2 THEN given.cur ELSE done[k]
  /\ \A j \in w.issued : j <= i + 1
  /\ i + 1 < N => i + 1 \in w.issued /\ ToldBy(w, i + 1)

\* The layer before it has asked for layer i's copy; the first layer asks for its
\* own.
LEMMA EnterLayerWork ==
  ASSUME IInv, phase = "prefill", NEW i \in Layers, EnterLayer(i), pfCur # i,
         i > 0 => pfCur = i - 1, i = 0 => pfCur \in {None, N - 1}
  PROVE  \E w \in Work :
           /\ Entered(i, w)
           /\ cur' = w.cur /\ side' = w.side /\ given' = w.given
           /\ ready' = w.ready /\ done' = w.done /\ issued' = w.issued
<1> USE DEF IInv
<1> DEFINE start == [cur |-> cur, side |-> side, given |-> given, ready |-> ready,
                     done |-> IF pfCur = None THEN done
                              ELSE [done EXCEPT ![pfCur % 2] = given.cur],
                     issued |-> IF pfCur = None \/ i <= pfCur THEN {} ELSE issued]
           first == IF i \in start.issued THEN start ELSE Prefetch(i, WaitStream(start))
           here == [first EXCEPT !.cur = Append(@, Wait(first.ready[i % 2])),
                                 !.given.cur = @ + 1]
           new == Prefetch(i + 1, here)
<1>1. /\ cur' = new.cur /\ side' = new.side /\ given' = new.given
      /\ ready' = new.ready /\ done' = new.done /\ issued' = new.issued
  BY DEF EnterLayer, Issued
<1>2. /\ Queues /\ cur \in Seq(Op) /\ side \in Seq(Op) /\ given \in [cur : Nat, side : Nat]
      /\ given.cur \in Nat /\ given.side \in Nat /\ Len(side) \in Nat
      /\ Ran("side", side) \in Nat /\ given.side = Ran("side", side) + Len(side)
  BY RanNat DEF Queues
<1>3. i \in Nat /\ i < N /\ i % 2 \in Slots /\ N \in Nat
  BY PlaceFacts, NAssumption
<1>4. /\ start \in Work /\ start.cur = cur /\ start.side = side /\ start.given = given
      /\ start.ready = ready
      /\ \A k \in Slots :
           start.done[k] = IF pfCur # None /\ k = pfCur % 2 THEN given.cur ELSE done[k]
      /\ start.issued = IF pfCur = None \/ i <= pfCur THEN {} ELSE issued
  <2>1. ready \in [Slots -> Nat] /\ done \in [Slots -> Nat] /\ issued \subseteq Layers
        /\ pfCur \in Nat
    BY DEF TypeOK
  <2>2. [done EXCEPT ![pfCur % 2] = given.cur] \in [Slots -> Nat]
    BY <1>2, <2>1
  <2>3. start.done \in [Slots -> Nat]
    BY <2>1, <2>2
  <2>4. start.issued \in SUBSET Layers
    BY <2>1
  <2>5. start \in Work
    BY <1>2, <2>1, <2>3, <2>4 DEF Work
  <2>6. \A k \in Slots :
           start.done[k] = IF pfCur # None /\ k = pfCur % 2 THEN given.cur ELSE done[k]
    BY <2>1
  <2> QED BY <2>5, <2>6
<1>5. Ahead(start)
  <2>1. Len(start.side) = Len(side)
    BY <1>4
  <2> QED BY <1>2, <1>4, <2>1 DEF Ahead, Extends
<1> HIDE DEF start
<1>6. /\ first \in Work /\ Ahead(first) /\ ToldBy(first, i)
      /\ first.cur = cur /\ first.given.cur = given.cur /\ first.done = start.done
      /\ \A j \in first.issued : j <= i
  <2>1. CASE i = 0
    <3>1. start.issued = {}
      BY <1>3, <1>4, <2>1, NAssumption DEF None
    <3>2. first = Prefetch(i, WaitStream(start))
      BY <3>1
    <3>3. PICK w \in Work : /\ w = WaitStream(start) /\ Ahead(w)
                            /\ w.cur = cur /\ w.given.cur = given.cur /\ w.done = start.done
                            /\ w.issued = {}
      BY <1>2, <1>4, <1>5, <3>1, WaitStreamAhead
    <3>4. first = Prefetch(i, w) /\ i \notin w.issued
      BY <3>2, <3>3
    <3> HIDE DEF first
    <3>5. LET r == Prefetch(i, w)
          IN  /\ r \in Work /\ Ahead(r) /\ ToldBy(r, i)
              /\ r.cur = w.cur /\ r.given.cur = w.given.cur /\ r.done = w.done
              /\ r.issued = w.issued \cup {i}
      BY <1>2, <3>3, <3>4, PrefetchAhead
    <3> QED BY <1>3, <3>3, <3>4, <3>5
  <2>2. CASE i > 0
    <3>1. pfCur = i - 1 /\ pfCur # None /\ ~(i <= pfCur) /\ pfCur + 1 = i
      BY <1>3, <2>2, NAssumption DEF None
    <3>2. i \in issued /\ Told(i) /\ \A j \in issued : j <= i
      BY <1>3, <3>1 DEF NextFilled
    <3>3. start.issued = issued /\ first = start
      BY <1>4, <3>1, <3>2
    <3> HIDE DEF first
    <3>4. ToldBy(start, i)
      BY <1>4, <3>2 DEF Told, ToldBy, Filled
    <3> QED BY <1>4, <1>5, <3>2, <3>3, <3>4
  <2> QED BY <1>3, <2>1, <2>2
<1> HIDE DEF first
<1>7. first.ready[i % 2] \in Nat /\ first.given.cur \in Nat /\ first.cur \in Seq(Op)
  BY <1>3, <1>6 DEF Work
<1>8. PICK a \in Op : a = Wait(first.ready[i % 2])
  BY <1>7, OpFields
<1>9. here = [first EXCEPT !.cur = Append(@, a), !.given.cur = @ + 1]
  BY <1>8
<1> HIDE DEF here
<1>10. /\ here.cur = Append(cur, a) /\ here.given.cur = given.cur + 1
       /\ here.side = first.side /\ here.given.side = first.given.side
       /\ here.ready = first.ready /\ here.done = first.done /\ here.issued = first.issued
  BY <1>6, <1>9 DEF Work
<1>11. here \in Work
  <2>1. Append(first.cur, a) \in Seq(Op) /\ first.given.cur + 1 \in Nat
    BY <1>7, <1>8
  <2> QED BY <1>6, <1>9, <2>1 DEF Work
<1>12. Ahead(here) /\ ToldBy(here, i)
  BY <1>6, <1>10 DEF Ahead, ToldBy
<1>13. \A j \in here.issued : j <= i
  BY <1>6, <1>10
<1>14. CASE i + 1 < N
  <2>1. i + 1 \in Layers /\ (i + 1) % 2 # i % 2 /\ i + 1 \notin here.issued
    BY <1>3, <1>13, <1>14 DEF Layers
  <2>2. PICK j \in Layers : j = i + 1
    BY <2>1
  <2>3. LET r == Prefetch(j, here)
        IN  /\ r \in Work /\ Ahead(r) /\ ToldBy(r, j)
            /\ r.cur = here.cur /\ r.given.cur = here.given.cur /\ r.done = here.done
            /\ r.issued = here.issued \cup {j}
            /\ \A k \in Layers : k % 2 # j % 2 =>
                 r.ready[k % 2] = here.ready[k % 2] /\ (ToldBy(here, k) => ToldBy(r, k))
    <3>1. j \notin here.issued
      BY <2>1, <2>2
    <3> QED BY <1>2, <1>11, <1>12, <3>1, PrefetchAhead
  <2>4. new = Prefetch(j, here)
    BY <2>2
  <2> HIDE DEF new
  <2>5. /\ new \in Work /\ Ahead(new) /\ ToldBy(new, i + 1) /\ ToldBy(new, i)
        /\ new.cur = here.cur /\ new.given.cur = here.given.cur /\ new.done = here.done
        /\ new.issued = here.issued \cup {i + 1} /\ new.ready[i % 2] = here.ready[i % 2]
    BY <1>12, <2>1, <2>2, <2>3, <2>4
  <2>6. \A k \in new.issued : k <= i + 1
    BY <1>3, <1>11, <1>13, <2>5 DEF Work, Layers
  <2>7. new.cur = Append(cur, Wait(new.ready[i % 2])) /\ new.given.cur = given.cur + 1
    BY <1>8, <1>10, <2>5
  <2>8. \A k \in Slots :
          new.done[k] = IF pfCur # None /\ k = pfCur % 2 THEN given.cur ELSE done[k]
    BY <1>4, <1>6, <1>10, <2>5
  <2>9. Entered(i, new)
    BY <2>5, <2>6, <2>7, <2>8 DEF Entered
  <2> QED BY <1>1, <2>5, <2>9
<1>15. CASE ~(i + 1 < N)
  <2>1. i + 1 >= N
    BY <1>3, <1>15
  <2>2. new = here
    BY <2>1 DEF Prefetch
  <2> HIDE DEF new
  <2>3. \A k \in here.issued : k <= i + 1
    BY <1>3, <1>11, <1>13 DEF Work, Layers
  <2>4. here.cur = Append(cur, Wait(here.ready[i % 2])) /\ here.given.cur = given.cur + 1
    BY <1>8, <1>10
  <2>5. \A k \in Slots :
          here.done[k] = IF pfCur # None /\ k = pfCur % 2 THEN given.cur ELSE done[k]
    BY <1>4, <1>6, <1>10
  <2>6. Entered(i, here)
    BY <1>12, <1>15, <2>3, <2>4, <2>5 DEF Entered
  <2> QED BY <1>1, <1>11, <2>2, <2>6
<1> QED BY <1>14, <1>15

\* Entering layer i guards every read still queued from the copies it asks for,
\* and puts the wait for its own copy before its own read.
LEMMA EnteredWindow ==
  ASSUME IInv, phase = "prefill", phase' = phase, holds' = holds, NEW i \in Layers,
         pfCur' = i, NEW w \in Work, Entered(i, w),
         cur' = w.cur, side' = w.side, given' = w.given,
         ready' = w.ready, done' = w.done, issued' = w.issued
  PROVE  Queues' /\ Window'
<1> USE DEF IInv
<1>1. /\ cur \in Seq(Op) /\ side \in Seq(Op) /\ Len(cur) \in Nat /\ Len(side) \in Nat
      /\ given.cur \in Nat /\ Ran("cur", cur) = given.cur - Len(cur) /\ Len(cur) <= given.cur
      /\ Ran("cur", cur) \in Nat /\ Ran("side", side) \in Nat
  BY RanNat DEF Queues
<1>2. i \in Nat /\ i % 2 \in Slots /\ SlotOf(i) \in Places
  BY PlaceFacts
<1>3. /\ w.side \in Seq(Op) /\ w.given \in [cur : Nat, side : Nat]
      /\ w.ready \in [Slots -> Nat] /\ w.done \in [Slots -> Nat] /\ w.ready[i % 2] \in Nat
      /\ Len(w.side) \in Nat
  BY <1>2 DEF Work
<1>4. PICK a \in Op : a = Wait(ready'[i % 2]) /\ a.op = "wait" /\ a.upto = ready'[i % 2]
  BY <1>3, OpFields
<1>5. cur' = Append(cur, a) /\ given'.cur = given.cur + 1
  BY <1>4 DEF Entered
<1>6. /\ cur' \in Seq(Op) /\ Len(cur') = Len(cur) + 1 /\ cur'[Len(cur) + 1] = a
      /\ \A n \in 1 .. Len(cur) : cur'[n] = cur[n]
  BY <1>1, <1>4, <1>5, AppendFacts
<1>7. /\ Extends(side, side') /\ given'.side = Ran("side", side) + Len(side')
      /\ \A n \in Len(side) + 1 .. Len(side') :
           /\ side'[n].op \in {"wait", "copy"}
           /\ side'[n].op = "copy" =>
                /\ side'[n].layer \in Layers /\ side'[n].to = SlotOf(side'[n].layer)
                /\ n - 1 \in 1 .. Len(side') /\ side'[n - 1].op = "wait"
                /\ side'[n - 1].upto = done'[side'[n].layer % 2]
  BY DEF Entered, Ahead
<1>8. Extends(cur, cur')
  BY <1>1, <1>6 DEF Extends
<1>9. /\ Ran("cur", cur)' = Ran("cur", cur) /\ Ran("side", side)' = Ran("side", side)
  <2>1. given'.cur - Len(cur') = given.cur - Len(cur)
    BY <1>1, <1>5, <1>6
  <2>2. given'.side - Len(side') = Ran("side", side)
    BY <1>1, <1>3, <1>7
  <2> QED BY <1>1, <2>1, <2>2 DEF Ran
<1>10. Queues'
  <2>1. Len(cur') <= given'.cur
    BY <1>1, <1>5, <1>6
  <2>2. Len(side') <= given'.side
    BY <1>1, <1>3, <1>7
  <2> QED BY <1>3, <1>6, <2>1, <2>2 DEF Queues
<1>11. /\ \A h \in 0 .. Len(cur) : Upto(h)' = Upto(h)
       /\ \A x, j, e : \A m \in 0 .. Len(side) : Filled(x, j, m, e)' = Filled(x, j, m, e)
  BY <1>7, <1>8, <1>9, MoreQueued
<1>12. \E h \in 0 .. Len(cur') : Upto(h)' = ready'[i % 2]
  <2>1. PICK h \in 0 .. Len(cur') : h = Len(cur) + 1
    BY <1>1, <1>6
  <2>2. h > 0 /\ cur'[h] = a
    BY <1>1, <1>6, <2>1
  <2>3. Upto(h)' = ready'[i % 2]
    BY <1>4, <2>2 DEF Upto
  <2> QED BY <2>3
<1>13. /\ Len(side) <= Len(side') /\ \A n \in 1 .. Len(side) : side'[n] = side[n]
  BY <1>7 DEF Extends
\* The events are as told.
<1>14. ASSUME NEW j, ToldBy(w, j) PROVE Told(j)'
  <2>1. PICK m \in 0 .. Len(side') :
          /\ IF m = 0 THEN holds[SlotOf(j)] = j
                      ELSE /\ CopyAt(side', m, SlotOf(j)) /\ side'[m].layer = j
                           /\ Ran("side", side) + m <= ready'[j % 2]
          /\ \A q \in m + 1 .. Len(side') : ~CopyAt(side', q, SlotOf(j))
    BY <1>14 DEF ToldBy
  <2>2. Filled(SlotOf(j), j, m, ready[j % 2])'
    BY <1>9, <2>1 DEF Filled, CopyAt, SlotOf
  <2> QED BY <2>1, <2>2 DEF Told, CopyAt, SlotOf
<1>15. NextFilled'
  <2>1. \A j \in issued' : j <= i + 1
    BY DEF Entered
  <2>2. i + 1 < N => i + 1 \in issued' /\ ToldBy(w, i + 1)
    BY DEF Entered
  <2>3. i + 1 < N => Told(i + 1)'
    BY <1>14, <2>2
  <2> QED BY <2>1, <2>2, <2>3 DEF NextFilled
<1>16. CurrentFilled'
  <2>1. Told(i)'
    BY <1>14 DEF Entered
  <2>2. PICK m \in 0 .. Len(side') :
          /\ Filled(SlotOf(i), i, m, ready[i % 2])'
          /\ \A q \in m + 1 .. Len(side') : ~CopyAt(side, q, SlotOf(i))'
    BY <2>1 DEF Told
  <2>3. PICK h \in 0 .. Len(cur') : Upto(h)' = ready'[i % 2]
    BY <1>12
  <2>4. Filled(SlotOf(i), i, m, Upto(h))'
    BY <2>2, <2>3
  <2>5. Awaited(i)'
    BY <2>2, <2>4 DEF Awaited
  <2> QED BY <2>5 DEF CurrentFilled
\* Every queued read comes before the done event of its slot.
<1>17. \A n \in 1 .. Len(cur) : cur[n].op = "read" =>
         cur[n].layer \in Layers /\ cur[n].from = SlotOf(cur[n].layer)
         /\ Ran("cur", cur) + n <= done'[cur[n].layer % 2]
  <2> SUFFICES ASSUME NEW n \in 1 .. Len(cur), cur[n].op = "read"
               PROVE  cur[n].layer \in Layers /\ cur[n].from = SlotOf(cur[n].layer)
                      /\ Ran("cur", cur) + n <= done'[cur[n].layer % 2]
    OBVIOUS
  <2>1. cur[n].layer \in Layers /\ cur[n].from = SlotOf(cur[n].layer)
    <3>1. cur[n] \in Op
      BY <1>1
    <3> QED BY <3>1, OpTypes DEF SlotOps
  <2>2. PICK k \in Slots : k = cur[n].layer % 2
    BY <2>1, PlaceFacts
  <2>3. Ran("cur", cur) + n <= done[k] \/ (pfCur # None /\ k = pfCur % 2)
    BY <2>2 DEF DoneAfterReads
  <2>4. done'[k] = IF pfCur # None /\ k = pfCur % 2 THEN given.cur ELSE done[k]
    BY DEF Entered
  <2>5. Ran("cur", cur) + n <= given.cur
    BY <1>1
  <2> QED BY <2>1, <2>2, <2>3, <2>4, <2>5
<1>18. DoneAfterReads'
  <2> SUFFICES ASSUME NEW n \in 1 .. Len(cur'), cur'[n].op = "read"
               PROVE  Ran("cur", cur)' + n <= done'[cur'[n].layer % 2]
    BY DEF DoneAfterReads
  <2>1. n \in 1 .. Len(cur) /\ cur'[n] = cur[n]
    BY <1>1, <1>4, <1>6
  <2> QED BY <1>9, <1>17, <2>1
<1>19. SlotOps'
  <2>1. \A n \in 1 .. Len(cur') :
          /\ cur'[n].op \in {"wait", "read"}
          /\ cur'[n].op = "read" => cur'[n].from = SlotOf(cur'[n].layer)
    <3> TAKE n \in 1 .. Len(cur')
    <3>1. CASE n \in 1 .. Len(cur)
      BY <1>6, <3>1 DEF SlotOps
    <3>2. CASE n = Len(cur) + 1
      BY <1>4, <1>6, <3>2
    <3> QED BY <1>1, <1>6, <3>1, <3>2
  <2>2. \A n \in 1 .. Len(side') :
          /\ side'[n].op \in {"wait", "copy"}
          /\ side'[n].op = "copy" => side'[n].to = SlotOf(side'[n].layer)
    <3> TAKE n \in 1 .. Len(side')
    <3>1. CASE n \in 1 .. Len(side)
      BY <1>13, <3>1 DEF SlotOps
    <3>2. CASE n \in Len(side) + 1 .. Len(side')
      BY <1>7, <3>2
    <3> QED BY <1>1, <1>3, <1>13, <3>1, <3>2
  <2> QED BY <2>1, <2>2 DEF SlotOps
<1>20. ASSUME NEW n \in 1 .. Len(cur), cur[n].op = "read",
              NEW x, NEW j, x = cur[n].from, j = cur[n].layer
       PROVE  Guarded(x, j, n)'
  <2>1. Guarded(x, j, n)
    BY <1>20 DEF ReadsGuarded
  <2>2. PICK m \in 0 .. Len(side), h \in 0 .. n - 1 :
          /\ Filled(x, j, m, Upto(h))
          /\ \A q \in m + 1 .. Len(side) :
               CopyAt(side, q, x) =>
                 q > 1 /\ side[q - 1].op = "wait" /\ side[q - 1].upto >= Ran("cur", cur) + n
    BY <2>1 DEF Guarded
  <2>3. PICK u : u = Upto(h) /\ Upto(h)' = u
    BY <1>1, <1>11
  <2>4. Filled(x, j, m, u)'
    BY <1>11, <2>2, <2>3
  <2>5. Filled(x, j, m, Upto(h))'
    BY <2>3, <2>4
  <2>6. \A q \in m + 1 .. Len(side') :
          CopyAt(side', q, x) =>
            q > 1 /\ side'[q - 1].op = "wait" /\ side'[q - 1].upto >= Ran("cur", cur)' + n
    <3> TAKE q \in m + 1 .. Len(side')
    <3> HAVE CopyAt(side', q, x)
    <3>1. CASE q \in m + 1 .. Len(side)
      <4>1. q \in 1 .. Len(side) /\ side'[q] = side[q]
        BY <1>1, <1>13, <3>1
      <4>2. q > 1 /\ side[q - 1].op = "wait" /\ side[q - 1].upto >= Ran("cur", cur) + n
        BY <2>2, <3>1, <4>1 DEF CopyAt
      <4>3. q - 1 \in 1 .. Len(side) /\ side'[q - 1] = side[q - 1]
        BY <1>1, <1>13, <4>1, <4>2
      <4> QED BY <1>9, <4>2, <4>3
    <3>2. CASE q \in Len(side) + 1 .. Len(side')
      <4>1. /\ side'[q].layer \in Layers /\ side'[q].to = SlotOf(side'[q].layer)
            /\ q - 1 \in 1 .. Len(side') /\ side'[q - 1].op = "wait"
            /\ side'[q - 1].upto = done'[side'[q].layer % 2]
        BY <1>7, <3>2 DEF CopyAt
      <4>2. j \in Layers /\ x = SlotOf(j) /\ Ran("cur", cur) + n <= done'[j % 2]
        BY <1>17, <1>20
      <4>3. SlotOf(side'[q].layer) = SlotOf(j)
        BY <4>1, <4>2 DEF CopyAt
      <4>4. side'[q].layer % 2 = j % 2
        BY <4>1, <4>2, <4>3, PlaceFacts
      <4>5. q > 1
        BY <1>3, <4>1
      <4>6. done'[j % 2] \in Nat
        BY <1>3, <4>2, PlaceFacts
      <4> QED BY <1>1, <1>9, <4>1, <4>2, <4>4, <4>5, <4>6
    <3> QED BY <1>1, <1>3, <1>13, <3>1, <3>2
  <2>7. m \in 0 .. Len(side')
    BY <1>1, <1>3, <1>13
  <2> QED BY <2>5, <2>6, <2>7 DEF Guarded, CopyAt
<1>21. ReadsGuarded'
  <2> SUFFICES ASSUME NEW n \in 1 .. Len(cur'), cur'[n].op = "read"
               PROVE  Guarded(cur[n].from, cur[n].layer, n)'
    BY DEF ReadsGuarded
  <2>1. n \in 1 .. Len(cur) /\ cur'[n] = cur[n]
    BY <1>1, <1>4, <1>6
  <2>2. PICK x, j : x = cur[n].from /\ j = cur[n].layer
    OBVIOUS
  <2>3. Guarded(x, j, n)'
    BY <1>20, <2>1, <2>2
  <2> QED BY <2>1, <2>2, <2>3
<1> QED BY <1>10, <1>15, <1>16, <1>18, <1>19, <1>21 DEF Window

\* The hooks of a layer keep the invariant.
LEMMA EnterStep == IInv /\ Enter => IInv'
<1> SUFFICES ASSUME IInv, Enter PROVE IInv'
  OBVIOUS
<1> USE DEF IInv
<1>1. /\ forward # Idle /\ layer < N /\ ~entered /\ entered' = TRUE
      /\ UNCHANGED <<phase, alive, forward, layer, forwards, mapped, holds>>
  BY DEF Enter, memVars
<1>2. layer \in Layers /\ alive /\ entered' \in BOOLEAN
  BY <1>1, NAssumption DEF TypeOK, Layers, Mapping
<1>3. CASE ~(phase = "prefill" /\ pfCur # layer)
  <2>1. /\ UNCHANGED <<lendVars, streamVars>>
        /\ UNCHANGED <<pfCur, issued, ready, done, point, copying>>
    BY <1>3 DEF Enter, lendVars, streamVars
  <2>2. Queues' /\ CopyingHeads' /\ OthersAtHome' /\ CurrentAway' /\ Home' /\ Window'
    BY <1>1, <2>1, SameStreams
  <2>3. TypeOK'
    BY <1>1, <1>2, <2>1 DEF TypeOK
  <2>4. Mapping' /\ HostAt'
    BY <1>1, <1>2, <1>3, <2>1 DEF Mapping, HostAt, None
  <2> QED BY <2>2, <2>3, <2>4, Assembled DEF Outer
<1>4. CASE phase = "prefill" /\ pfCur # layer
  <2>1. EnterLayer(layer)
    BY <1>4 DEF Enter
  <2>2. PICK i \in Layers : i = layer
    BY <1>2
  <2>3. EnterLayer(i)
    BY <2>1, <2>2
  <2>4. pfCur # i /\ (i > 0 => pfCur = i - 1) /\ (i = 0 => pfCur \in {None, N - 1})
    BY <1>1, <1>4, <2>2 DEF HostAt
  <2>5. PICK w \in Work :
          /\ Entered(i, w)
          /\ cur' = w.cur /\ side' = w.side /\ given' = w.given
          /\ ready' = w.ready /\ done' = w.done /\ issued' = w.issued
    BY <1>4, <2>3, <2>4, EnterLayerWork
  <2>6. pfCur' = i /\ point' = [Left EXCEPT ![i] = SlotOf(i)] /\ copying' = copying
    BY <2>3 DEF EnterLayer
  <2>7. Queues' /\ Window'
    BY <1>1, <1>4, <2>5, <2>6, EnteredWindow
  <2>8. Left \in [Layers -> Places] /\ \A j \in Layers : Left[j] = Span(j)
    BY LeftHome
  <2>9. /\ point' \in [Layers -> Places] /\ point'[i] = SlotOf(i)
        /\ \A j \in Layers : j # i => point'[j] = Span(j)
    BY <2>6, <2>8, PlaceFacts
  <2>10. OthersAtHome' /\ CurrentAway'
    BY <1>1, <1>4, <2>6, <2>9 DEF OthersAtHome, CurrentAway
  <2>11. TypeOK'
    <3>1. /\ ready' \in [Slots -> Nat] /\ done' \in [Slots -> Nat] /\ issued' \subseteq Layers
      BY <2>5 DEF Work
    <3>2. pfCur' \in 0 .. N
      BY <2>6, NAssumption DEF Layers
    <3> QED BY <1>1, <1>2, <2>6, <2>9, <3>1, <3>2 DEF TypeOK
  <2>12. Mapping'
    BY <1>1, <1>2 DEF Mapping
  <2>13. HostAt'
    BY <1>1, <1>4, <2>2, <2>6 DEF HostAt, None
  <2>14. CopyingHeads'
    <3>1. "cur" \notin copying
      <4>1. cur # <<>> => 1 \in 1 .. Len(cur)
        BY DEF Queues
      <4> QED BY <1>4, <4>1 DEF CopyingHeads, SlotOps
    <3>2. side # <<>> => side' # <<>> /\ side'[1] = side[1]
      <4>1. Extends(side, side')
        BY <2>5 DEF Entered, Ahead
      <4> QED BY <4>1 DEF Extends, Queues
    <3> QED BY <2>6, <3>1, <3>2 DEF CopyingHeads
  <2> QED BY <1>1, <1>4, <2>7, <2>10, <2>11, <2>12, <2>13, <2>14, OtherPart, Assembled
          DEF Outer
<1> QED BY <1>3, <1>4

-----------------------------------------------------------------------------
(* The invariant and what follows from it *)

\* Every step keeps the invariant.
LEMMA InvStep == IInv /\ [Next]_vars => IInv'
<1> SUFFICES ASSUME IInv, [Next]_vars PROVE IInv'
  OBVIOUS
<1>1. CASE AfterLoad
  BY <1>1, AfterLoadStep
<1>2. CASE \E b \in Batches : StartAsIs(b) \/ StartPrefill(b) \/ EndWindow(b) \/ EndWindowNoRoom(b)
  BY <1>2, StartAsIsStep, StartPrefillStep, EndWindowStep, EndWindowNoRoomStep
<1>3. CASE Enter
  BY <1>3, EnterStep
<1>4. CASE Launch
  BY <1>4, LaunchStep
<1>5. CASE ForwardReturns
  BY <1>5, ForwardReturnsStep
<1>6. CASE CurStep
  BY <1>6, CurStepStep
<1>7. CASE SideWait
  BY <1>7, SideWaitStep
<1>8. CASE CopyBegins("cur", cur)
  BY <1>8, CopyBeginsStep
<1>9. CASE CopyBegins("side", side)
  BY <1>9, CopyBeginsStep
<1>10. CASE CopyEnds("cur", cur)
  BY <1>10, CopyEndsHome
<1>11. CASE CopyEnds("side", side)
  BY <1>11, CopyEndsWindow
<1>12. CASE UNCHANGED vars
  <2>1. /\ UNCHANGED <<lendVars, holds, streamVars>>
        /\ UNCHANGED <<phase, alive, forward, layer, entered, forwards, pfCur, issued, ready, done>>
        /\ UNCHANGED <<point, mapped, holds, copying>>
    BY <1>12 DEF vars, hostVars, lendVars, memVars, streamVars
  <2>2. Queues' /\ CopyingHeads' /\ OthersAtHome' /\ CurrentAway' /\ Home' /\ Window'
    BY <2>1, SameStreams
  <2>3. Drained' = Drained
    BY <2>1 DEF Drained, streamVars
  <2>4. TypeOK' /\ Mapping' /\ HostAt'
    BY <2>1, <2>3 DEF IInv, TypeOK, Mapping, HostAt, None
  <2> QED BY <2>2, <2>4, Assembled DEF Outer
<1> QED BY <1>1, <1>2, <1>3, <1>4, <1>5, <1>6, <1>7, <1>8, <1>9, <1>10, <1>11, <1>12
        DEF Next, Device

\* The streams, the two places and the host's bookkeeping stay in step.
THEOREM Invariance == Spec => []IInv
BY InvInit, InvStep, PTL DEF Spec

\* The host only ever lends, copies and waits for layers it has.
THEOREM TypeCorrect == Spec => []TypeOK
<1>1. IInv => TypeOK
  BY DEF IInv
<1> QED BY <1>1, Invariance, PTL

\* Only the layer being run points away from its own memory, and none does once
\* the window has ended.
THEOREM LayersHome == Spec => []OthersAtHome
<1>1. IInv => OthersAtHome
  BY DEF IInv
<1> QED BY <1>1, Invariance, PTL

\* No copy, queued or under way, goes to memory that the phase swap has unmapped.
THEOREM CopiesSafe == Spec => []CopiesToMapped
<1>1. IInv => CopiesToMapped
  <2> SUFFICES ASSUME IInv, NEW q \in {cur, side}, NEW n \in DOMAIN q, q[n].op = "copy"
               PROVE  q[n].to \in mapped
    BY DEF CopiesToMapped
  <2> USE DEF IInv
  <2>1. q \in Seq(Op) /\ n \in 1 .. Len(q) /\ q[n] \in Op
    BY DEF Queues
  <2>2. q[n].layer \in Layers
    BY <2>1, OpTypes
  <2>3. PICK i \in Layers : i = q[n].layer
    BY <2>2
  <2>4. CASE phase = "prefill"
    <3>1. alive
      BY <2>1 DEF Mapping, Drained
    <3>2. q[n].to = SlotOf(i)
      BY <2>1, <2>3, <2>4 DEF SlotOps
    <3> QED BY <2>4, <3>1, <3>2, PlaceFacts DEF Mapping
  <2>5. CASE phase # "prefill"
    <3>1. q[n].to = Span(i)
      BY <2>1, <2>3, <2>5 DEF HomeOps
    <3>2. mapped \in {Places, Spans}
      BY <2>5 DEF Mapping, TypeOK
    <3> QED BY <3>1, <3>2, PlaceFacts
  <2> QED BY <2>4, <2>5
<1> QED BY <1>1, Invariance, PTL

\* A layer's kernels read that layer's weights, whole and mapped: not another
\* layer's, not half a copy, not memory that was lent away.
THEOREM WeightsRead == Spec => []ReadsItsWeights
<1>1. IInv => ReadsItsWeights
  <2> SUFFICES ASSUME IInv, cur # <<>>, cur[1].op = "read"
               PROVE  cur[1].from \in mapped /\ holds[cur[1].from] = cur[1].layer
    BY TailFacts DEF ReadsItsWeights, IInv, Queues
  <2> USE DEF IInv
  <2>1. Len(cur) \in Nat /\ Len(cur) >= 1 /\ 1 \in 1 .. Len(cur) /\ cur[1] \in Op
    BY TailFacts DEF Queues
  <2>2. cur[1].layer \in Layers
    BY <2>1, OpTypes
  <2>3. PICK i \in Layers, x \in {cur[1].from} : i = cur[1].layer /\ x = cur[1].from
    BY <2>2
  <2>4. CASE phase = "prefill"
    <3>1. alive
      BY DEF Mapping, Drained
    <3>2. x = SlotOf(i)
      BY <2>1, <2>3, <2>4 DEF SlotOps
    <3>3. x \in mapped
      BY <2>4, <3>1, <3>2, PlaceFacts DEF Mapping
    <3>4. Guarded(x, i, 1)
      BY <2>1, <2>3, <2>4 DEF ReadsGuarded
    <3>5. PICK m \in 0 .. Len(side) : Filled(x, i, m, Upto(0))
      BY <3>4 DEF Guarded
    <3>6. Upto(0) = 0 /\ m \in Nat /\ Ran("side", side) \in Nat
      BY RanNat DEF Upto
    <3>7. holds[x] = i
      BY <3>5, <3>6, FilledAlready
    <3> QED BY <2>3, <3>3, <3>7
  <2>5. CASE phase # "prefill"
    <3>1. x = Span(i)
      BY <2>1, <2>3, <2>5 DEF HomeOps
    <3>2. mapped \in {Places, Spans}
      BY <2>5 DEF Mapping, TypeOK
    <3>3. PICK m \in 0 .. Len(cur) :
            /\ IF m = 0 THEN holds[Span(i)] = i ELSE CopyAt(cur, m, Span(i))
            /\ \A n \in 1 .. Len(cur) :
                 /\ CopyAt(cur, n, Span(i)) => n = m
                 /\ cur[n].op = "read" /\ cur[n].layer = i => n > m
      BY <2>5 DEF HomeFilled
    <3>4. m = 0
      BY <2>1, <2>3, <3>3
    <3> QED BY <2>3, <3>1, <3>2, <3>3, <3>4, PlaceFacts
  <2> QED BY <2>4, <2>5
<1> QED BY <1>1, Invariance, PTL

-----------------------------------------------------------------------------
(* Fetching ahead: what the copies of side wait for. An event after a read   *)
(* still to run is written e.                                               *)

\* No wait of side is for work that cur has not been given.
Wide ==
  /\ \A k \in Slots : done[k] <= given.cur
  /\ \A q \in 1 .. Len(side) : side[q].op = "wait" => side[q].upto <= given.cur

\* Layer j's slot has its weights, or a copy brings them that waits for nothing
\* as late as e, and the slot's later copies wait for e.
Fetched(j, e) ==
  \E m \in 0 .. Len(side) :
    /\ IF m = 0 THEN holds[SlotOf(j)] = j
                ELSE CopyAt(side, m, SlotOf(j)) /\ side[m].layer = j /\ ~Behind(side, m, e)
    /\ \A q \in m + 1 .. Len(side) : CopyAt(side, q, SlotOf(j)) => Behind(side, q, e)

\* Some copy waits for e already.
Covered(e) == \E c \in 1 .. Len(side) : side[c].op = "copy" /\ Behind(side, c, e)

\* A read of layer i's weights in x, run by the event e: only the layer entered
\* last may have no copy waiting for it, unless it is the last layer, which asks
\* for none.
ReadAhead(i, x, e) ==
  /\ i + 1 < N => Fetched(i + 1, e)
  /\ i # pfCur /\ pfCur # N - 1 => Covered(e)
  /\ HoldsUpOnly(x, e)

\* What every read still to run finds of it.
FetchInv ==
  /\ Wide
  /\ phase = "prefill" =>
       \A n \in 1 .. Len(cur) :
         cur[n].op = "read" => ReadAhead(cur[n].layer, cur[n].from, Ran("cur", cur) + n)

\* What waits for an event waits for the earlier ones.
LEMMA BehindEarlier ==
  ASSUME NEW s \in Seq(Op), NEW q \in 1 .. Len(s), NEW e \in Nat, NEW d \in Nat, d <= e,
         Behind(s, q, e)
  PROVE  Behind(s, q, d)
<1>1. PICK p \in 1 .. q - 1 : s[p].op = "wait" /\ s[p].upto >= e
  BY DEF Behind
<1>2. s[p] \in Op
  OBVIOUS
<1>3. s[p].upto \in Nat
  BY <1>1, <1>2, OpTypes
<1> QED BY <1>1, <1>3 DEF Behind

\* Nothing is before the head, and what is behind an event stays so when the queue
\* grows.
LEMMA BehindHead == \A s, e : ~Behind(s, 1, e)
BY DEF Behind

LEMMA BehindGrown ==
  ASSUME NEW s \in Seq(Op), NEW t \in Seq(Op), Extends(s, t), NEW q \in 1 .. Len(s), NEW e
  PROVE  Behind(t, q, e) <=> Behind(s, q, e)
<1>1. \A p \in 1 .. q - 1 : t[p] = s[p]
  BY DEF Extends
<1> QED BY <1>1 DEF Behind

\* Running the head, when it is no wait for e, puts nothing before or behind it.
LEMMA BehindTail ==
  ASSUME NEW s \in Seq(Op), s # <<>>, NEW e \in Nat, s[1].op = "wait" => s[1].upto < e,
         NEW q \in 1 .. Len(s) - 1
  PROVE  Behind(Tail(s), q, e) <=> Behind(s, q + 1, e)
<1>1. /\ Len(s) \in Nat /\ s[1] \in Op /\ \A n \in 1 .. Len(s) - 1 : Tail(s)[n] = s[n + 1]
  BY TailFacts
<1>2. ASSUME Behind(Tail(s), q, e) PROVE Behind(s, q + 1, e)
  <2>1. PICK p \in 1 .. q - 1 : Tail(s)[p].op = "wait" /\ Tail(s)[p].upto >= e
    BY <1>2 DEF Behind
  <2>2. p + 1 \in 1 .. (q + 1) - 1 /\ Tail(s)[p] = s[p + 1]
    BY <1>1
  <2> QED BY <2>1, <2>2 DEF Behind
<1>3. ASSUME Behind(s, q + 1, e) PROVE Behind(Tail(s), q, e)
  <2>1. PICK p \in 1 .. (q + 1) - 1 : s[p].op = "wait" /\ s[p].upto >= e
    BY <1>3 DEF Behind
  <2>2. p # 1
    <3>1. s[1].op = "wait" => s[1].upto \in Nat
      BY <1>1, OpTypes
    <3> QED BY <2>1, <3>1
  <2>3. p - 1 \in 1 .. q - 1 /\ p - 1 \in 1 .. Len(s) - 1 /\ (p - 1) + 1 = p
    BY <1>1, <2>2
  <2>4. Tail(s)[p - 1] = s[p]
    BY <1>1, <2>3
  <2> QED BY <2>1, <2>3, <2>4 DEF Behind
<1> QED BY <1>2, <1>3

\* The reads of a window's stream, with what they have.
LEMMA ReadFacts ==
  ASSUME IInv, phase = "prefill", NEW n \in 1 .. Len(cur), cur[n].op = "read"
  PROVE  /\ cur[n].layer \in Layers /\ cur[n].from = SlotOf(cur[n].layer)
         /\ n \in Nat /\ Ran("cur", cur) \in Nat /\ Ran("cur", cur) + n \in Nat
         /\ Ran("cur", cur) < Ran("cur", cur) + n /\ Ran("cur", cur) + n <= given.cur
<1> USE DEF IInv
<1>1. cur[n] \in Op /\ Len(cur) \in Nat
  BY DEF Queues
<1>2. given.cur \in Nat
  BY DEF Queues
<1> QED BY <1>1, <1>2, OpTypes, RanNat DEF SlotOps

-----------------------------------------------------------------------------
(* Steps of the device *)

\* Side runs its head: a copy that ends leaves its layer in the slot.
LEMMA PoppedAhead ==
  ASSUME IInv, side # <<>>, side' = Tail(side), pfCur' = pfCur,
         holds' = IF side[1].op = "copy"
                  THEN [holds EXCEPT ![side[1].to] = side[1].layer] ELSE holds,
         NEW i \in Layers, NEW x, NEW e \in Nat, side[1].op = "wait" => side[1].upto < e,
         ReadAhead(i, x, e)
  PROVE  ReadAhead(i, x, e)'
<1> USE DEF IInv
<1>1. /\ side \in Seq(Op) /\ Len(side) \in Nat /\ Len(side) >= 1 /\ side[1] \in Op
      /\ Len(side') = Len(side) - 1
      /\ \A n \in 1 .. Len(side') : side'[n] = side[n + 1]
  BY TailFacts DEF Queues
<1>2. \A q \in 1 .. Len(side') : Behind(side', q, e) <=> Behind(side, q + 1, e)
  BY <1>1, BehindTail
<1>3. ASSUME NEW j \in Layers, Fetched(j, e) PROVE Fetched(j, e)'
  <2>1. PICK m \in 0 .. Len(side) :
          /\ IF m = 0 THEN holds[SlotOf(j)] = j
                      ELSE CopyAt(side, m, SlotOf(j)) /\ side[m].layer = j /\ ~Behind(side, m, e)
          /\ \A q \in m + 1 .. Len(side) : CopyAt(side, q, SlotOf(j)) => Behind(side, q, e)
    BY <1>3 DEF Fetched
  <2>2. PICK y : y = SlotOf(j) /\ y \in Places
    BY PlaceFacts
  <2>3. PICK g \in 0 .. Len(side') : g = IF m = 0 THEN 0 ELSE m - 1
    BY <1>1
  <2>4. \A q \in g + 1 .. Len(side') : CopyAt(side', q, y) => Behind(side', q, e)
    <3> SUFFICES ASSUME NEW q \in g + 1 .. Len(side'), CopyAt(side', q, y)
                 PROVE  Behind(side', q, e)
      OBVIOUS
    <3>1. q \in 1 .. Len(side') /\ q + 1 \in m + 1 .. Len(side) /\ side'[q] = side[q + 1]
      BY <1>1, <2>3
    <3>2. Behind(side, q + 1, e)
      BY <2>1, <2>2, <3>1 DEF CopyAt
    <3> QED BY <1>2, <3>1, <3>2
  <2>5. IF g = 0 THEN holds'[y] = j
                 ELSE CopyAt(side', g, y) /\ side'[g].layer = j /\ ~Behind(side', g, e)
    <3>1. CASE m = 0
      <4>1. ~CopyAt(side, 1, y)
        BY <1>1, <2>1, <2>2, <3>1, BehindHead
      <4> QED BY <2>1, <2>2, <2>3, <3>1, <4>1 DEF CopyAt, TypeOK
    <3>2. CASE m = 1
      BY <2>1, <2>2, <2>3, <3>2 DEF CopyAt, TypeOK
    <3>3. CASE m > 1
      <4>1. g = m - 1 /\ g # 0 /\ g \in 1 .. Len(side') /\ g + 1 = m /\ side'[g] = side[m]
        BY <1>1, <2>3, <3>3
      <4> QED BY <1>2, <2>1, <2>2, <3>3, <4>1 DEF CopyAt
    <3> QED BY <1>1, <3>1, <3>2, <3>3
  <2> QED BY <2>2, <2>4, <2>5 DEF Fetched, SlotOf, CopyAt
<1>4. ASSUME NEW q \in 1 .. Len(side), side[q].op = "copy", Behind(side, q, e)
      PROVE  q - 1 \in 1 .. Len(side') /\ side'[q - 1] = side[q] /\ Behind(side', q - 1, e)
  <2>1. q # 1
    BY <1>4, BehindHead
  <2>2. q - 1 \in 1 .. Len(side') /\ (q - 1) + 1 = q
    BY <1>1, <2>1
  <2> QED BY <1>1, <1>2, <1>4, <2>2
<1>5. ASSUME Covered(e) PROVE Covered(e)'
  <2>1. PICK c \in 1 .. Len(side) : side[c].op = "copy" /\ Behind(side, c, e)
    BY <1>5 DEF Covered
  <2>2. PICK d \in 1 .. Len(side') : side'[d] = side[c] /\ Behind(side', d, e)
    BY <1>4, <2>1
  <2> QED BY <2>1, <2>2 DEF Covered
<1>6. HoldsUpOnly(x, e)'
  <2>1. \A q \in 1 .. Len(side) :
          side[q].op = "copy" /\ Behind(side, q, e) =>
            \/ side[q].to = x \/ side[q].layer = 0
            \/ \E c \in 1 .. q - 1 : side[c].op = "copy" /\ Behind(side, c, e)
    BY <1>1 DEF ReadAhead, HoldsUpOnly
  <2>2. ASSUME NEW q \in 1 .. Len(side'), side'[q].op = "copy", Behind(side', q, e)
        PROVE  \/ side'[q].to = x \/ side'[q].layer = 0
               \/ \E c \in 1 .. q - 1 : side'[c].op = "copy" /\ Behind(side', c, e)
    <3>1. q + 1 \in 1 .. Len(side) /\ side'[q] = side[q + 1] /\ Behind(side, q + 1, e)
      BY <1>1, <1>2, <2>2
    <3>2. ASSUME NEW c \in 1 .. (q + 1) - 1, side[c].op = "copy", Behind(side, c, e)
          PROVE  \E d \in 1 .. q - 1 : side'[d].op = "copy" /\ Behind(side', d, e)
      <4>1. c \in 1 .. Len(side)
        BY <1>1, <3>1
      <4>2. c - 1 \in 1 .. Len(side') /\ side'[c - 1] = side[c] /\ Behind(side', c - 1, e)
        BY <1>4, <3>2, <4>1
      <4>3. c - 1 \in 1 .. q - 1
        BY <4>2
      <4> QED BY <3>2, <4>2, <4>3
    <3> QED BY <2>1, <2>2, <3>1, <3>2
  <2>3. DOMAIN side' = 1 .. Len(side')
    BY <1>1
  <2> QED BY <2>2, <2>3 DEF HoldsUpOnly
<1>7. i + 1 < N => i + 1 \in Layers
  BY PlaceFacts, NAssumption DEF Layers
<1> QED BY <1>3, <1>5, <1>6, <1>7 DEF ReadAhead, None

\* A copy that begins takes the slot's old weights, which no layer to come needs.
LEMMA BegunAhead ==
  ASSUME IInv, side # <<>>, side[1].op = "copy", side' = side, pfCur' = pfCur,
         holds' = [holds EXCEPT ![side[1].to] = Junk],
         NEW i \in Layers, NEW x, NEW e \in Nat, ReadAhead(i, x, e)
  PROVE  ReadAhead(i, x, e)'
<1>1. side \in Seq(Op) /\ Len(side) \in Nat /\ Len(side) >= 1
  BY TailFacts DEF IInv, Queues
<1>2. ASSUME NEW j \in Layers, Fetched(j, e) PROVE Fetched(j, e)'
  <2>1. PICK m \in 0 .. Len(side) :
          /\ IF m = 0 THEN holds[SlotOf(j)] = j
                      ELSE CopyAt(side, m, SlotOf(j)) /\ side[m].layer = j /\ ~Behind(side, m, e)
          /\ \A q \in m + 1 .. Len(side) : CopyAt(side, q, SlotOf(j)) => Behind(side, q, e)
    BY <1>2 DEF Fetched
  <2>2. PICK y : y = SlotOf(j) /\ y \in Places
    BY PlaceFacts
  <2>3. m = 0 => holds'[y] = holds[y]
    <3>1. m = 0 => ~CopyAt(side, 1, y)
      BY <1>1, <2>1, <2>2, BehindHead
    <3> QED BY <2>2, <3>1 DEF CopyAt, IInv, TypeOK
  <2> QED BY <2>1, <2>2, <2>3 DEF Fetched, SlotOf, CopyAt, Behind
<1>3. i + 1 < N => i + 1 \in Layers
  BY PlaceFacts, NAssumption DEF Layers
<1>4. Covered(e)' = Covered(e) /\ HoldsUpOnly(x, e)' = HoldsUpOnly(x, e)
  BY DEF Covered, HoldsUpOnly, Behind
<1> QED BY <1>2, <1>3, <1>4 DEF ReadAhead, None

\* A step of the device keeps the fetching ahead; cur's steps only take reads away.
LEMMA DeviceAhead ==
  ASSUME IInv, IInv', FetchInv, Device
  PROVE  FetchInv'
<1> DEFINE ran == Ran("cur", cur)
<1>1. /\ phase' = phase /\ pfCur' = pfCur /\ done' = done /\ given' = given
  BY DEF Device, CurStep, SideWait, CopyBegins, CopyEnds, hostVars, lendVars
<1>2. /\ cur \in Seq(Op) /\ side \in Seq(Op) /\ given.cur \in Nat /\ ran \in Nat
      /\ Len(cur) \in Nat /\ Len(side) \in Nat /\ ran = given.cur - Len(cur)
  BY RanNat DEF IInv, Queues
<1>3. side' = side \/ (side # <<>> /\ side' = Tail(side))
  BY DEF Device, CurStep, SideWait, CopyBegins, CopyEnds, IInv, CopyingHeads
<1>4. Wide'
  <2>1. CASE side' = side
    BY <1>1, <2>1 DEF FetchInv, Wide
  <2>2. CASE side # <<>> /\ side' = Tail(side)
    <3>1. Len(side') = Len(side) - 1 /\ \A n \in 1 .. Len(side) - 1 : side'[n] = side[n + 1]
      BY <1>2, <2>2, TailFacts
    <3> QED BY <1>1, <1>2, <3>1 DEF FetchInv, Wide
  <2> QED BY <1>3, <2>1, <2>2
<1>5. CASE phase # "prefill"
  BY <1>1, <1>4, <1>5 DEF FetchInv
<1>6. ASSUME phase = "prefill", NEW i \in Layers, NEW x, NEW e \in Nat, ran < e,
             ReadAhead(i, x, e)
      PROVE  ReadAhead(i, x, e)'
  <2>1. CASE CurStep
    <3>1. side' = side /\ holds' = holds
      BY <2>1 DEF CurStep, memVars
    <3> QED BY <1>1, <1>6, <3>1 DEF ReadAhead, Fetched, Covered, HoldsUpOnly, Behind, CopyAt,
                                    SlotOf, None
  <2>2. CASE SideWait
    <3>1. /\ side # <<>> /\ side' = Tail(side) /\ holds' = holds
          /\ side[1].op = "wait" /\ ran >= side[1].upto
      BY <1>2, <2>2, TailFacts DEF SideWait, memVars
    <3>2. side[1].upto \in Nat
      BY <1>2, <3>1, TailFacts, OpTypes
    <3>3. side[1].upto < e
      BY <1>2, <1>6, <3>1, <3>2
    <3> QED BY <1>1, <1>6, <3>1, <3>3, PoppedAhead
  <2>3. CASE CopyBegins("side", side)
    <3>1. /\ side # <<>> /\ side' = side /\ side[1].op = "copy"
          /\ holds' = [holds EXCEPT ![side[1].to] = Junk]
      BY <1>2, <2>3, TailFacts DEF CopyBegins
    <3> QED BY <1>1, <1>6, <3>1, BegunAhead
  <2>4. CASE CopyEnds("side", side)
    <3>1. side # <<>> /\ side[1].op = "copy"
      BY <2>4 DEF CopyEnds, IInv, CopyingHeads
    <3>2. side' = Tail(side) /\ holds' = [holds EXCEPT ![side[1].to] = side[1].layer]
      BY <1>2, <2>4, <3>1, TailFacts DEF CopyEnds
    <3> QED BY <1>1, <1>6, <3>1, <3>2, PoppedAhead
  <2>5. CASE CopyBegins("cur", cur) \/ CopyEnds("cur", cur)
    <3>1. cur # <<>> /\ cur[1].op = "copy"
      BY <1>2, <2>5, TailFacts DEF CopyBegins, CopyEnds, IInv, CopyingHeads
    <3>2. 1 \in 1 .. Len(cur)
      BY <1>2, <3>1
    <3> QED BY <1>6, <3>1, <3>2 DEF IInv, SlotOps
  <2> QED BY <2>1, <2>2, <2>3, <2>4, <2>5 DEF Device
<1>7. ASSUME phase = "prefill", NEW n \in 1 .. Len(cur'), cur'[n].op = "read"
      PROVE  ReadAhead(cur[n].layer, cur[n].from, Ran("cur", cur) + n)'
  <2>1. PICK k \in 1 .. Len(cur) : cur'[n] = cur[k] /\ Ran("cur", cur)' + n = ran + k
    <3>1. CASE cur' = cur
      BY <1>1, <1>7, <3>1 DEF Ran
    <3>2. CASE cur # <<>> /\ cur' = Tail(cur)
      <4>1. /\ Len(cur') = Len(cur) - 1 /\ \A m \in 1 .. Len(cur) - 1 : cur'[m] = cur[m + 1]
            /\ Len(cur) >= 1
        BY <1>2, <3>2, TailFacts
      <4>2. n + 1 \in 1 .. Len(cur) /\ cur'[n] = cur[n + 1]
        BY <1>2, <4>1
      <4>3. Ran("cur", cur)' = ran + 1
        BY <1>1, <1>2, <4>1 DEF Ran
      <4> QED BY <1>2, <4>2, <4>3
    <3>3. cur' = cur \/ (cur # <<>> /\ cur' = Tail(cur))
      BY DEF Device, CurStep, SideWait, CopyBegins, CopyEnds, IInv, CopyingHeads
    <3> QED BY <3>1, <3>2, <3>3
  <2>2. /\ cur[k].op = "read" /\ cur[k].layer \in Layers
        /\ ran + k \in Nat /\ ran < ran + k
    BY <1>7, <2>1, ReadFacts
  <2>3. PICK i, x, e : i = cur[k].layer /\ x = cur[k].from /\ e = ran + k
    OBVIOUS
  <2>4. ReadAhead(i, x, e)
    BY <1>7, <2>2, <2>3 DEF FetchInv
  <2>5. ReadAhead(i, x, e)'
    BY <1>6, <1>7, <2>2, <2>3, <2>4
  <2>6. cur'[n].layer = i /\ cur'[n].from = x /\ Ran("cur", cur)' + n = e
    BY <2>1, <2>3
  <2> QED BY <2>5, <2>6
<1>8. CASE phase = "prefill"
  BY <1>1, <1>4, <1>7, <1>8 DEF FetchInv
<1> QED BY <1>5, <1>8

-----------------------------------------------------------------------------
(* Steps of the host *)

\* Where the streams and the window stay as they are, so does what is fetched.
LEMMA SameAhead ==
  ASSUME FetchInv, UNCHANGED <<phase, pfCur, done, holds, cur, side, given>>
  PROVE  FetchInv'
<1>1. Wide'
  BY DEF FetchInv, Wide
<1>2. ASSUME NEW i, NEW x, NEW e, ReadAhead(i, x, e) PROVE ReadAhead(i, x, e)'
  BY <1>2 DEF ReadAhead, Fetched, Covered, HoldsUpOnly, Behind, CopyAt, SlotOf, None
<1>3. ASSUME phase = "prefill", NEW n \in 1 .. Len(cur), cur[n].op = "read"
      PROVE  ReadAhead(cur[n].layer, cur[n].from, Ran("cur", cur) + n)'
  <2>1. PICK i, x, e : i = cur[n].layer /\ x = cur[n].from /\ e = Ran("cur", cur) + n
    OBVIOUS
  <2>2. ReadAhead(i, x, e)
    BY <1>3, <2>1 DEF FetchInv
  <2>3. cur'[n].layer = i /\ cur'[n].from = x /\ Ran("cur", cur)' + n = e
    BY <2>1 DEF Ran
  <2>4. ReadAhead(i, x, e)'
    BY <1>2, <2>2
  <2> QED BY <2>3, <2>4
<1> QED BY <1>1, <1>3 DEF FetchInv

\* At the start and the end of a window no read is to be fetched for.
LEMMA SwapAhead ==
  ASSUME IInv, FetchInv, NEW b \in Batches,
         StartPrefill(b) \/ EndWindow(b) \/ EndWindowNoRoom(b)
  PROVE  FetchInv'
<1>1. /\ done' = done /\ side' = side /\ side = <<>> /\ cur = <<>>
      /\ given.cur \in Nat /\ given'.cur \in Nat /\ given.cur <= given'.cur
  BY NAssumption DEF IInv, Queues, StartPrefill, EndWindow, EndWindowNoRoom, Drained,
                     lendVars, streamVars
<1>2. Wide'
  <2>1. \A k \in Slots : done[k] <= given.cur /\ done[k] \in Nat
    BY DEF FetchInv, Wide, IInv, TypeOK
  <2> QED BY <1>1, <2>1 DEF Wide
<1>3. phase' = "prefill" => cur' = <<>>
  BY <1>1 DEF StartPrefill, EndWindow, EndWindowNoRoom, streamVars
<1> QED BY <1>2, <1>3 DEF FetchInv

\* A layer is queued after the copy of the next one was asked for, behind all that
\* the copies so far wait for.
LEMMA LaunchAhead ==
  ASSUME IInv, FetchInv, Launch
  PROVE  FetchInv'
<1>1. /\ UNCHANGED <<phase, pfCur, done, ready, holds, side>>
      /\ forward # Idle /\ layer < N /\ entered
      /\ given' = [given EXCEPT !.cur = @ + 1]
  BY DEF Launch, lendVars, memVars
<1>2. /\ cur \in Seq(Op) /\ side \in Seq(Op) /\ given \in [cur : Nat, side : Nat]
      /\ Len(cur) \in Nat /\ Len(side) \in Nat /\ given.cur \in Nat
      /\ Ran("cur", cur) \in Nat /\ Ran("cur", cur) = given.cur - Len(cur)
  BY RanNat DEF IInv, Queues
<1>3. PICK x : cur' = Append(cur, Read(layer, x)) /\ x \in Places
  <2>1. layer \in Layers
    BY <1>1, NAssumption DEF IInv, TypeOK, Layers
  <2> QED BY <2>1, PlaceFacts DEF Launch, IInv, TypeOK
<1>4. layer \in Layers
  BY <1>1, NAssumption DEF IInv, TypeOK, Layers
<1>5. /\ Len(cur') = Len(cur) + 1 /\ cur'[Len(cur) + 1] = Read(layer, x)
      /\ \A n \in 1 .. Len(cur) : cur'[n] = cur[n]
  BY <1>2, <1>3, <1>4, OpFields, AppendFacts
<1>6. given'.cur = given.cur + 1 /\ Ran("cur", cur)' = Ran("cur", cur)
  BY <1>1, <1>2, <1>5 DEF Ran
<1>7. Wide'
  <2>1. \A k \in Slots : done[k] \in Nat
    BY DEF IInv, TypeOK
  <2>2. \A q \in 1 .. Len(side) : side[q].op = "wait" => side[q].upto \in Nat
    BY <1>2, OpTypes
  <2> QED BY <1>1, <1>2, <1>6, <2>1, <2>2 DEF FetchInv, Wide
<1>8. CASE phase # "prefill"
  BY <1>1, <1>7, <1>8 DEF FetchInv
<1>9. ASSUME phase = "prefill", NEW n \in 1 .. Len(cur'), cur'[n].op = "read"
      PROVE  ReadAhead(cur[n].layer, cur[n].from, Ran("cur", cur) + n)'
  <2>1. CASE n \in 1 .. Len(cur)
    <3>1. PICK i, y, e : i = cur[n].layer /\ y = cur[n].from /\ e = Ran("cur", cur) + n
      OBVIOUS
    <3>2. ReadAhead(i, y, e)
      BY <1>5, <1>9, <2>1, <3>1 DEF FetchInv
    <3>3. ReadAhead(i, y, e)'
      BY <1>1, <3>2 DEF ReadAhead, Fetched, Covered, HoldsUpOnly, Behind, CopyAt, SlotOf, None
    <3>4. cur'[n].layer = i /\ cur'[n].from = y /\ Ran("cur", cur)' + n = e
      BY <1>5, <1>6, <2>1, <3>1
    <3> QED BY <3>3, <3>4
  <2>2. CASE n = Len(cur) + 1
    <3>1. PICK i \in Layers, e \in Nat : i = layer /\ e = given.cur + 1
      BY <1>2, <1>4
    <3>2. cur'[n].layer = i /\ cur'[n].from = x /\ Ran("cur", cur)' + n = e
      BY <1>2, <1>3, <1>5, <1>6, <2>2, <3>1, OpFields
    <3>3. \A q : ~Behind(side, q, e) \/ ~(q \in 1 .. Len(side))
      <4> SUFFICES ASSUME NEW q \in 1 .. Len(side), NEW p \in 1 .. q - 1,
                          side[p].op = "wait", side[p].upto >= e
                   PROVE  FALSE
        BY DEF Behind
      <4>1. p \in 1 .. Len(side) /\ side[p] \in Op
        BY <1>2
      <4>2. side[p].upto \in Nat /\ side[p].upto <= given.cur
        BY <4>1, OpTypes DEF FetchInv, Wide
      <4> QED BY <1>2, <3>1, <4>2
    <3>4. ~Covered(e) /\ HoldsUpOnly(x, e)
      <4>1. DOMAIN side = 1 .. Len(side)
        BY <1>2
      <4> QED BY <3>3, <4>1 DEF Covered, HoldsUpOnly
    <3>5. i = pfCur /\ pfCur # None
      BY <1>1, <1>9, <3>1, PlaceFacts, NAssumption DEF IInv, HostAt, None
    <3>6. i + 1 < N => Fetched(i + 1, e)
      <4>1. CASE i + 1 < N
        <5>1. PICK m \in 0 .. Len(side) :
                /\ Filled(SlotOf(i + 1), i + 1, m, ready[(i + 1) % 2])
                /\ \A q \in m + 1 .. Len(side) : ~CopyAt(side, q, SlotOf(i + 1))
          BY <1>9, <3>5, <4>1 DEF IInv, NextFilled, Told
        <5>2. m # 0 => m \in 1 .. Len(side)
          BY <1>2
        <5> QED BY <3>3, <5>1, <5>2 DEF Fetched, Filled
      <4> QED BY <4>1
    <3>7. ReadAhead(i, x, e)'
      BY <1>1, <3>4, <3>5, <3>6
         DEF ReadAhead, Fetched, Covered, HoldsUpOnly, Behind, CopyAt, SlotOf, None
    <3> QED BY <3>2, <3>7
  <2> QED BY <1>2, <1>5, <1>9, <2>1, <2>2
<1>10. CASE phase = "prefill"
  BY <1>1, <1>7, <1>9, <1>10 DEF FetchInv
<1> QED BY <1>8, <1>10

\* What _enter(i) gives side: waits for work that cur has, and copies that wait for
\* all of it, each the first layer's, the next layer's, or behind another such copy.
Asked(i, s) ==
  /\ s \in Seq(Op) /\ Extends(side, s)
  /\ \A n \in Len(side) + 1 .. Len(s) :
       /\ s[n].op = "wait" => s[n].upto <= given.cur
       /\ s[n].op = "copy" =>
            /\ Behind(s, n, given.cur)
            /\ \/ s[n].layer = 0
               \/ \E c \in 1 .. n - 1 : s[c].op = "copy" /\ Behind(s, c, given.cur)
               \/ i > 0 /\ s[n].layer = i + 1 /\ s[n].to = SlotOf(i + 1)

\* What _prefetch(j) leaves of a queue when the slot's last reader is event d.
With(s, d, j) == s \o <<Wait(d), Copy(j, SlotOf(j))>>

\* Asking for one more copy.
LEMMA AskedMore ==
  ASSUME Queues, NEW i \in Layers, NEW s, Asked(i, s), NEW d \in Nat, d <= given.cur,
         NEW j \in Layers, NEW t, t = With(s, d, j),
         d = given.cur \/ Behind(s, Len(s) + 1, given.cur),
         \/ j = 0
         \/ i > 0 /\ j = i + 1
         \/ \E c \in 1 .. Len(s) : s[c].op = "copy" /\ Behind(s, c, given.cur)
  PROVE  /\ Asked(i, t) /\ Len(t) \in Len(side) + 1 .. Len(t)
         /\ t[Len(t)].op = "copy" /\ Behind(t, Len(t), given.cur)
<1>1. /\ s \in Seq(Op) /\ Len(side) <= Len(s) /\ Len(side) \in Nat /\ Len(s) \in Nat
      /\ given.cur \in Nat
  BY DEF Asked, Extends, Queues
<1> PICK l \in Nat, k \in Nat : l = Len(s) /\ k = Len(side) /\ k <= l
  BY <1>1
<1>2. PICK a \in Op, b \in Op :
        /\ a = Wait(d) /\ b = Copy(j, SlotOf(j))
        /\ a.op = "wait" /\ a.upto = d
        /\ b.op = "copy" /\ b.layer = j /\ b.to = SlotOf(j)
  BY OpFields, PlaceFacts
<1>3. /\ t \in Seq(Op) /\ Len(t) = l + 2 /\ t[l + 1] = a /\ t[l + 2] = b
      /\ \A n \in 1 .. l : t[n] = s[n]
  BY <1>1, <1>2, AppendTwo DEF With
<1>4. Extends(s, t) /\ Extends(side, t)
  BY <1>1, <1>3 DEF Extends, Asked
<1>5. \A n \in 1 .. l : Behind(t, n, given.cur) <=> Behind(s, n, given.cur)
  BY <1>1, <1>3, <1>4, BehindGrown
<1>6. Behind(t, l + 2, given.cur)
  <2>1. CASE d = given.cur
    <3>1. l + 1 \in 1 .. (l + 2) - 1 /\ given.cur >= given.cur
      BY <1>1
    <3> QED BY <1>2, <1>3, <2>1, <3>1 DEF Behind
  <2>2. CASE Behind(s, l + 1, given.cur)
    <3>1. PICK p \in 1 .. (l + 1) - 1 : s[p].op = "wait" /\ s[p].upto >= given.cur
      BY <2>2 DEF Behind
    <3>2. p \in 1 .. l /\ p \in 1 .. (l + 2) - 1
      BY <1>1
    <3> QED BY <1>3, <3>1, <3>2 DEF Behind
  <2> QED BY <2>1, <2>2
<1>7. ASSUME NEW n \in Len(side) + 1 .. Len(t)
      PROVE  /\ t[n].op = "wait" => t[n].upto <= given.cur
             /\ t[n].op = "copy" =>
                  /\ Behind(t, n, given.cur)
                  /\ \/ t[n].layer = 0
                     \/ \E c \in 1 .. n - 1 : t[c].op = "copy" /\ Behind(t, c, given.cur)
                     \/ i > 0 /\ t[n].layer = i + 1 /\ t[n].to = SlotOf(i + 1)
  <2>1. CASE n \in 1 .. l
    <3>1. n \in Len(side) + 1 .. l /\ t[n] = s[n]
      BY <1>1, <1>3, <2>1
    <3>2. \A c \in 1 .. n - 1 : c \in 1 .. l
      BY <2>1
    <3>3. \A c \in 1 .. n - 1 :
            t[c] = s[c] /\ (Behind(t, c, given.cur) <=> Behind(s, c, given.cur))
      BY <1>3, <1>5, <3>2
    <3> QED BY <1>5, <2>1, <3>1, <3>3 DEF Asked
  <2>2. CASE n = l + 1
    BY <1>2, <1>3, <2>2
  <2>3. CASE n = l + 2
    <3>1. \A c \in 1 .. l : c \in 1 .. n - 1
      BY <2>3
    <3>2. ASSUME NEW c \in 1 .. l, s[c].op = "copy", Behind(s, c, given.cur)
          PROVE  \E h \in 1 .. n - 1 : t[h].op = "copy" /\ Behind(t, h, given.cur)
      BY <1>3, <1>5, <3>1, <3>2
    <3>3. \/ j = 0
          \/ i > 0 /\ j = i + 1
          \/ \E h \in 1 .. n - 1 : t[h].op = "copy" /\ Behind(t, h, given.cur)
      BY <3>2
    <3> QED BY <1>2, <1>3, <1>6, <2>3, <3>3
  <2>4. n \in k + 1 .. l + 2
    BY <1>3
  <2>5. n = l + 1 \/ n = l + 2 \/ n \in 1 .. l
    BY <2>4
  <2> QED BY <2>1, <2>2, <2>3, <2>5
<1>8. Asked(i, t)
  BY <1>3, <1>4, <1>7 DEF Asked
<1>9. Len(t) \in Len(side) + 1 .. Len(t)
  <2>1. l + 2 \in k + 1 .. l + 2
    OBVIOUS
  <2> QED BY <1>3, <2>1
<1> QED BY <1>2, <1>3, <1>6, <1>8, <1>9

\* What the two calls give, as records.
LEMMA WorkGiven ==
  ASSUME NEW w \in Work
  PROVE  /\ WaitStream(w) \in Work
         /\ WaitStream(w).side = Append(w.side, Wait(w.given.cur))
         /\ WaitStream(w).done = w.done /\ WaitStream(w).issued = w.issued
         /\ WaitStream(w).given.cur = w.given.cur
         /\ \A j \in Layers : j \notin w.issued =>
              /\ Prefetch(j, w) \in Work
              /\ Prefetch(j, w).side = With(w.side, w.done[j % 2], j)
              /\ Prefetch(j, w).done = w.done /\ Prefetch(j, w).issued = w.issued \cup {j}
              /\ Prefetch(j, w).given.cur = w.given.cur
<1>1. \A j \in Layers : ~(j >= N)
  BY PlaceFacts, NAssumption
<1>2. ASSUME NEW j \in Layers, j \notin w.issued
      PROVE  /\ Prefetch(j, w) \in Work
             /\ Prefetch(j, w).side = With(w.side, w.done[j % 2], j)
             /\ Prefetch(j, w).done = w.done /\ Prefetch(j, w).issued = w.issued \cup {j}
             /\ Prefetch(j, w).given.cur = w.given.cur
  <2>1. /\ w.side \in Seq(Op) /\ w.given.side \in Nat /\ w.done[j % 2] \in Nat
        /\ j % 2 \in Slots /\ SlotOf(j) \in Places
    BY PlaceFacts DEF Work
  <2>2. PICK a \in Op, b \in Op : a = Wait(w.done[j % 2]) /\ b = Copy(j, SlotOf(j))
    BY <2>1, OpFields
  <2>3. PICK r : r = Prefetch(j, w)
    OBVIOUS
  <2>4. r = [w EXCEPT !.side = @ \o <<a, b>>,
                      !.given.side = @ + 2,
                      !.ready[j % 2] = w.given.side + 2,
                      !.issued = @ \cup {j}]
    BY <1>1, <1>2, <2>2, <2>3 DEF Prefetch
  <2>5. /\ r.side = w.side \o <<a, b>> /\ r.done = w.done /\ r.issued = w.issued \cup {j}
        /\ r.given.cur = w.given.cur
    BY <2>4 DEF Work
  <2>6. r \in Work
    <3>1. w.side \o <<a, b>> \in Seq(Op)
      BY <2>1, <2>2, AppendTwo
    <3>2. w.given.side + 2 \in Nat
      BY <2>1
    <3>3. w.issued \cup {j} \in SUBSET Layers
      BY DEF Work
    <3> QED BY <2>1, <2>4, <3>1, <3>2, <3>3 DEF Work
  <2> QED BY <2>2, <2>3, <2>5, <2>6 DEF With
<1>3. PICK a \in Op : a = Wait(w.given.cur)
  BY OpFields DEF Work
<1>4. WaitStream(w) = [w EXCEPT !.side = Append(@, a), !.given.side = @ + 1]
  BY <1>3 DEF WaitStream
<1>5. Append(w.side, a) \in Seq(Op) /\ w.given.side + 1 \in Nat
  BY DEF Work
<1>6. WaitStream(w) \in Work
  BY <1>4, <1>5 DEF Work
<1> QED BY <1>2, <1>3, <1>4, <1>6 DEF Work

\* Entering layer i asks for the next one's copy, and the first layer for its own.
LEMMA EnterAsked ==
  ASSUME IInv, Wide, phase = "prefill", NEW i \in Layers, EnterLayer(i), pfCur # i,
         i > 0 => pfCur = i - 1, i = 0 => pfCur \in {None, N - 1}
  PROVE  /\ Asked(i, side')
         /\ i + 1 < N => \E n \in Len(side) + 1 .. Len(side') :
                           side'[n].op = "copy" /\ Behind(side', n, given.cur)
         /\ \A k \in Slots : done'[k] <= given.cur
<1> DEFINE freed == IF pfCur = None THEN done ELSE [done EXCEPT ![pfCur % 2] = given.cur]
           start == [cur |-> cur, side |-> side, given |-> given, ready |-> ready,
                     done |-> freed, issued |-> Issued(i)]
           first == IF i \in start.issued THEN start ELSE Prefetch(i, WaitStream(start))
           here == [first EXCEPT !.cur = Append(@, Wait(first.ready[i % 2])),
                                 !.given.cur = @ + 1]
           new == Prefetch(i + 1, here)
<1>0. Queues
  BY DEF IInv
<1>1. side' = new.side /\ done' = new.done
  BY DEF EnterLayer
<1>2. /\ Queues /\ side \in Seq(Op) /\ Len(side) \in Nat /\ given.cur \in Nat
      /\ given \in [cur : Nat, side : Nat] /\ cur \in Seq(Op)
      /\ pfCur \in Nat /\ issued \subseteq Layers /\ ready \in [Slots -> Nat]
      /\ done \in [Slots -> Nat] /\ N \in Nat /\ i \in Nat /\ i < N
  <2>1. /\ Queues /\ side \in Seq(Op) /\ Len(side) \in Nat /\ given.cur \in Nat
        /\ given \in [cur : Nat, side : Nat] /\ cur \in Seq(Op)
    BY DEF IInv, Queues
  <2>2. /\ pfCur \in Nat /\ issued \subseteq Layers /\ ready \in [Slots -> Nat]
        /\ done \in [Slots -> Nat]
    BY NAssumption DEF IInv, TypeOK
  <2>3. N \in Nat /\ i \in Nat /\ i < N
    BY NAssumption, PlaceFacts
  <2> QED BY <2>1, <2>2, <2>3
<1>3. /\ freed \in [Slots -> Nat]
      /\ \A k \in Slots : freed[k] <= given.cur
      /\ pfCur # None => freed[pfCur % 2] = given.cur
  <2>1. pfCur % 2 \in Slots
    BY <1>2 DEF Slots
  <2> QED BY <1>2, <2>1 DEF Wide
<1> HIDE DEF freed
<1>4. /\ start \in Work /\ start.side = side /\ start.done = freed /\ start.given.cur = given.cur
      /\ start.issued = Issued(i)
  BY <1>2, <1>3 DEF Work, Issued
<1> HIDE DEF start
<1>5. Asked(i, side)
  <2>1. ~\E n \in Len(side) + 1 .. Len(side) : TRUE
    BY <1>2
  <2> QED BY <1>2, <2>1 DEF Asked, Extends
\* What is left of side before the next layer's copy is asked for.
<1>6. ASSUME NEW w \in Work, w.given.cur = given.cur
      PROVE  LET r == [w EXCEPT !.cur = Append(@, Wait(w.ready[i % 2])), !.given.cur = @ + 1]
             IN  r \in Work /\ r.side = w.side /\ r.done = w.done /\ r.issued = w.issued
  <2>1. w.ready[i % 2] \in Nat
    BY PlaceFacts DEF Work
  <2>2. PICK a \in Op : a = Wait(w.ready[i % 2])
    BY <2>1, OpFields
  <2>3. Append(w.cur, a) \in Seq(Op) /\ w.given.cur + 1 \in Nat
    BY DEF Work
  <2>4. [w EXCEPT !.cur = Append(@, a), !.given.cur = @ + 1] \in Work
    BY <2>3 DEF Work
  <2> QED BY <2>2, <2>4 DEF Work
<1>7. CASE i > 0
  <2>1. pfCur = i - 1 /\ pfCur # None /\ ~(i <= pfCur) /\ pfCur + 1 = i
    BY <1>2, <1>7 DEF None
  <2>2. i \in issued /\ (\A j \in issued : j <= i) /\ Issued(i) = issued
    BY <1>2, <2>1 DEF IInv, NextFilled, Issued
  <2>3. first = start
    BY <1>4, <2>2
  <2>4. here \in Work /\ here.side = side /\ here.done = freed /\ here.issued = issued
    BY <1>4, <1>6, <2>2, <2>3
  <2> HIDE DEF here
  <2>5. CASE i + 1 >= N
    <3>1. new = here /\ ~(i + 1 < N)
      BY <1>2, <2>5 DEF Prefetch
    <3> HIDE DEF new
    <3> QED BY <1>1, <1>3, <1>5, <2>4, <3>1
  <2>6. CASE i + 1 < N
    <3>1. PICK j \in Layers : j = i + 1 /\ j \notin here.issued
      BY <1>2, <2>2, <2>4, <2>6 DEF Layers
    <3>2. freed[j % 2] = given.cur
      <4>1. j % 2 = pfCur % 2
        BY <1>2, <2>1, <3>1
      <4> QED BY <1>3, <2>1, <4>1
    <3>3. /\ Prefetch(j, here).side = With(side, given.cur, j)
          /\ Prefetch(j, here).done = freed
      BY <2>4, <3>1, <3>2, WorkGiven
    <3>4. side' = With(side, given.cur, j) /\ done' = freed
      BY <1>1, <3>1, <3>3
    <3>5. /\ Asked(i, side') /\ Len(side') \in Len(side) + 1 .. Len(side')
          /\ side'[Len(side')].op = "copy" /\ Behind(side', Len(side'), given.cur)
      <4>1. PICK d \in Nat : d = given.cur /\ d <= given.cur
        BY <1>2
      <4>2. PICK t : t = side' /\ t = With(side, d, j)
        BY <3>4, <4>1
      <4>3. i > 0 /\ j = i + 1
        BY <1>7, <3>1
      <4>4. /\ Asked(i, t) /\ Len(t) \in Len(side) + 1 .. Len(t)
            /\ t[Len(t)].op = "copy" /\ Behind(t, Len(t), given.cur)
        BY <1>0, <1>5, <4>1, <4>2, <4>3, AskedMore
      <4> QED BY <4>2, <4>4
    <3> QED BY <1>3, <3>4, <3>5
  <2> QED BY <1>2, <2>5, <2>6
<1>8. CASE i = 0
  <2>1. start.issued = {} /\ first = Prefetch(i, WaitStream(start))
    BY <1>2, <1>4, <1>8, NAssumption DEF Issued, None
  <2>2. PICK w : w = WaitStream(start)
    OBVIOUS
  <2>3. /\ w \in Work /\ w.side = Append(side, Wait(given.cur)) /\ w.done = freed
        /\ w.issued = {} /\ w.given.cur = given.cur
    <3>1. w \in Work
      BY <1>4, <2>2, WorkGiven
    <3> QED BY <1>4, <2>1, <2>2, <3>1, WorkGiven
  <2>4. Asked(i, w.side) /\ Behind(w.side, Len(w.side) + 1, given.cur)
    <3>1. PICK a \in Op : a = Wait(given.cur) /\ a.op = "wait" /\ a.upto = given.cur
      BY <1>2, OpFields
    <3>2. /\ w.side \in Seq(Op) /\ Len(w.side) = Len(side) + 1 /\ w.side[Len(side) + 1] = a
          /\ \A n \in 1 .. Len(side) : w.side[n] = side[n]
      BY <1>2, <2>3, <3>1, AppendFacts
    <3>3. Extends(side, w.side)
      BY <1>2, <3>2 DEF Extends
    <3>4. \A n \in Len(side) + 1 .. Len(w.side) : w.side[n] = a
      BY <1>2, <3>2
    <3>5. Len(side) + 1 \in 1 .. (Len(w.side) + 1) - 1 /\ given.cur >= given.cur
      BY <1>2, <3>2
    <3> QED BY <3>1, <3>2, <3>3, <3>4, <3>5 DEF Asked, Behind
  <2>5. /\ first \in Work /\ first.side = With(w.side, freed[i % 2], i)
        /\ first.done = freed /\ first.issued = {i} /\ first.given.cur = given.cur
    <3>1. first = Prefetch(i, w) /\ i \notin w.issued
      BY <2>1, <2>2, <2>3
    <3> HIDE DEF first
    <3> QED BY <2>3, <3>1, WorkGiven
  <2>6. PICK s : s = first.side
    OBVIOUS
  <2>7. freed[i % 2] \in Nat /\ freed[i % 2] <= given.cur
    BY <1>3, PlaceFacts
  <2>8. /\ Asked(i, s) /\ Len(s) \in Len(side) + 1 .. Len(s)
        /\ s[Len(s)].op = "copy" /\ Behind(s, Len(s), given.cur)
    <3>1. PICK d \in Nat : d = freed[i % 2] /\ d <= given.cur
      BY <2>7
    <3>2. PICK u : u = w.side
      OBVIOUS
    <3>3. s = With(u, d, i)
      BY <2>5, <2>6, <3>1, <3>2
    <3>4. Asked(i, u) /\ Behind(u, Len(u) + 1, given.cur)
      BY <2>4, <3>2
    <3> QED BY <1>0, <1>8, <3>1, <3>3, <3>4, AskedMore
  <2> HIDE DEF first
  <2>9. here \in Work /\ here.side = s /\ here.done = freed /\ here.issued = {i}
    BY <1>6, <2>5, <2>6
  <2> HIDE DEF here
  <2>10. CASE i + 1 >= N
    <3>1. new = here /\ ~(i + 1 < N)
      BY <1>2, <2>10 DEF Prefetch
    <3> HIDE DEF new
    <3> QED BY <1>1, <1>3, <2>8, <2>9, <3>1
  <2>11. CASE i + 1 < N
    <3>1. PICK j \in Layers : j = i + 1 /\ j \notin here.issued
      BY <1>2, <2>9, <2>11 DEF Layers
    <3>2. freed[j % 2] \in Nat /\ freed[j % 2] <= given.cur
      BY <1>3, PlaceFacts
    <3>3. /\ Prefetch(j, here).side = With(s, freed[j % 2], j)
          /\ Prefetch(j, here).done = freed
      BY <2>9, <3>1, WorkGiven
    <3>4. side' = With(s, freed[j % 2], j) /\ done' = freed
      BY <1>1, <3>1, <3>3
    <3>5. s \in Seq(Op) /\ Len(s) \in Nat /\ Len(s) \in 1 .. Len(s)
      <4>1. s \in Seq(Op) /\ Len(s) \in Nat
        BY <2>8 DEF Asked
      <4> QED BY <1>2, <2>8, <4>1
    <3>6. Behind(s, Len(s) + 1, given.cur)
      <4>1. PICK p \in 1 .. Len(s) - 1 : s[p].op = "wait" /\ s[p].upto >= given.cur
        BY <2>8 DEF Behind
      <4>2. p \in 1 .. (Len(s) + 1) - 1
        BY <3>5
      <4> QED BY <4>1, <4>2 DEF Behind
    <3>7. /\ Asked(i, side') /\ Len(side') \in Len(side) + 1 .. Len(side')
          /\ side'[Len(side')].op = "copy" /\ Behind(side', Len(side'), given.cur)
      <4>1. PICK d \in Nat : d = freed[j % 2] /\ d <= given.cur
        BY <3>2
      <4>2. PICK t : t = side' /\ t = With(s, d, j)
        BY <3>4, <4>1
      <4>3. \E c \in 1 .. Len(s) : s[c].op = "copy" /\ Behind(s, c, given.cur)
        BY <2>8, <3>5
      <4>4. /\ Asked(i, t) /\ Len(t) \in Len(side) + 1 .. Len(t)
            /\ t[Len(t)].op = "copy" /\ Behind(t, Len(t), given.cur)
        BY <1>0, <2>8, <3>6, <4>1, <4>2, <4>3, AskedMore
      <4> QED BY <4>2, <4>4
    <3> QED BY <1>3, <3>4, <3>7
  <2> QED BY <1>2, <2>10, <2>11
<1> QED BY <1>2, <1>7, <1>8

\* The reads still queued find all that was asked for behind them.
LEMMA EnterAhead ==
  ASSUME IInv, FetchInv, Enter
  PROVE  FetchInv'
<1>1. /\ phase' = phase /\ holds' = holds /\ layer \in Layers
      /\ forward # Idle /\ ~entered
  BY NAssumption DEF Enter, memVars, IInv, TypeOK, Layers
<1>2. CASE ~(phase = "prefill" /\ pfCur # layer)
  <2>1. UNCHANGED <<pfCur, done, cur, side, given>>
    BY <1>2 DEF Enter, lendVars, streamVars
  <2> QED BY <1>1, <2>1, SameAhead
<1>3. CASE phase = "prefill" /\ pfCur # layer
  <2>1. PICK i \in Layers : i = layer /\ EnterLayer(i)
    BY <1>1, <1>3 DEF Enter
  <2>2. pfCur # i /\ (i > 0 => pfCur = i - 1) /\ (i = 0 => pfCur \in {None, N - 1})
    BY <1>1, <1>3, <2>1 DEF IInv, HostAt
  <2>3. /\ Asked(i, side')
        /\ i + 1 < N => \E n \in Len(side) + 1 .. Len(side') :
                          side'[n].op = "copy" /\ Behind(side', n, given.cur)
        /\ \A k \in Slots : done'[k] <= given.cur
    BY <1>3, <2>1, <2>2, EnterAsked DEF FetchInv
  <2>4. PICK w \in Work :
          /\ Entered(i, w)
          /\ cur' = w.cur /\ side' = w.side /\ given' = w.given
          /\ ready' = w.ready /\ done' = w.done /\ issued' = w.issued
    BY <1>3, <2>1, <2>2, EnterLayerWork
  <2>5. /\ Queues /\ cur \in Seq(Op) /\ side \in Seq(Op) /\ given.cur \in Nat
        /\ Len(cur) \in Nat /\ Len(side) \in Nat /\ side' \in Seq(Op) /\ Len(side') \in Nat
        /\ done' \in [Slots -> Nat]
    BY <2>4 DEF IInv, Queues, Work
  <2>6. /\ Extends(side, side') /\ given'.cur = given.cur + 1
        /\ Len(cur') = Len(cur) + 1 /\ cur'[Len(cur) + 1].op = "wait"
        /\ \A n \in 1 .. Len(cur) : cur'[n] = cur[n]
    <3>1. w.ready[i % 2] \in Nat
      BY PlaceFacts DEF Work
    <3>2. PICK a \in Op : a = Wait(w.ready[i % 2]) /\ a.op = "wait"
      BY <3>1, OpFields
    <3>3. cur' = Append(cur, a)
      BY <2>4, <3>2 DEF Entered
    <3>4. /\ Len(cur') = Len(cur) + 1 /\ cur'[Len(cur) + 1] = a
          /\ \A n \in 1 .. Len(cur) : cur'[n] = cur[n]
      BY <2>5, <3>3, AppendFacts
    <3>5. Extends(side, side')
      BY <2>3 DEF Asked
    <3>6. given'.cur = given.cur + 1
      BY <2>4 DEF Entered
    <3> QED BY <3>2, <3>4, <3>5, <3>6
  <2>7. Ran("cur", cur)' = Ran("cur", cur)
    <3>1. PICK g \in Nat, l \in Nat : g = given.cur /\ l = Len(cur)
      BY <2>5
    <3>2. given'.cur = g + 1 /\ Len(cur') = l + 1
      BY <2>6, <3>1
    <3>3. (g + 1) - (l + 1) = g - l
      BY <3>1
    <3> QED BY <3>1, <3>2, <3>3 DEF Ran
  <2>8. pfCur' = i
    BY <2>1 DEF EnterLayer
  <2>9. Wide'
    <3>1. \A q \in 1 .. Len(side) : side'[q] = side[q]
      BY <2>6 DEF Extends
    <3>2. ASSUME NEW q \in 1 .. Len(side'), side'[q].op = "wait"
          PROVE  side'[q].upto <= given'.cur
      <4>1. side'[q] \in Op /\ side'[q].upto \in Nat
        BY <2>5, <3>2, OpTypes
      <4>2. side'[q].upto <= given.cur
        <5>1. q \in 1 .. Len(side) \/ q \in Len(side) + 1 .. Len(side')
          BY <2>5
        <5> QED BY <2>3, <3>1, <3>2, <5>1 DEF FetchInv, Wide, Asked
      <4> QED BY <2>5, <2>6, <4>1, <4>2
    <3> QED BY <2>3, <2>5, <2>6, <3>2 DEF Wide
  <2>10. ASSUME NEW n \in 1 .. Len(cur), cur[n].op = "read"
         PROVE  ReadAhead(cur[n].layer, cur[n].from, Ran("cur", cur) + n)'
    <3>1. /\ cur[n].layer \in Layers /\ cur[n].from = SlotOf(cur[n].layer)
          /\ Ran("cur", cur) + n \in Nat /\ Ran("cur", cur) + n <= given.cur
      BY <1>3, <2>10, ReadFacts
    <3>2. PICK h \in Layers, x \in {cur[n].from}, e \in Nat :
            h = cur[n].layer /\ x = cur[n].from /\ e = Ran("cur", cur) + n
      BY <3>1
    <3>3. ReadAhead(h, x, e) /\ x = SlotOf(h) /\ e <= given.cur
      BY <1>3, <2>10, <3>1, <3>2 DEF FetchInv
    <3>4. \A q \in 1 .. Len(side) :
            side'[q] = side[q] /\ (Behind(side', q, e) <=> Behind(side, q, e))
      BY <2>5, <2>6, BehindGrown DEF Extends
    <3>5. \A q \in 1 .. Len(side') : Behind(side', q, given.cur) => Behind(side', q, e)
      BY <2>5, <3>3, BehindEarlier
    <3>6. \A q \in 1 .. Len(side') : q \in 1 .. Len(side) \/ q \in Len(side) + 1 .. Len(side')
      BY <2>5
    <3>7. Len(side) <= Len(side')
      BY <2>6 DEF Extends
    <3>8. h + 1 < N => Fetched(h + 1, e)'
      <4> SUFFICES ASSUME h + 1 < N PROVE Fetched(h + 1, e)'
        OBVIOUS
      <4>1. PICK y : y = SlotOf(h + 1)
        OBVIOUS
      <4>2. PICK m \in 0 .. Len(side) :
              /\ IF m = 0 THEN holds[y] = h + 1
                          ELSE CopyAt(side, m, y) /\ side[m].layer = h + 1 /\ ~Behind(side, m, e)
              /\ \A q \in m + 1 .. Len(side) : CopyAt(side, q, y) => Behind(side, q, e)
        BY <3>3, <4>1 DEF ReadAhead, Fetched
      <4>3. m \in 0 .. Len(side') /\ (m # 0 => m \in 1 .. Len(side))
        BY <2>5, <3>7
      <4>4. \A q \in m + 1 .. Len(side') : CopyAt(side', q, y) => Behind(side', q, e)
        <5> SUFFICES ASSUME NEW q \in m + 1 .. Len(side'), CopyAt(side', q, y)
                     PROVE  Behind(side', q, e)
          OBVIOUS
        <5>1. q \in 1 .. Len(side') /\ (q \in 1 .. Len(side) => q \in m + 1 .. Len(side))
          BY <2>5
        <5>2. CASE q \in 1 .. Len(side)
          BY <3>4, <4>2, <5>1, <5>2 DEF CopyAt
        <5>3. CASE q \in Len(side) + 1 .. Len(side')
          BY <2>3, <3>5, <5>1, <5>3 DEF CopyAt, Asked
        <5> QED BY <3>6, <5>1, <5>2, <5>3
      <4> QED BY <1>1, <3>4, <4>1, <4>2, <4>3, <4>4 DEF Fetched, CopyAt, SlotOf
    <3>9. h # i /\ i # N - 1 => Covered(e)'
      <4> SUFFICES ASSUME h # i, i # N - 1 PROVE Covered(e)'
        OBVIOUS
      <4>1. i + 1 < N
        BY PlaceFacts, NAssumption
      <4>2. PICK c \in Len(side) + 1 .. Len(side') :
              side'[c].op = "copy" /\ Behind(side', c, given.cur)
        BY <2>3, <4>1
      <4>3. c \in 1 .. Len(side')
        BY <2>5
      <4> QED BY <3>5, <4>2, <4>3 DEF Covered
    <3>10. HoldsUpOnly(x, e)'
      <4> SUFFICES ASSUME NEW q \in 1 .. Len(side'), side'[q].op = "copy", Behind(side', q, e)
                   PROVE  \/ side'[q].to = x \/ side'[q].layer = 0
                          \/ \E c \in 1 .. q - 1 : side'[c].op = "copy" /\ Behind(side', c, e)
        BY <2>5 DEF HoldsUpOnly
      <4>1. CASE q \in 1 .. Len(side)
        <5>1. \/ side[q].to = x \/ side[q].layer = 0
              \/ \E c \in 1 .. q - 1 : side[c].op = "copy" /\ Behind(side, c, e)
          BY <2>5, <3>3, <3>4, <4>1 DEF ReadAhead, HoldsUpOnly
        <5>2. \A c \in 1 .. q - 1 : c \in 1 .. Len(side)
          BY <2>5, <4>1
        <5> QED BY <3>4, <4>1, <5>1, <5>2
      <4>2. CASE q \in Len(side) + 1 .. Len(side')
        <5>1. \A c \in 1 .. q - 1 : c \in 1 .. Len(side')
          BY <2>5
        <5>2. \/ side'[q].layer = 0
              \/ \E c \in 1 .. q - 1 : side'[c].op = "copy" /\ Behind(side', c, given.cur)
              \/ i > 0 /\ side'[q].layer = i + 1 /\ side'[q].to = SlotOf(i + 1)
          BY <2>3, <4>2 DEF Asked
        <5>3. CASE i > 0 /\ side'[q].to = SlotOf(i + 1)
          <6>1. pfCur = i - 1 /\ i \in Nat /\ i < N /\ N \in Nat
            BY <2>2, <5>3, PlaceFacts, NAssumption
          <6>2. pfCur # N - 1
            BY <6>1
          <6>3. CASE h = pfCur
            <7>1. SlotOf(h) = SlotOf(i + 1)
              BY <6>1, <6>3 DEF SlotOf
            <7> QED BY <3>3, <5>3, <7>1
          <6>4. CASE h # pfCur
            <7>1. PICK c \in 1 .. Len(side) : side[c].op = "copy" /\ Behind(side, c, e)
              BY <3>3, <6>2, <6>4 DEF ReadAhead, Covered
            <7>2. c \in 1 .. q - 1
              BY <2>5, <4>2
            <7> QED BY <3>4, <7>1, <7>2
          <6> QED BY <6>3, <6>4
        <5> QED BY <3>5, <5>1, <5>2, <5>3
      <4> QED BY <3>6, <4>1, <4>2
    <3>11. ReadAhead(h, x, e)'
      BY <2>8, <3>8, <3>9, <3>10 DEF ReadAhead
    <3>12. cur'[n].layer = h /\ cur'[n].from = x /\ Ran("cur", cur)' + n = e
      BY <2>6, <2>7, <3>2
    <3> QED BY <3>11, <3>12
  <2>11. \A n \in 1 .. Len(cur') : cur'[n].op = "read" => n \in 1 .. Len(cur) /\ cur[n].op = "read"
    <3> SUFFICES ASSUME NEW n \in 1 .. Len(cur'), cur'[n].op = "read"
                 PROVE  n \in 1 .. Len(cur) /\ cur[n].op = "read"
      OBVIOUS
    <3>1. n = Len(cur) + 1 \/ n \in 1 .. Len(cur)
      BY <2>5, <2>6
    <3> QED BY <2>6, <3>1
  <2> QED BY <2>9, <2>10, <2>11 DEF FetchInv
<1> QED BY <1>2, <1>3

-----------------------------------------------------------------------------
(* The second invariant and what follows from it *)

\* A server starts outside a window, its side stream empty.
LEMMA FetchInit == Init => FetchInv
BY DEF Init, FetchInv, Wide

\* Every step keeps what is fetched ahead.
LEMMA FetchStep == IInv /\ IInv' /\ FetchInv /\ [Next]_vars => FetchInv'
<1> SUFFICES ASSUME IInv, IInv', FetchInv, [Next]_vars PROVE FetchInv'
  OBVIOUS
<1>1. CASE AfterLoad
  <2>1. phase' # "prefill" /\ UNCHANGED <<done, side, given>>
    BY <1>1 DEF AfterLoad, lendVars, streamVars
  <2> QED BY <2>1 DEF FetchInv, Wide
<1>2. ASSUME NEW b \in Batches, StartAsIs(b) PROVE FetchInv'
  <2>1. UNCHANGED <<phase, pfCur, done, holds, cur, side, given>>
    BY <1>2 DEF StartAsIs, lendVars, memVars, streamVars
  <2> QED BY <2>1, SameAhead
<1>3. ASSUME NEW b \in Batches, StartPrefill(b) \/ EndWindow(b) \/ EndWindowNoRoom(b)
      PROVE  FetchInv'
  BY <1>3, SwapAhead
<1>4. CASE Enter
  BY <1>4, EnterAhead
<1>5. CASE Launch
  BY <1>5, LaunchAhead
<1>6. CASE ForwardReturns
  <2>1. UNCHANGED <<phase, pfCur, done, holds, cur, side, given>>
    BY <1>6 DEF ForwardReturns, lendVars, memVars, streamVars
  <2> QED BY <2>1, SameAhead
<1>7. CASE Device
  BY <1>7, DeviceAhead
<1>8. CASE UNCHANGED vars
  <2>1. UNCHANGED <<phase, pfCur, done, holds, cur, side, given>>
    BY <1>8 DEF vars, hostVars, lendVars, memVars, streamVars
  <2> QED BY <2>1, SameAhead
<1> QED BY <1>1, <1>2, <1>3, <1>4, <1>5, <1>6, <1>7, <1>8 DEF Next

\* What side's copies wait for, at every moment.
THEOREM FetchInvariance == Spec => []FetchInv
BY Invariance, FetchInit, FetchStep, PTL DEF Spec

\* While a layer's kernels run, the next layer's copy is made, or waits for nothing
\* of theirs; and no other copy is held up by them but the next filling of their
\* own slot, a new forward's first layer, and what is queued behind these.
THEOREM CopiesAhead == Spec => []FetchedAhead
<1>1. IInv /\ FetchInv => FetchedAhead
  <2> SUFFICES ASSUME IInv, FetchInv, phase = "prefill", cur # <<>>, cur[1].op = "read"
               PROVE  LET i == cur[1].layer
                          now == Ran("cur", cur) + 1
                      IN  /\ i + 1 < N => NextComing(i, now)
                          /\ HoldsUpOnly(cur[1].from, now)
    BY TailFacts DEF FetchedAhead, IInv, Queues
  <2>1. /\ cur \in Seq(Op) /\ side \in Seq(Op) /\ Len(side) \in Nat /\ 1 \in 1 .. Len(cur)
    BY TailFacts DEF IInv, Queues
  <2>2. cur[1].layer \in Layers
    BY <2>1, ReadFacts
  <2>3. PICK i \in Layers, x \in {cur[1].from}, e \in {Ran("cur", cur) + 1} :
          i = cur[1].layer /\ x = cur[1].from /\ e = Ran("cur", cur) + 1
    BY <2>2
  <2>4. ReadAhead(i, x, e)
    BY <2>1, <2>3 DEF FetchInv
  <2>5. ASSUME i + 1 < N PROVE NextComing(i, e)
    <3>1. PICK y : y = SlotOf(i + 1)
      OBVIOUS
    <3>2. PICK m \in 0 .. Len(side) :
            IF m = 0 THEN holds[y] = i + 1
            ELSE CopyAt(side, m, y) /\ side[m].layer = i + 1 /\ ~Behind(side, m, e)
      BY <2>4, <2>5, <3>1 DEF ReadAhead, Fetched
    <3>3. CASE m = 0
      BY <3>1, <3>2, <3>3 DEF NextComing
    <3>4. CASE m # 0
      <4>1. m \in 1 .. Len(side) /\ m \in DOMAIN side /\ side[m] \in Op
        BY <2>1, <3>4
      <4>2. side[m].op = "copy" /\ side[m].to = y /\ side[m].layer = i + 1
        BY <3>2, <3>4 DEF CopyAt
      <4>3. side[m] = Copy(i + 1, y)
        BY <4>1, <4>2 DEF Op, Copy
      <4> QED BY <3>1, <3>2, <3>4, <4>1, <4>3 DEF NextComing
    <3> QED BY <3>3, <3>4
  <2> QED BY <2>3, <2>4, <2>5 DEF ReadAhead
<1> QED BY <1>1, Invariance, FetchInvariance, PTL
=============================================================================
