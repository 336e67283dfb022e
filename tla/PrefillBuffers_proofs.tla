----------------------- MODULE PrefillBuffers_proofs -----------------------
(***************************************************************************)
(* Proofs about PrefillBuffers for any batches, row counts, experts, group *)
(* sizes, limits, number of forwards and lead of the host: what the queued *)
(* operations point at is there, the scratch is left alone outside the     *)
(* window, every expert is summed once with its own layer's weights, and   *)
(* sets and bases have the room and the caches the bounds they should.     *)
(***************************************************************************)
EXTENDS PrefillBuffers, SequenceTheorems, FiniteSetTheorems, WellFoundedInduction,
        TLAPS

-----------------------------------------------------------------------------
(* Queues *)

Vals(q) == {q[i] : i \in DOMAIN q}
IsQueue(q) == q \in Seq(Vals(q))

\* A sequence over any set is a queue.
LEMMA SeqQueue ==
  ASSUME NEW S, NEW q \in Seq(S)
  PROVE  /\ IsQueue(q) /\ Len(q) \in Nat /\ DOMAIN q = 1 .. Len(q)
         /\ Vals(q) \subseteq S /\ \A i \in 1 .. Len(q) : q[i] \in Vals(q)
<1>1. Len(q) \in Nat /\ DOMAIN q = 1 .. Len(q)
  BY LenProperties
<1>2. \A i \in 1 .. Len(q) : q[i] \in S
  BY ElementOfSeq
<1>3. q = [i \in 1 .. Len(q) |-> q[i]]
  BY <1>1
<1>4. q \in [1 .. Len(q) -> Vals(q)]
  BY <1>1, <1>3 DEF Vals
<1>5. q \in Seq(Vals(q))
  BY <1>1, <1>4, SeqDef
<1> QED BY <1>1, <1>2, <1>5 DEF Vals, IsQueue

\* A function on 1 .. n is a queue.
LEMMA FunQueue ==
  ASSUME NEW n \in Nat, NEW q, q = [i \in 1 .. n |-> q[i]]
  PROVE  IsQueue(q) /\ Len(q) = n
<1>1. DOMAIN q = 1 .. n
  OBVIOUS
<1>2. q \in [1 .. n -> Vals(q)]
  BY <1>1 DEF Vals
<1>3. q \in Seq(Vals(q))
  BY <1>2, SeqDef
<1>4. DOMAIN q = 1 .. Len(q) /\ Len(q) \in Nat
  BY <1>3, LenProperties
<1>5. Len(q) = n
  BY <1>1, <1>4
<1> QED BY <1>3, <1>5 DEF IsQueue

\* What a queue is.
LEMMA QueueFacts ==
  ASSUME NEW q, IsQueue(q)
  PROVE  /\ Len(q) \in Nat /\ DOMAIN q = 1 .. Len(q) /\ \A i \in 1 .. Len(q) : q[i] \in Vals(q)
         /\ Vals(q) = {q[i] : i \in 1 .. Len(q)}
         /\ (q = <<>> <=> Len(q) = 0) /\ (q = <<>> <=> Vals(q) = {})
         /\ Vals(<<>>) = {} /\ IsQueue(<<>>) /\ Len(<<>>) = 0
<1>1. Len(q) \in Nat /\ DOMAIN q = 1 .. Len(q) /\ \A i \in 1 .. Len(q) : q[i] \in Vals(q)
  BY SeqQueue DEF IsQueue
<1>2. q = <<>> <=> Len(q) = 0
  BY <1>1, EmptySeq DEF IsQueue
<1>3. Vals(<<>>) = {} /\ IsQueue(<<>>) /\ Len(<<>>) = 0
  <2>1. Len(<<>>) = 0 /\ DOMAIN <<>> = {}
    BY EmptySeq
  <2>2. \A S : <<>> \in Seq(S)
    BY EmptySeq
  <2> QED BY <2>1, <2>2 DEF Vals, IsQueue
<1>4. Vals(q) = {q[i] : i \in 1 .. Len(q)}
  BY <1>1 DEF Vals
<1>5. q = <<>> <=> Vals(q) = {}
  <2>1. Len(q) > 0 => 1 \in 1 .. Len(q)
    BY <1>1
  <2>2. Len(q) # 0 => Len(q) > 0
    BY <1>1
  <2> QED BY <1>1, <1>2, <1>3, <2>1, <2>2
<1> QED BY <1>1, <1>2, <1>3, <1>4, <1>5

\* Appending to a queue.
LEMMA AppendQueue ==
  ASSUME NEW q, IsQueue(q), NEW x
  PROVE  /\ IsQueue(Append(q, x)) /\ Len(Append(q, x)) = Len(q) + 1
         /\ Append(q, x)[Len(q) + 1] = x /\ \A i \in 1 .. Len(q) : Append(q, x)[i] = q[i]
         /\ Vals(Append(q, x)) = Vals(q) \cup {x}
<1> DEFINE S == Vals(q) \cup {x}
           r == Append(q, x)
<1>1. q \in Seq(S)
  BY SeqQueue, SeqMonotonic DEF IsQueue
<1>2. /\ r \in Seq(S) /\ Len(r) = Len(q) + 1
      /\ \A i \in 1 .. Len(q) : r[i] = q[i]
      /\ r[Len(q) + 1] = x
  BY <1>1, AppendProperties
<1>3. IsQueue(r) /\ Vals(r) \subseteq S /\ Len(q) \in Nat /\ Vals(r) = {r[i] : i \in 1 .. Len(r)}
      /\ Vals(q) = {q[i] : i \in 1 .. Len(q)}
  BY <1>2, SeqQueue, QueueFacts
<1> HIDE DEF r
<1>4. x \in Vals(r)
  <2>1. Len(q) + 1 \in 1 .. Len(r)
    BY <1>2, <1>3
  <2> QED BY <1>2, <1>3, <2>1
<1>5. Vals(q) \subseteq Vals(r)
  <2>1. \A i \in 1 .. Len(q) : i \in 1 .. Len(r)
    BY <1>2, <1>3
  <2> QED BY <1>2, <1>3, <2>1
<1> QED BY <1>2, <1>3, <1>4, <1>5 DEF r

\* Running the head of a queue.
LEMMA TailQueue ==
  ASSUME NEW q, IsQueue(q), q # <<>>
  PROVE  /\ IsQueue(Tail(q)) /\ Len(Tail(q)) = Len(q) - 1 /\ Len(q) \in Nat /\ Len(q) >= 1
         /\ \A i \in 1 .. Len(Tail(q)) : Tail(q)[i] = q[i + 1]
         /\ Head(q) = q[1] /\ q[1] \in Vals(q) /\ Vals(Tail(q)) \subseteq Vals(q)
<1>1. /\ Tail(q) \in Seq(Vals(q)) /\ Len(Tail(q)) = Len(q) - 1
      /\ \A i \in 1 .. Len(Tail(q)) : Tail(q)[i] = q[i + 1]
  BY HeadTailProperties DEF IsQueue
<1>2. Len(q) \in Nat \ {0}
  BY QueueFacts
<1>3. Head(q) = q[1] /\ q[1] \in Vals(q)
  <2>1. 1 \in 1 .. Len(q)
    BY <1>2
  <2> QED BY <2>1, QueueFacts
<1>4. IsQueue(Tail(q)) /\ Vals(Tail(q)) \subseteq Vals(q)
  BY <1>1, SeqQueue
<1> QED BY <1>1, <1>2, <1>3, <1>4

\* One queue after another.
LEMMA ConcatQueue ==
  ASSUME NEW q, IsQueue(q), NEW r, IsQueue(r)
  PROVE  /\ IsQueue(q \o r) /\ Len(q \o r) = Len(q) + Len(r)
         /\ \A i \in 1 .. Len(q) : (q \o r)[i] = q[i]
         /\ \A i \in 1 .. Len(r) : (q \o r)[Len(q) + i] = r[i]
         /\ \A i \in 1 .. Len(q \o r) : i \in 1 .. Len(q) \/ (i - Len(q) \in 1 .. Len(r) /\ (q \o r)[i] = r[i - Len(q)])
         /\ Vals(q \o r) \subseteq Vals(q) \cup Vals(r)
<1> DEFINE S == Vals(q) \cup Vals(r)
           p == q \o r
<1>1. q \in Seq(S) /\ r \in Seq(S)
  BY SeqMonotonic DEF IsQueue
<1>2. /\ p \in Seq(S) /\ Len(p) = Len(q) + Len(r)
      /\ \A i \in 1 .. Len(p) : p[i] = IF i <= Len(q) THEN q[i] ELSE r[i - Len(q)]
  BY <1>1, ConcatProperties
<1>3. Len(q) \in Nat /\ Len(r) \in Nat
  BY QueueFacts
<1>4. IsQueue(p) /\ Vals(p) \subseteq S
  BY <1>2, SeqQueue
<1> HIDE DEF p
<1>5. \A i \in 1 .. Len(q) : p[i] = q[i]
  <2>1. \A i \in 1 .. Len(q) : i \in 1 .. Len(p) /\ i <= Len(q)
    BY <1>2, <1>3
  <2> QED BY <1>2, <2>1
<1>6. \A i \in 1 .. Len(r) : p[Len(q) + i] = r[i]
  <2>1. \A i \in 1 .. Len(r) : Len(q) + i \in 1 .. Len(p) /\ ~(Len(q) + i <= Len(q)) /\ Len(q) + i - Len(q) = i
    BY <1>2, <1>3
  <2> QED BY <1>2, <2>1
<1>7. \A i \in 1 .. Len(p) : i \in 1 .. Len(q) \/ (i - Len(q) \in 1 .. Len(r) /\ p[i] = r[i - Len(q)])
  BY <1>2, <1>3
<1> QED BY <1>2, <1>4, <1>5, <1>6, <1>7 DEF p

-----------------------------------------------------------------------------
(* The host, and the types of what it queues *)

Zeros == [op : {"zero"}, base : Nat \ {0}, place : {"scratch"}, after : {0}]
Replays == [op : {"replay"}, graph : Nat \X Nat, base : Nat \ {0}, layer : Nat, slot : Slots,
            place : {"scratch"}, after : Nat]
Sums == [op : {"sum"}, rows : Nat, base : Nat, cpu : SUBSET Nat, place : Places, after : {0}]
Copies == [group : Nat \X Nat, slot : Slots, after : Nat]

IsLookup(op) == op.op = "lookup" /\ op.after = 0
KnownOp(op) == IsLookup(op) \/ op \in Zeros \cup Replays \cup Sums

HasBase(op) == op.op \in {"zero", "replay"} \/ (op.op = "sum" /\ op.base # NoBase)

OpTypes ==
  /\ IsQueue(cur) /\ dma \in Seq(Copies)
  /\ \A op \in Pending : KnownOp(op)

\* A forward is streamed exactly in a window, and only a streamed one of enough rows
\* gets as far as its groups.
HostInv ==
  /\ OpTypes
  /\ window \in BOOLEAN /\ copying \in BOOLEAN /\ step \in 0 .. Groups + 2 /\ layer \in Nat
  /\ batch \in Batches \cup {NoBatch}
  /\ batch # NoBatch => ~batch.graph /\ window = batch.streamed
  /\ batch = NoBatch => step = 0
  /\ step >= 2 => batch.rows >= Threshold /\ batch.rows \in DOMAIN gin
  /\ ginRows \in Nat /\ gin \in [DOMAIN gin -> Nat \ {0}]
  /\ \A t \in DOMAIN gin : gin[t] \in DOMAIN acc
  /\ \A op \in Pending : HasBase(op) => op.base \in DOMAIN acc
  /\ acc \in [DOMAIN acc -> [0 .. Experts - 1 -> Nat]]
  /\ landing \in [Slots -> (Nat \X Nat) \cup {Junk}]
  /\ computeDone \in [Slots -> Nat] /\ dmaDone \in [Slots -> Nat]
  /\ copying => dma # <<>> /\ dma[1].after = 0

\* The constants are numbers.
LEMMA Numbers ==
  /\ Experts \in Nat /\ Hot \in Nat /\ Hot < Experts /\ G \in Nat /\ G > 0 /\ CpuGroups \in Nat
  /\ GraphKeep \in Nat /\ GraphKeep > 0 /\ MinRows \in Nat /\ MinRows > 0 /\ Chunk \in Nat
  /\ Threshold \in Nat /\ Threshold > 0 /\ Layers \in Nat /\ EagerRows \in Nat /\ Graphed \in Nat
  /\ Graphed < EagerRows /\ WorksLimit \in Nat
BY ExpertsAssumption, CpuGroupsAssumption, GraphKeepAssumption, RowsAssumption, LayersAssumption,
   EagerAssumption, GraphedAssumption

\* A remainder is below the divisor.
LEMMA ModRange ==
  ASSUME NEW n \in Nat, NEW m \in Nat \ {0}
  PROVE  n % m \in 0 .. m - 1
OBVIOUS

\* A quotient is a number.
LEMMA DivRange ==
  ASSUME NEW n \in Nat, NEW m \in Nat \ {0}
  PROVE  n \div m \in Nat
OBVIOUS

\* Quotient and remainder make the number.
LEMMA DivMod ==
  ASSUME NEW n \in Nat, NEW m \in Nat \ {0}
  PROVE  n = (n \div m) * m + (n % m)
OBVIOUS

\* The groups have room for the experts that are not resident.
LEMMA AllGroupsFacts == AllGroups \in Nat /\ AllGroups >= 1 /\ AllGroups * G >= Experts - Hot
<1>1. PICK n \in Nat, m \in Nat \ {0} : n = Experts - Hot + G - 1 /\ m = G
  <2>1. Experts - Hot + G - 1 \in Nat /\ G \in Nat \ {0}
    BY Numbers
  <2> QED BY <2>1
<1>2. PICK d \in Nat, t \in 0 .. m - 1 : d = n \div m /\ t = n % m /\ n = d * m + t
  BY ModRange, DivRange, DivMod
<1>3. AllGroups = d
  BY <1>1, <1>2 DEF AllGroups
<1>4. n >= m /\ n = (Experts - Hot) + m - 1
  BY <1>1, Numbers
<1>5. d # 0
  BY <1>2, <1>4
<1>6. d * m >= Experts - Hot
  <2>1. PICK x \in Int : x = d * m
    BY <1>2
  <2> QED BY <1>2, <1>4, <2>1, Numbers
<1> QED BY <1>1, <1>2, <1>3, <1>5, <1>6

\* A streamed layer has a group; those streamed end where the CPU's share begins.
LEMMA GroupsFacts ==
  /\ Groups \in Nat /\ Groups >= 1
  /\ Cutoff = Least(Experts, Hot + Groups * G)
<1>1. Groups \in Nat /\ Groups >= 1
  BY AllGroupsFacts, Numbers DEF Groups
<1>2. Cutoff = Least(Experts, Hot + Groups * G)
  <2>1. CASE CpuGroups = 0
    <3>1. Groups = AllGroups
      BY <2>1 DEF Groups
    <3>2. PICK x \in Nat : x = Groups * G
      BY <1>1, Numbers
    <3>3. Experts <= Hot + x
      BY <3>1, <3>2, AllGroupsFacts, Numbers
    <3>4. Least(Experts, Hot + x) = Experts
      BY <3>3, Numbers DEF Least
    <3> QED BY <2>1, <3>2, <3>4 DEF Cutoff
  <2>2. CASE CpuGroups # 0
    BY <2>2 DEF Cutoff
  <2> QED BY <2>1, <2>2
<1> QED BY <1>1, <1>2

\* A running forward is one of the batches that are not replayed.
LEMMA BatchFacts ==
  ASSUME HostInv, batch # NoBatch
  PROVE  /\ batch \in Batches /\ batch.rows \in Nat \ {0} /\ batch.streamed \in BOOLEAN
         /\ window = batch.streamed /\ (batch.rows >= Threshold => window)
BY BatchesAssumption DEF HostInv

\* A base has room for its rows, so there is one.
LEMMA BaseFacts ==
  ASSUME HostInv, NEW rows \in Nat \ {0}
  PROVE  InputBase(rows) \in Nat \ {0}
<1>1. ginRows \in Nat /\ gin \in [DOMAIN gin -> Nat \ {0}]
  BY DEF HostInv
<1>2. NewRows(rows) \in Nat \ {0}
  BY Numbers DEF NewRows, Most
<1>3. ViewRows(rows) \in Nat \ {0}
  BY <1>1, <1>2 DEF ViewRows
<1> QED BY <1>1, <1>3 DEF InputBase

\* What is appended to a queue of known operations is known.
LEMMA AppendOp ==
  ASSUME IsQueue(cur), \A op \in Pending : KnownOp(op), NEW x, KnownOp(x), cur' = Append(cur, x)
  PROVE  IsQueue(cur)' /\ (\A op \in Pending : KnownOp(op))'
<1>1. IsQueue(cur') /\ Vals(cur') = Vals(cur) \cup {x}
  BY AppendQueue
<1>2. Pending = Vals(cur) /\ Pending' = Vals(cur')
  BY DEF Pending, Vals
<1> QED BY <1>1, <1>2 DEF IsQueue, Vals

\* The pieces of a forward's lookup.
TheKey == Key(batch.rows)
Wk(ids) == <<ids, batch.rows>>
Left == WorksAfter(TheKey, batch.rows)
Kept(ids) == Trimmed(Wk(ids), Left)
TheSet(ids) == SetFor(TheKey, batch.rows, ids)

\* What the lookup of a forward does.
LEMMA EngramFacts ==
  ASSUME Engram
  PROVE  /\ batch # NoBatch /\ MayReplace(TheKey, batch.rows) /\ step' = 1
         /\ UNCHANGED <<window, dma, copying, streamerVars, batch, layer, forwards, outputs, summed>>
         /\ \E ids, work :
              /\ IF Missing(TheKey, batch.rows) THEN FreeFor(TheKey, ids) ELSE ids = staging[TheKey].ids
              /\ MayTrim(Wk(ids), Left)
              /\ staging' = [k \in DOMAIN staging \cup {TheKey} |-> IF k = TheKey THEN TheSet(ids) ELSE staging[k]]
              /\ works' = [k \in Kept(ids) \cup {Wk(ids)} |-> IF k = Wk(ids) THEN work ELSE works[k]]
              /\ IF Wk(ids) \in Kept(ids) THEN work = works[Wk(ids)] ELSE work.set = TheSet(ids).id
              /\ cur' = Append(cur, Lookup(TheSet(ids), work))
<1>1. batch # NoBatch /\ OwnedRows(batch.rows) /\ step' = 1
      /\ UNCHANGED <<window, dma, copying, streamerVars, batch, layer, forwards, outputs, summed>>
  BY DEF Engram, Running
<1>2. MayReplace(TheKey, batch.rows)
  BY <1>1 DEF OwnedRows, TheKey
<1>3. PICK ids \in (IF Missing(TheKey, batch.rows) THEN {a \in Addresses : FreeFor(TheKey, a)}
                    ELSE {staging[TheKey].ids}) :
        LET new == [id |-> Fresh({works[k].id : k \in Kept(ids)} \cup {op.work : op \in Lookups}),
                    set |-> TheSet(ids).id]
            work == IF Wk(ids) \in Kept(ids) THEN works[Wk(ids)] ELSE new
        IN /\ MayTrim(Wk(ids), Left)
           /\ staging' = [k \in DOMAIN staging \cup {TheKey} |-> IF k = TheKey THEN TheSet(ids) ELSE staging[k]]
           /\ works' = [k \in Kept(ids) \cup {Wk(ids)} |-> IF k = Wk(ids) THEN work ELSE works[k]]
           /\ cur' = Append(cur, Lookup(TheSet(ids), work))
  BY <1>1 DEF OwnedRows, TheKey, Wk, Left, Kept, TheSet
<1>4. IF Missing(TheKey, batch.rows) THEN FreeFor(TheKey, ids) ELSE ids = staging[TheKey].ids
  BY <1>3
<1> DEFINE new == [id |-> Fresh({works[k].id : k \in Kept(ids)} \cup {op.work : op \in Lookups}),
                   set |-> TheSet(ids).id]
           work == IF Wk(ids) \in Kept(ids) THEN works[Wk(ids)] ELSE new
<1>5. IF Wk(ids) \in Kept(ids) THEN work = works[Wk(ids)] ELSE work.set = TheSet(ids).id
  OBVIOUS
<1>6. /\ MayTrim(Wk(ids), Left)
      /\ staging' = [k \in DOMAIN staging \cup {TheKey} |-> IF k = TheKey THEN TheSet(ids) ELSE staging[k]]
      /\ works' = [k \in Kept(ids) \cup {Wk(ids)} |-> IF k = Wk(ids) THEN work ELSE works[k]]
      /\ cur' = Append(cur, Lookup(TheSet(ids), work))
  BY <1>3
<1> HIDE DEF work
<1> QED BY <1>1, <1>2, <1>4, <1>5, <1>6

\* The operations of the decode graph.
LEMMA CapturedFacts ==
  /\ IsQueue(Captured)
  /\ \A op \in Vals(Captured) : op = CapturedLookup \/ op = Sum(Graphed, NoBase, CpuExperts, "resident")
<1> DEFINE a == <<CapturedLookup>>
           s == Sum(Graphed, NoBase, CpuExperts, "resident")
           b == [l \in 1 .. Layers |-> s]
<1>1. a \in Seq({CapturedLookup})
  OBVIOUS
<1>2. IsQueue(a) /\ Vals(a) \subseteq {CapturedLookup}
  BY <1>1, SeqQueue
<1>3. IsQueue(b) /\ Len(b) = Layers
  BY Numbers, FunQueue
<1>4. Vals(b) \subseteq {s}
  BY DEF Vals
<1>5. Captured = a \o b
  BY DEF Captured
<1> HIDE DEF a, b
<1>6. IsQueue(a \o b) /\ Vals(a \o b) \subseteq Vals(a) \cup Vals(b)
  BY <1>2, <1>3, ConcatQueue
<1> QED BY <1>2, <1>4, <1>5, <1>6

\* One operation of the compute stream has run: each transfer waits for one less.
LEMMA SoonerFacts ==
  ASSUME NEW q \in Seq(Copies)
  PROVE  /\ Sooner(q) \in Seq(Copies) /\ Len(Sooner(q)) = Len(q)
         /\ \A i \in 1 .. Len(q) : /\ q[i] \in Copies /\ Sooner(q)[i].after = Less(q[i].after)
                                   /\ Sooner(q)[i].group = q[i].group /\ Sooner(q)[i].slot = q[i].slot
<1> DEFINE r == Sooner(q)
<1>1. Len(q) \in Nat /\ DOMAIN q = 1 .. Len(q) /\ \A i \in 1 .. Len(q) : q[i] \in Copies
  BY SeqQueue
<1>2. r = [i \in 1 .. Len(q) |-> [q[i] EXCEPT !.after = Less(@)]]
  BY <1>1 DEF Sooner
<1>3. \A i \in 1 .. Len(q) : Less(q[i].after) \in Nat
  BY <1>1 DEF Copies, Less
<1>4. \A i \in 1 .. Len(q) : /\ r[i] \in Copies /\ r[i].after = Less(q[i].after)
                             /\ r[i].group = q[i].group /\ r[i].slot = q[i].slot
  <2> SUFFICES ASSUME NEW i \in 1 .. Len(q)
               PROVE  /\ r[i] \in Copies /\ r[i].after = Less(q[i].after)
                      /\ r[i].group = q[i].group /\ r[i].slot = q[i].slot
    OBVIOUS
  <2>1. r[i] = [q[i] EXCEPT !.after = Less(q[i].after)]
    BY <1>2
  <2>2. q[i] \in Copies /\ Less(q[i].after) \in Nat
    BY <1>1, <1>3
  <2> HIDE DEF r
  <2> QED BY <2>1, <2>2 DEF Copies
<1> HIDE DEF r
<1>5. r \in [1 .. Len(q) -> Copies]
  BY <1>2, <1>4
<1>6. r \in Seq(Copies)
  BY <1>1, <1>5, SeqDef
<1>7. Len(r) = Len(q)
  <2>1. r = [i \in 1 .. Len(q) |-> r[i]]
    BY <1>5
  <2> QED BY <1>1, <2>1, FunQueue
<1> QED BY <1>1, <1>4, <1>6, <1>7 DEF r

\* A transfer has ended: each replay waits for one less, other operations for nothing.
LEMMA EndCopyFacts ==
  ASSUME OpTypes, EndCopy
  PROVE  /\ IsQueue(cur') /\ Len(cur') = Len(cur) /\ dma' = Tail(dma)
         /\ \A i \in 1 .. Len(cur) :
              IF cur[i].op = "replay"
              THEN cur[i] \in Replays /\ cur'[i] = [cur[i] EXCEPT !.after = Less(cur[i].after)] /\ cur'[i] \in Replays
              ELSE cur'[i] = cur[i]
<1>1. IsQueue(cur) /\ \A op \in Pending : KnownOp(op)
  BY DEF OpTypes
<1>2. Len(cur) \in Nat /\ DOMAIN cur = 1 .. Len(cur) /\ \A i \in 1 .. Len(cur) : cur[i] \in Vals(cur)
  BY <1>1, QueueFacts
<1>3. \A i \in 1 .. Len(cur) :
        cur'[i] = IF cur[i].op = "replay" THEN [cur[i] EXCEPT !.after = Less(cur[i].after)] ELSE cur[i]
  BY <1>2 DEF EndCopy
<1>4. cur' = [i \in 1 .. Len(cur) |-> cur'[i]]
  BY <1>2 DEF EndCopy
<1>5. IsQueue(cur') /\ Len(cur') = Len(cur)
  <2>1. PICK n \in Nat : n = Len(cur)
    BY <1>2
  <2>2. PICK q : q = cur'
    OBVIOUS
  <2>3. q = [i \in 1 .. n |-> q[i]]
    BY <1>4, <2>1, <2>2
  <2> QED BY <2>1, <2>2, <2>3, FunQueue
<1>6. ASSUME NEW i \in 1 .. Len(cur), cur[i].op = "replay"
      PROVE  cur[i] \in Replays /\ [cur[i] EXCEPT !.after = Less(cur[i].after)] \in Replays
  <2>1. KnownOp(cur[i])
    BY <1>1, <1>2 DEF Pending, Vals
  <2>2. cur[i] \in Replays
    BY <1>6, <2>1 DEF KnownOp, IsLookup, Zeros, Sums
  <2>3. Less(cur[i].after) \in Nat
    BY <2>2 DEF Replays, Less
  <2> QED BY <2>2, <2>3 DEF Replays
<1> QED BY <1>3, <1>5, <1>6 DEF EndCopy

\* The compute stream runs the operation at its head.
LEMMA RunCurFacts ==
  ASSUME OpTypes, RunCur
  PROVE  /\ cur # <<>> /\ cur[1] \in Pending /\ KnownOp(cur[1]) /\ cur[1].after = 0 /\ cur' = Tail(cur)
         /\ Len(cur) \in Nat /\ Len(cur) >= 1 /\ IsQueue(cur') /\ Len(cur') = Len(cur) - 1
         /\ Pending' \subseteq Pending
         /\ \A i \in 1 .. Len(cur') : cur'[i] = cur[i + 1]
         /\ acc' = (IF cur[1].op = "zero" THEN [acc EXCEPT ![cur[1].base] = NoExperts]
                    ELSE IF cur[1].op = "replay" THEN [acc EXCEPT ![cur[1].base] = Added(cur[1])] ELSE acc)
         /\ summed' = IF cur[1].op = "sum" THEN Summed(cur[1]) ELSE summed
         /\ dma' = Sooner(dma) /\ computeDone' = [s \in Slots |-> Less(computeDone[s])]
         /\ UNCHANGED <<window, copying, engramVars, landing, dmaDone, graphVars, hostVars, outputs>>
<1>1. cur # <<>> /\ IsQueue(cur) /\ cur' = Tail(cur) /\ Pending = Vals(cur) /\ Pending' = Vals(cur')
  BY DEF RunCur, OpTypes, Pending, Vals
<1>2. /\ Len(cur) \in Nat /\ Len(cur) >= 1 /\ IsQueue(Tail(cur)) /\ Len(Tail(cur)) = Len(cur) - 1
      /\ \A i \in 1 .. Len(Tail(cur)) : Tail(cur)[i] = cur[i + 1]
      /\ Head(cur) = cur[1] /\ cur[1] \in Vals(cur) /\ Vals(Tail(cur)) \subseteq Vals(cur)
  BY <1>1, TailQueue
<1>3. KnownOp(cur[1])
  BY <1>1, <1>2 DEF OpTypes
<1>4. cur[1].after = 0
  BY <1>2 DEF RunCur
<1>5. /\ acc' = (IF cur[1].op = "zero" THEN [acc EXCEPT ![cur[1].base] = NoExperts]
                 ELSE IF cur[1].op = "replay" THEN [acc EXCEPT ![cur[1].base] = Added(cur[1])] ELSE acc)
      /\ summed' = IF cur[1].op = "sum" THEN Summed(cur[1]) ELSE summed
  BY <1>2 DEF RunCur
<1>6. /\ dma' = Sooner(dma) /\ computeDone' = [s \in Slots |-> Less(computeDone[s])]
      /\ UNCHANGED <<window, copying, engramVars, landing, dmaDone, graphVars, hostVars, outputs>>
  BY DEF RunCur
<1> QED BY <1>1, <1>2, <1>3, <1>4, <1>5, <1>6

\* The group a replay adds, added.
LEMMA AddedType ==
  ASSUME NEW op \in Replays, acc[op.base] \in [0 .. Experts - 1 -> Nat]
  PROVE  Added(op) \in [0 .. Experts - 1 -> Nat]
<1>1. PICK f \in [0 .. Experts - 1 -> Nat] : f = acc[op.base]
  OBVIOUS
<1>2. \A n \in Nat : Least(2, n + 1) \in Nat
  BY DEF Least
<1>3. \A e \in 0 .. Experts - 1 : f[e] \in Nat /\ Least(2, f[e] + 1) \in Nat
  BY <1>2
<1> QED BY <1>1, <1>3 DEF Added

\* A step of the compute stream keeps the types.
LEMMA RunCurHost == HostInv /\ RunCur => HostInv'
<1> SUFFICES ASSUME HostInv, RunCur PROVE HostInv'
  OBVIOUS
<1> DEFINE o == cur[1]
<1>1. OpTypes
  BY DEF HostInv
<1>2. /\ o \in Pending /\ KnownOp(o)
      /\ IsQueue(cur') /\ Pending' \subseteq Pending
      /\ acc' = (IF o.op = "zero" THEN [acc EXCEPT ![o.base] = NoExperts]
                 ELSE IF o.op = "replay" THEN [acc EXCEPT ![o.base] = Added(o)] ELSE acc)
      /\ dma' = Sooner(dma) /\ computeDone' = [s \in Slots |-> Less(computeDone[s])]
      /\ UNCHANGED <<window, copying, engramVars, landing, dmaDone, graphVars, hostVars, outputs>>
  BY <1>1, RunCurFacts
<1> HIDE DEF o
<1>3. /\ dma \in Seq(Copies) /\ dma' \in Seq(Copies) /\ Len(dma') = Len(dma)
      /\ \A i \in 1 .. Len(dma) : dma'[i].after = Less(dma[i].after)
  BY <1>1, <1>2, SoonerFacts DEF OpTypes
<1>4. OpTypes'
  BY <1>1, <1>2, <1>3 DEF OpTypes
<1>5. acc' \in [DOMAIN acc -> [0 .. Experts - 1 -> Nat]]
  <2>1. acc \in [DOMAIN acc -> [0 .. Experts - 1 -> Nat]]
    BY DEF HostInv
  <2>2. CASE o.op = "zero"
    <3>1. NoExperts \in [0 .. Experts - 1 -> Nat]
      BY DEF NoExperts
    <3> QED BY <1>2, <2>1, <2>2, <3>1
  <2>3. CASE o.op = "replay"
    <3>1. o \in Replays
      BY <1>2, <2>3 DEF KnownOp, IsLookup, Zeros, Sums
    <3>2. o.base \in DOMAIN acc
      BY <1>2, <2>3 DEF HostInv, HasBase
    <3>3. Added(o) \in [0 .. Experts - 1 -> Nat]
      BY <2>1, <3>1, <3>2, AddedType
    <3> QED BY <1>2, <2>1, <2>3, <3>3
  <2>4. CASE o.op \notin {"zero", "replay"}
    BY <1>2, <2>1, <2>4
  <2> QED BY <2>2, <2>3, <2>4
<1>6. DOMAIN acc' = DOMAIN acc
  BY <1>5
<1>7. computeDone' \in [Slots -> Nat]
  <2>1. \A s \in Slots : Less(computeDone[s]) \in Nat
    BY DEF HostInv, Less
  <2> QED BY <1>2, <2>1
<1>8. copying => dma' # <<>> /\ dma'[1].after = 0
  <2> SUFFICES ASSUME copying PROVE dma' # <<>> /\ dma'[1].after = 0
    OBVIOUS
  <2>1. dma # <<>> /\ dma[1].after = 0
    BY DEF HostInv
  <2>2. Len(dma) \in Nat /\ Len(dma) # 0
    BY <1>3, <2>1, EmptySeq, LenProperties
  <2>3. 1 \in 1 .. Len(dma)
    BY <2>2
  <2>4. dma'[1].after = 0
    BY <1>3, <2>1, <2>3 DEF Less
  <2> QED BY <1>3, <2>2, <2>4, EmptySeq
<1>9. UNCHANGED <<window, copying, landing, dmaDone, gin, ginRows, batch, step, layer>>
  BY <1>2 DEF graphVars, hostVars
<1>10. \A op \in Pending' : HasBase(op) => op.base \in DOMAIN acc'
  BY <1>2, <1>6 DEF HostInv
<1>11. \A t \in DOMAIN gin : gin[t] \in DOMAIN acc'
  BY <1>6 DEF HostInv
<1> QED BY <1>2, <1>4, <1>5, <1>6, <1>7, <1>8, <1>9, <1>10, <1>11 DEF HostInv

\* A step of the transfer stream keeps the types.
LEMMA RunDmaHost == HostInv /\ RunDma => HostInv'
<1> SUFFICES ASSUME HostInv, RunDma PROVE HostInv'
  OBVIOUS
<1>1. UNCHANGED <<window, gin, ginRows, acc, batch, step, layer>>
  BY DEF RunDma, graphVars, hostVars
<1>2. OpTypes /\ dma \in Seq(Copies)
  BY DEF HostInv, OpTypes
<1>3. dma # <<>> => /\ Head(dma) = dma[1] /\ dma[1] \in Copies /\ Tail(dma) \in Seq(Copies)
  <2> SUFFICES ASSUME dma # <<>> PROVE Head(dma) = dma[1] /\ dma[1] \in Copies /\ Tail(dma) \in Seq(Copies)
    OBVIOUS
  <2>1. IsQueue(dma) /\ Vals(dma) \subseteq Copies
    BY <1>2, SeqQueue
  <2>2. Head(dma) = dma[1] /\ dma[1] \in Vals(dma)
    BY <2>1, TailQueue
  <2>3. Tail(dma) \in Seq(Copies)
    BY <1>2, HeadTailProperties
  <2> QED BY <2>1, <2>2, <2>3
<1>4. landing \in [Slots -> (Nat \X Nat) \cup {Junk}] /\ dmaDone \in [Slots -> Nat] /\ computeDone \in [Slots -> Nat]
  BY DEF HostInv
<1>5. CASE BeginCopy
  <2>1. /\ dma # <<>> /\ dma[1].after = 0 /\ copying' /\ copying' \in BOOLEAN
        /\ landing' = [landing EXCEPT ![dma[1].slot] = Junk]
        /\ UNCHANGED <<cur, dma, computeDone, dmaDone>>
    BY <1>3, <1>5 DEF BeginCopy
  <2>2. landing' \in [Slots -> (Nat \X Nat) \cup {Junk}]
    BY <1>4, <2>1
  <2>3. Pending' = Pending /\ OpTypes'
    BY <1>2, <2>1 DEF Pending, OpTypes
  <2> QED BY <1>1, <2>1, <2>2, <2>3 DEF HostInv
<1>6. CASE EndCopy
  <2>1. /\ copying /\ ~copying' /\ copying' \in BOOLEAN /\ dma # <<>>
        /\ landing' = [landing EXCEPT ![dma[1].slot] = dma[1].group]
        /\ dmaDone' = [s \in Slots |-> Less(dmaDone[s])] /\ UNCHANGED computeDone
    BY <1>3, <1>6 DEF EndCopy, HostInv
  <2>2. landing' \in [Slots -> (Nat \X Nat) \cup {Junk}]
    <3>1. dma[1].group \in Nat \X Nat
      BY <1>3, <2>1 DEF Copies
    <3> QED BY <1>4, <2>1, <3>1
  <2>3. dmaDone' \in [Slots -> Nat]
    <3>1. \A s \in Slots : Less(dmaDone[s]) \in Nat
      BY <1>4 DEF Less
    <3> QED BY <2>1, <3>1
  <2>4. /\ IsQueue(cur') /\ Len(cur') = Len(cur) /\ dma' = Tail(dma)
        /\ \A i \in 1 .. Len(cur) :
             IF cur[i].op = "replay"
             THEN cur[i] \in Replays /\ cur'[i] = [cur[i] EXCEPT !.after = Less(cur[i].after)] /\ cur'[i] \in Replays
             ELSE cur'[i] = cur[i]
    BY <1>2, <1>6, EndCopyFacts
  <2>5. Pending = {cur[i] : i \in 1 .. Len(cur)} /\ Pending' = {cur'[i] : i \in 1 .. Len(cur)}
    <3>1. DOMAIN cur = 1 .. Len(cur) /\ DOMAIN cur' = 1 .. Len(cur')
      BY <1>2, <2>4, QueueFacts DEF OpTypes
    <3> QED BY <2>4, <3>1 DEF Pending
  <2>6. OpTypes'
    <3>1. \A op \in Pending' : KnownOp(op)
      BY <1>2, <2>4, <2>5 DEF OpTypes, KnownOp
    <3> QED BY <1>3, <2>1, <2>4, <3>1 DEF OpTypes
  <2>7. \A op \in Pending' : HasBase(op) => op.base \in DOMAIN acc
    <3> SUFFICES ASSUME NEW i \in 1 .. Len(cur), HasBase(cur'[i]) PROVE cur'[i].base \in DOMAIN acc
      BY <2>5
    <3>1. CASE cur[i].op = "replay"
      <4>1. cur'[i].base = cur[i].base
        BY <2>4, <3>1 DEF Replays
      <4>2. cur[i] \in Pending /\ HasBase(cur[i])
        BY <2>5, <3>1 DEF HasBase
      <4> QED BY <4>1, <4>2 DEF HostInv
    <3>2. CASE cur[i].op # "replay"
      <4>1. cur'[i] = cur[i] /\ cur[i] \in Pending
        BY <2>4, <2>5, <3>2
      <4> QED BY <4>1 DEF HostInv
    <3> QED BY <3>1, <3>2
  <2> QED BY <1>1, <1>4, <2>1, <2>2, <2>3, <2>6, <2>7 DEF HostInv
<1> QED BY <1>5, <1>6 DEF RunDma

\* The decode graph's operations are known ones, and use no base.
LEMMA CapturedOps ==
  \A op \in Vals(Captured) : KnownOp(op) /\ ~HasBase(op) /\ op.op # "replay"
<1>1. KnownOp(CapturedLookup) /\ ~HasBase(CapturedLookup) /\ CapturedLookup.op # "replay"
  BY DEF CapturedLookup, Lookup, KnownOp, IsLookup, HasBase
<1> DEFINE s == Sum(Graphed, NoBase, CpuExperts, "resident")
<1>2. s \in Sums
  <2>1. CpuExperts \in SUBSET Nat
    BY Numbers DEF CpuExperts
  <2> QED BY <2>1, Numbers DEF Sum, Sums, NoBase, Places
<1>3. ~HasBase(s) /\ s.op # "replay"
  BY DEF Sum, HasBase
<1> HIDE DEF s
<1>4. KnownOp(s)
  BY <1>2 DEF KnownOp
<1> QED BY <1>1, <1>3, <1>4, CapturedFacts DEF s

\* The first state has the types.
LEMMA InitHost == Init => HostInv
<1> SUFFICES ASSUME Init PROVE HostInv
  OBVIOUS
<1>1. cur = <<>> /\ dma = <<>> /\ Pending = {} /\ OpTypes
  <2>1. cur = <<>> /\ dma = <<>>
    BY DEF Init
  <2>2. IsQueue(<<>>) /\ Vals(<<>>) = {}
    BY QueueFacts, EmptySeq DEF IsQueue, Vals
  <2>3. Pending = {}
    BY <2>1, <2>2 DEF Pending, Vals
  <2>4. <<>> \in Seq(Copies)
    BY EmptySeq
  <2> QED BY <2>1, <2>2, <2>3, <2>4 DEF OpTypes
<1>2. DOMAIN gin = {} /\ gin \in [DOMAIN gin -> Nat \ {0}] /\ DOMAIN acc = {}
      /\ acc \in [DOMAIN acc -> [0 .. Experts - 1 -> Nat]]
  <2>1. gin = <<>> /\ acc = <<>>
    BY DEF Init, StreamerInit
  <2> QED BY <2>1
<1>3. /\ window \in BOOLEAN /\ copying = FALSE /\ step = 0 /\ layer = 0 /\ batch = NoBatch /\ ginRows = 0
      /\ landing = [s \in Slots |-> Junk]
      /\ computeDone = [s \in Slots |-> 0] /\ dmaDone = [s \in Slots |-> 0]
  BY DEF Init, StreamerInit
<1>4. 0 \in 0 .. Groups + 2
  BY GroupsFacts
<1>5. /\ landing \in [Slots -> (Nat \X Nat) \cup {Junk}]
      /\ computeDone \in [Slots -> Nat] /\ dmaDone \in [Slots -> Nat]
  BY <1>3
<1>6. \A t \in DOMAIN gin : gin[t] \in DOMAIN acc
  BY <1>2
<1>7. batch \in Batches \cup {NoBatch} /\ copying \in BOOLEAN
  BY <1>3
<1>8. ~(step >= 2) /\ layer \in Nat /\ ginRows \in Nat
  BY <1>3
<1> QED BY <1>1, <1>2, <1>3, <1>4, <1>5, <1>6, <1>7, <1>8 DEF HostInv

\* What the start of a forward does.
LEMMA StartFacts ==
  ASSUME OpTypes, NEW b \in Batches, StartForward(b)
  PROVE  /\ batch = NoBatch /\ b.graph \in BOOLEAN /\ b.streamed \in BOOLEAN
         /\ (b.streamed # window => cur = <<>> /\ dma = <<>>) /\ window' = b.streamed
         /\ IF b.graph THEN ~b.streamed /\ batch' = NoBatch /\ UNCHANGED <<batch, step, layer>>
            ELSE batch' = b /\ step' = 0 /\ layer' = 0
         /\ IsQueue(cur') /\ Len(cur') >= Len(cur) /\ (\A i \in 1 .. Len(cur) : cur'[i] = cur[i])
         /\ \A i \in 1 .. Len(cur') : i \in 1 .. Len(cur) \/ cur'[i] \in Vals(Captured)
         /\ Pending' \subseteq Pending \cup Vals(Captured)
         /\ UNCHANGED <<dma, copying, engramVars, streamerVars, outputs, summed>>
<1>1. IsQueue(cur) /\ IsQueue(Captured)
  BY CapturedFacts DEF OpTypes
<1>2. /\ batch = NoBatch /\ (b.streamed # window => cur = <<>> /\ dma = <<>>) /\ window' = b.streamed
      /\ UNCHANGED <<dma, copying, engramVars, streamerVars, outputs, summed>>
      /\ IF b.graph THEN cur' = cur \o Captured /\ UNCHANGED <<batch, step, layer>>
         ELSE batch' = b /\ step' = 0 /\ layer' = 0 /\ UNCHANGED cur
  BY DEF StartForward, Drained
<1>3. b.graph \in BOOLEAN /\ b.streamed \in BOOLEAN /\ (b.graph => ~b.streamed)
  BY BatchesAssumption
<1>4. Len(cur) \in Nat /\ Len(Captured) \in Nat
  BY <1>1, QueueFacts
<1>5. CASE b.graph
  <2>1. /\ IsQueue(cur') /\ Len(cur') = Len(cur) + Len(Captured)
        /\ \A i \in 1 .. Len(cur) : cur'[i] = cur[i]
        /\ \A i \in 1 .. Len(cur') :
              \/ i \in 1 .. Len(cur)
              \/ (i - Len(cur) \in 1 .. Len(Captured) /\ cur'[i] = Captured[i - Len(cur)])
        /\ Vals(cur') \subseteq Vals(cur) \cup Vals(Captured)
    <3>1. cur' = cur \o Captured
      BY <1>2, <1>5
    <3>2. PICK q, r : q = cur /\ r = Captured
      OBVIOUS
    <3>3. IsQueue(q) /\ IsQueue(r) /\ cur' = q \o r
      BY <1>1, <3>1, <3>2
    <3> QED BY <3>2, <3>3, ConcatQueue
  <2>2. Pending' \subseteq Pending \cup Vals(Captured)
    BY <2>1 DEF Pending, Vals
  <2>3. \A i \in 1 .. Len(Captured) : Captured[i] \in Vals(Captured)
    BY <1>1, QueueFacts
  <2>4. Len(cur') >= Len(cur)
    <3>1. PICK n, m, k : n \in Nat /\ m \in Nat /\ n = Len(cur) /\ m = Len(Captured) /\ k = Len(cur')
      BY <1>4
    <3>2. k = n + m
      BY <2>1, <3>1
    <3>3. k >= n
      BY <3>1, <3>2
    <3> QED BY <3>1, <3>3
  <2> QED BY <1>2, <1>3, <1>5, <2>1, <2>2, <2>3, <2>4
<1>6. CASE ~b.graph
  <2>1. cur' = cur /\ Pending' = Pending
    BY <1>2, <1>6 DEF Pending
  <2>2. Len(cur') >= Len(cur)
    BY <1>4, <2>1
  <2> QED BY <1>1, <1>2, <1>3, <1>6, <2>1, <2>2
<1> QED BY <1>3, <1>5, <1>6

\* The start of a forward keeps the types.
LEMMA StartHost ==
  ASSUME HostInv, NEW b \in Batches, StartForward(b)
  PROVE  HostInv'
<1>1. OpTypes
  BY DEF HostInv
<1>2. /\ batch = NoBatch /\ b.graph \in BOOLEAN /\ b.streamed \in BOOLEAN /\ window' = b.streamed
      /\ IF b.graph THEN batch' = NoBatch /\ UNCHANGED <<batch, step, layer>>
         ELSE batch' = b /\ step' = 0 /\ layer' = 0
      /\ IsQueue(cur') /\ Pending' \subseteq Pending \cup Vals(Captured)
      /\ UNCHANGED <<dma, copying, gin, ginRows, acc, landing, computeDone, dmaDone>>
  BY <1>1, StartFacts DEF streamerVars, landingVars, graphVars
<1>3. OpTypes' /\ \A op \in Pending' : HasBase(op) => op.base \in DOMAIN acc
  BY <1>2, CapturedOps DEF OpTypes, HostInv
<1>4. step' = 0 /\ layer' \in Nat
  BY <1>2 DEF HostInv
<1>5. 0 \in 0 .. Groups + 2
  BY GroupsFacts
<1>6. batch' \in Batches \cup {NoBatch} /\ (batch' # NoBatch => ~batch'.graph /\ window' = batch'.streamed)
  BY <1>2
<1> QED BY <1>2, <1>3, <1>4, <1>5, <1>6 DEF HostInv

\* The lookup of a forward keeps the types.
LEMMA EngramHost == HostInv /\ Engram => HostInv'
<1> SUFFICES ASSUME HostInv, Engram PROVE HostInv'
  OBVIOUS
<1>1. PICK ids, work : cur' = Append(cur, Lookup(TheSet(ids), work))
  BY EngramFacts
<1>2. /\ batch # NoBatch /\ step' = 1
      /\ UNCHANGED <<window, dma, copying, gin, ginRows, acc, landing, computeDone, dmaDone,
                     batch, layer>>
  BY EngramFacts DEF streamerVars, landingVars, graphVars
<1> DEFINE x == Lookup(TheSet(ids), work)
<1>3. KnownOp(x) /\ ~HasBase(x)
  BY DEF Lookup, KnownOp, IsLookup, HasBase
<1> HIDE DEF x
<1>4. IsQueue(cur) /\ \A op \in Pending : KnownOp(op)
  BY DEF HostInv, OpTypes
<1>5. OpTypes'
  BY <1>1, <1>2, <1>3, <1>4, AppendOp DEF OpTypes, HostInv, x
<1>6. Pending' = Pending \cup {x}
  BY <1>1, <1>4, AppendQueue DEF Pending, Vals, x
<1>7. \A op \in Pending' : HasBase(op) => op.base \in DOMAIN acc
  BY <1>3, <1>6 DEF HostInv
<1>8. 1 \in 0 .. Groups + 2
  BY GroupsFacts
<1> QED BY <1>2, <1>5, <1>7, <1>8 DEF HostInv

\* After its last group or its CPU experts, a forward goes on with its next layer or ends.
LEMMA NextFacts ==
  ASSUME layer \in Nat, NextLayer
  PROVE  /\ layer' \in Nat /\ step' \in 0 .. Groups + 2 /\ step' < 2
         /\ (batch' = batch \/ (batch' = NoBatch /\ step' = 0))
<1>1. CASE layer + 1 < Layers
  <2>1. layer' = layer + 1 /\ step' = 1 /\ batch' = batch
    BY <1>1 DEF NextLayer
  <2>2. layer + 1 \in Nat /\ 1 \in 0 .. Groups + 2
    BY GroupsFacts
  <2>3. layer' \in Nat /\ step' \in 0 .. Groups + 2
    BY <2>1, <2>2
  <2> QED BY <2>1, <2>3
<1>2. CASE ~(layer + 1 < Layers)
  <2>1. layer' = 0 /\ step' = 0 /\ batch' = NoBatch
    BY <1>2 DEF NextLayer
  <2>2. 0 \in 0 .. Groups + 2
    BY GroupsFacts
  <2> QED BY <2>1, <2>2
<1> QED BY <1>1, <1>2

\* An operation is queued, and nothing of the streams but the queue changes.
LEMMA QueuedHost ==
  ASSUME HostInv, NEW x, KnownOp(x), HasBase(x) => x.base \in DOMAIN acc, cur' = Append(cur, x)
  PROVE  /\ IsQueue(cur') /\ Pending' = Pending \cup {x} /\ Len(cur') = Len(cur) + 1
         /\ Len(cur) \in Nat /\ cur'[Len(cur) + 1] = x /\ \A i \in 1 .. Len(cur) : cur'[i] = cur[i]
         /\ \A op \in Pending' : KnownOp(op)
         /\ \A op \in Pending' : HasBase(op) => op.base \in DOMAIN acc
<1>1. IsQueue(cur) /\ \A op \in Pending : KnownOp(op)
  BY DEF HostInv, OpTypes
<1>2. IsQueue(cur') /\ Vals(cur') = Vals(cur) \cup {x} /\ Len(cur') = Len(cur) + 1
      /\ cur'[Len(cur) + 1] = x /\ \A i \in 1 .. Len(cur) : cur'[i] = cur[i]
  BY <1>1, AppendQueue
<1>3. Pending' = Pending \cup {x}
  BY <1>2 DEF Pending, Vals
<1>4. \A op \in Pending : HasBase(op) => op.base \in DOMAIN acc
  BY DEF HostInv
<1>5. Len(cur) \in Nat
  BY <1>1, QueueFacts
<1> QED BY <1>1, <1>2, <1>3, <1>4, <1>5

\* Where an output is.
LEMMA GotPlace ==
  ASSUME NEW rows, \A t \in DOMAIN outputs : outputs[t] \in Places
  PROVE  GetBuffer(rows) \in Places
BY DEF GetBuffer, GpuOutput, Places

\* Outputs are in the scratch or resident.
OutputsOK == \A t \in DOMAIN outputs : outputs[t] \in Places

\* A layer of the CPU's keeps the types.
LEMMA CpuHost == HostInv /\ OutputsOK /\ CpuLayer => HostInv'
<1> SUFFICES ASSUME HostInv, OutputsOK, CpuLayer PROVE HostInv'
  OBVIOUS
<1> DEFINE x == Sum(batch.rows, NoBase, CpuExperts, GetBuffer(batch.rows))
<1>1. /\ batch # NoBatch /\ cur' = Append(cur, x) /\ NextLayer
      /\ UNCHANGED <<window, dma, copying, gin, ginRows, acc, landing, computeDone, dmaDone>>
  BY DEF CpuLayer, Running, streamerVars, landingVars, graphVars
<1>2. KnownOp(x) /\ ~HasBase(x)
  <2>1. CpuExperts \in SUBSET Nat /\ batch.rows \in Nat /\ GetBuffer(batch.rows) \in Places
    BY <1>1, Numbers, BatchFacts, GotPlace DEF CpuExperts, OutputsOK
  <2>2. x \in Sums /\ ~HasBase(x)
    BY <2>1 DEF Sum, Sums, NoBase, HasBase
  <2> QED BY <2>2 DEF KnownOp
<1> HIDE DEF x
<1>3. IsQueue(cur') /\ (\A op \in Pending' : KnownOp(op)) /\ \A op \in Pending' : HasBase(op) => op.base \in DOMAIN acc
  BY <1>1, <1>2, QueuedHost
<1>4. OpTypes'
  BY <1>1, <1>3 DEF OpTypes, HostInv
<1>5. /\ layer' \in Nat /\ step' \in 0 .. Groups + 2 /\ ~(step' >= 2)
      /\ (batch' = batch \/ (batch' = NoBatch /\ step' = 0))
  <2>1. layer \in Nat
    BY GroupsFacts DEF HostInv
  <2>2. layer' \in Nat /\ step' \in 0 .. Groups + 2 /\ step' < 2 /\ (batch' = batch \/ (batch' = NoBatch /\ step' = 0))
    BY <1>1, <2>1, NextFacts
  <2>3. PICK s \in Nat : s = step'
    BY <2>2, GroupsFacts
  <2> QED BY <2>2, <2>3
<1> QED BY <1>1, <1>3, <1>4, <1>5 DEF HostInv

\* The sum of a streamed layer keeps the types.
LEMMA SumHost == HostInv /\ OutputsOK /\ SumLayer => HostInv'
<1> SUFFICES ASSUME HostInv, OutputsOK, SumLayer PROVE HostInv'
  OBVIOUS
<1> DEFINE x == Sum(batch.rows, gin[batch.rows], Cutoff .. Experts - 1,
                    IF Cutoff < Experts THEN GetBuffer(batch.rows) ELSE "resident")
<1>1. /\ batch # NoBatch /\ cur' = Append(cur, x) /\ NextLayer /\ step = Groups + 2
      /\ UNCHANGED <<window, dma, copying, gin, ginRows, acc, landing, computeDone, dmaDone>>
  BY DEF SumLayer, Running, streamerVars, landingVars, graphVars
<1>2. KnownOp(x) /\ x.base \in DOMAIN acc
  <2>1. step >= 2
    BY <1>1, GroupsFacts
  <2>2. gin[batch.rows] \in Nat \ {0} /\ gin[batch.rows] \in DOMAIN acc
    BY <2>1 DEF HostInv
  <2>3. Cutoff \in Nat
    <3>1. PICK y \in Nat : y = Groups * G
      BY GroupsFacts, Numbers
    <3> QED BY <3>1, GroupsFacts, Numbers DEF Least
  <2>4. Cutoff .. Experts - 1 \in SUBSET Nat
    BY <2>3, Numbers
  <2>5. batch.rows \in Nat
    BY <1>1, BatchFacts
  <2>6. (IF Cutoff < Experts THEN GetBuffer(batch.rows) ELSE "resident") \in Places
    BY GotPlace DEF OutputsOK, Places
  <2>7. x \in Sums /\ x.base = gin[batch.rows]
    BY <2>2, <2>4, <2>5, <2>6 DEF Sum, Sums
  <2> QED BY <2>2, <2>7 DEF KnownOp
<1> HIDE DEF x
<1>3. IsQueue(cur') /\ (\A op \in Pending' : KnownOp(op)) /\ \A op \in Pending' : HasBase(op) => op.base \in DOMAIN acc
  BY <1>1, <1>2, QueuedHost
<1>4. OpTypes'
  BY <1>1, <1>3 DEF OpTypes, HostInv
<1>5. /\ layer' \in Nat /\ step' \in 0 .. Groups + 2 /\ ~(step' >= 2)
      /\ (batch' = batch \/ (batch' = NoBatch /\ step' = 0))
  <2>1. layer' \in Nat /\ step' \in 0 .. Groups + 2 /\ step' < 2 /\ (batch' = batch \/ (batch' = NoBatch /\ step' = 0))
    BY <1>1, NextFacts DEF HostInv
  <2>2. PICK s \in Nat : s = step'
    BY <2>1, GroupsFacts
  <2> QED BY <2>1, <2>2
<1> QED BY <1>1, <1>3, <1>4, <1>5 DEF HostInv

\* A copy is queued behind the graph that read its landing last.
LEMMA StageFacts ==
  ASSUME HostInv, NEW n \in Nat, layer \in Nat, Stage(layer, n)
  PROVE  /\ n % 2 \in Slots /\ dma' \in Seq(Copies) /\ Len(dma') = Len(dma) + 1 /\ Len(dma) \in Nat
         /\ \A i \in 1 .. Len(dma) : dma'[i] = dma[i]
         /\ dma'[Len(dma) + 1] = [group |-> <<layer, n>>, slot |-> n % 2, after |-> computeDone[n % 2]]
         /\ dmaDone' = [dmaDone EXCEPT ![n % 2] = Len(dma) + 1] /\ dmaDone' \in [Slots -> Nat]
         /\ dma' # <<>> /\ (dma # <<>> => dma'[1] = dma[1])
<1> DEFINE x == [group |-> <<layer, n>>, slot |-> n % 2, after |-> computeDone[n % 2]]
<1>1. dma \in Seq(Copies) /\ computeDone \in [Slots -> Nat] /\ dmaDone \in [Slots -> Nat]
  BY DEF HostInv, OpTypes
<1>2. n % 2 \in Slots
  BY ModRange DEF Slots
<1>3. x \in Copies
  BY <1>1, <1>2 DEF Copies
<1>4. dma' = Append(dma, x) /\ dmaDone' = [dmaDone EXCEPT ![n % 2] = Len(dma) + 1]
  BY DEF Stage
<1> HIDE DEF x
<1>5. /\ dma' \in Seq(Copies) /\ Len(dma') = Len(dma) + 1 /\ dma'[Len(dma) + 1] = x
      /\ \A i \in 1 .. Len(dma) : dma'[i] = dma[i]
  BY <1>1, <1>3, <1>4, AppendProperties
<1>6. Len(dma) \in Nat
  BY <1>1, LenProperties
<1>7. dmaDone' \in [Slots -> Nat]
  BY <1>1, <1>2, <1>4, <1>6
<1>8. dma' # <<>> /\ (dma # <<>> => dma'[1] = dma[1])
  <2>1. PICK m \in Nat : m = Len(dma)
    BY <1>6
  <2>2. Len(dma') # 0
    BY <1>5, <2>1
  <2>3. dma # <<>> => 1 \in 1 .. m
    BY <1>1, <2>1, EmptySeq
  <2> QED BY <1>5, <2>1, <2>2, <2>3, EmptySeq
<1> QED BY <1>2, <1>4, <1>5, <1>6, <1>7, <1>8 DEF x

\* The inputs of a streamed layer keep the types.
LEMMA StreamLayerHost == HostInv /\ StreamLayer => HostInv'
<1> SUFFICES ASSUME HostInv, StreamLayer PROVE HostInv'
  OBVIOUS
<1> DEFINE rows == batch.rows
           base == InputBase(rows)
           x == [op |-> "zero", base |-> base, place |-> StreamerPlace, after |-> 0]
<1>1. /\ batch # NoBatch /\ rows >= Threshold /\ Stage(layer, 0) /\ step' = 2
      /\ UNCHANGED <<window, copying, landing, computeDone, batch, layer>>
  BY DEF StreamLayer, Running, StreamPrefillFor
<1>2. /\ gin' = [t \in DOMAIN gin \cup {rows} |-> IF t = rows THEN base ELSE gin[t]]
      /\ ginRows' = IF rows \in DOMAIN gin THEN ginRows ELSE base
      /\ acc' = [b \in DOMAIN acc \cup {base} |-> IF b \in DOMAIN acc THEN acc[b] ELSE NoExperts]
      /\ cur' = Append(cur, x)
  BY DEF StreamLayer, GraphInputs
<1>3. rows \in Nat \ {0} /\ base \in Nat \ {0} /\ window \in BOOLEAN
  BY <1>1, BatchFacts, BaseFacts DEF HostInv
<1>4. KnownOp(x) /\ x.base = base
  BY <1>3 DEF KnownOp, Zeros, StreamerPlace
<1> HIDE DEF x, rows, base
<1>5. /\ ginRows \in Nat /\ gin \in [DOMAIN gin -> Nat \ {0}]
      /\ \A t \in DOMAIN gin : gin[t] \in DOMAIN acc
      /\ \A op \in Pending : HasBase(op) => op.base \in DOMAIN acc
      /\ acc \in [DOMAIN acc -> [0 .. Experts - 1 -> Nat]]
      /\ IsQueue(cur) /\ \A op \in Pending : KnownOp(op)
  BY DEF HostInv, OpTypes
<1>6. IsQueue(cur)' /\ (\A op \in Pending : KnownOp(op))'
  BY <1>2, <1>4, <1>5, AppendOp
<1>7. Pending' = Pending \cup {x}
  <2>1. Vals(cur') = Vals(cur) \cup {x}
    BY <1>2, <1>5, AppendQueue
  <2> QED BY <2>1 DEF Pending, Vals
<1>8. DOMAIN acc' = DOMAIN acc \cup {base} /\ DOMAIN gin' = DOMAIN gin \cup {rows}
  BY <1>2
<1>9. acc' \in [DOMAIN acc' -> [0 .. Experts - 1 -> Nat]]
  <2>1. NoExperts \in [0 .. Experts - 1 -> Nat]
    BY DEF NoExperts
  <2>2. \A b \in DOMAIN acc' : acc'[b] \in [0 .. Experts - 1 -> Nat]
    BY <1>2, <1>5, <1>8, <2>1
  <2> QED BY <1>2, <1>8, <2>2
<1>10. gin' \in [DOMAIN gin' -> Nat \ {0}] /\ ginRows' \in Nat /\ rows \in DOMAIN gin'
  <2>1. \A t \in DOMAIN gin' : gin'[t] \in Nat \ {0}
    BY <1>2, <1>3, <1>5, <1>8
  <2> QED BY <1>2, <1>3, <1>5, <1>8, <2>1
<1>11. \A t \in DOMAIN gin' : gin'[t] \in DOMAIN acc'
  BY <1>2, <1>5, <1>8
<1>12. \A op \in Pending' : HasBase(op) => op.base \in DOMAIN acc'
  BY <1>4, <1>5, <1>7, <1>8
<1>13. /\ dma' \in Seq(Copies) /\ dmaDone' \in [Slots -> Nat]
       /\ dma' # <<>> /\ (dma # <<>> => dma'[1] = dma[1])
  BY <1>1, StageFacts DEF HostInv
<1>14. OpTypes'
  BY <1>6, <1>13 DEF OpTypes, IsQueue, Vals
<1>15. 2 \in 0 .. Groups + 2
  BY GroupsFacts
<1>16. /\ batch' \in Batches \cup {NoBatch} /\ (batch' # NoBatch => ~batch'.graph /\ window' = batch'.streamed)
       /\ (batch' = NoBatch => step' = 0) /\ batch'.rows >= Threshold /\ batch'.rows \in DOMAIN gin'
  BY <1>1, <1>10 DEF HostInv, rows
<1>17. (copying => dma # <<>> /\ dma[1].after = 0)' /\ computeDone' \in [Slots -> Nat]
       /\ landing' \in [Slots -> (Nat \X Nat) \cup {Junk}] /\ window' \in BOOLEAN /\ copying' \in BOOLEAN
       /\ layer' \in Nat /\ step' \in 0 .. Groups + 2
  BY <1>1, <1>13, <1>15 DEF HostInv
<1> QED BY <1>9, <1>10, <1>11, <1>12, <1>13, <1>14, <1>16, <1>17 DEF HostInv

\* The replay of group n of a layer, as queued.
Replay(n) == [op |-> "replay", graph |-> <<batch.rows, n>>, base |-> gin[batch.rows],
              layer |-> layer, slot |-> n % 2, place |-> StreamerPlace, after |-> dmaDone[n % 2]]

\* What queueing a group does.
LEMMA GroupStepFacts ==
  ASSUME HostInv, StreamGroup
  PROVE  \E n \in Nat :
           /\ batch # NoBatch /\ step = n + 2 /\ n < Groups /\ step' = step + 1 /\ n % 2 \in Slots
           /\ batch.rows \in Nat \ {0} /\ batch.rows >= Threshold /\ batch.rows \in DOMAIN gin
           /\ GraphHit(batch.rows, n) \/ GraphMiss(batch.rows, n)
           /\ cur' = Append(cur, Replay(n)) /\ Replay(n) \in Replays /\ Replay(n).base \in DOMAIN acc
           /\ computeDone' = [computeDone EXCEPT ![n % 2] = Len(cur) + 1]
           /\ IF n + 1 < Groups THEN Stage(layer, n + 1) ELSE UNCHANGED <<dma, dmaDone>>
           /\ UNCHANGED <<window, copying, landing, gin, ginRows, acc, engramVars, batch, layer, forwards, outputs, summed>>
<1>1. batch # NoBatch /\ step - 2 \in 0 .. Groups - 1 /\ step' = step + 1 /\ RunGroup(batch.rows, layer, step - 2)
      /\ UNCHANGED <<window, engramVars, batch, layer, forwards, outputs, summed>>
  BY DEF StreamGroup, Running
<1>2. PICK s \in Nat : s = step
  BY GroupsFacts DEF HostInv
<1>3. PICK n \in Nat : n = step - 2 /\ step = n + 2 /\ n < Groups
  <2>1. PICK g \in Nat : g = Groups
    BY GroupsFacts
  <2>2. s - 2 \in 0 .. g - 1
    BY <1>1, <1>2, <2>1
  <2>3. s - 2 \in Nat /\ s = (s - 2) + 2 /\ s - 2 < g
    BY <2>2
  <2> QED BY <1>2, <2>1, <2>3
<1>4. n % 2 \in Slots
  BY ModRange DEF Slots
<1>5. batch.rows \in Nat \ {0}
  BY <1>1, BatchFacts
<1>6. batch.rows >= Threshold /\ batch.rows \in DOMAIN gin
  <2>1. step >= 2
    BY <1>3
  <2> QED BY <2>1 DEF HostInv
<1>7. gin[batch.rows] \in Nat \ {0} /\ gin[batch.rows] \in DOMAIN acc /\ layer \in Nat /\ dmaDone[n % 2] \in Nat
  BY <1>4, <1>6 DEF HostInv
<1>8. Replay(n) \in Replays /\ Replay(n).base \in DOMAIN acc
  BY <1>4, <1>5, <1>7 DEF Replay, Replays, StreamerPlace
<1>9. RunGroup(batch.rows, layer, n)
  BY <1>1, <1>3
<1>10. UNCHANGED acc /\ (GraphHit(batch.rows, n) \/ GraphMiss(batch.rows, n))
  BY <1>9 DEF RunGroup, GraphHit, GraphMiss
<1>11. /\ cur' = Append(cur, Replay(n))
       /\ computeDone' = [computeDone EXCEPT ![n % 2] = Len(cur) + 1]
       /\ IF n + 1 < Groups THEN Stage(layer, n + 1) ELSE UNCHANGED <<dma, dmaDone>>
       /\ UNCHANGED <<gin, ginRows, landing, copying>>
  BY <1>9 DEF RunGroup, Replay
<1> QED BY <1>1, <1>3, <1>4, <1>5, <1>6, <1>8, <1>10, <1>11

\* Queueing a group keeps the types.
LEMMA StreamGroupHost == HostInv /\ StreamGroup => HostInv'
<1> SUFFICES ASSUME HostInv, StreamGroup PROVE HostInv'
  OBVIOUS
<1>1. PICK n \in Nat :
           /\ batch # NoBatch /\ step = n + 2 /\ n < Groups /\ step' = step + 1 /\ n % 2 \in Slots
           /\ batch.rows \in Nat \ {0} /\ batch.rows >= Threshold /\ batch.rows \in DOMAIN gin
           /\ cur' = Append(cur, Replay(n)) /\ Replay(n) \in Replays /\ Replay(n).base \in DOMAIN acc
           /\ computeDone' = [computeDone EXCEPT ![n % 2] = Len(cur) + 1]
           /\ IF n + 1 < Groups THEN Stage(layer, n + 1) ELSE UNCHANGED <<dma, dmaDone>>
           /\ UNCHANGED <<window, copying, landing, gin, ginRows, acc, batch, layer>>
  BY GroupStepFacts
<1>2. KnownOp(Replay(n))
  BY <1>1 DEF KnownOp
<1>3. /\ IsQueue(cur') /\ (\A op \in Pending' : KnownOp(op)) /\ Len(cur) \in Nat
      /\ \A op \in Pending' : HasBase(op) => op.base \in DOMAIN acc
  <2>1. PICK x : x = Replay(n) /\ KnownOp(x) /\ x.base \in DOMAIN acc /\ cur' = Append(cur, x)
    BY <1>1, <1>2
  <2> QED BY <2>1, QueuedHost
<1>4. computeDone' \in [Slots -> Nat]
  <2>1. computeDone \in [Slots -> Nat]
    BY DEF HostInv
  <2>2. PICK m \in Nat : m = Len(cur) + 1
    BY <1>3
  <2> QED BY <1>1, <2>1, <2>2
<1>5. /\ dma' \in Seq(Copies) /\ dmaDone' \in [Slots -> Nat]
      /\ (dma # <<>> => dma' # <<>> /\ dma'[1] = dma[1])
  <2>1. CASE n + 1 < Groups
    <3>1. Stage(layer, n + 1) /\ n + 1 \in Nat /\ layer \in Nat
      BY <1>1, <2>1 DEF HostInv
    <3>2. PICK k \in Nat : k = n + 1
      BY <3>1
    <3> QED BY <3>1, <3>2, StageFacts
  <2>2. CASE ~(n + 1 < Groups)
    BY <1>1, <2>2 DEF HostInv, OpTypes
  <2> QED BY <2>1, <2>2
<1>6. OpTypes'
  BY <1>3, <1>5 DEF OpTypes
<1>7. step' \in 0 .. Groups + 2
  <2>1. PICK g, s : g \in Nat /\ g = Groups /\ s = step'
    BY GroupsFacts
  <2>2. n < g /\ s = (n + 2) + 1
    BY <1>1, <2>1
  <2>3. s \in 0 .. g + 2
    BY <2>1, <2>2
  <2> QED BY <2>1, <2>3
<1>8. /\ batch' \in Batches \cup {NoBatch} /\ (batch' # NoBatch => ~batch'.graph /\ window' = batch'.streamed)
      /\ batch' # NoBatch /\ batch'.rows >= Threshold /\ batch'.rows \in DOMAIN gin'
      /\ layer' \in Nat /\ window' \in BOOLEAN /\ copying' \in BOOLEAN /\ landing' \in [Slots -> (Nat \X Nat) \cup {Junk}]
  BY <1>1 DEF HostInv
<1>9. (copying => dma # <<>> /\ dma[1].after = 0)'
  BY <1>1, <1>5 DEF HostInv
<1>10. /\ ginRows' \in Nat /\ gin' \in [DOMAIN gin' -> Nat \ {0}] /\ \A t \in DOMAIN gin' : gin'[t] \in DOMAIN acc'
       /\ acc' \in [DOMAIN acc' -> [0 .. Experts - 1 -> Nat]]
       /\ \A op \in Pending' : HasBase(op) => op.base \in DOMAIN acc'
  BY <1>1, <1>3 DEF HostInv
<1> QED BY <1>4, <1>5, <1>6, <1>7, <1>8, <1>9, <1>10 DEF HostInv

\* Outputs stay where they can be.
LEMMA OutputsStep == OutputsOK /\ [Next]_vars => OutputsOK'
<1> SUFFICES ASSUME OutputsOK, [Next]_vars PROVE OutputsOK'
  OBVIOUS
<1>1. outputs' = outputs \/ outputs' = Got(batch.rows)
  BY DEF Next, vars, StartForward, Engram, CpuLayer, StreamLayer, StreamGroup, SumLayer, RunCur, RunDma, Finished
<1>2. \A t : GetBuffer(t) \in Places
  BY GotPlace DEF OutputsOK
<1> QED BY <1>1, <1>2 DEF OutputsOK, Got

\* Every step keeps the types.
LEMMA HostStep == HostInv /\ OutputsOK /\ [Next]_vars => HostInv'
<1> SUFFICES ASSUME HostInv, OutputsOK, [Next]_vars PROVE HostInv'
  OBVIOUS
<1>1. CASE \E b \in Batches : StartForward(b)
  BY <1>1, StartHost
<1>2. CASE Engram
  BY <1>2, EngramHost
<1>3. CASE CpuLayer
  BY <1>3, CpuHost
<1>4. CASE StreamLayer
  BY <1>4, StreamLayerHost
<1>5. CASE StreamGroup
  BY <1>5, StreamGroupHost
<1>6. CASE SumLayer
  BY <1>6, SumHost
<1>7. CASE RunCur
  BY <1>7, RunCurHost
<1>8. CASE RunDma
  BY <1>8, RunDmaHost
<1>9. CASE UNCHANGED vars
  <2>1. UNCHANGED <<window, cur, dma, copying, landing, computeDone, dmaDone, gin, ginRows, acc, batch, step, layer>>
    BY <1>9 DEF vars, streamVars, streamerVars, landingVars, graphVars, hostVars
  <2> QED BY <2>1 DEF HostInv, OpTypes, Pending
<1> QED BY <1>1, <1>2, <1>3, <1>4, <1>5, <1>6, <1>7, <1>8, <1>9 DEF Next, Finished

-----------------------------------------------------------------------------
(* The scratch *)

\* What is queued outside the window leaves the scratch alone, and only the window's
\* staging set lies in it.
ScratchFree(op) == op.place = "scratch" => op.op = "sum" /\ op.rows < Threshold
ScratchInv ==
  /\ ~window => dma = <<>> /\ \A op \in Pending : ScratchFree(op)
  /\ \A k \in DOMAIN staging : staging[k].place = "scratch" => k[1] = "eager-lend"

\* The decode graph leaves the scratch alone.
LEMMA CapturedFree == \A op \in Vals(Captured) : ScratchFree(op)
BY CapturedFacts DEF ScratchFree, CapturedLookup, Lookup, FirstSet, NewSet, Sum

\* The first state leaves the scratch alone.
LEMMA InitScratch == Init => ScratchInv
<1> SUFFICES ASSUME Init PROVE ScratchInv
  OBVIOUS
<1>1. cur = <<>> /\ dma = <<>> /\ Pending = {}
  <2>1. cur = <<>> /\ dma = <<>>
    BY DEF Init
  <2>2. Vals(<<>>) = {}
    BY QueueFacts, EmptySeq DEF IsQueue, Vals
  <2> QED BY <2>1, <2>2 DEF Pending, Vals
<1>2. \A k \in DOMAIN staging : staging[k].place = "resident"
  BY DEF Init, EngramInit, FirstSet, NewSet
<1> QED BY <1>1, <1>2 DEF ScratchInv

\* Every step keeps the scratch for the window.
LEMMA ScratchStep == HostInv /\ ScratchInv /\ [Next]_vars => ScratchInv'
<1> SUFFICES ASSUME HostInv, ScratchInv, [Next]_vars PROVE ScratchInv'
  OBVIOUS
<1>1. ASSUME NEW b \in Batches, StartForward(b) PROVE ScratchInv'
  <2>1. /\ (b.streamed # window => cur = <<>> /\ dma = <<>>) /\ window' = b.streamed
        /\ Pending' \subseteq Pending \cup Vals(Captured)
        /\ UNCHANGED <<dma, staging>>
    BY <1>1, StartFacts DEF HostInv, engramVars
  <2>2. ASSUME ~window' PROVE dma' = <<>> /\ \A op \in Pending' : ScratchFree(op)
    <3>1. CASE window
      <4>1. cur = <<>> /\ dma = <<>>
        BY <2>1, <2>2, <3>1
      <4>2. Vals(<<>>) = {}
        BY QueueFacts, EmptySeq DEF IsQueue, Vals
      <4>3. Pending = {}
        BY <4>1, <4>2 DEF Pending, Vals
      <4> QED BY <2>1, <4>1, <4>3, CapturedFree
    <3>2. CASE ~window
      BY <2>1, <3>2, CapturedFree DEF ScratchInv
    <3> QED BY <3>1, <3>2
  <2> QED BY <2>1, <2>2 DEF ScratchInv
<1>2. ASSUME Engram PROVE ScratchInv'
  <2>1. PICK ids, work :
          /\ staging' = [k \in DOMAIN staging \cup {TheKey} |-> IF k = TheKey THEN TheSet(ids) ELSE staging[k]]
          /\ cur' = Append(cur, Lookup(TheSet(ids), work))
    BY <1>2, EngramFacts
  <2>2. UNCHANGED <<window, dma>>
    BY <1>2, EngramFacts
  <2> DEFINE x == Lookup(TheSet(ids), work)
  <2>3. x.place = TheSet(ids).place
    BY DEF Lookup
  <2>4. TheSet(ids).place = "scratch" => TheKey[1] = "eager-lend" /\ window
    <3>1. CASE Missing(TheKey, batch.rows)
      BY <3>1 DEF TheSet, SetFor, NewSet, Region, TheKey, Key
    <3>2. CASE ~Missing(TheKey, batch.rows)
      <4>1. TheSet(ids) = staging[TheKey] /\ TheKey \in DOMAIN staging
        BY <3>2 DEF TheSet, SetFor, Missing
      <4>2. TheSet(ids).place = "scratch" => TheKey[1] = "eager-lend"
        BY <4>1 DEF ScratchInv
      <4>3. TheKey[1] = "eager-lend" => window
        BY DEF TheKey, Key
      <4> QED BY <4>2, <4>3
    <3> QED BY <3>1, <3>2
  <2> HIDE DEF x
  <2>5. Pending' = Pending \cup {x}
    <3>1. IsQueue(cur)
      BY DEF HostInv, OpTypes
    <3>2. Vals(cur') = Vals(cur) \cup {x}
      BY <2>1, <3>1, AppendQueue DEF x
    <3> QED BY <3>2 DEF Pending, Vals
  <2> QED BY <2>1, <2>2, <2>3, <2>4, <2>5 DEF ScratchInv, ScratchFree
<1>3. ASSUME CpuLayer PROVE ScratchInv'
  <2> DEFINE x == Sum(batch.rows, NoBase, CpuExperts, GetBuffer(batch.rows))
  <2>1. /\ batch # NoBatch /\ ~(batch.rows >= Threshold) /\ cur' = Append(cur, x)
        /\ UNCHANGED <<window, dma, staging>>
    BY <1>3 DEF CpuLayer, Running, StreamPrefillFor, engramVars
  <2>2. ScratchFree(x)
    <3>1. batch.rows < Threshold
      <4>1. batch.rows \in Nat /\ Threshold \in Nat
        BY <2>1, BatchFacts, Numbers
      <4> QED BY <2>1, <4>1
    <3> QED BY <3>1 DEF ScratchFree, Sum
  <2> HIDE DEF x
  <2>3. Pending' = Pending \cup {x}
    <3>1. IsQueue(cur)
      BY DEF HostInv, OpTypes
    <3>2. Vals(cur') = Vals(cur) \cup {x}
      BY <2>1, <3>1, AppendQueue
    <3> QED BY <3>2 DEF Pending, Vals
  <2> QED BY <2>1, <2>2, <2>3 DEF ScratchInv
<1>4. ASSUME StreamLayer \/ StreamGroup \/ SumLayer PROVE ScratchInv'
  <2>1. batch # NoBatch /\ UNCHANGED <<window, staging>>
    BY <1>4 DEF StreamLayer, StreamGroup, SumLayer, Running, engramVars
  <2>2. batch.rows >= Threshold
    <3>1. CASE StreamLayer
      BY <3>1 DEF StreamLayer, StreamPrefillFor
    <3>2. CASE StreamGroup
      BY <3>2, GroupStepFacts
    <3>3. CASE SumLayer
      <4>1. step >= 2
        BY <3>3, GroupsFacts DEF SumLayer
      <4> QED BY <4>1 DEF HostInv
    <3> QED BY <1>4, <3>1, <3>2, <3>3
  <2>3. window
    BY <2>1, <2>2, BatchFacts
  <2> QED BY <2>1, <2>3 DEF ScratchInv
<1>5. ASSUME RunCur PROVE ScratchInv'
  <2>1. Pending' \subseteq Pending /\ dma' = Sooner(dma) /\ UNCHANGED <<window, staging>>
    BY <1>5, RunCurFacts DEF HostInv, engramVars
  <2>2. dma = <<>> => dma' = <<>>
    <3> SUFFICES ASSUME dma = <<>> PROVE dma' = <<>>
      OBVIOUS
    <3>1. dma' \in Seq(Copies) /\ Len(dma') = Len(dma)
      BY <2>1, SoonerFacts DEF HostInv, OpTypes
    <3> QED BY <3>1, EmptySeq
  <2> QED BY <2>1, <2>2 DEF ScratchInv
<1>6. ASSUME RunDma PROVE ScratchInv'
  <2>1. dma # <<>> /\ UNCHANGED <<window, staging>>
    BY <1>6 DEF RunDma, BeginCopy, EndCopy, HostInv, engramVars
  <2>2. window
    BY <2>1 DEF ScratchInv
  <2> QED BY <2>1, <2>2 DEF ScratchInv
<1>7. ASSUME UNCHANGED vars PROVE ScratchInv'
  <2>1. UNCHANGED <<window, cur, dma, staging>>
    BY <1>7 DEF vars, streamVars, engramVars
  <2> QED BY <2>1 DEF ScratchInv, Pending
<1> QED BY <1>1, <1>2, <1>3, <1>4, <1>5, <1>6, <1>7 DEF Next, Finished

-----------------------------------------------------------------------------
(* What the queued operations point at *)

OwnKey == <<"own", Capacity(Graphed)>>
FirstKey == <<FirstSet.ids, Graphed>>

\* A lookup finds its Work and its set.
Alive(op) ==
  /\ \E wk \in DOMAIN works : works[wk].id = op.work
  /\ op.into = op.set
  /\ \E k \in DOMAIN staging : staging[k].id = op.set

QueuedLookupsAlive == \A op \in Pending : op.op = "lookup" => Alive(op)

\* Queued lookups and replays find what they point at; the decode graph's set and Work
\* are never replaced; a Work names the set whose pinned ids it was made for, and no two
\* sets have the same pinned ids.
Named(wk, k) == wk[1] = staging[k].ids /\ works[wk].set = staging[k].id
AliveInv ==
  /\ QueuedLookupsAlive /\ GraphsAlive
  /\ OwnKey \in DOMAIN staging /\ staging[OwnKey] = FirstSet
  /\ FirstKey \in DOMAIN works /\ works[FirstKey] = FirstWork
  /\ \A wk \in DOMAIN works : \E k \in DOMAIN staging : Named(wk, k)
  /\ \A k, l \in DOMAIN staging : staging[k].ids = staging[l].ids => k = l
  /\ graphUse \in [DOMAIN graphUse -> Nat]

\* Those queued and the decode graph's: every lookup is alive.
LEMMA AliveLookups == AliveInv => LookupsAlive
<1> SUFFICES ASSUME AliveInv PROVE LookupsAlive
  OBVIOUS
<1>1. Alive(CapturedLookup)
  BY DEF AliveInv, Alive, CapturedLookup, Lookup, FirstSet, NewSet, FirstWork
<1>2. \A op : (\E s \in LiveSets : s.id = op.set) <=> \E k \in DOMAIN staging : staging[k].id = op.set
  BY DEF LiveSets
<1> QED BY <1>1, <1>2 DEF AliveInv, QueuedLookupsAlive, LookupsAlive, Lookups, Alive

\* In the first state only the decode graph has a lookup.
LEMMA InitAlive == Init => AliveInv
<1> SUFFICES ASSUME Init PROVE AliveInv
  OBVIOUS
<1>1. Pending = {}
  <2>1. cur = <<>>
    BY DEF Init
  <2>2. Vals(<<>>) = {}
    BY QueueFacts, EmptySeq DEF IsQueue, Vals
  <2> QED BY <2>1, <2>2 DEF Pending, Vals
<1>2. staging = [k \in {OwnKey} |-> FirstSet] /\ works = [wk \in {FirstKey} |-> FirstWork]
  BY DEF Init, EngramInit, OwnKey, FirstKey
<1>3. /\ DOMAIN staging = {OwnKey} /\ staging[OwnKey] = FirstSet
      /\ DOMAIN works = {FirstKey} /\ works[FirstKey] = FirstWork
  BY <1>2
<1>4. QueuedLookupsAlive
  BY <1>1 DEF QueuedLookupsAlive
<1>5. Named(FirstKey, OwnKey)
  BY <1>3 DEF Named, FirstKey, FirstWork, FirstSet, NewSet
<1>6. graphUse \in [DOMAIN graphUse -> Nat]
  BY DEF Init, StreamerInit
<1> QED BY <1>1, <1>3, <1>4, <1>5, <1>6 DEF AliveInv, GraphsAlive

\* A set that is missing is not the decode graph's.
LEMMA MissingKey ==
  ASSUME NEW count, OwnKey \in DOMAIN staging, Missing(Key(count), count)
  PROVE  Key(count) # OwnKey
<1>1. CASE Eager(count)
  <2>1. Key(count)[1] # "own" /\ OwnKey[1] = "own"
    BY <1>1 DEF Key, OwnKey
  <2> QED BY <2>1
<1>2. CASE ~Eager(count)
  BY <1>2 DEF Missing
<1> QED BY <1>1, <1>2

\* A forward's lookup leaves every queued one its Work and its set, and finds its own.
LEMMA EngramAlive == HostInv /\ AliveInv /\ Engram => AliveInv'
<1> SUFFICES ASSUME HostInv, AliveInv, Engram PROVE AliveInv'
  OBVIOUS
<1> DEFINE n == batch.rows
           missing == Missing(TheKey, n)
           gone == missing /\ TheKey \in DOMAIN staging
<1>1. PICK ids, work :
        /\ IF missing THEN FreeFor(TheKey, ids) ELSE ids = staging[TheKey].ids
        /\ MayTrim(Wk(ids), Left)
        /\ staging' = [k \in DOMAIN staging \cup {TheKey} |-> IF k = TheKey THEN TheSet(ids) ELSE staging[k]]
        /\ works' = [k \in Kept(ids) \cup {Wk(ids)} |-> IF k = Wk(ids) THEN work ELSE works[k]]
        /\ IF Wk(ids) \in Kept(ids) THEN work = works[Wk(ids)] ELSE work.set = TheSet(ids).id
        /\ cur' = Append(cur, Lookup(TheSet(ids), work))
  BY EngramFacts
<1>2. MayReplace(TheKey, n) /\ UNCHANGED <<graphs, graphUse>>
  BY EngramFacts DEF streamerVars, graphVars
<1> DEFINE set == TheSet(ids)
           wk0 == Wk(ids)
           kept == Kept(ids)
           x == Lookup(set, work)
<1>3. /\ missing => TheKey # OwnKey
      /\ ~missing => set = staging[TheKey] /\ TheKey \in DOMAIN staging
      /\ set.ids = ids
  <2>1. missing => TheKey # OwnKey
    BY MissingKey DEF AliveInv, TheKey
  <2>2. ~missing => set = staging[TheKey] /\ TheKey \in DOMAIN staging
    BY DEF Missing, TheSet, SetFor
  <2>3. missing => set.ids = ids
    BY DEF TheSet, SetFor, NewSet
  <2>4. ~missing => set.ids = ids
    BY <1>1, <2>2
  <2> QED BY <2>1, <2>2, <2>3, <2>4
<1>4. /\ kept \subseteq DOMAIN works
      /\ gone => \A wk \in kept : wk[1] # staging[TheKey].ids
      /\ ~gone => Left = DOMAIN works
      /\ kept # Left => Idle
      /\ gone => Idle
      /\ \A wk \in Left : wk[2] < EagerRows => wk \in kept
      /\ ~gone => \A wk \in DOMAIN works : wk \in Left
      /\ gone => \A wk \in DOMAIN works : wk[1] # staging[TheKey].ids => wk \in Left
  <2>1. Left = IF gone THEN {wk \in DOMAIN works : wk[1] # staging[TheKey].ids} ELSE DOMAIN works
    BY DEF Left, WorksAfter
  <2>2. kept \subseteq Left /\ (kept # Left => TooMany(wk0, Left)) /\ \A wk \in Left : wk[2] < EagerRows => wk \in kept
    BY DEF Kept, Trimmed
  <2>3. (TooMany(wk0, Left) => Idle) /\ (gone => Idle)
    BY <1>1, <1>2 DEF MayTrim, MayReplace
  <2> QED BY <2>1, <2>2, <2>3
<1>5. work.id = work.id /\ x.op = "lookup" /\ x.set = set.id /\ x.work = work.id /\ x.into = work.set
  BY DEF Lookup
<1>6. FirstKey[1] = FirstSet.ids /\ FirstKey[2] = Graphed /\ Graphed < EagerRows /\ wk0[1] = ids
  BY Numbers DEF FirstKey, Wk
<1>7. /\ OwnKey \in DOMAIN staging /\ staging[OwnKey] = FirstSet
      /\ FirstKey \in DOMAIN works /\ works[FirstKey] = FirstWork
      /\ \A wk \in DOMAIN works : \E k \in DOMAIN staging : Named(wk, k)
      /\ \A k, l \in DOMAIN staging : staging[k].ids = staging[l].ids => k = l
  BY DEF AliveInv
<1>8. IsQueue(cur) /\ (Idle => Pending = {})
  <2>1. Vals(<<>>) = {}
    BY QueueFacts, EmptySeq DEF IsQueue, Vals
  <2> QED BY <2>1 DEF HostInv, OpTypes, Idle, Pending, Vals
<1>9. /\ DOMAIN staging' = DOMAIN staging \cup {TheKey} /\ staging'[TheKey] = set
      /\ \A k \in DOMAIN staging : k # TheKey => staging'[k] = staging[k]
      /\ DOMAIN works' = kept \cup {wk0} /\ works'[wk0] = work
      /\ \A wk \in kept : wk # wk0 => works'[wk] = works[wk]
  BY <1>1
<1>10. IF wk0 \in kept THEN work = works[wk0] ELSE work.set = set.id
  BY <1>1
<1>11. IF missing THEN \A k \in DOMAIN staging \ {TheKey} : staging[k].ids # ids ELSE ids = staging[TheKey].ids
  BY <1>1 DEF FreeFor
<1>12. Pending' = Pending \cup {x}
  <2>1. Vals(cur') = Vals(cur) \cup {x}
    BY <1>1, <1>8, AppendQueue
  <2> QED BY <2>1 DEF Pending, Vals
<1>30. PICK key, new, at, left, y :
         /\ missing => key # OwnKey
         /\ ~missing => new = staging[key] /\ key \in DOMAIN staging
         /\ new.ids = ids /\ at[1] = ids
         /\ IF at \in left THEN work = works[at] ELSE work.set = new.id
         /\ IF missing THEN \A k \in DOMAIN staging \ {key} : staging[k].ids # ids ELSE ids = staging[key].ids
         /\ left \subseteq DOMAIN works
         /\ gone <=> missing /\ key \in DOMAIN staging
         /\ gone => \A wk \in left : wk[1] # staging[key].ids
         /\ ~gone /\ left # DOMAIN works => Idle
         /\ gone => Idle
         /\ (gone => FirstKey[1] # staging[key].ids) => FirstKey \in left
         /\ y.op = "lookup" /\ y.set = new.id /\ y.work = work.id /\ y.into = work.set
         /\ DOMAIN staging' = DOMAIN staging \cup {key} /\ staging'[key] = new
         /\ \A k \in DOMAIN staging : k # key => staging'[k] = staging[k]
         /\ DOMAIN works' = left \cup {at} /\ works'[at] = work
         /\ \A wk \in left : wk # at => works'[wk] = works[wk]
         /\ Pending' = Pending \cup {y}
  <2>1. (gone => FirstKey[1] # staging[TheKey].ids) => FirstKey \in kept
    <3> SUFFICES ASSUME gone => FirstKey[1] # staging[TheKey].ids PROVE FirstKey \in kept
      OBVIOUS
    <3>1. FirstKey \in Left
      BY <1>4, <1>7
    <3> QED BY <1>4, <1>6, <3>1
  <2>2. ~gone /\ kept # DOMAIN works => Idle
    BY <1>4
  <2>3. gone <=> missing /\ TheKey \in DOMAIN staging
    OBVIOUS
  <2>4. /\ kept \subseteq DOMAIN works
        /\ gone => Idle
        /\ gone => \A wk \in kept : wk[1] # staging[TheKey].ids
    BY <1>4
  <2>5. wk0[1] = ids
    BY <1>6
  <2> HIDE DEF missing, gone, set, wk0, kept, x
  <2> WITNESS TheKey, set, wk0, kept, x
  <2>6. /\ missing => TheKey # OwnKey
        /\ ~missing => set = staging[TheKey] /\ TheKey \in DOMAIN staging
        /\ set.ids = ids
    BY <1>3
  <2>7. x.op = "lookup" /\ x.set = set.id /\ x.work = work.id /\ x.into = work.set
    BY <1>5
  <2>8. /\ DOMAIN staging' = DOMAIN staging \cup {TheKey} /\ staging'[TheKey] = set
        /\ \A k \in DOMAIN staging : k # TheKey => staging'[k] = staging[k]
    BY <1>9
  <2>9. /\ DOMAIN works' = kept \cup {wk0} /\ works'[wk0] = work
        /\ \A wk \in kept : wk # wk0 => works'[wk] = works[wk]
    BY <1>9
  <2>10. /\ IF wk0 \in kept THEN work = works[wk0] ELSE work.set = set.id
         /\ IF missing THEN \A k \in DOMAIN staging \ {TheKey} : staging[k].ids # ids ELSE ids = staging[TheKey].ids
    BY <1>10, <1>11
  <2>11. /\ gone <=> missing /\ TheKey \in DOMAIN staging
         /\ gone => \A wk \in kept : wk[1] # staging[TheKey].ids
         /\ ~gone /\ kept # DOMAIN works => Idle
         /\ gone => Idle
         /\ (gone => FirstKey[1] # staging[TheKey].ids) => FirstKey \in kept
    BY <2>1, <2>2, <2>3, <2>4
  <2>12. Pending' = Pending \cup {x} /\ kept \subseteq DOMAIN works
    BY <1>12, <2>4
  <2> QED BY <2>5, <2>6, <2>7, <2>8, <2>9, <2>10, <2>11, <2>12, Zenon
<1> HIDE DEF n, missing, gone, set, wk0, kept, x
<1>31. FirstKey[1] = FirstSet.ids
  BY <1>6
<1>13. (staging[OwnKey] = FirstSet)' /\ OwnKey \in DOMAIN staging'
  BY <1>30, <1>7
<1>14. FirstKey \in left /\ works'[FirstKey] = FirstWork
  <2>1. gone => FirstKey[1] # staging[key].ids
    BY <1>7, <1>30, <1>31
  <2>2. FirstKey \in left
    BY <1>30, <2>1
  <2>3. CASE FirstKey = at
    BY <1>7, <1>30, <2>2, <2>3
  <2>4. CASE FirstKey # at
    BY <1>7, <1>30, <2>2, <2>4
  <2> QED BY <2>2, <2>3, <2>4
<1>15. \A wk \in left : \E k \in DOMAIN staging : Named(wk, k) /\ staging'[k] = staging[k] /\ (missing => k # key)
  <2> SUFFICES ASSUME NEW wk \in left
               PROVE  \E k \in DOMAIN staging : Named(wk, k) /\ staging'[k] = staging[k] /\ (missing => k # key)
    OBVIOUS
  <2>1. PICK k \in DOMAIN staging : Named(wk, k)
    BY <1>30, <1>7
  <2>2. missing => k # key
    BY <1>30, <2>1 DEF Named
  <2>3. staging'[k] = staging[k]
    BY <1>30, <2>2
  <2> QED BY <2>1, <2>2, <2>3
<1>16. work.set = new.id
  <2>1. CASE at \in left
    <3>1. PICK k \in DOMAIN staging : Named(at, k) /\ (missing => k # key)
      BY <1>15, <2>1
    <3>2. ids = staging[k].ids /\ works[at].set = staging[k].id
      BY <1>30, <3>1 DEF Named
    <3>3. ~missing /\ k = key
      BY <1>30, <1>7, <3>1, <3>2
    <3> QED BY <1>30, <2>1, <3>2, <3>3
  <2>2. CASE at \notin left
    BY <1>30, <2>2
  <2> QED BY <2>1, <2>2
<1>17. \A wk \in DOMAIN works' : \E k \in DOMAIN staging' : wk[1] = staging'[k].ids /\ works'[wk].set = staging'[k].id
  <2> SUFFICES ASSUME NEW wk \in DOMAIN works'
               PROVE  \E k \in DOMAIN staging' : wk[1] = staging'[k].ids /\ works'[wk].set = staging'[k].id
    OBVIOUS
  <2>1. CASE wk = at
    BY <1>30, <1>16, <2>1
  <2>2. CASE wk # at
    <3>1. PICK k \in DOMAIN staging : Named(wk, k) /\ staging'[k] = staging[k]
      BY <1>30, <1>15, <2>2
    <3> QED BY <1>30, <2>2, <3>1 DEF Named
  <2> QED BY <2>1, <2>2
<1>18. \A k, l \in DOMAIN staging' : staging'[k].ids = staging'[l].ids => k = l
  <2>1. CASE missing
    <3>1. \A k \in DOMAIN staging' : k # key => k \in DOMAIN staging /\ staging'[k] = staging[k] /\ staging'[k].ids # ids
      BY <1>30, <2>1
    <3>2. staging'[key].ids = ids
      BY <1>30
    <3> QED BY <1>7, <3>1, <3>2
  <2>2. CASE ~missing
    <3>1. \A k \in DOMAIN staging' : k \in DOMAIN staging /\ staging'[k] = staging[k]
      BY <1>30, <2>2
    <3> QED BY <1>7, <3>1
  <2> QED BY <2>1, <2>2
<1>19. Alive(y)'
  <2>1. at \in DOMAIN works' /\ works'[at].id = y.work
    BY <1>30
  <2>2. key \in DOMAIN staging' /\ staging'[key].id = y.set
    BY <1>30
  <2>3. y.into = y.set
    BY <1>30, <1>16
  <2>4. PICK k : k = key /\ k \in DOMAIN staging' /\ staging'[k].id = y.set
    BY <2>2
  <2> QED BY <2>1, <2>3, <2>4 DEF Alive
<1>20. ASSUME NEW op \in Pending, op.op = "lookup" PROVE Alive(op)'
  <2>1. ~Idle
    BY <1>8
  <2>2. ~gone /\ left = DOMAIN works
    BY <1>30, <2>1
  <2>3. Alive(op)
    BY <1>20 DEF AliveInv, QueuedLookupsAlive
  <2>4. \A k \in DOMAIN staging : k \in DOMAIN staging' /\ staging'[k] = staging[k]
    BY <1>30, <2>2
  <2>5. \A wk \in DOMAIN works : wk \in DOMAIN works' /\ works'[wk] = works[wk]
    BY <1>30, <2>2
  <2> QED BY <2>3, <2>4, <2>5 DEF Alive
<1>21. QueuedLookupsAlive'
  BY <1>19, <1>20, <1>30 DEF QueuedLookupsAlive
<1>22. GraphsAlive'
  <2>1. y.op # "replay"
    BY <1>30
  <2> QED BY <1>2, <1>30, <2>1 DEF AliveInv, GraphsAlive
<1>23. graphUse' \in [DOMAIN graphUse' -> Nat]
  BY <1>2 DEF AliveInv
<1>24. (\A wk \in DOMAIN works : \E k \in DOMAIN staging : Named(wk, k))'
  BY <1>17 DEF Named
<1>25. FirstKey \in DOMAIN works'
  BY <1>30, <1>14
<1> QED BY <1>13, <1>14, <1>18, <1>21, <1>22, <1>23, <1>24, <1>25 DEF AliveInv

\* What the sets and the Works of lookups are, unchanged.
LEMMA SameEngram ==
  ASSUME AliveInv, UNCHANGED engramVars, GraphsAlive', graphUse' \in [DOMAIN graphUse' -> Nat],
         \A op \in Pending' : op.op = "lookup" => Alive(op)
  PROVE  AliveInv'
<1>1. UNCHANGED <<staging, works>>
  BY DEF engramVars
<1>2. QueuedLookupsAlive'
  BY <1>1 DEF QueuedLookupsAlive, Alive
<1> QED BY <1>1, <1>2 DEF AliveInv, Named

\* An operation that points at nothing, or at a graph that is there, is queued.
LEMMA QueuedKeeps ==
  ASSUME AliveInv, NEW x, x.op # "lookup", x.op = "replay" => x.graph \in graphs',
         UNCHANGED engramVars, Pending' = Pending \cup {x}, Pending # {} => graphs \subseteq graphs',
         graphUse' \in [DOMAIN graphUse' -> Nat]
  PROVE  AliveInv'
<1>1. \A op \in Pending : op.op = "lookup" => Alive(op)
  BY DEF AliveInv, QueuedLookupsAlive
<1>2. GraphsAlive'
  BY DEF AliveInv, GraphsAlive
<1> QED BY <1>1, <1>2, SameEngram

\* The use of a row count: every age is a number, its own the least.
LEMMA UseFacts ==
  ASSUME graphUse \in [DOMAIN graphUse -> Nat], NEW rows
  PROVE  /\ Use(rows) \in [DOMAIN Use(rows) -> Nat] /\ rows \in DOMAIN Use(rows) /\ Use(rows)[rows] = 0
         /\ rows \notin TrimGraphs(Use(rows))
<1> DEFINE use == Use(rows)
<1>1. /\ DOMAIN use = DOMAIN graphUse \cup {rows} /\ use[rows] = 0
      /\ use \in [DOMAIN use -> Nat]
  <2>1. DOMAIN use = DOMAIN graphUse \cup {rows} /\ use[rows] = 0
    BY DEF Use
  <2>2. \A t \in DOMAIN graphUse : t # rows => use[t] = graphUse[t] \/ use[t] = graphUse[t] + 1
    BY DEF Use
  <2>3. \A t \in DOMAIN use : use[t] \in Nat
    BY <2>1, <2>2
  <2>4. use = [t \in DOMAIN use |-> use[t]]
    BY DEF Use
  <2> QED BY <2>1, <2>3, <2>4
<1> HIDE DEF use
<1>2. UsedSince(use, rows) = {}
  BY <1>1 DEF UsedSince
<1>3. Cardinality(UsedSince(use, rows)) = 0
  BY <1>2, FS_EmptySet
<1>4. rows \notin TrimGraphs(use)
  BY <1>3, Numbers DEF TrimGraphs
<1> QED BY <1>1, <1>4 DEF use

\* A group's graph is there when its replay is queued, and those of queued replays stay.
LEMMA GroupAlive == HostInv /\ AliveInv /\ StreamGroup => AliveInv'
<1> SUFFICES ASSUME HostInv, AliveInv, StreamGroup PROVE AliveInv'
  OBVIOUS
<1>1. PICK n \in Nat :
        /\ GraphHit(batch.rows, n) \/ GraphMiss(batch.rows, n)
        /\ cur' = Append(cur, Replay(n)) /\ Replay(n) \in Replays /\ Replay(n).base \in DOMAIN acc
        /\ UNCHANGED engramVars
  BY GroupStepFacts
<1>2. PICK x : /\ x.op = "replay" /\ x.graph = <<batch.rows, n>> /\ KnownOp(x) /\ x.base \in DOMAIN acc
               /\ cur' = Append(cur, x)
  <2>1. KnownOp(Replay(n))
    BY <1>1 DEF KnownOp
  <2> QED BY <1>1, <2>1 DEF Replay
<1>3. Pending' = Pending \cup {x}
  BY <1>2, QueuedHost
<1>4. Idle => Pending = {}
  <2>1. Vals(<<>>) = {}
    BY QueueFacts, EmptySeq DEF IsQueue, Vals
  <2> QED BY <2>1 DEF Idle, Pending, Vals
<1>5. /\ Use(batch.rows) \in [DOMAIN Use(batch.rows) -> Nat] /\ batch.rows \notin TrimGraphs(Use(batch.rows))
  BY UseFacts DEF AliveInv
<1>6. CASE GraphHit(batch.rows, n)
  <2>1. <<batch.rows, n>> \in graphs /\ graphs' = graphs /\ graphUse' = Use(batch.rows)
    BY <1>6 DEF GraphHit
  <2> QED BY <1>1, <1>2, <1>3, <1>5, <2>1, QueuedKeeps
<1>7. CASE GraphMiss(batch.rows, n)
  <2>1. PICK drop, use : /\ drop = TrimGraphs(use) /\ use = Use(batch.rows) /\ Idle
                         /\ graphs' = {k \in graphs \cup {<<batch.rows, n>>} : k[1] \notin drop}
                         /\ graphUse' = [t \in DOMAIN use \ drop |-> use[t]]
    BY <1>7 DEF GraphMiss
  <2>2. <<batch.rows, n>> \in graphs'
    BY <1>5, <2>1
  <2>3. graphUse' \in [DOMAIN graphUse' -> Nat]
    <3>1. use \in [DOMAIN use -> Nat]
      BY <1>5, <2>1
    <3> QED BY <2>1, <3>1
  <2>4. Pending = {}
    BY <1>4, <2>1
  <2> QED BY <1>1, <1>2, <1>3, <2>2, <2>3, <2>4, QueuedKeeps
<1> QED BY <1>1, <1>6, <1>7

\* Every step leaves what is queued what it points at.
LEMMA AliveStep == HostInv /\ AliveInv /\ [Next]_vars => AliveInv'
<1> SUFFICES ASSUME HostInv, AliveInv, [Next]_vars PROVE AliveInv'
  OBVIOUS
<1>1. /\ graphUse \in [DOMAIN graphUse -> Nat]
      /\ \A op \in Pending : /\ op.op = "lookup" => Alive(op)
                             /\ op.op = "replay" => op.graph \in graphs
  BY DEF AliveInv, QueuedLookupsAlive, GraphsAlive
<1>2. ASSUME NEW b \in Batches, StartForward(b) PROVE AliveInv'
  <2>1. Pending' \subseteq Pending \cup Vals(Captured) /\ UNCHANGED <<engramVars, graphs, graphUse>>
    BY <1>2, StartFacts DEF HostInv, streamerVars, graphVars
  <2>2. Alive(CapturedLookup)
    BY DEF AliveInv, Alive, CapturedLookup, Lookup, FirstSet, NewSet, FirstWork
  <2>3. \A op \in Vals(Captured) : op.op # "replay" /\ (op.op = "lookup" => Alive(op))
    <3>1. Sum(Graphed, NoBase, CpuExperts, "resident").op # "lookup"
      BY DEF Sum
    <3> QED BY <2>2, <3>1, CapturedFacts, CapturedOps
  <2>4. GraphsAlive' /\ \A op \in Pending' : op.op = "lookup" => Alive(op)
    BY <1>1, <2>1, <2>3 DEF GraphsAlive
  <2> QED BY <1>1, <2>1, <2>4, SameEngram
<1>3. ASSUME Engram PROVE AliveInv'
  BY <1>3, EngramAlive
<1>4. ASSUME CpuLayer \/ SumLayer \/ StreamLayer PROVE AliveInv'
  <2>1. PICK x : x.op \notin {"lookup", "replay"} /\ cur' = Append(cur, x)
    BY <1>4 DEF CpuLayer, SumLayer, StreamLayer, GraphInputs, Sum
  <2>2. UNCHANGED <<engramVars, graphs, graphUse>>
    BY <1>4 DEF CpuLayer, SumLayer, StreamLayer, streamerVars, graphVars
  <2>3. Pending' = Pending \cup {x}
    <3>1. IsQueue(cur)
      BY DEF HostInv, OpTypes
    <3>2. Vals(cur') = Vals(cur) \cup {x}
      BY <2>1, <3>1, AppendQueue
    <3> QED BY <3>2 DEF Pending, Vals
  <2> QED BY <1>1, <2>1, <2>2, <2>3, QueuedKeeps
<1>5. ASSUME StreamGroup PROVE AliveInv'
  BY <1>5, GroupAlive
<1>6. ASSUME RunCur PROVE AliveInv'
  <2>1. Pending' \subseteq Pending /\ UNCHANGED <<engramVars, graphs, graphUse>>
    BY <1>6, RunCurFacts DEF HostInv, graphVars
  <2>2. GraphsAlive' /\ \A op \in Pending' : op.op = "lookup" => Alive(op)
    BY <1>1, <2>1 DEF GraphsAlive
  <2> QED BY <1>1, <2>1, <2>2, SameEngram
<1>7. ASSUME RunDma PROVE AliveInv'
  <2>1. UNCHANGED <<engramVars, graphs, graphUse>>
    BY <1>7 DEF RunDma, graphVars
  <2>2. \A op \in Pending' : op \in Pending \/ \E o \in Pending : o.op = "replay" /\ op.op = "replay" /\ op.graph = o.graph
    <3>1. CASE BeginCopy
      BY <3>1 DEF BeginCopy, Pending
    <3>2. CASE EndCopy
      <4>1. /\ OpTypes /\ IsQueue(cur') /\ Len(cur') = Len(cur)
            /\ \A i \in 1 .. Len(cur) :
                 IF cur[i].op = "replay"
                 THEN cur[i] \in Replays /\ cur'[i] = [cur[i] EXCEPT !.after = Less(cur[i].after)] /\ cur'[i] \in Replays
                 ELSE cur'[i] = cur[i]
        BY <3>2, EndCopyFacts DEF HostInv
      <4>2. Pending = {cur[i] : i \in 1 .. Len(cur)} /\ Pending' = {cur'[i] : i \in 1 .. Len(cur)}
        <5>1. DOMAIN cur = 1 .. Len(cur) /\ DOMAIN cur' = 1 .. Len(cur')
          BY <4>1, QueueFacts DEF OpTypes
        <5> QED BY <4>1, <5>1 DEF Pending
      <4>3. ASSUME NEW i \in 1 .. Len(cur), cur[i].op = "replay"
            PROVE  cur'[i].op = "replay" /\ cur'[i].graph = cur[i].graph
        BY <4>1, <4>3 DEF Replays
      <4> SUFFICES ASSUME NEW i \in 1 .. Len(cur)
                   PROVE  \/ cur'[i] \in Pending
                          \/ \E o \in Pending : o.op = "replay" /\ cur'[i].op = "replay" /\ cur'[i].graph = o.graph
        BY <4>2
      <4>4. cur[i] \in Pending
        BY <4>2
      <4> QED BY <4>1, <4>3, <4>4
    <3> QED BY <1>7, <3>1, <3>2 DEF RunDma
  <2>3. GraphsAlive' /\ \A op \in Pending' : op.op = "lookup" => Alive(op)
    BY <1>1, <2>1, <2>2 DEF GraphsAlive
  <2> QED BY <1>1, <2>1, <2>3, SameEngram
<1>8. ASSUME UNCHANGED vars PROVE AliveInv'
  <2>1. Pending' = Pending /\ UNCHANGED <<engramVars, graphs, graphUse>>
    BY <1>8 DEF vars, streamVars, engramVars, streamerVars, graphVars, Pending
  <2>2. GraphsAlive' /\ \A op \in Pending' : op.op = "lookup" => Alive(op)
    BY <1>1, <2>1 DEF GraphsAlive
  <2> QED BY <1>1, <2>1, <2>2, SameEngram
<1> QED BY <1>2, <1>3, <1>4, <1>5, <1>6, <1>7, <1>8 DEF Next, Finished

-----------------------------------------------------------------------------
(* The accumulator and the landings *)

\* The accumulator after the first n groups.
Partial(n) == [e \in 0 .. Experts - 1 |-> IF Hot <= e /\ e < Hot + n * G THEN 1 ELSE 0]

\* What is queued at place k (or has run, k = 0) leaves n groups in the accumulator of
\* the base.
Makes(op, base, n) ==
  /\ op.op \in {"zero", "replay"} /\ op.base = base
  /\ n = IF op.op = "zero" THEN 0 ELSE op.graph[2] + 1
After(k, base, n) == IF k = 0 THEN acc[base] = Partial(n) ELSE Makes(cur[k], base, n)

\* A replay, and a sum, finds the groups before it in its accumulator; so does what
\* the host queues next.
Chained(k) ==
  /\ cur[k].op = "replay" => After(k - 1, cur[k].base, cur[k].graph[2])
  /\ cur[k].op = "sum" /\ cur[k].base # NoBase => After(k - 1, cur[k].base, Groups)
ChainInv ==
  /\ \A k \in 1 .. Len(cur) : Chained(k)
  /\ \A n \in Nat : step = n + 2 => After(Len(cur), gin[batch.rows], n)

\* The CPU's experts of a sum are those no group of its base has.
Shared(op) ==
  op.op = "sum" => op.cpu = IF op.base = NoBase THEN CpuExperts ELSE Cutoff .. Experts - 1
SumsInv == \A op \in Pending : Shared(op)

\* The group is in the landing, or will be when the first `after` copies have ended.
Lands(group, slot, after) ==
  IF after = 0 THEN landing[slot] = group
  ELSE after \in 1 .. Len(dma) /\ dma[after].group = group /\ dma[after].slot = slot

\* A replay finds its group in its landing: copies into it that come later wait for the
\* replay. The host's next group is on its way, and no copy into its landing follows.
Landed(k) ==
  /\ Lands(<<cur[k].layer, cur[k].graph[2]>>, cur[k].slot, cur[k].after)
  /\ \A j \in 1 .. Len(dma) : j > cur[k].after /\ dma[j].slot = cur[k].slot => dma[j].after >= k
  /\ computeDone[cur[k].slot] >= k
NextLanded(n) ==
  /\ Lands(<<layer, n>>, n % 2, dmaDone[n % 2])
  /\ \A j \in 1 .. Len(dma) : j > dmaDone[n % 2] => dma[j].slot # n % 2
LandingInv ==
  /\ \A k \in 1 .. Len(cur) : cur[k].op = "replay" => Landed(k)
  /\ \A n \in Nat : n < Groups /\ step = n + 2 => NextLanded(n)

AccInv == ChainInv /\ SumsInv /\ LandingInv

\* Two groups that follow each other have different landings.
LEMMA Parity == \A n \in Nat : n % 2 \in Slots /\ (n + 1) % 2 \in Slots /\ (n + 1) % 2 # n % 2
BY DEF Slots

\* No group in the accumulator.
LEMMA PartialZero == Partial(0) = NoExperts
<1>1. 0 * G = 0
  BY Numbers
<1>2. \A e \in 0 .. Experts - 1 : ~(Hot <= e /\ e < Hot + 0)
  BY Numbers
<1> QED BY <1>1, <1>2 DEF Partial, NoExperts

\* The graph of group n adds it to the groups before.
LEMMA AddedPartial ==
  ASSUME NEW op \in Replays, acc[op.base] = Partial(op.graph[2]),
         landing[op.slot] = <<op.layer, op.graph[2]>>
  PROVE  Added(op) = Partial(op.graph[2] + 1)
<1>1. PICK n \in Nat : n = op.graph[2]
  BY DEF Replays
<1>2. PICK x \in Nat, y \in Nat : x = n * G /\ y = (n + 1) * G /\ y = x + G
  BY Numbers
<1>3. Group(n) = (Hot + x) .. (Least(Hot + y, Experts) - 1)
  BY <1>2 DEF Group
<1>4. \A e \in 0 .. Experts - 1 : e \in Group(n) <=> Hot + x <= e /\ e < Hot + y
  BY <1>3, Numbers DEF Least
<1>5. PICK f : f = Partial(n) /\ \A e \in 0 .. Experts - 1 : f[e] = IF Hot <= e /\ e < Hot + x THEN 1 ELSE 0
  <2>1. PICK f : f = Partial(n)
    OBVIOUS
  <2>2. f = [e \in 0 .. Experts - 1 |-> IF Hot <= e /\ e < Hot + x THEN 1 ELSE 0]
    BY <1>2, <2>1 DEF Partial
  <2>3. \A e \in 0 .. Experts - 1 : f[e] = IF Hot <= e /\ e < Hot + x THEN 1 ELSE 0
    BY <2>2
  <2> QED BY <2>1, <2>3
<1>6. Partial(n + 1) = [e \in 0 .. Experts - 1 |-> IF Hot <= e /\ e < Hot + y THEN 1 ELSE 0]
  <2>1. PICK m : m = n + 1 /\ m * G = y
    BY <1>2
  <2>2. Partial(m) = [e \in 0 .. Experts - 1 |-> IF Hot <= e /\ e < Hot + y THEN 1 ELSE 0]
    BY <2>1 DEF Partial
  <2> QED BY <2>1, <2>2
<1>7. Added(op) = [e \in 0 .. Experts - 1 |-> IF e \notin Group(n) THEN f[e] ELSE Least(2, f[e] + 1)]
  BY <1>1, <1>5 DEF Added
<1>8. ASSUME NEW e \in 0 .. Experts - 1
      PROVE  (IF e \notin Group(n) THEN f[e] ELSE Least(2, f[e] + 1)) = IF Hot <= e /\ e < Hot + y THEN 1 ELSE 0
  <2>1. CASE e \in Group(n)
    <3>1. Hot + x <= e /\ e < Hot + y /\ Hot <= e
      BY <1>2, <1>4, <2>1, Numbers
    <3>2. f[e] = 0
      BY <1>2, <1>5, <3>1, Numbers
    <3>3. Least(2, 0 + 1) = 1
      BY DEF Least
    <3> QED BY <2>1, <3>1, <3>2, <3>3
  <2>2. CASE e \notin Group(n)
    <3>1. (Hot <= e /\ e < Hot + x) <=> (Hot <= e /\ e < Hot + y)
      BY <1>2, <1>4, <2>2, Numbers
    <3> QED BY <1>5, <2>2, <3>1
  <2> QED BY <2>1, <2>2
<1>9. Added(op) = Partial(n + 1)
  BY <1>6, <1>7, <1>8
<1> QED BY <1>1, <1>9

\* A sum has every expert once: the resident ones, those of the groups, the CPU's.
LEMMA SummedOnce ==
  ASSUME NEW op \in Sums, Shared(op), op.base # NoBase => acc[op.base] = Partial(Groups)
  PROVE  Summed(op) = Once
<1>1. PICK y \in Nat : y = Groups * G
  BY GroupsFacts, Numbers
<1>2. Cutoff = Least(Experts, Hot + y)
  BY <1>1, GroupsFacts
<1>3. op.cpu = IF op.base = NoBase THEN CpuExperts ELSE Cutoff .. Experts - 1
  BY DEF Shared, Sums
<1>4. CASE op.base = NoBase
  <2>1. \A e \in 0 .. Experts - 1 : e \in CpuExperts <=> ~(e < Hot)
    BY Numbers DEF CpuExperts
  <2>2. \A e \in 0 .. Experts - 1 :
          (IF e < Hot THEN 1 ELSE 0) + (IF e \in op.cpu THEN 1 ELSE 0)
          + (IF op.base = NoBase THEN 0 ELSE acc[op.base][e]) = 1
    BY <1>3, <1>4, <2>1
  <2> QED BY <2>2 DEF Summed, Once
<1>5. CASE op.base # NoBase
  <2>1. PICK f : f = acc[op.base] /\ \A e \in 0 .. Experts - 1 : f[e] = IF Hot <= e /\ e < Hot + y THEN 1 ELSE 0
    BY <1>1, <1>5 DEF Partial
  <2>2. \A e \in 0 .. Experts - 1 : e \in op.cpu <=> Hot + y <= e
    BY <1>2, <1>3, <1>5, Numbers DEF Least
  <2>3. \A e \in 0 .. Experts - 1 :
          (IF e < Hot THEN 1 ELSE 0) + (IF Hot + y <= e THEN 1 ELSE 0)
          + (IF Hot <= e /\ e < Hot + y THEN 1 ELSE 0) = 1
    BY <1>1, Numbers
  <2>4. \A e \in 0 .. Experts - 1 :
          (IF e < Hot THEN 1 ELSE 0) + (IF e \in op.cpu THEN 1 ELSE 0)
          + (IF op.base = NoBase THEN 0 ELSE acc[op.base][e]) = 1
    BY <1>5, <2>1, <2>2, <2>3
  <2> QED BY <2>4 DEF Summed, Once
<1> QED BY <1>4, <1>5

\* The first state has nothing queued.
LEMMA InitAcc == Init => AccInv
<1> SUFFICES ASSUME Init PROVE AccInv
  OBVIOUS
<1>1. cur = <<>> /\ step = 0
  BY DEF Init
<1>2. Len(cur) = 0 /\ Pending = {}
  <2>1. Vals(<<>>) = {} /\ Len(<<>>) = 0
    BY QueueFacts, EmptySeq DEF IsQueue, Vals
  <2> QED BY <1>1, <2>1 DEF Pending, Vals
<1>3. \A k : k \notin 1 .. Len(cur)
  BY <1>2
<1>4. \A n \in Nat : step # n + 2
  BY <1>1
<1> QED BY <1>2, <1>3, <1>4 DEF AccInv, ChainInv, SumsInv, LandingInv

\* What is at a place of the queue that keeps its operations, accumulators too.
SameAt(k) ==
  IF k = 0 THEN \A b \in DOMAIN acc : acc'[b] = acc[b]
  ELSE cur'[k].op = cur[k].op /\ cur'[k].base = cur[k].base
       /\ (cur[k].op = "replay" => cur'[k].graph = cur[k].graph)

\* What comes before an operation stays.
LEMMA AfterSame ==
  ASSUME NEW k, NEW base, NEW n, SameAt(k), After(k, base, n), k = 0 => base \in DOMAIN acc
  PROVE  IF k = 0 THEN acc'[base] = Partial(n) ELSE Makes(cur'[k], base, n)
BY DEF SameAt, After, Makes

\* What was queued stays chained.
LEMMA ChainedSame ==
  ASSUME HostInv, ChainInv, \A k \in 0 .. Len(cur) : SameAt(k)
  PROVE  \A k \in 1 .. Len(cur) : Chained(k)'
<1> SUFFICES ASSUME NEW k \in 1 .. Len(cur) PROVE Chained(k)'
  OBVIOUS
<1>1. Len(cur) \in Nat /\ cur[k] \in Pending
  <2>1. IsQueue(cur)
    BY DEF HostInv, OpTypes
  <2> QED BY <2>1, QueueFacts DEF Pending, Vals
<1>2. PICK m : m = k - 1 /\ m \in 0 .. Len(cur) /\ k \in 0 .. Len(cur)
  BY <1>1
<1>3. SameAt(m) /\ SameAt(k) /\ k # 0
  BY <1>2
<1>4. cur'[k].op = cur[k].op /\ cur'[k].base = cur[k].base /\ (cur[k].op = "replay" => cur'[k].graph = cur[k].graph)
  BY <1>3 DEF SameAt
<1>5. HasBase(cur[k]) => cur[k].base \in DOMAIN acc
  BY <1>1 DEF HostInv
<1>6. /\ cur[k].op = "replay" => After(m, cur[k].base, cur[k].graph[2])
      /\ cur[k].op = "sum" /\ cur[k].base # NoBase => After(m, cur[k].base, Groups)
  BY <1>2 DEF ChainInv, Chained
<1>7. cur'[k].op = "replay" => After(k - 1, cur[k].base, cur[k].graph[2])'
  <2> SUFFICES ASSUME cur'[k].op = "replay" PROVE After(k - 1, cur[k].base, cur[k].graph[2])'
    OBVIOUS
  <2>1. PICK base, n : base = cur[k].base /\ n = cur[k].graph[2] /\ cur'[k].base = base /\ cur'[k].graph[2] = n
    BY <1>4
  <2>2. After(m, base, n) /\ base \in DOMAIN acc
    BY <1>4, <1>5, <1>6, <2>1 DEF HasBase
  <2>3. IF m = 0 THEN acc'[base] = Partial(n) ELSE Makes(cur'[m], base, n)
    BY <1>3, <2>2, AfterSame
  <2> QED BY <1>2, <2>1, <2>3 DEF After
<1>8. cur'[k].op = "sum" /\ cur'[k].base # NoBase => After(k - 1, cur[k].base, Groups)'
  <2> SUFFICES ASSUME cur'[k].op = "sum", cur'[k].base # NoBase PROVE After(k - 1, cur[k].base, Groups)'
    OBVIOUS
  <2>1. PICK base : base = cur[k].base /\ cur'[k].base = base
    BY <1>4
  <2>2. After(m, base, Groups) /\ base \in DOMAIN acc
    BY <1>4, <1>5, <1>6, <2>1 DEF HasBase
  <2>3. IF m = 0 THEN acc'[base] = Partial(Groups) ELSE Makes(cur'[m], base, Groups)
    BY <1>3, <2>2, AfterSame
  <2> QED BY <1>2, <2>1, <2>3 DEF After
<1> QED BY <1>7, <1>8 DEF Chained

\* An operation is queued behind what it needs.
LEMMA ChainQueued ==
  ASSUME HostInv, ChainInv, NEW x, KnownOp(x), HasBase(x) => x.base \in DOMAIN acc, cur' = Append(cur, x),
         \A b \in DOMAIN acc : acc'[b] = acc[b],
         x.op = "replay" => After(Len(cur), x.base, x.graph[2]),
         x.op = "sum" /\ x.base # NoBase => After(Len(cur), x.base, Groups)
  PROVE  (\A k \in 1 .. Len(cur) : Chained(k))'
<1>1. /\ Len(cur') = Len(cur) + 1 /\ Len(cur) \in Nat /\ cur'[Len(cur) + 1] = x
      /\ \A i \in 1 .. Len(cur) : cur'[i] = cur[i]
  BY QueuedHost
<1>2. PICK m \in Nat : m = Len(cur) /\ Len(cur') = m + 1 /\ cur'[m + 1] = x /\ \A i \in 1 .. m : cur'[i] = cur[i]
  BY <1>1
<1>3. \A k \in 0 .. m : SameAt(k)
  BY <1>2 DEF SameAt
<1>4. \A k \in 1 .. m : Chained(k)'
  BY <1>2, <1>3, ChainedSame
<1>5. SameAt(m)
  BY <1>3
<1>6. PICK top : top = m + 1 /\ top - 1 = m /\ cur'[top] = x
  BY <1>2
<1>7. x.op = "replay" => IF m = 0 THEN acc'[x.base] = Partial(x.graph[2]) ELSE Makes(cur'[m], x.base, x.graph[2])
  BY <1>2, <1>5, AfterSame DEF HasBase
<1>8. x.op = "sum" /\ x.base # NoBase => IF m = 0 THEN acc'[x.base] = Partial(Groups) ELSE Makes(cur'[m], x.base, Groups)
  BY <1>2, <1>5, AfterSame DEF HasBase
<1>9. Chained(top)'
  BY <1>6, <1>7, <1>8 DEF Chained, After
<1>10. \A k \in 1 .. m + 1 : k \in 1 .. m \/ k = top
  BY <1>6
<1> QED BY <1>2, <1>4, <1>9, <1>10

\* An operation that the compute stream runs leaves its groups in the accumulator.
LEMMA AfterRun ==
  ASSUME HostInv, ChainInv, LandingInv, RunCur, NEW k \in 1 .. Len(cur), NEW base, NEW n, After(k, base, n)
  PROVE  IF k = 1 THEN acc'[base] = Partial(n) ELSE Makes(cur'[k - 1], base, n)
<1>1. Len(cur) \in Nat /\ Len(cur) >= 1 /\ Len(cur') = Len(cur) - 1 /\ \A i \in 1 .. Len(cur') : cur'[i] = cur[i + 1]
  BY RunCurFacts DEF HostInv
<1>2. Makes(cur[k], base, n)
  BY <1>1 DEF After
<1>3. CASE k # 1
  <2>1. PICK m : m = k - 1 /\ m \in 1 .. Len(cur') /\ m + 1 = k
    BY <1>1, <1>3
  <2> QED BY <1>1, <1>2, <1>3, <2>1
<1>4. CASE k = 1
  <2>1. PICK o : /\ o = cur[1] /\ o \in Pending /\ KnownOp(o) /\ o.after = 0
                 /\ acc' = (IF o.op = "zero" THEN [acc EXCEPT ![o.base] = NoExperts]
                            ELSE IF o.op = "replay" THEN [acc EXCEPT ![o.base] = Added(o)] ELSE acc)
    BY RunCurFacts DEF HostInv
  <2>2. o.op \in {"zero", "replay"} /\ o.base = base /\ n = (IF o.op = "zero" THEN 0 ELSE o.graph[2] + 1)
    BY <1>2, <1>4, <2>1 DEF Makes
  <2>3. base \in DOMAIN acc
    BY <2>1, <2>2 DEF HostInv, HasBase
  <2>4. CASE o.op = "zero"
    BY <1>4, <2>1, <2>2, <2>3, <2>4, PartialZero
  <2>5. CASE o.op = "replay"
    <3>1. o \in Replays
      BY <2>1, <2>5 DEF KnownOp, IsLookup, Zeros, Sums
    <3>2. acc[o.base] = Partial(o.graph[2])
      <4>1. Chained(1)
        BY <1>1 DEF ChainInv
      <4> QED BY <2>1, <2>5, <4>1 DEF Chained, After
    <3>3. landing[o.slot] = <<o.layer, o.graph[2]>>
      <4>1. Landed(1)
        BY <1>1, <2>1, <2>5 DEF LandingInv
      <4> QED BY <2>1, <4>1 DEF Landed, Lands
    <3>4. Added(o) = Partial(o.graph[2] + 1)
      BY <3>1, <3>2, <3>3, AddedPartial
    <3> QED BY <1>4, <2>1, <2>2, <2>3, <2>5, <3>4
  <2> QED BY <2>2, <2>4, <2>5
<1> QED BY <1>3, <1>4

\* A step of the compute stream keeps the chains.
LEMMA ChainRunCur == HostInv /\ ChainInv /\ LandingInv /\ RunCur => ChainInv'
<1> SUFFICES ASSUME HostInv, ChainInv, LandingInv, RunCur PROVE ChainInv'
  OBVIOUS
<1>1. PICK m \in Nat : m + 1 = Len(cur) /\ Len(cur') = m /\ \A i \in 1 .. m : cur'[i] = cur[i + 1]
  <2>1. Len(cur) \in Nat /\ Len(cur) >= 1 /\ Len(cur') = Len(cur) - 1 /\ \A i \in 1 .. Len(cur') : cur'[i] = cur[i + 1]
    BY RunCurFacts DEF HostInv
  <2>2. PICK l \in Nat : l = Len(cur) /\ l >= 1
    BY <2>1
  <2>3. l - 1 \in Nat /\ (l - 1) + 1 = l
    BY <2>2
  <2> QED BY <2>1, <2>2, <2>3
<1>2. ASSUME NEW k \in 1 .. m + 1, NEW base, NEW n, After(k, base, n)
      PROVE  IF k - 1 = 0 THEN acc'[base] = Partial(n) ELSE Makes(cur'[k - 1], base, n)
  <2>1. k \in 1 .. Len(cur)
    BY <1>1
  <2>2. k - 1 = 0 <=> k = 1
    BY <1>1
  <2> QED BY <1>2, <2>1, <2>2, AfterRun
<1>3. ASSUME NEW k \in 1 .. m PROVE Chained(k)'
  <2>1. PICK o, j : j = k + 1 /\ j \in 1 .. m + 1 /\ j - 1 = k /\ o = cur[j] /\ cur'[k] = o /\ k \in 1 .. m + 1
    BY <1>1
  <2>2. Chained(j)
    BY <1>1, <2>1 DEF ChainInv
  <2>3. o.op = "replay" => IF k - 1 = 0 THEN acc'[o.base] = Partial(o.graph[2])
                           ELSE Makes(cur'[k - 1], o.base, o.graph[2])
    BY <1>2, <2>1, <2>2 DEF Chained
  <2>4. o.op = "sum" /\ o.base # NoBase => IF k - 1 = 0 THEN acc'[o.base] = Partial(Groups)
                                            ELSE Makes(cur'[k - 1], o.base, Groups)
    BY <1>2, <2>1, <2>2 DEF Chained
  <2> QED BY <2>1, <2>3, <2>4 DEF Chained, After
<1>4. ASSUME NEW n \in Nat, step' = n + 2 PROVE After(Len(cur), gin[batch.rows], n)'
  <2>1. PICK base : base = gin[batch.rows] /\ gin'[batch'.rows] = base /\ step' = step
    BY RunCurFacts DEF HostInv, graphVars, hostVars
  <2>2. PICK top : top = m + 1 /\ top \in 1 .. m + 1 /\ top - 1 = m /\ After(top, base, n)
    BY <1>1, <1>4, <2>1 DEF ChainInv
  <2>3. IF m = 0 THEN acc'[base] = Partial(n) ELSE Makes(cur'[m], base, n)
    BY <1>2, <2>2
  <2> QED BY <1>1, <2>1, <2>3 DEF After
<1> QED BY <1>1, <1>3, <1>4 DEF ChainInv

\* A step of the transfer stream keeps the chains.
LEMMA ChainRunDma == HostInv /\ ChainInv /\ RunDma => ChainInv'
<1> SUFFICES ASSUME HostInv, ChainInv, RunDma PROVE ChainInv'
  OBVIOUS
<1>1. UNCHANGED <<acc, gin, batch, step>>
  BY DEF RunDma, graphVars, hostVars
<1>2. OpTypes
  BY DEF HostInv
<1>3. PICK m \in Nat : m = Len(cur) /\ Len(cur') = m /\ \A k \in 0 .. m : SameAt(k)
  <2>1. Len(cur) \in Nat
    BY <1>2, QueueFacts DEF OpTypes
  <2>2. CASE BeginCopy
    <3>1. cur' = cur
      BY <2>2 DEF BeginCopy
    <3> QED BY <1>1, <2>1, <3>1 DEF SameAt
  <2>3. CASE EndCopy
    <3>1. /\ Len(cur') = Len(cur)
          /\ \A i \in 1 .. Len(cur) :
               IF cur[i].op = "replay"
               THEN cur[i] \in Replays /\ cur'[i] = [cur[i] EXCEPT !.after = Less(cur[i].after)] /\ cur'[i] \in Replays
               ELSE cur'[i] = cur[i]
      BY <1>2, <2>3, EndCopyFacts
    <3>2. ASSUME NEW i \in 1 .. Len(cur) PROVE SameAt(i)
      <4>1. i # 0
        BY <2>1
      <4>2. CASE cur[i].op = "replay"
        <5>1. cur'[i].op = cur[i].op /\ cur'[i].base = cur[i].base /\ cur'[i].graph = cur[i].graph
          BY <3>1, <4>2 DEF Replays
        <5> QED BY <4>1, <5>1 DEF SameAt
      <4>3. CASE cur[i].op # "replay"
        BY <3>1, <4>1, <4>3 DEF SameAt
      <4> QED BY <4>2, <4>3
    <3>3. SameAt(0)
      BY <1>1 DEF SameAt
    <3>4. \A k \in 0 .. Len(cur) : k = 0 \/ k \in 1 .. Len(cur)
      BY <2>1
    <3> QED BY <2>1, <3>1, <3>2, <3>3, <3>4
  <2> QED BY <2>2, <2>3 DEF RunDma
<1>4. \A k \in 1 .. m : Chained(k)'
  BY <1>3, ChainedSame
<1>5. ASSUME NEW n \in Nat, step' = n + 2 PROVE After(Len(cur), gin[batch.rows], n)'
  <2>1. PICK base : base = gin[batch.rows] /\ gin'[batch'.rows] = base /\ base \in DOMAIN acc /\ After(m, base, n)
    <3>1. step >= 2 /\ step = n + 2
      BY <1>1, <1>5
    <3>2. gin[batch.rows] \in DOMAIN acc
      BY <3>1 DEF HostInv
    <3> QED BY <1>1, <1>3, <3>1, <3>2 DEF ChainInv
  <2>2. SameAt(m)
    BY <1>3
  <2>3. IF m = 0 THEN acc'[base] = Partial(n) ELSE Makes(cur'[m], base, n)
    BY <2>1, <2>2, AfterSame
  <2> QED BY <1>3, <2>1, <2>3 DEF After
<1> QED BY <1>3, <1>4, <1>5 DEF ChainInv

\* A step of the host queues groups and sums behind what they need.
LEMMA ChainHost ==
  ASSUME HostInv, OutputsOK, ChainInv,
         (\E b \in Batches : StartForward(b)) \/ Engram \/ CpuLayer \/ StreamLayer \/ StreamGroup \/ SumLayer
  PROVE  ChainInv'
<1>1. /\ IsQueue(cur) /\ Len(cur) \in Nat /\ \A op \in Pending : HasBase(op) => op.base \in DOMAIN acc
  BY QueueFacts DEF HostInv, OpTypes
<1>2. ASSUME NEW b \in Batches, StartForward(b) PROVE ChainInv'
  <2>1. /\ batch = NoBatch /\ IsQueue(cur') /\ (\A i \in 1 .. Len(cur) : cur'[i] = cur[i])
        /\ \A i \in 1 .. Len(cur') : i \in 1 .. Len(cur) \/ cur'[i] \in Vals(Captured)
        /\ step' = step \/ step' = 0
        /\ UNCHANGED acc
    BY <1>2, StartFacts DEF HostInv, streamerVars
  <2>2. \A k \in 0 .. Len(cur) : SameAt(k)
    BY <1>1, <2>1 DEF SameAt
  <2>3. \A k \in 1 .. Len(cur) : Chained(k)'
    BY <2>2, ChainedSame
  <2>4. ASSUME NEW k \in 1 .. Len(cur'), cur'[k] \in Vals(Captured) PROVE Chained(k)'
    <3>1. cur'[k].op # "replay" /\ ~HasBase(cur'[k])
      BY <2>4, CapturedOps
    <3> QED BY <3>1 DEF Chained, HasBase
  <2>5. step' = 0
    BY <2>1 DEF HostInv
  <2>6. \A n \in Nat : step' # n + 2
    BY <2>5
  <2> QED BY <2>1, <2>3, <2>4, <2>6 DEF ChainInv
<1>3. ASSUME NEW x, KnownOp(x), HasBase(x) => x.base \in DOMAIN acc, cur' = Append(cur, x),
             \A b \in DOMAIN acc : acc'[b] = acc[b],
             x.op = "replay" => After(Len(cur), x.base, x.graph[2]),
             x.op = "sum" /\ x.base # NoBase => After(Len(cur), x.base, Groups),
             \A n \in Nat : step' = n + 2 => Makes(x, gin'[batch'.rows], n)
      PROVE  ChainInv'
  <2>1. Len(cur') = Len(cur) + 1 /\ cur'[Len(cur) + 1] = x
    BY <1>3, QueuedHost
  <2>2. (\A k \in 1 .. Len(cur) : Chained(k))'
    BY <1>3, ChainQueued
  <2>3. PICK top : top = Len(cur') /\ top # 0 /\ cur'[top] = x
    <3>1. PICK m \in Nat : m = Len(cur)
      BY <1>1
    <3> QED BY <2>1, <3>1
  <2>4. ASSUME NEW n \in Nat, step' = n + 2 PROVE After(Len(cur), gin[batch.rows], n)'
    <3>1. Makes(x, gin'[batch'.rows], n)
      BY <1>3, <2>4
    <3> QED BY <2>3, <3>1 DEF After
  <2> QED BY <2>2, <2>4 DEF ChainInv
<1>4. CASE Engram
  <2>1. PICK ids, work : cur' = Append(cur, Lookup(TheSet(ids), work))
    BY <1>4, EngramFacts
  <2>2. UNCHANGED acc /\ step' = 1
    BY <1>4, EngramFacts DEF streamerVars
  <2>3. PICK x : x.op = "lookup" /\ KnownOp(x) /\ ~HasBase(x) /\ cur' = Append(cur, x)
    <3>1. PICK x : x = Lookup(TheSet(ids), work)
      OBVIOUS
    <3>2. x.op = "lookup" /\ KnownOp(x) /\ ~HasBase(x)
      BY <3>1 DEF Lookup, KnownOp, IsLookup, HasBase
    <3> QED BY <2>1, <3>1, <3>2
  <2>4. \A n \in Nat : step' # n + 2
    BY <2>2
  <2> QED BY <1>3, <2>2, <2>3, <2>4
<1>5. CASE CpuLayer
  <2>1. PICK x : /\ x = Sum(batch.rows, NoBase, CpuExperts, GetBuffer(batch.rows))
                 /\ cur' = Append(cur, x) /\ NextLayer /\ UNCHANGED acc /\ batch # NoBatch
    BY <1>5 DEF CpuLayer, Running, streamerVars
  <2>2. x.op = "sum" /\ x.base = NoBase
    BY <2>1 DEF Sum
  <2>3. KnownOp(x)
    <3>1. CpuExperts \in SUBSET Nat /\ batch.rows \in Nat /\ GetBuffer(batch.rows) \in Places
      BY <2>1, Numbers, BatchFacts, GotPlace DEF CpuExperts, OutputsOK
    <3>2. x \in Sums
      BY <2>1, <3>1 DEF Sum, Sums, NoBase
    <3> QED BY <3>2 DEF KnownOp
  <2>4. \A n \in Nat : step' # n + 2
    BY <2>1 DEF NextLayer
  <2>5. ~HasBase(x)
    BY <2>2 DEF HasBase
  <2> QED BY <1>3, <2>1, <2>2, <2>3, <2>4, <2>5
<1>6. CASE StreamLayer
  <2>1. PICK x, base : /\ base = InputBase(batch.rows) /\ gin'[batch.rows] = base
                       /\ x = [op |-> "zero", base |-> base, place |-> StreamerPlace, after |-> 0]
                       /\ cur' = Append(cur, x) /\ step' = 2 /\ batch' = batch
                       /\ \A b \in DOMAIN acc : acc'[b] = acc[b]
    BY <1>6 DEF StreamLayer, GraphInputs
  <2>2. Len(cur') = Len(cur) + 1 /\ cur'[Len(cur) + 1] = x /\ \A i \in 1 .. Len(cur) : cur'[i] = cur[i]
    BY <1>1, <2>1, AppendQueue
  <2>3. \A k \in 0 .. Len(cur) : SameAt(k)
    BY <1>1, <2>1, <2>2 DEF SameAt
  <2>4. \A k \in 1 .. Len(cur) : Chained(k)'
    BY <2>3, ChainedSame
  <2>5. PICK m, top : m \in Nat /\ m = Len(cur) /\ top = m + 1 /\ top = Len(cur') /\ top # 0 /\ cur'[top] = x
    BY <1>1, <2>2
  <2>6. x.op = "zero" /\ x.base = base
    BY <2>1
  <2>7. Chained(top)'
    BY <2>5, <2>6 DEF Chained
  <2>8. \A k \in 1 .. top : k \in 1 .. m \/ k = top
    BY <2>5
  <2>9. ASSUME NEW n \in Nat, step' = n + 2 PROVE After(Len(cur), gin[batch.rows], n)'
    <3>1. n = 0
      BY <2>1, <2>9
    <3>2. Makes(x, base, n)
      BY <2>6, <3>1 DEF Makes
    <3> QED BY <2>1, <2>5, <3>2 DEF After
  <2> QED BY <2>4, <2>5, <2>7, <2>8, <2>9 DEF ChainInv
<1>7. CASE StreamGroup
  <2>1. PICK n \in Nat :
          /\ step = n + 2 /\ step' = step + 1 /\ Replay(n) \in Replays /\ Replay(n).base \in DOMAIN acc
          /\ cur' = Append(cur, Replay(n)) /\ UNCHANGED <<gin, acc, batch>>
    BY <1>7, GroupStepFacts
  <2>2. PICK x, base : /\ x = Replay(n) /\ base = gin[batch.rows] /\ gin'[batch'.rows] = base /\ cur' = Append(cur, x)
                       /\ x \in Replays /\ x.base \in DOMAIN acc
    BY <2>1
  <2>3. x.op = "replay" /\ x.base = base /\ x.graph[2] = n /\ KnownOp(x)
    BY <2>2 DEF Replay, KnownOp
  <2>4. After(Len(cur), base, n)
    BY <2>1, <2>2 DEF ChainInv
  <2>5. ASSUME NEW i \in Nat, step' = i + 2 PROVE Makes(x, base, i)
    <3>1. PICK s \in Nat : s = step /\ s = n + 2 /\ s + 1 = i + 2
      BY <2>1, <2>5
    <3>2. i = n + 1
      BY <3>1
    <3> QED BY <2>3, <3>2 DEF Makes
  <2> QED BY <1>3, <2>1, <2>2, <2>3, <2>4, <2>5
<1>8. CASE SumLayer
  <2>1. PICK x, base :
          /\ base = gin[batch.rows]
          /\ x = Sum(batch.rows, base, Cutoff .. Experts - 1, IF Cutoff < Experts THEN GetBuffer(batch.rows) ELSE "resident")
          /\ batch # NoBatch /\ cur' = Append(cur, x) /\ NextLayer /\ step = Groups + 2 /\ UNCHANGED acc
    BY <1>8 DEF SumLayer, Running, streamerVars
  <2>2. x.op = "sum" /\ x.base = base
    BY <2>1 DEF Sum
  <2>3. step >= 2
    BY <2>1, GroupsFacts
  <2>4. base \in Nat \ {0} /\ base \in DOMAIN acc
    BY <2>1, <2>3 DEF HostInv
  <2>5. KnownOp(x)
    <3>1. Cutoff .. Experts - 1 \in SUBSET Nat
      <4>1. PICK y \in Nat : y = Groups * G
        BY GroupsFacts, Numbers
      <4>2. Cutoff \in Nat
        BY <4>1, GroupsFacts, Numbers DEF Least
      <4> QED BY <4>2, Numbers
    <3>2. batch.rows \in Nat /\ (IF Cutoff < Experts THEN GetBuffer(batch.rows) ELSE "resident") \in Places
      BY <2>1, BatchFacts, GotPlace DEF OutputsOK, Places
    <3>3. x \in Sums
      BY <2>1, <2>4, <3>1, <3>2 DEF Sum, Sums
    <3> QED BY <3>3 DEF KnownOp
  <2>6. After(Len(cur), base, Groups)
    BY <2>1, GroupsFacts DEF ChainInv
  <2>7. \A n \in Nat : step' # n + 2
    BY <2>1 DEF NextLayer
  <2> QED BY <1>3, <2>1, <2>2, <2>4, <2>5, <2>6, <2>7
<1> QED BY <1>2, <1>4, <1>5, <1>6, <1>7, <1>8

\* Every step keeps what the CPU's experts of a sum are.
LEMMA SumsStep == HostInv /\ SumsInv /\ [Next]_vars => SumsInv'
<1> SUFFICES ASSUME HostInv, SumsInv, [Next]_vars PROVE SumsInv'
  OBVIOUS
<1>1. IsQueue(cur) /\ \A op \in Pending : Shared(op)
  BY DEF HostInv, OpTypes, SumsInv
<1>2. ASSUME NEW b \in Batches, StartForward(b) PROVE SumsInv'
  <2>1. Pending' \subseteq Pending \cup Vals(Captured)
    BY <1>2, StartFacts DEF HostInv
  <2>2. \A op \in Vals(Captured) : Shared(op)
    BY CapturedFacts DEF Shared, CapturedLookup, Lookup, Sum
  <2> QED BY <1>1, <2>1, <2>2 DEF SumsInv
<1>3. ASSUME NEW x, Shared(x), cur' = Append(cur, x) PROVE SumsInv'
  <2>1. Vals(cur') = Vals(cur) \cup {x}
    BY <1>1, <1>3, AppendQueue
  <2> QED BY <1>1, <1>3, <2>1 DEF SumsInv, Pending, Vals
<1>4. ASSUME Engram PROVE SumsInv'
  <2>1. PICK ids, work : cur' = Append(cur, Lookup(TheSet(ids), work))
    BY <1>4, EngramFacts
  <2>2. PICK x : x = Lookup(TheSet(ids), work)
    OBVIOUS
  <2>3. Shared(x)
    BY <2>2 DEF Lookup, Shared
  <2> QED BY <1>3, <2>1, <2>2, <2>3
<1>5. ASSUME CpuLayer PROVE SumsInv'
  <2>1. PICK x : cur' = Append(cur, x) /\ x = Sum(batch.rows, NoBase, CpuExperts, GetBuffer(batch.rows))
    BY <1>5 DEF CpuLayer
  <2>2. Shared(x)
    BY <2>1 DEF Sum, Shared
  <2> QED BY <1>3, <2>1, <2>2
<1>6. ASSUME StreamLayer PROVE SumsInv'
  <2>1. PICK x : cur' = Append(cur, x) /\ x.op = "zero"
    BY <1>6 DEF StreamLayer, GraphInputs
  <2>2. Shared(x)
    BY <2>1 DEF Shared
  <2> QED BY <1>3, <2>1, <2>2
<1>7. ASSUME StreamGroup PROVE SumsInv'
  <2>1. PICK n : cur' = Append(cur, Replay(n))
    BY <1>7, GroupStepFacts
  <2>2. PICK x : x = Replay(n)
    OBVIOUS
  <2>3. Shared(x)
    BY <2>2 DEF Replay, Shared
  <2> QED BY <1>3, <2>1, <2>2, <2>3
<1>8. ASSUME SumLayer PROVE SumsInv'
  <2>1. PICK x, base, place : /\ cur' = Append(cur, x)
                              /\ x = Sum(batch.rows, base, Cutoff .. Experts - 1, place)
                              /\ base = gin[batch.rows]
    BY <1>8 DEF SumLayer
  <2>2. base # NoBase
    <3>1. step >= 2
      BY <1>8, GroupsFacts DEF SumLayer
    <3> QED BY <2>1, <3>1 DEF HostInv, NoBase
  <2>3. Shared(x)
    BY <2>1, <2>2 DEF Sum, Shared
  <2> QED BY <1>3, <2>1, <2>3
<1>9. ASSUME RunCur PROVE SumsInv'
  <2>1. Pending' \subseteq Pending
    BY <1>9, RunCurFacts DEF HostInv
  <2> QED BY <1>1, <2>1 DEF SumsInv
<1>10. ASSUME RunDma PROVE SumsInv'
  <2>1. CASE BeginCopy
    BY <1>1, <2>1 DEF BeginCopy, SumsInv, Pending
  <2>2. CASE EndCopy
    <3>1. /\ OpTypes /\ IsQueue(cur') /\ Len(cur') = Len(cur)
          /\ \A i \in 1 .. Len(cur) :
               IF cur[i].op = "replay"
               THEN cur[i] \in Replays /\ cur'[i] = [cur[i] EXCEPT !.after = Less(cur[i].after)] /\ cur'[i] \in Replays
               ELSE cur'[i] = cur[i]
      BY <2>2, EndCopyFacts DEF HostInv
    <3>2. Pending = {cur[i] : i \in 1 .. Len(cur)} /\ Pending' = {cur'[i] : i \in 1 .. Len(cur)}
      <4>1. DOMAIN cur = 1 .. Len(cur) /\ DOMAIN cur' = 1 .. Len(cur')
        BY <3>1, QueueFacts DEF OpTypes
      <4> QED BY <3>1, <4>1 DEF Pending
    <3>3. ASSUME NEW i \in 1 .. Len(cur) PROVE Shared(cur'[i])
      <4>1. CASE cur[i].op = "replay"
        BY <3>1, <4>1 DEF Replays, Shared
      <4>2. CASE cur[i].op # "replay"
        BY <1>1, <3>1, <3>2, <4>2
      <4> QED BY <4>1, <4>2
    <3> QED BY <3>2, <3>3 DEF SumsInv
  <2> QED BY <1>10, <2>1, <2>2 DEF RunDma
<1>11. ASSUME UNCHANGED vars PROVE SumsInv'
  BY <1>1, <1>11 DEF vars, streamVars, SumsInv, Pending
<1> QED BY <1>2, <1>4, <1>5, <1>6, <1>7, <1>8, <1>9, <1>10, <1>11 DEF Next, Finished

\* A step of the compute stream keeps the landings.
LEMMA LandingRunCur == HostInv /\ LandingInv /\ RunCur => LandingInv'
<1> SUFFICES ASSUME HostInv, LandingInv, RunCur PROVE LandingInv'
  OBVIOUS
<1>1. PICK m \in Nat : m + 1 = Len(cur) /\ Len(cur') = m /\ \A i \in 1 .. m : cur'[i] = cur[i + 1]
  <2>1. Len(cur) \in Nat /\ Len(cur) >= 1 /\ Len(cur') = Len(cur) - 1 /\ \A i \in 1 .. Len(cur') : cur'[i] = cur[i + 1]
    BY RunCurFacts DEF HostInv
  <2>2. PICK l \in Nat : l = Len(cur) /\ l >= 1
    BY <2>1
  <2>3. l - 1 \in Nat /\ (l - 1) + 1 = l
    BY <2>2
  <2> QED BY <2>1, <2>2, <2>3
<1>2. /\ dma' = Sooner(dma) /\ computeDone' = [s \in Slots |-> Less(computeDone[s])]
      /\ UNCHANGED <<landing, dmaDone, layer, step>> /\ OpTypes
      /\ IsQueue(cur) /\ \A op \in Pending : KnownOp(op)
  BY RunCurFacts DEF HostInv, hostVars, OpTypes
<1>3. PICK l \in Nat : /\ l = Len(dma) /\ l = Len(dma')
                       /\ \A i \in 1 .. l : /\ dma[i] \in Copies /\ dma'[i].after = Less(dma[i].after)
                                            /\ dma'[i].group = dma[i].group /\ dma'[i].slot = dma[i].slot
  <2>1. dma \in Seq(Copies)
    BY <1>2 DEF OpTypes
  <2>2. Len(dma) \in Nat
    BY <2>1, LenProperties
  <2> QED BY <1>2, <2>1, <2>2, SoonerFacts
<1>4. \A n \in Nat : \A k \in Nat : n >= k + 1 => Less(n) >= k
  BY DEF Less
<1>5. ASSUME NEW k \in 1 .. m, cur'[k].op = "replay" PROVE Landed(k)'
  <2>1. PICK q, i : q = cur[i] /\ i = k + 1 /\ i \in 1 .. m + 1 /\ cur'[k] = q /\ i \in Nat
    BY <1>1
  <2>2. q \in Replays
    <3>1. q \in Pending
      BY <1>1, <1>2, <2>1, QueueFacts DEF Pending, Vals
    <3> QED BY <1>2, <1>5, <2>1, <3>1 DEF KnownOp, IsLookup, Zeros, Sums
  <2>3. PICK a, s, g : a \in Nat /\ s \in Slots /\ a = q.after /\ s = q.slot /\ g = <<q.layer, q.graph[2]>>
    BY <2>2 DEF Replays
  <2>4. /\ Lands(g, s, a)
        /\ \A j \in 1 .. l : j > a /\ dma[j].slot = s => dma[j].after >= i
        /\ computeDone[s] >= i
    <3>1. Landed(i)
      BY <1>1, <1>5, <2>1 DEF LandingInv
    <3> QED BY <1>3, <2>1, <2>3, <3>1 DEF Landed
  <2>5. Lands(g, s, a)'
    BY <1>2, <1>3, <2>4 DEF Lands
  <2>6. ASSUME NEW j \in 1 .. l, j > a, dma'[j].slot = s PROVE dma'[j].after >= k
    <3>1. PICK f \in Nat : f = dma[j].after /\ f >= k + 1 /\ dma'[j].after = Less(f)
      BY <1>3, <2>1, <2>4, <2>6 DEF Copies
    <3> QED BY <1>4, <3>1
  <2>7. computeDone'[s] >= k
    <3>1. PICK f \in Nat : f = computeDone[s] /\ f >= k + 1 /\ computeDone'[s] = Less(f)
      BY <1>2, <2>1, <2>3, <2>4 DEF HostInv
    <3> QED BY <1>4, <3>1
  <2> QED BY <1>3, <2>1, <2>3, <2>5, <2>6, <2>7 DEF Landed
<1>6. ASSUME NEW n \in Nat, n < Groups, step' = n + 2 PROVE NextLanded(n)'
  <2>1. NextLanded(n)
    BY <1>2, <1>6 DEF LandingInv
  <2> QED BY <1>2, <1>3, <2>1 DEF NextLanded, Lands
<1> QED BY <1>1, <1>5, <1>6 DEF LandingInv

\* A step of the transfer stream keeps the landings.
LEMMA LandingRunDma == HostInv /\ LandingInv /\ RunDma => LandingInv'
<1> SUFFICES ASSUME HostInv, LandingInv, RunDma PROVE LandingInv'
  OBVIOUS
<1>1. /\ OpTypes /\ IsQueue(cur) /\ (\A op \in Pending : KnownOp(op)) /\ dma \in Seq(Copies)
      /\ landing \in [Slots -> (Nat \X Nat) \cup {Junk}] /\ dmaDone \in [Slots -> Nat]
      /\ UNCHANGED <<layer, step>>
  BY DEF HostInv, OpTypes, RunDma, hostVars
<1>2. dma # <<>> /\ dma[1].after = 0
  BY TailQueue, SeqQueue, <1>1 DEF RunDma, BeginCopy, EndCopy, HostInv
<1>3. PICK l, f : l \in Nat /\ l = Len(dma) /\ l >= 1 /\ f = dma[1].slot /\ \A j \in 1 .. l : dma[j] \in Copies
  <2>1. Len(dma) \in Nat /\ \A j \in 1 .. Len(dma) : dma[j] \in Copies
    BY <1>1, LenProperties, ElementOfSeq
  <2>2. Len(dma) # 0
    BY <1>1, <1>2, EmptySeq
  <2> QED BY <2>1, <2>2
<1>4. ASSUME NEW k \in 1 .. Len(cur), cur[k].op = "replay"
      PROVE  /\ cur[k] \in Replays /\ Landed(k)
             /\ cur[k].after = 0 => cur[k].slot # f
             /\ \A j \in 1 .. l : j > cur[k].after /\ dma[j].slot = cur[k].slot => dma[j].after >= k
  <2>1. cur[k] \in Replays
    <3>1. cur[k] \in Pending
      BY <1>1, QueueFacts DEF Pending, Vals
    <3> QED BY <1>1, <1>4, <3>1 DEF KnownOp, IsLookup, Zeros, Sums
  <2>2. Landed(k)
    BY <1>4 DEF LandingInv
  <2>3. \A j \in 1 .. l : j > cur[k].after /\ dma[j].slot = cur[k].slot => dma[j].after >= k
    BY <1>3, <2>2 DEF Landed
  <2>4. cur[k].after = 0 => cur[k].slot # f
    BY <1>2, <1>3, <2>3
  <2> QED BY <2>1, <2>2, <2>3, <2>4
<1>5. ASSUME NEW n \in Nat, n < Groups, step = n + 2
      PROVE  NextLanded(n) /\ n % 2 \in Slots /\ (dmaDone[n % 2] = 0 => n % 2 # f)
  <2>1. NextLanded(n) /\ n % 2 \in Slots
    BY <1>5, Parity DEF LandingInv
  <2>2. \A j \in 1 .. l : j > dmaDone[n % 2] => dma[j].slot # n % 2
    BY <1>3, <2>1 DEF NextLanded
  <2> QED BY <1>3, <2>1, <2>2
<1>6. CASE BeginCopy
  <2>1. /\ landing' = [landing EXCEPT ![f] = Junk]
        /\ UNCHANGED <<cur, dma, computeDone, dmaDone>>
    <3>1. Head(dma) = dma[1]
      BY <1>1, <1>2, TailQueue, SeqQueue
    <3> QED BY <1>3, <1>6, <3>1 DEF BeginCopy
  <2>2. \A s \in Slots : s # f => landing'[s] = landing[s]
    BY <1>1, <2>1
  <2>3. ASSUME NEW k \in 1 .. Len(cur), cur[k].op = "replay" PROVE Landed(k)'
    <3>1. cur[k].slot \in Slots
      BY <1>4, <2>3 DEF Replays
    <3> QED BY <1>4, <2>1, <2>2, <2>3, <3>1 DEF Landed, Lands
  <2>4. ASSUME NEW n \in Nat, n < Groups, step = n + 2 PROVE NextLanded(n)'
    BY <1>1, <1>5, <2>1, <2>2, <2>4 DEF NextLanded, Lands
  <2> QED BY <1>1, <2>1, <2>3, <2>4 DEF LandingInv
<1>7. CASE EndCopy
  <2>1. PICK r, g :
          /\ r \in Nat
          /\ g = dma[1].group /\ landing' = [landing EXCEPT ![f] = g] /\ UNCHANGED computeDone
          /\ dmaDone' = [s \in Slots |-> Less(dmaDone[s])]
          /\ r + 1 = l /\ Len(dma') = r /\ \A j \in 1 .. r : dma'[j] = dma[j + 1]
    <3>1. /\ Head(dma) = dma[1] /\ Len(Tail(dma)) = Len(dma) - 1
          /\ \A j \in 1 .. Len(Tail(dma)) : Tail(dma)[j] = dma[j + 1]
      BY <1>1, <1>2, TailQueue, SeqQueue
    <3>2. l - 1 \in Nat /\ (l - 1) + 1 = l
      BY <1>3
    <3>3. PICK r, g : r \in Nat /\ g = dma[1].group /\ r = l - 1 /\ r + 1 = l
      BY <3>2
    <3>4. /\ landing' = [landing EXCEPT ![f] = g] /\ UNCHANGED computeDone /\ dma' = Tail(dma)
          /\ dmaDone' = [s \in Slots |-> Less(dmaDone[s])]
      BY <1>3, <1>7, <3>1, <3>3 DEF EndCopy
    <3>5. Len(dma') = r /\ \A j \in 1 .. r : dma'[j] = dma[j + 1]
      BY <1>3, <3>1, <3>3, <3>4
    <3> QED BY <3>3, <3>4, <3>5
  <2>2. \A s \in Slots : landing'[s] = IF s = f THEN g ELSE landing[s]
    BY <1>1, <2>1
  <2>3. ASSUME NEW a \in Nat, NEW s \in Slots, NEW h, Lands(h, s, a), a = 0 => s # f
        PROVE  Lands(h, s, Less(a))'
    <3>1. CASE a = 0
      BY <2>2, <2>3, <3>1 DEF Lands, Less
    <3>2. CASE a = 1
      <4>1. h = g /\ s = f
        BY <1>3, <2>1, <2>3, <3>2 DEF Lands
      <4> QED BY <2>2, <3>2, <4>1 DEF Lands, Less
    <3>3. CASE a > 1
      <4>1. PICK b \in Nat : b + 1 = a /\ b # 0 /\ Less(a) = b
        BY <3>3 DEF Less
      <4>2. a \in 1 .. l /\ dma[a].group = h /\ dma[a].slot = s
        BY <1>3, <2>3, <3>3 DEF Lands
      <4>3. b \in 1 .. r /\ dma'[b] = dma[a]
        BY <2>1, <4>1, <4>2
      <4> QED BY <2>1, <4>1, <4>2, <4>3 DEF Lands
    <3> QED BY <3>1, <3>2, <3>3
  <2>4. \A a \in Nat : \A j \in 1 .. r : j > Less(a) => j + 1 > a /\ j + 1 \in 1 .. l
    BY <2>1 DEF Less
  <2>5. /\ Len(cur') = Len(cur)
        /\ \A i \in 1 .. Len(cur) :
             IF cur[i].op = "replay"
             THEN cur[i] \in Replays /\ cur'[i] = [cur[i] EXCEPT !.after = Less(cur[i].after)] /\ cur'[i] \in Replays
             ELSE cur'[i] = cur[i]
    BY <1>1, <1>7, EndCopyFacts
  <2>6. ASSUME NEW k \in 1 .. Len(cur), cur'[k].op = "replay" PROVE Landed(k)'
    <3>1. cur[k].op = "replay"
      BY <2>5, <2>6
    <3>2. PICK a, s, q, h :
            /\ a \in Nat /\ s \in Slots
            /\ q = cur[k] /\ a = q.after /\ s = q.slot /\ h = <<q.layer, q.graph[2]>>
            /\ cur'[k].after = Less(a) /\ cur'[k].slot = s /\ h = <<cur'[k].layer, cur'[k].graph[2]>>
      <4>1. cur[k] \in Replays /\ cur'[k] = [cur[k] EXCEPT !.after = Less(cur[k].after)]
        BY <2>5, <3>1
      <4>2. PICK q : q = cur[k] /\ q \in Replays /\ cur'[k] = [q EXCEPT !.after = Less(q.after)]
        BY <4>1
      <4>3. q.after \in Nat /\ q.slot \in Slots
        BY <4>2 DEF Replays
      <4>4. cur'[k].after = Less(q.after) /\ cur'[k].slot = q.slot /\ cur'[k].layer = q.layer /\ cur'[k].graph = q.graph
        BY <4>2 DEF Replays
      <4> QED BY <4>2, <4>3, <4>4
    <3>3. /\ Lands(h, s, a) /\ computeDone[s] >= k
          /\ a = 0 => s # f
          /\ \A j \in 1 .. l : j > a /\ dma[j].slot = s => dma[j].after >= k
      BY <1>4, <3>1, <3>2 DEF Landed
    <3>4. Lands(h, s, Less(a))'
      BY <2>3, <3>2, <3>3
    <3>5. \A j \in 1 .. r : j > Less(a) /\ dma'[j].slot = s => dma'[j].after >= k
      BY <2>1, <2>4, <3>2, <3>3
    <3> QED BY <2>1, <3>2, <3>3, <3>4, <3>5 DEF Landed
  <2>7. ASSUME NEW n \in Nat, n < Groups, step = n + 2 PROVE NextLanded(n)'
    <3>1. PICK a \in Nat, s \in Slots : s = n % 2 /\ a = dmaDone[s] /\ dmaDone'[s] = Less(a)
      BY <1>1, <1>5, <2>1, <2>7
    <3>2. /\ Lands(<<layer, n>>, s, a)
          /\ a = 0 => s # f
          /\ \A j \in 1 .. l : j > a => dma[j].slot # s
      BY <1>3, <1>5, <2>7, <3>1 DEF NextLanded
    <3>3. Lands(<<layer, n>>, s, Less(a))'
      <4>1. PICK h : h = <<layer, n>> /\ h = <<layer', n>>
        BY <1>1
      <4>2. Lands(h, s, Less(a))'
        BY <2>3, <3>2, <4>1
      <4> QED BY <4>1, <4>2
    <3>4. \A j \in 1 .. r : j > Less(a) => dma'[j].slot # s
      BY <2>1, <2>4, <3>2
    <3> QED BY <1>1, <2>1, <3>1, <3>3, <3>4 DEF NextLanded
  <2> QED BY <1>1, <2>5, <2>6, <2>7 DEF LandingInv
<1> QED BY <1>6, <1>7 DEF RunDma

\* The copies queued stay, and one queued behind them into a replay's landing waits for it.
LEMMA LandedKept ==
  ASSUME HostInv, NEW k \in 1 .. Len(cur), cur[k].op = "replay", Landed(k), cur'[k] = cur[k],
         landing' = landing, computeDone'[cur[k].slot] >= k,
         \A j \in 1 .. Len(dma) : j \in 1 .. Len(dma') /\ dma'[j] = dma[j],
         \A j \in 1 .. Len(dma') : j \in 1 .. Len(dma) \/ (dma'[j].slot = cur[k].slot => dma'[j].after >= k)
  PROVE  Landed(k)'
<1>1. PICK q, g : q = cur[k] /\ cur'[k] = q /\ g = <<q.layer, q.graph[2]>>
  OBVIOUS
<1>2. /\ Lands(g, q.slot, q.after)
      /\ \A j \in 1 .. Len(dma) : j > q.after /\ dma[j].slot = q.slot => dma[j].after >= k
  BY <1>1 DEF Landed
<1>3. Lands(g, q.slot, q.after)'
  BY <1>2 DEF Lands
<1>4. \A j \in 1 .. Len(dma') : j > q.after /\ dma'[j].slot = q.slot => dma'[j].after >= k
  BY <1>1, <1>2
<1> QED BY <1>1, <1>3, <1>4 DEF Landed

\* The copy of a group is queued: its landing will have it, and no copy into it follows.
LEMMA StageLanded ==
  ASSUME HostInv, LandingInv, NEW n \in Nat, Stage(layer, n), layer' = layer, landing' = landing
  PROVE  /\ NextLanded(n)'
         /\ \A j \in 1 .. Len(dma) : j \in 1 .. Len(dma') /\ dma'[j] = dma[j]
         /\ \A j \in 1 .. Len(dma') : j \in 1 .. Len(dma) \/ (dma'[j].slot = n % 2 /\ dma'[j].after = computeDone[n % 2])
<1>1. PICK m, x, s :
        /\ m \in Nat
        /\ s = n % 2 /\ s \in Slots /\ m = Len(dma) /\ Len(dma') = m + 1 /\ (\A i \in 1 .. m : dma'[i] = dma[i])
        /\ dma'[m + 1] = x /\ x.group = <<layer, n>> /\ x.slot = s /\ x.after = computeDone[s]
        /\ dmaDone' = [dmaDone EXCEPT ![s] = m + 1] /\ dmaDone \in [Slots -> Nat]
  <2>1. layer \in Nat /\ dmaDone \in [Slots -> Nat]
    BY DEF HostInv
  <2>2. PICK m, s : m \in Nat /\ s = n % 2 /\ s \in Slots /\ m = Len(dma)
    BY <2>1, StageFacts
  <2>3. PICK x : x = [group |-> <<layer, n>>, slot |-> n % 2, after |-> computeDone[n % 2]]
    OBVIOUS
  <2>4. /\ Len(dma') = m + 1 /\ (\A i \in 1 .. m : dma'[i] = dma[i]) /\ dma'[m + 1] = x
        /\ dmaDone' = [dmaDone EXCEPT ![s] = m + 1]
    BY <2>1, <2>2, <2>3, StageFacts
  <2>5. x.group = <<layer, n>> /\ x.slot = s /\ x.after = computeDone[s]
    BY <2>2, <2>3
  <2> QED BY <2>1, <2>2, <2>4, <2>5
<1>2. PICK top : top = m + 1 /\ top \in 1 .. Len(dma') /\ top # 0 /\ dma'[top] = x /\ dmaDone'[s] = top
                 /\ \A j \in 1 .. Len(dma') : ~(j > top)
  BY <1>1
<1>3. Lands(<<layer, n>>, s, dmaDone[s])'
  BY <1>1, <1>2 DEF Lands
<1>4. NextLanded(n)'
  BY <1>1, <1>2, <1>3 DEF NextLanded
<1>5. \A j \in 1 .. m : j \in 1 .. Len(dma') /\ dma'[j] = dma[j]
  BY <1>1
<1>6. \A j \in 1 .. Len(dma') : j \in 1 .. m \/ j = top
  BY <1>1, <1>2
<1> QED BY <1>1, <1>2, <1>4, <1>5, <1>6

\* A step of the host keeps the landings.
LEMMA LandingHost ==
  ASSUME HostInv, LandingInv,
         (\E b \in Batches : StartForward(b)) \/ Engram \/ CpuLayer \/ StreamLayer \/ StreamGroup \/ SumLayer
  PROVE  LandingInv'
<1>1. /\ IsQueue(cur) /\ Len(cur) \in Nat /\ (\A op \in Pending : KnownOp(op)) /\ dma \in Seq(Copies)
      /\ computeDone \in [Slots -> Nat] /\ dmaDone \in [Slots -> Nat] /\ Len(dma) \in Nat
  BY QueueFacts, LenProperties DEF HostInv, OpTypes
<1>2. ASSUME NEW k \in 1 .. Len(cur), cur[k].op = "replay"
      PROVE  Landed(k) /\ cur[k] \in Replays /\ cur[k].slot \in Slots /\ computeDone[cur[k].slot] >= k
  <2>1. cur[k] \in Pending
    BY <1>1, QueueFacts DEF Pending, Vals
  <2>2. cur[k] \in Replays
    BY <1>1, <1>2, <2>1 DEF KnownOp, IsLookup, Zeros, Sums
  <2>3. Landed(k)
    BY <1>2 DEF LandingInv
  <2> QED BY <2>2, <2>3 DEF Landed, Replays
<1>3. ASSUME \A i \in 1 .. Len(cur) : cur'[i] = cur[i],
             \A i \in 1 .. Len(cur') : i \in 1 .. Len(cur) \/ cur'[i].op # "replay",
             \A n \in Nat : step' # n + 2, UNCHANGED <<landing, dma, computeDone>>
      PROVE  LandingInv'
  <2>1. ASSUME NEW k \in 1 .. Len(cur'), cur'[k].op = "replay" PROVE Landed(k)'
    <3>1. k \in 1 .. Len(cur) /\ cur'[k] = cur[k] /\ cur[k].op = "replay"
      BY <1>3, <2>1
    <3>2. Landed(k) /\ computeDone'[cur[k].slot] >= k
      BY <1>2, <1>3, <3>1
    <3>3. \A j \in 1 .. Len(dma) : j \in 1 .. Len(dma') /\ dma'[j] = dma[j]
      BY <1>3
    <3>4. \A j \in 1 .. Len(dma') : j \in 1 .. Len(dma)
      BY <1>3
    <3> QED BY <1>3, <3>1, <3>2, <3>3, <3>4, LandedKept
  <2> QED BY <1>3, <2>1 DEF LandingInv
<1>4. CASE \E b \in Batches : StartForward(b)
  <2>1. PICK b \in Batches : StartForward(b)
    BY <1>4
  <2>2. /\ batch = NoBatch /\ (\A i \in 1 .. Len(cur) : cur'[i] = cur[i])
        /\ \A i \in 1 .. Len(cur') : i \in 1 .. Len(cur) \/ cur'[i] \in Vals(Captured)
        /\ step' = step \/ step' = 0
        /\ UNCHANGED <<landing, dma, computeDone>>
    BY <2>1, StartFacts DEF HostInv, streamerVars, landingVars
  <2>3. step' = 0
    BY <2>2 DEF HostInv
  <2>4. \A n \in Nat : step' # n + 2
    BY <2>3
  <2>5. \A i \in 1 .. Len(cur') : i \in 1 .. Len(cur) \/ cur'[i].op # "replay"
    BY <2>2, CapturedOps
  <2> QED BY <1>3, <2>2, <2>4, <2>5
<1>5. CASE Engram \/ CpuLayer \/ SumLayer
  <2>1. PICK x : x.op # "replay" /\ cur' = Append(cur, x)
    <3>1. CASE Engram
      <4>1. PICK ids, work : cur' = Append(cur, Lookup(TheSet(ids), work))
        BY <3>1, EngramFacts
      <4> QED BY <4>1 DEF Lookup
    <3>2. CASE CpuLayer
      BY <3>2 DEF CpuLayer, Sum
    <3>3. CASE SumLayer
      BY <3>3 DEF SumLayer, Sum
    <3> QED BY <1>5, <3>1, <3>2, <3>3
  <2>2. /\ Len(cur') = Len(cur) + 1 /\ cur'[Len(cur) + 1] = x
        /\ \A i \in 1 .. Len(cur) : cur'[i] = cur[i]
    BY <1>1, <2>1, AppendQueue
  <2>3. UNCHANGED <<landing, dma, computeDone>>
    BY <1>5, EngramFacts DEF CpuLayer, SumLayer, streamerVars, landingVars
  <2>4. \A n \in Nat : step' # n + 2
    BY <1>5, EngramFacts DEF CpuLayer, SumLayer, NextLayer
  <2>5. \A i \in 1 .. Len(cur') : i \in 1 .. Len(cur) \/ cur'[i].op # "replay"
    <3>1. PICK m \in Nat : m = Len(cur) /\ Len(cur') = m + 1 /\ cur'[m + 1] = x
      BY <1>1, <2>2
    <3>2. \A i \in 1 .. m + 1 : i \in 1 .. m \/ i = m + 1
      OBVIOUS
    <3> QED BY <2>1, <3>1, <3>2
  <2> QED BY <1>3, <2>2, <2>3, <2>4, <2>5
<1>6. CASE StreamLayer
  <2>1. PICK x : /\ x.op = "zero" /\ cur' = Append(cur, x) /\ Stage(layer, 0) /\ step' = 2
                 /\ UNCHANGED <<landing, computeDone, layer>>
    BY <1>6 DEF StreamLayer, GraphInputs
  <2>2. /\ Len(cur') = Len(cur) + 1 /\ cur'[Len(cur) + 1] = x
        /\ \A i \in 1 .. Len(cur) : cur'[i] = cur[i]
    BY <1>1, <2>1, AppendQueue
  <2>3. /\ NextLanded(0)'
        /\ \A j \in 1 .. Len(dma) : j \in 1 .. Len(dma') /\ dma'[j] = dma[j]
        /\ \A j \in 1 .. Len(dma') : j \in 1 .. Len(dma) \/ (dma'[j].slot = 0 % 2 /\ dma'[j].after = computeDone[0 % 2])
    BY <2>1, StageLanded
  <2>4. ASSUME NEW k \in 1 .. Len(cur'), cur'[k].op = "replay" PROVE Landed(k)'
    <3>1. k \in 1 .. Len(cur) /\ cur'[k] = cur[k] /\ cur[k].op = "replay"
      <4>1. PICK m \in Nat : m = Len(cur) /\ Len(cur') = m + 1 /\ cur'[m + 1] = x
        BY <1>1, <2>2
      <4>2. \A i \in 1 .. m + 1 : i \in 1 .. m \/ i = m + 1
        OBVIOUS
      <4> QED BY <2>1, <2>2, <2>4, <4>1, <4>2
    <3>2. Landed(k) /\ computeDone'[cur[k].slot] >= k /\ computeDone[cur[k].slot] >= k
      BY <1>2, <2>1, <3>1
    <3>3. \A j \in 1 .. Len(dma') : j \in 1 .. Len(dma) \/ (dma'[j].slot = cur[k].slot => dma'[j].after >= k)
      BY <2>3, <3>2
    <3> QED BY <2>1, <2>3, <3>1, <3>2, <3>3, LandedKept
  <2>5. ASSUME NEW n \in Nat, step' = n + 2 PROVE NextLanded(n)'
    <3>1. n = 0
      BY <2>1, <2>5
    <3> QED BY <2>3, <3>1
  <2> QED BY <2>4, <2>5 DEF LandingInv
<1>7. CASE StreamGroup
  <2>1. PICK n \in Nat :
          /\ step = n + 2 /\ n < Groups /\ step' = step + 1
          /\ cur' = Append(cur, Replay(n)) /\ Replay(n) \in Replays
          /\ computeDone' = [computeDone EXCEPT ![n % 2] = Len(cur) + 1]
          /\ IF n + 1 < Groups THEN Stage(layer, n + 1) ELSE UNCHANGED <<dma, dmaDone>>
          /\ UNCHANGED <<landing, layer>>
    BY <1>7, GroupStepFacts
  <2>2. PICK m, i, s, d, x :
          /\ m \in Nat /\ i \in Nat /\ s \in Slots /\ d \in Nat
          /\ m = Len(cur) /\ i = n + 1 /\ s = n % 2 /\ d = dmaDone[s] /\ i % 2 \in Slots /\ i % 2 # s
          /\ x = Replay(n)
    <3>1. n % 2 \in Slots /\ (n + 1) % 2 \in Slots /\ (n + 1) % 2 # n % 2
      BY Parity
    <3>2. dmaDone[n % 2] \in Nat
      BY <1>1, <3>1
    <3>3. PICK i \in Nat, s \in Slots : i = n + 1 /\ s = n % 2 /\ i % 2 \in Slots /\ i % 2 # s
      BY <3>1
    <3> QED BY <1>1, <3>2, <3>3
  <2>3. x.op = "replay" /\ x.layer = layer /\ x.graph[2] = n /\ x.slot = s /\ x.after = d
    BY <2>2 DEF Replay
  <2>4. /\ Len(cur') = m + 1 /\ cur'[m + 1] = x
        /\ \A j \in 1 .. m : cur'[j] = cur[j]
    BY <1>1, <2>1, <2>2, AppendQueue
  <2>5. computeDone'[s] = m + 1 /\ \A t \in Slots : t # s => computeDone'[t] = computeDone[t]
    BY <1>1, <2>1, <2>2
  <2>6. Lands(<<layer, n>>, s, d) /\ \A j \in 1 .. Len(dma) : j > d => dma[j].slot # s
    BY <2>1, <2>2 DEF LandingInv, NextLanded
  <2>7. /\ i < Groups => NextLanded(i)'
        /\ \A j \in 1 .. Len(dma) : j \in 1 .. Len(dma') /\ dma'[j] = dma[j]
        /\ \A j \in 1 .. Len(dma') : j \in 1 .. Len(dma) \/ (dma'[j].slot = i % 2 /\ dma'[j].after = computeDone[i % 2])
    <3>1. CASE i < Groups
      <4>1. Stage(layer, i)
        BY <2>1, <2>2, <3>1
      <4> QED BY <2>1, <2>2, <4>1, StageLanded
    <3>2. CASE ~(i < Groups)
      BY <2>1, <2>2, <3>2
    <3> QED BY <3>1, <3>2
  <2>8. ASSUME NEW k \in 1 .. m, cur'[k].op = "replay" PROVE Landed(k)'
    <3>1. k \in 1 .. Len(cur) /\ cur'[k] = cur[k] /\ cur[k].op = "replay"
      BY <2>2, <2>4, <2>8
    <3>2. Landed(k) /\ cur[k].slot \in Slots /\ computeDone[cur[k].slot] >= k
      BY <1>2, <3>1
    <3>3. computeDone'[cur[k].slot] >= k
      <4>1. m + 1 >= k
        BY <2>2
      <4> QED BY <2>5, <3>2, <4>1
    <3>4. \A j \in 1 .. Len(dma') : j \in 1 .. Len(dma) \/ (dma'[j].slot = cur[k].slot => dma'[j].after >= k)
      BY <2>7, <3>2
    <3> QED BY <2>1, <2>7, <3>1, <3>2, <3>3, <3>4, LandedKept
  <2>9. PICK top : /\ top = m + 1 /\ cur'[top] = x /\ computeDone'[s] >= top
                   /\ \A k \in 1 .. Len(cur') : k \in 1 .. m \/ k = top
    BY <2>2, <2>4, <2>5
  <2>10. Landed(top)'
    <3>1. PICK g : g = <<layer, n>> /\ g = <<x.layer, x.graph[2]>>
      BY <2>3
    <3>2. Lands(g, s, d)'
      BY <2>1, <2>6, <2>7, <3>1 DEF Lands
    <3>3. \A j \in 1 .. Len(dma') : j > d /\ dma'[j].slot = s => FALSE
      BY <2>2, <2>6, <2>7
    <3> QED BY <2>3, <2>9, <3>1, <3>2, <3>3 DEF Landed
  <2>11. ASSUME NEW j \in Nat, j < Groups, step' = j + 2 PROVE NextLanded(j)'
    <3>1. PICK t \in Nat : t = step /\ t = n + 2 /\ t + 1 = j + 2
      BY <2>1, <2>11
    <3>2. j = i
      BY <2>2, <3>1
    <3> QED BY <2>7, <2>11, <3>2
  <2> QED BY <2>8, <2>9, <2>10, <2>11 DEF LandingInv
<1> QED BY <1>4, <1>5, <1>6, <1>7

\* Every step keeps chains, sums and landings.
LEMMA AccStep == HostInv /\ OutputsOK /\ AccInv /\ [Next]_vars => AccInv'
<1> SUFFICES ASSUME HostInv, OutputsOK, AccInv, [Next]_vars PROVE AccInv'
  OBVIOUS
<1>1. ChainInv /\ SumsInv /\ LandingInv
  BY DEF AccInv
<1>2. SumsInv'
  BY <1>1, SumsStep
<1>3. CASE (\E b \in Batches : StartForward(b)) \/ Engram \/ CpuLayer \/ StreamLayer \/ StreamGroup \/ SumLayer
  <2>1. ChainInv'
    BY <1>1, <1>3, ChainHost
  <2>2. LandingInv'
    BY <1>1, <1>3, LandingHost
  <2> QED BY <1>2, <2>1, <2>2 DEF AccInv
<1>4. CASE RunCur
  BY <1>1, <1>2, <1>4, ChainRunCur, LandingRunCur DEF AccInv
<1>5. CASE RunDma
  BY <1>1, <1>2, <1>5, ChainRunDma, LandingRunDma DEF AccInv
<1>6. CASE UNCHANGED vars
  <2>1. UNCHANGED <<cur, dma, landing, computeDone, dmaDone, gin, acc, batch, step, layer>>
    BY <1>6 DEF vars, streamVars, streamerVars, landingVars, graphVars, hostVars
  <2>2. ChainInv'
    BY <1>1, <2>1 DEF ChainInv, Chained, After
  <2>3. LandingInv'
    BY <1>1, <2>1 DEF LandingInv, Landed, NextLanded, Lands
  <2> QED BY <1>2, <2>2, <2>3 DEF AccInv
<1> QED BY <1>3, <1>4, <1>5, <1>6 DEF Next, Finished

\* The sum the compute stream runs has every expert once.
LEMMA SummedStep == HostInv /\ AccInv /\ EachExpertOnce /\ [Next]_vars => EachExpertOnce'
<1> SUFFICES ASSUME HostInv, AccInv, EachExpertOnce, [Next]_vars PROVE EachExpertOnce'
  OBVIOUS
<1>1. CASE RunCur
  <2>1. PICK o : /\ o = cur[1] /\ o \in Pending /\ KnownOp(o) /\ Len(cur) \in Nat /\ Len(cur) >= 1
                 /\ summed' = IF o.op = "sum" THEN Summed(o) ELSE summed
    BY <1>1, RunCurFacts DEF HostInv
  <2>2. CASE o.op = "sum"
    <3>1. o \in Sums
      BY <2>1, <2>2 DEF KnownOp, IsLookup, Zeros, Replays
    <3>2. Shared(o)
      BY <2>1 DEF AccInv, SumsInv
    <3>3. Chained(1)
      BY <2>1 DEF AccInv, ChainInv
    <3>4. o.base # NoBase => acc[o.base] = Partial(Groups)
      BY <2>1, <2>2, <3>3 DEF Chained, After
    <3>5. Summed(o) = Once
      BY <3>1, <3>2, <3>4, SummedOnce
    <3> QED BY <2>1, <2>2, <3>5 DEF EachExpertOnce
  <2>3. CASE o.op # "sum"
    BY <2>1, <2>3 DEF EachExpertOnce
  <2> QED BY <2>2, <2>3
<1>2. CASE ~RunCur
  <2>1. summed' = summed
    BY <1>2, EngramFacts DEF Next, vars, StartForward, CpuLayer, StreamLayer, StreamGroup, SumLayer, RunDma, Finished
  <2> QED BY <2>1 DEF EachExpertOnce
<1> QED BY <1>1, <1>2

-----------------------------------------------------------------------------
(* The sizes of sets and caches *)

\* A set of numbers that is not empty has a least one; inductions go by it.
LEMMA LeastNat ==
  ASSUME NEW S \in SUBSET Nat, S # {}
  PROVE  \E n \in S : \A m \in S : n <= m
<1> DEFINE R == {ss \in Nat \X Nat : ss[1] < ss[2]}
<1>1. IsWellFoundedOn(R, Nat)
  BY NatLessThanWellFounded, Zenon DEF OpToRel
<1>2. \E x \in S : \A y \in S : ~ (<<y, x>> \in R)
  <2> HIDE DEF R
  <2> QED BY <1>1, WFMin
<1>3. PICK x \in S : \A y \in S : ~ (<<y, x>> \in R)
  BY <1>2
<1>4. ASSUME NEW y \in S PROVE x <= y
  <2>1. x \in Nat /\ y \in Nat
    OBVIOUS
  <2>2. y < x => <<y, x>> \in R
    BY <2>1
  <2> HIDE DEF R
  <2> QED BY <1>3, <2>1, <2>2
<1> QED BY <1>4

\* What starts from a and goes on by D is there.
Iterates(f, a, D) == f[0] = a /\ \A n \in Nat : f[n + 1] = D[<<n, f[n]>>]
LEMMA Iteration ==
  ASSUME NEW S, NEW a \in S, NEW D \in [Nat \X S -> S]
  PROVE  \E f \in [Nat -> S] : Iterates(f, a, D)
<1> DEFINE Good(g, n) == /\ g \in [0 .. n -> S] /\ g[0] = a
                         /\ \A k \in 0 .. n - 1 : g[k + 1] = D[<<k, g[k]>>]
<1>1. \A n \in Nat : \E g : Good(g, n)
  <2> DEFINE Bad == {n \in Nat : ~ \E g : Good(g, n)}
  <2>1. SUFFICES ASSUME Bad # {} PROVE FALSE
    OBVIOUS
  <2>2. PICK n \in Bad : \A m \in Bad : n <= m
    BY <2>1, LeastNat
  <2>3. n # 0
    <3>1. Good([k \in 0 .. 0 |-> a], 0)
      OBVIOUS
    <3> QED BY <2>2, <3>1
  <2>4. PICK g : Good(g, n - 1)
    BY <2>2, <2>3
  <2> DEFINE h == [k \in 0 .. n |-> IF k = n THEN D[<<n - 1, g[n - 1]>>] ELSE g[k]]
  <2>5. Good(h, n)
    <3>1. g[n - 1] \in S /\ n \in Nat /\ n - 1 \in Nat
      BY <2>2, <2>3, <2>4
    <3>2. h \in [0 .. n -> S]
      BY <2>4, <3>1
    <3>3. h[0] = a
      BY <2>3, <2>4, <3>1
    <3>4. ASSUME NEW k \in 0 .. n - 1 PROVE h[k + 1] = D[<<k, h[k]>>]
      <4>1. k + 1 \in 0 .. n /\ k \in 0 .. n /\ k # n /\ h[k] = g[k]
        BY <3>1
      <4>2. CASE k = n - 1
        BY <4>1, <4>2, <3>1
      <4>3. CASE k # n - 1
        <5>1. k \in 0 .. (n - 1) - 1 /\ k + 1 # n
          BY <4>3, <3>1
        <5>2. g[k + 1] = D[<<k, g[k]>>]
          BY <2>4, <5>1
        <5> QED BY <4>1, <5>1, <5>2
      <4> QED BY <4>2, <4>3
    <3> QED BY <3>2, <3>3, <3>4
  <2> QED BY <2>2, <2>5
<1>2. ASSUME NEW n \in Nat, NEW g, NEW h, Good(g, n), Good(h, n + 1)
      PROVE  g[n] = h[n]
  <2> DEFINE Bad == {k \in Nat : k <= n /\ g[k] # h[k]}
  <2>1. SUFFICES ASSUME Bad # {} PROVE FALSE
    OBVIOUS
  <2>2. PICK k \in Bad : \A m \in Bad : k <= m
    BY <2>1, LeastNat
  <2>3. k # 0
    BY <1>2, <2>2
  <2>4. k - 1 \in 0 .. n - 1 /\ g[k - 1] = h[k - 1]
    BY <2>2, <2>3
  <2>5. g[(k - 1) + 1] = h[(k - 1) + 1]
    <3>1. g[(k - 1) + 1] = D[<<k - 1, g[k - 1]>>]
      BY <1>2, <2>4
    <3>2. k - 1 \in 0 .. (n + 1) - 1
      BY <2>2, <2>4
    <3>3. h[(k - 1) + 1] = D[<<k - 1, h[k - 1]>>]
      BY <1>2, <3>2
    <3> QED BY <3>1, <3>3, <2>4
  <2> QED BY <2>2, <2>5
<1> DEFINE Approx(n) == CHOOSE g : Good(g, n)
           f == [n \in Nat |-> Approx(n)[n]]
<1>3. ASSUME NEW n \in Nat PROVE Good(Approx(n), n)
  BY <1>1
<1>4. f \in [Nat -> S] /\ f[0] = a
  <2> HIDE DEF Approx
  <2> QED BY <1>3
<1>5. ASSUME NEW n \in Nat PROVE f[n + 1] = D[<<n, f[n]>>]
  <2>1. Good(Approx(n), n) /\ Good(Approx(n + 1), n + 1)
    <3> HIDE DEF Approx, Good
    <3>1. n + 1 \in Nat
      OBVIOUS
    <3> QED BY <1>3, <3>1
  <2>2. Approx(n)[n] = Approx(n + 1)[n]
    <3> HIDE DEF Approx, Good
    <3> QED BY <1>2, <2>1
  <2> HIDE DEF Approx
  <2> QED BY <2>1, <2>2
<1> HIDE DEF f
<1> QED BY <1>4, <1>5 DEF Iterates

\* The powers of two.
LEMMA Pow2Def == Pow2 \in [Nat -> Nat] /\ Pow2[0] = 1 /\ \A n \in Nat : Pow2[n + 1] = 2 * Pow2[n]
<1> DEFINE D == [p \in Nat \X Nat |-> 2 * p[2]]
<1>1. PICK a, d : a = 1 /\ d = D
  OBVIOUS
<1>2. a \in Nat /\ d \in [Nat \X Nat -> Nat] /\ \A n, x \in Nat : d[<<n, x>>] = 2 * x
  BY <1>1
<1> HIDE DEF D
<1>3. \E h \in [Nat -> Nat] : Iterates(h, a, d)
  BY <1>2, Iteration, Zenon
<1>4. PICK h \in [Nat -> Nat] : h[0] = 1 /\ \A n \in Nat : h[n + 1] = 2 * h[n]
  BY <1>1, <1>2, <1>3 DEF Iterates
<1> DEFINE E(g) == [k \in Nat |-> IF k = 0 THEN 1 ELSE 2 * g[k - 1]]
<1>5. h = E(h)
  <2>1. ASSUME NEW k \in Nat, k # 0 PROVE h[k] = 2 * h[k - 1]
    <3>1. k - 1 \in Nat /\ (k - 1) + 1 = k
      BY <2>1
    <3>2. h[(k - 1) + 1] = 2 * h[k - 1]
      BY <1>4, <3>1
    <3> QED BY <3>1, <3>2
  <2>2. \A k \in Nat : h[k] = IF k = 0 THEN 1 ELSE 2 * h[k - 1]
    BY <1>4, <2>1
  <2>3. h = [k \in Nat |-> h[k]]
    OBVIOUS
  <2> QED BY <2>2, <2>3
<1>6. Pow2 = CHOOSE g : g = E(g)
  BY DEF Pow2
<1>7. Pow2 = E(Pow2)
  <2> HIDE DEF E
  <2> QED BY <1>5, <1>6
<1>8. Pow2[0] = 1
  BY <1>7
<1>9. ASSUME NEW n \in Nat PROVE Pow2[n + 1] = 2 * Pow2[n]
  <2>1. n + 1 \in Nat /\ n + 1 # 0 /\ (n + 1) - 1 = n
    OBVIOUS
  <2>2. E(Pow2)[n + 1] = 2 * Pow2[(n + 1) - 1]
    BY <2>1
  <2> HIDE DEF E
  <2> QED BY <1>7, <2>1, <2>2
<1>10. DOMAIN Pow2 = Nat
  BY <1>7
<1>11. Pow2 \in [Nat -> Nat]
  <2> DEFINE Bad == {k \in Nat : Pow2[k] \notin Nat}
  <2>1. Bad = {}
    <3>1. SUFFICES ASSUME Bad # {} PROVE FALSE
      OBVIOUS
    <3>2. PICK k \in Bad : \A m \in Bad : k <= m
      BY <3>1, LeastNat
    <3>3. k # 0
      BY <1>8, <3>2
    <3>4. k - 1 \in Nat /\ (k - 1) + 1 = k /\ Pow2[k - 1] \in Nat
      BY <3>2, <3>3
    <3>5. Pow2[(k - 1) + 1] = 2 * Pow2[k - 1]
      BY <1>9, <3>4
    <3>6. 2 * Pow2[k - 1] \in Nat
      BY <3>4
    <3> QED BY <3>2, <3>4, <3>5, <3>6
  <2>2. Pow2 = [k \in Nat |-> Pow2[k]]
    BY <1>7, <1>10
  <2> QED BY <2>1, <2>2
<1> QED BY <1>8, <1>9, <1>11

\* A number is less than its power of two.
LEMMA Pow2Above == \A n \in Nat : n < Pow2[n]
<1> DEFINE Bad == {n \in Nat : ~(n < Pow2[n])}
<1>1. SUFFICES ASSUME Bad # {} PROVE FALSE
  OBVIOUS
<1>2. PICK n \in Bad : \A m \in Bad : n <= m
  BY <1>1, LeastNat
<1>3. n # 0
  BY <1>2, Pow2Def
<1>4. n - 1 \in Nat /\ (n - 1) + 1 = n /\ n - 1 < Pow2[n - 1]
  BY <1>2, <1>3
<1>5. Pow2[(n - 1) + 1] = 2 * Pow2[n - 1]
  BY <1>4, Pow2Def
<1>6. PICK x, y \in Nat : x = Pow2[n - 1] /\ y = Pow2[n] /\ y = 2 * x /\ n - 1 < x
  BY <1>2, <1>4, <1>5, Pow2Def
<1>7. n \in Nat /\ ~(n < y)
  BY <1>2, <1>6
<1> QED BY <1>3, <1>6, <1>7

\* A set has room for the rows it is made for.
LEMMA CapacityFacts == \A count \in Nat : Capacity(count) \in Nat /\ count <= Capacity(count)
<1> SUFFICES ASSUME NEW count \in Nat PROVE Capacity(count) \in Nat /\ count <= Capacity(count)
  OBVIOUS
<1> DEFINE Some == {Pow2[k] : k \in 0 .. count}
           T == {c \in Some : c >= count}
           Least1(c) == c >= count /\ \A k \in 0 .. count : Pow2[k] >= count => c <= Pow2[k]
<1>1. Some \subseteq Nat
  BY Pow2Def
<1>2. Pow2[count] \in T
  <2>1. count \in 0 .. count /\ Pow2[count] \in Nat /\ count < Pow2[count]
    BY Pow2Def, Pow2Above
  <2> QED BY <2>1
<1>3. PICK c \in T : \A d \in T : c <= d
  <2>1. T \in SUBSET Nat /\ T # {}
    BY <1>1, <1>2
  <2> HIDE DEF T
  <2> QED BY <2>1, LeastNat
<1>4. c \in Some /\ Least1(c)
  BY <1>3
<1>5. Capacity(count) = CHOOSE x \in Some : Least1(x)
  BY DEF Capacity
<1>6. Capacity(count) \in Some /\ Least1(Capacity(count))
  <2> HIDE DEF Some, Least1
  <2> QED BY <1>4, <1>5
<1>7. Capacity(count) \in Nat /\ Capacity(count) >= count
  <2> HIDE DEF Some
  <2> QED BY <1>1, <1>6
<1> QED BY <1>7

\* The values of a function on a finite set are finitely many.
LEMMA FiniteValues ==
  ASSUME NEW f, IsFiniteSet(DOMAIN f)
  PROVE  IsFiniteSet({f[x] : x \in DOMAIN f})
<1> DEFINE g == [x \in DOMAIN f |-> f[x]]
           T == {f[x] : x \in DOMAIN f}
<1>1. g \in [DOMAIN f -> T] /\ \A y \in T : \E x \in DOMAIN f : g[x] = y
  OBVIOUS
<1>2. g \in Surjection(DOMAIN f, T)
  BY <1>1 DEF Surjection
<1> HIDE DEF g, T
<1>3. IsFiniteSet(T)
  BY <1>2, FS_Surjection
<1> QED BY <1>3 DEF T

\* A new number is a number not in use.
LEMMA FreshFacts ==
  ASSUME NEW used, IsFiniteSet(used)
  PROVE  Fresh(used) \notin used
<1>1. PICK c \in Nat : c = Cardinality(used)
  BY FS_CardinalityType
<1> DEFINE free == {n \in 0 .. c : n \notin used}
<1>2. free # {}
  <2>1. SUFFICES ASSUME free = {} PROVE FALSE
    OBVIOUS
  <2>2. 0 .. c \in SUBSET used
    BY <2>1
  <2>3. Cardinality(0 .. c) <= c
    BY <1>1, <2>2, FS_Subset
  <2>4. Cardinality(0 .. c) = c + 1
    BY FS_Interval
  <2> QED BY <2>3, <2>4
<1>3. PICK n \in free : \A m \in free : n <= m
  <2>1. free \in SUBSET Nat
    OBVIOUS
  <2> QED BY <1>2, <2>1, LeastNat
<1>4. n \in 0 .. c /\ n \notin used /\ \A m \in 0 .. n - 1 : m \in used
  BY <1>3
<1>5. Fresh(used) = CHOOSE k \in 0 .. c : k \notin used /\ \A m \in 0 .. k - 1 : m \in used
  BY <1>1 DEF Fresh
<1> QED BY <1>4, <1>5

\* A set has room for the rows of each of its works, a set of a capacity has that
\* capacity, and the numbers of the sets tell them apart.
RoomInv ==
  /\ IsFiniteSet(DOMAIN staging)
  /\ \A k \in DOMAIN staging : /\ staging[k].cap \in Nat /\ staging[k].place \in Places
                               /\ k[1] = "own" => staging[k].cap = k[2]
  /\ \A k, l \in DOMAIN staging : staging[k].id = staging[l].id => k = l
  /\ \A wk \in DOMAIN works : wk[2] \in Nat
  /\ \A wk \in DOMAIN works : \A k \in DOMAIN staging :
       works[wk].set = staging[k].id => wk[2] <= staging[k].cap

\* The works of prefill-sized lookups are bounded.
Sized(wks) == {wk \in wks : wk[2] >= EagerRows}
WorksInv == IsFiniteSet(DOMAIN works) /\ Cardinality(Sized(DOMAIN works)) <= WorksLimit

\* The row counts in use are bounded, no two of them were used last at the same time, and
\* the graphs are theirs.
GraphsInv ==
  /\ IsFiniteSet(DOMAIN graphUse) /\ Cardinality(DOMAIN graphUse) <= GraphKeep + 1
  /\ \A t, u \in DOMAIN graphUse : graphUse[t] = graphUse[u] => t = u
  /\ \A k \in graphs : k[1] \in DOMAIN graphUse

\* The host's counters, the bases, and where the queued lookups lie.
BasesInv ==
  /\ layer \in 0 .. Layers - 1 /\ forwards \in 0 .. MaxForwards
  /\ \A t \in DOMAIN gin : t \in Nat /\ t <= gin[t]
  /\ \A op \in Pending : op.op = "lookup" => op.place \in Places

SizesInv == RoomInv /\ WorksInv /\ GraphsInv /\ BasesInv

\* In the first state there is the decode graph's set, with room for its rows.
LEMMA InitSizes == Init => SizesInv
<1> SUFFICES ASSUME Init PROVE SizesInv
  OBVIOUS
<1>1. Pending = {}
  <2>1. cur = <<>>
    BY DEF Init
  <2>2. Vals(<<>>) = {}
    BY QueueFacts, EmptySeq DEF IsQueue, Vals
  <2> QED BY <2>1, <2>2 DEF Pending, Vals
<1>2. staging = [k \in {OwnKey} |-> FirstSet] /\ works = [wk \in {FirstKey} |-> FirstWork]
  BY DEF Init, EngramInit, OwnKey, FirstKey
<1>3. /\ DOMAIN staging = {OwnKey} /\ staging[OwnKey] = FirstSet
      /\ DOMAIN works = {FirstKey} /\ works[FirstKey] = FirstWork
  BY <1>2
<1>4. /\ FirstSet.cap = Capacity(Graphed) /\ FirstSet.place = "resident"
      /\ OwnKey[2] = Capacity(Graphed) /\ FirstKey[2] = Graphed
  BY DEF FirstSet, NewSet, OwnKey, FirstKey
<1>5. Graphed \in Nat /\ Capacity(Graphed) \in Nat /\ Graphed <= Capacity(Graphed) /\ Graphed < EagerRows
  BY Numbers, CapacityFacts
<1>6. RoomInv
  BY <1>3, <1>4, <1>5, FS_Singleton DEF RoomInv, Places
<1>7. WorksInv
  <2>1. Sized(DOMAIN works) = {}
    BY <1>3, <1>4, <1>5, Numbers DEF Sized
  <2>2. Cardinality(Sized(DOMAIN works)) = 0
    BY <2>1, FS_EmptySet
  <2> QED BY <1>3, <2>2, FS_Singleton, Numbers DEF WorksInv
<1>8. GraphsInv
  <2>1. DOMAIN graphUse = {} /\ graphs = {}
    BY DEF Init, StreamerInit
  <2>2. IsFiniteSet({}) /\ Cardinality({}) = 0
    BY FS_EmptySet
  <2> QED BY <2>1, <2>2, Numbers DEF GraphsInv
<1>9. BasesInv
  <2>1. gin = <<>> /\ layer = 0 /\ forwards = 0
    BY DEF Init, StreamerInit
  <2>2. DOMAIN gin = {}
    BY <2>1
  <2>3. 0 \in 0 .. Layers - 1 /\ 0 \in 0 .. MaxForwards
    BY LayersAssumption, BoundsAssumption
  <2> QED BY <1>1, <2>1, <2>2, <2>3 DEF BasesInv
<1> QED BY <1>6, <1>7, <1>8, <1>9 DEF SizesInv

\* What is queued or captured points at finitely many sets.
LEMMA UsedFinite ==
  ASSUME HostInv, RoomInv, IsFiniteSet(DOMAIN works)
  PROVE  IsFiniteSet({s.id : s \in LiveSets} \cup {op.set : op \in Lookups}
                     \cup {works[wk].set : wk \in DOMAIN works})
<1>1. IsFiniteSet({s.id : s \in LiveSets})
  <2> DEFINE f == [k \in DOMAIN staging |-> staging[k].id]
  <2>1. IsFiniteSet({f[k] : k \in DOMAIN f})
    <3>1. IsFiniteSet(DOMAIN f)
      BY DEF RoomInv
    <3> HIDE DEF f
    <3> QED BY <3>1, FiniteValues
  <2>2. {f[k] : k \in DOMAIN f} = {s.id : s \in LiveSets}
    BY DEF LiveSets
  <2> QED BY <2>1, <2>2
<1>2. IsFiniteSet({works[wk].set : wk \in DOMAIN works})
  <2> DEFINE f == [wk \in DOMAIN works |-> works[wk].set]
  <2>1. IsFiniteSet({f[k] : k \in DOMAIN f})
    <3>1. IsFiniteSet(DOMAIN f)
      OBVIOUS
    <3> HIDE DEF f
    <3> QED BY <3>1, FiniteValues
  <2>2. {f[k] : k \in DOMAIN f} = {works[wk].set : wk \in DOMAIN works}
    OBVIOUS
  <2> QED BY <2>1, <2>2
<1>3. IsFiniteSet({op.set : op \in Lookups})
  <2>1. DOMAIN cur = 1 .. Len(cur) /\ Len(cur) \in Nat
    BY QueueFacts DEF HostInv, OpTypes
  <2> DEFINE g == [i \in 0 .. Len(cur) |-> IF i = 0 THEN CapturedLookup.set ELSE cur[i].set]
  <2>2. IsFiniteSet({g[k] : k \in DOMAIN g})
    <3>1. IsFiniteSet(DOMAIN g)
      BY <2>1, FS_Interval
    <3> HIDE DEF g
    <3> QED BY <3>1, FiniteValues
  <2>3. \A op \in Lookups : op.set \in {g[k] : k \in DOMAIN g}
    <3> SUFFICES ASSUME NEW op \in Lookups PROVE op.set \in {g[k] : k \in DOMAIN g}
      OBVIOUS
    <3>1. CASE op = CapturedLookup
      <4>1. 0 \in DOMAIN g /\ g[0] = op.set
        BY <2>1, <3>1
      <4> QED BY <4>1
    <3>2. CASE op \in Pending
      <4>1. PICK i \in 1 .. Len(cur) : op = cur[i]
        BY <2>1, <3>2 DEF Pending
      <4>2. i \in DOMAIN g /\ g[i] = op.set
        BY <2>1, <4>1
      <4> QED BY <4>2
    <3> QED BY <3>1, <3>2 DEF Lookups
  <2>4. {op.set : op \in Lookups} \in SUBSET {g[k] : k \in DOMAIN g}
    BY <2>3
  <2> HIDE DEF g
  <2> QED BY <2>2, <2>4, FS_Subset
<1> QED BY <1>1, <1>2, <1>3, FS_Union

\* What a forward's lookup makes: a set of its own number if one is missing, and in any
\* case one with room for its rows.
LEMMA SetFacts ==
  ASSUME HostInv, RoomInv, IsFiniteSet(DOMAIN works), NEW ids, batch # NoBatch
  PROVE  /\ batch.rows \in Nat \ {0}
         /\ TheSet(ids).cap \in Nat /\ TheSet(ids).place \in Places /\ batch.rows <= TheSet(ids).cap
         /\ TheKey[1] = "own" => TheSet(ids).cap = TheKey[2]
         /\ IF Missing(TheKey, batch.rows)
            THEN /\ \A k \in DOMAIN staging : staging[k].id # TheSet(ids).id
                 /\ \A wk \in DOMAIN works : works[wk].set # TheSet(ids).id
            ELSE TheKey \in DOMAIN staging /\ TheSet(ids) = staging[TheKey]
<1>1. PICK n \in Nat \ {0} : n = batch.rows
  BY BatchFacts
<1>2. Capacity(n) \in Nat /\ n <= Capacity(n)
  BY CapacityFacts
<1>3. TheKey[1] = "own" => TheKey[2] = Capacity(n) /\ ~Eager(n)
  BY <1>1 DEF TheKey, Key
<1>4. ~Eager(n) => TheKey[1] = "own"
  BY <1>1 DEF TheKey, Key
<1>5. CASE Missing(TheKey, n)
  <2> DEFINE used == {s.id : s \in LiveSets} \cup {op.set : op \in Lookups}
                     \cup {works[wk].set : wk \in DOMAIN works}
  <2>1. TheSet(ids).cap = Capacity(n) /\ TheSet(ids).place = Region(n) /\ TheSet(ids).id = Fresh(used)
    BY <1>1, <1>5 DEF TheSet, SetFor, NewSet
  <2>2. Fresh(used) \notin used
    <3>1. IsFiniteSet(used)
      BY UsedFinite
    <3> HIDE DEF used
    <3> QED BY <3>1, FreshFacts
  <2>3. \A k \in DOMAIN staging : staging[k].id \in used
    BY DEF LiveSets
  <2>4. \A wk \in DOMAIN works : works[wk].set \in used
    OBVIOUS
  <2>5. Region(n) \in Places
    BY DEF Region, Places
  <2> HIDE DEF used
  <2> QED BY <1>1, <1>2, <1>3, <1>5, <2>1, <2>2, <2>3, <2>4, <2>5
<1>6. CASE ~Missing(TheKey, n)
  <2>1. TheKey \in DOMAIN staging /\ TheSet(ids) = staging[TheKey]
    BY <1>1, <1>6 DEF Missing, TheSet, SetFor
  <2>2. staging[TheKey].cap \in Nat /\ staging[TheKey].place \in Places
        /\ (TheKey[1] = "own" => staging[TheKey].cap = TheKey[2])
    BY <2>1 DEF RoomInv
  <2>3. n <= staging[TheKey].cap
    <3>1. CASE Eager(n)
      <4>1. ~(staging[TheKey].cap < Capacity(n))
        BY <1>6, <3>1 DEF Missing
      <4> QED BY <1>2, <2>2, <4>1
    <3>2. CASE ~Eager(n)
      BY <1>2, <1>3, <1>4, <2>2, <3>2
    <3> QED BY <3>1, <3>2
  <2> QED BY <1>1, <1>6, <2>1, <2>2, <2>3
<1> QED BY <1>1, <1>5, <1>6

\* A forward's lookup finds room for its rows and leaves the works their room.
LEMMA EngramRoom == HostInv /\ RoomInv /\ IsFiniteSet(DOMAIN works) /\ Engram => RoomInv'
<1> SUFFICES ASSUME HostInv, RoomInv, IsFiniteSet(DOMAIN works), Engram PROVE RoomInv'
  OBVIOUS
<1>1. batch # NoBatch
  BY EngramFacts
<1>2. PICK ids, work :
        /\ staging' = [k \in DOMAIN staging \cup {TheKey} |-> IF k = TheKey THEN TheSet(ids) ELSE staging[k]]
        /\ works' = [k \in Kept(ids) \cup {Wk(ids)} |-> IF k = Wk(ids) THEN work ELSE works[k]]
        /\ IF Wk(ids) \in Kept(ids) THEN work = works[Wk(ids)] ELSE work.set = TheSet(ids).id
  BY EngramFacts
<1>3. Kept(ids) \subseteq DOMAIN works /\ Wk(ids)[2] = batch.rows
  BY DEF Kept, Trimmed, Left, WorksAfter, Wk
<1>4. PICK n, key, new, at, kept, missing :
        /\ n \in Nat /\ new.cap \in Nat /\ new.place \in Places /\ n <= new.cap
        /\ key[1] = "own" => new.cap = key[2]
        /\ IF missing
           THEN /\ \A k \in DOMAIN staging : staging[k].id # new.id
                /\ \A wk \in DOMAIN works : works[wk].set # new.id
           ELSE key \in DOMAIN staging /\ new = staging[key]
        /\ staging' = [k \in DOMAIN staging \cup {key} |-> IF k = key THEN new ELSE staging[k]]
        /\ works' = [k \in kept \cup {at} |-> IF k = at THEN work ELSE works[k]]
        /\ IF at \in kept THEN work = works[at] ELSE work.set = new.id
        /\ kept \subseteq DOMAIN works /\ at[2] = n
  <2>1. /\ batch.rows \in Nat
        /\ TheSet(ids).cap \in Nat /\ TheSet(ids).place \in Places /\ batch.rows <= TheSet(ids).cap
        /\ TheKey[1] = "own" => TheSet(ids).cap = TheKey[2]
        /\ IF Missing(TheKey, batch.rows)
           THEN /\ \A k \in DOMAIN staging : staging[k].id # TheSet(ids).id
                /\ \A wk \in DOMAIN works : works[wk].set # TheSet(ids).id
           ELSE TheKey \in DOMAIN staging /\ TheSet(ids) = staging[TheKey]
    BY <1>1, SetFacts
  <2> WITNESS batch.rows, TheKey, TheSet(ids), Wk(ids), Kept(ids), Missing(TheKey, batch.rows)
  <2> QED BY <1>2, <1>3, <2>1, Zenon
<1>5. /\ DOMAIN staging' = DOMAIN staging \cup {key} /\ staging'[key] = new
      /\ \A k \in DOMAIN staging : k # key => staging'[k] = staging[k]
      /\ DOMAIN works' = kept \cup {at} /\ works'[at] = work
      /\ \A wk \in kept : wk # at => works'[wk] = works[wk]
  BY <1>4
<1>6. /\ IsFiniteSet(DOMAIN staging)
      /\ \A k \in DOMAIN staging : /\ staging[k].cap \in Nat /\ staging[k].place \in Places
                                   /\ k[1] = "own" => staging[k].cap = k[2]
      /\ \A k, l \in DOMAIN staging : staging[k].id = staging[l].id => k = l
      /\ \A wk \in DOMAIN works : wk[2] \in Nat
      /\ \A wk \in DOMAIN works : \A k \in DOMAIN staging :
           works[wk].set = staging[k].id => wk[2] <= staging[k].cap
  BY DEF RoomInv
<1>7. IsFiniteSet(DOMAIN staging')
  BY <1>5, <1>6, FS_AddElement
<1>8. \A k \in DOMAIN staging' : k = key \/ (k \in DOMAIN staging /\ staging'[k] = staging[k])
  BY <1>5
<1>9. \A k \in DOMAIN staging' : /\ staging'[k].cap \in Nat /\ staging'[k].place \in Places
                                 /\ k[1] = "own" => staging'[k].cap = k[2]
  BY <1>4, <1>5, <1>6, <1>8
<1>10. ASSUME NEW k \in DOMAIN staging', staging'[k].id = new.id PROVE k = key
  <2> SUFFICES ASSUME k # key PROVE FALSE
    OBVIOUS
  <2>1. k \in DOMAIN staging /\ staging[k].id = new.id
    BY <1>8, <1>10
  <2> QED BY <1>4, <1>6, <2>1
<1>11. \A k, l \in DOMAIN staging' : staging'[k].id = staging'[l].id => k = l
  <2> SUFFICES ASSUME NEW k \in DOMAIN staging', NEW l \in DOMAIN staging', staging'[k].id = staging'[l].id
               PROVE  k = l
    OBVIOUS
  <2>1. CASE k = key \/ l = key
    BY <1>5, <1>10, <2>1
  <2>2. CASE k # key /\ l # key
    BY <1>6, <1>8, <2>2
  <2> QED BY <2>1, <2>2
<1>12. \A wk \in DOMAIN works' : wk[2] \in Nat
  BY <1>4, <1>5, <1>6
<1>13. ASSUME NEW wk \in DOMAIN works', NEW k \in DOMAIN staging', works'[wk].set = staging'[k].id
       PROVE  wk[2] <= staging'[k].cap
  <2>1. CASE wk \in DOMAIN works /\ works'[wk] = works[wk]
    <3>1. CASE staging'[k] = staging[k] /\ k \in DOMAIN staging
      BY <1>6, <1>13, <2>1, <3>1
    <3>2. CASE k = key
      <4>1. works[wk].set = new.id
        BY <1>5, <1>13, <2>1, <3>2
      <4>2. ~missing
        BY <1>4, <2>1, <4>1
      <4> QED BY <1>4, <1>5, <1>6, <2>1, <3>2, <4>1, <4>2
    <3> QED BY <1>8, <3>1, <3>2
  <2>2. CASE wk = at /\ at \notin kept
    <3>1. works'[wk].set = new.id
      BY <1>4, <1>5, <2>2
    <3>2. k = key
      BY <1>10, <1>13, <3>1
    <3> QED BY <1>4, <1>5, <2>2, <3>2
  <2> QED BY <1>4, <1>5, <2>1, <2>2
<1> QED BY <1>7, <1>9, <1>11, <1>12, <1>13 DEF RoomInv

\* A forward's lookup keeps the works of prefill-sized ones within the limit.
LEMMA EngramWorks == HostInv /\ RoomInv /\ WorksInv /\ Engram => WorksInv'
<1> SUFFICES ASSUME HostInv, RoomInv, WorksInv, Engram PROVE WorksInv'
  OBVIOUS
<1>1. PICK ids : DOMAIN works' = Kept(ids) \cup {Wk(ids)}
  <2>1. PICK ids, work :
          /\ staging' = [k \in DOMAIN staging \cup {TheKey} |-> IF k = TheKey THEN TheSet(ids) ELSE staging[k]]
          /\ works' = [k \in Kept(ids) \cup {Wk(ids)} |-> IF k = Wk(ids) THEN work ELSE works[k]]
          /\ IF Wk(ids) \in Kept(ids) THEN work = works[Wk(ids)] ELSE work.set = TheSet(ids).id
    BY EngramFacts
  <2> QED BY <2>1
<1>2. PICK left, wk, kept :
        /\ left \subseteq DOMAIN works /\ DOMAIN works' = kept \cup {wk}
        /\ kept = IF wk \notin left /\ Cardinality(left) >= WorksLimit
                  THEN {k \in left : k[2] < EagerRows} ELSE left
  <2>1. Left \subseteq DOMAIN works
    BY DEF Left, WorksAfter
  <2>2. Kept(ids) = IF Wk(ids) \notin Left /\ Cardinality(Left) >= WorksLimit
                    THEN {k \in Left : k[2] < EagerRows} ELSE Left
    BY DEF Kept, Trimmed, TooMany
  <2> WITNESS Left, Wk(ids), Kept(ids)
  <2> QED BY <1>1, <2>1, <2>2
<1>3. IsFiniteSet(DOMAIN works) /\ Cardinality(Sized(DOMAIN works)) <= WorksLimit
  BY DEF WorksInv
<1>4. IsFiniteSet(left) /\ IsFiniteSet(kept)
  <2>1. IsFiniteSet(left)
    BY <1>2, <1>3, FS_Subset
  <2> QED BY <1>2, <2>1, FS_Subset
<1>5. IsFiniteSet(DOMAIN works') /\ IsFiniteSet(Sized(DOMAIN works')) /\ IsFiniteSet(Sized(DOMAIN works))
  <2>1. IsFiniteSet(DOMAIN works')
    <3>1. IsFiniteSet(kept \cup {wk})
      BY <1>4, FS_AddElement
    <3> QED BY <1>2, <3>1
  <2>2. Sized(DOMAIN works') \in SUBSET DOMAIN works' /\ Sized(DOMAIN works) \in SUBSET DOMAIN works
    BY DEF Sized
  <2> QED BY <1>3, <2>1, <2>2, FS_Subset
<1>6. \A k \in DOMAIN works : k[2] \in Nat
  BY DEF RoomInv
<1>7. CASE wk \in left
  <2>1. Sized(DOMAIN works') \in SUBSET Sized(DOMAIN works)
    BY <1>2, <1>7 DEF Sized
  <2>2. Cardinality(Sized(DOMAIN works')) <= Cardinality(Sized(DOMAIN works))
    BY <1>5, <2>1, FS_Subset
  <2> QED BY <1>3, <1>5, <2>2, FS_CardinalityType, Numbers DEF WorksInv
<1>8. CASE wk \notin left /\ Cardinality(left) >= WorksLimit
  <2>1. Sized(DOMAIN works') \in SUBSET {wk}
    <3>1. \A k \in kept : k[2] \in Nat /\ k[2] < EagerRows
      BY <1>2, <1>6, <1>8
    <3>2. \A k \in kept : ~(k[2] >= EagerRows)
      BY <3>1, Numbers
    <3> QED BY <1>2, <3>2 DEF Sized
  <2>2. Cardinality(Sized(DOMAIN works')) <= 1
    <3>1. IsFiniteSet({wk}) /\ Cardinality({wk}) = 1
      BY FS_Singleton
    <3>2. Cardinality(Sized(DOMAIN works')) <= Cardinality({wk})
      BY <2>1, <3>1, FS_Subset
    <3> QED BY <3>1, <3>2
  <2>3. 1 <= WorksLimit
    BY EagerAssumption
  <2> QED BY <1>5, <2>2, <2>3, FS_CardinalityType, Numbers DEF WorksInv
<1>9. CASE wk \notin left /\ ~(Cardinality(left) >= WorksLimit)
  <2>1. DOMAIN works' = left \cup {wk}
    BY <1>2, <1>9
  <2>2. Cardinality(DOMAIN works') = Cardinality(left) + 1
    BY <1>4, <1>9, <2>1, FS_AddElement
  <2>3. Sized(DOMAIN works') \in SUBSET DOMAIN works'
    BY DEF Sized
  <2>4. Cardinality(Sized(DOMAIN works')) <= Cardinality(DOMAIN works')
    BY <1>5, <2>3, FS_Subset
  <2>5. Cardinality(left) \in Nat /\ Cardinality(DOMAIN works') \in Nat /\ Cardinality(Sized(DOMAIN works')) \in Nat
    BY <1>4, <1>5, FS_CardinalityType
  <2> QED BY <1>5, <1>9, <2>2, <2>4, <2>5, Numbers DEF WorksInv
<1> QED BY <1>7, <1>8, <1>9

\* However many row counts were used, _trim_graphs keeps GraphKeep and the largest.
LEMMA TrimFacts ==
  ASSUME NEW use, use \in [DOMAIN use -> Nat], IsFiniteSet(DOMAIN use),
         \A t, u \in DOMAIN use : use[t] = use[u] => t = u
  PROVE  /\ IsFiniteSet(DOMAIN use \ TrimGraphs(use))
         /\ Cardinality(DOMAIN use \ TrimGraphs(use)) <= GraphKeep + 1
<1> DEFINE others == DOMAIN use \ {Largest(use)}
           rank == [t \in others |-> Cardinality(UsedSince(use, t))]
           recent == {t \in others : rank[t] < GraphKeep}
           place == [t \in recent |-> rank[t]]
<1>1. ASSUME NEW t \in others
      PROVE  /\ UsedSince(use, t) \in SUBSET others /\ IsFiniteSet(UsedSince(use, t))
             /\ Cardinality(UsedSince(use, t)) \in Nat
  <2>1. UsedSince(use, t) \in SUBSET DOMAIN use /\ UsedSince(use, t) \in SUBSET others
    BY DEF UsedSince
  <2>2. IsFiniteSet(UsedSince(use, t))
    BY <2>1, FS_Subset
  <2> QED BY <2>1, <2>2, FS_CardinalityType
<1>2. ASSUME NEW t \in others, NEW u \in others, use[t] < use[u] PROVE rank[t] < rank[u]
  <2>1. PICK a, b, c \in Nat : a = use[t] /\ b = use[u] /\ a < b
    BY <1>2
  <2>2. UsedSince(use, t) \in SUBSET UsedSince(use, u)
    BY <1>2 DEF UsedSince
  <2>3. t \in UsedSince(use, u) /\ t \notin UsedSince(use, t)
    BY <1>2 DEF UsedSince
  <2>4. /\ Cardinality(UsedSince(use, t)) <= Cardinality(UsedSince(use, u))
        /\ Cardinality(UsedSince(use, t)) # Cardinality(UsedSince(use, u))
    BY <1>1, <2>2, <2>3, FS_Subset
  <2>5. PICK m, n \in Nat : m = Cardinality(UsedSince(use, t)) /\ n = Cardinality(UsedSince(use, u))
    BY <1>1
  <2>6. m < n
    BY <2>4, <2>5
  <2> QED BY <2>5, <2>6
<1>3. \A t \in others : rank[t] \in Nat
  BY <1>1
<1>4. TrimGraphs(use) = {t \in others : rank[t] >= GraphKeep}
  BY DEF TrimGraphs
<1> HIDE DEF rank
<1>5. place \in Injection(recent, 0 .. GraphKeep - 1)
  <2>1. place \in [recent -> 0 .. GraphKeep - 1]
    BY <1>3, Numbers
  <2>2. ASSUME NEW t \in recent, NEW u \in recent, place[t] = place[u] PROVE t = u
    <3>1. t \in others /\ u \in others /\ rank[t] = rank[u] /\ rank[t] \in Nat
      BY <1>3, <2>2
    <3>2. ~(use[t] < use[u]) /\ ~(use[u] < use[t])
      <4>1. PICK m \in Nat : m = rank[t] /\ m = rank[u]
        BY <3>1
      <4>2. ~(m < m)
        OBVIOUS
      <4> QED BY <1>2, <3>1, <4>1, <4>2
    <3>3. use[t] \in Nat /\ use[u] \in Nat
      BY <3>1
    <3>4. use[t] = use[u]
      BY <3>2, <3>3
    <3> QED BY <3>1, <3>4
  <2> HIDE DEF place, recent
  <2> QED BY <2>1, <2>2 DEF Injection, IsInjective
<1>6. IsFiniteSet(recent) /\ Cardinality(recent) <= GraphKeep
  <2> HIDE DEF place, recent
  <2>1. IsFiniteSet(0 .. GraphKeep - 1) /\ Cardinality(0 .. GraphKeep - 1) = GraphKeep
    <3>1. 0 \in Int /\ GraphKeep - 1 \in Int /\ ~(0 > GraphKeep - 1) /\ (GraphKeep - 1) - 0 + 1 = GraphKeep
      BY Numbers
    <3> QED BY <3>1, FS_Interval
  <2> QED BY <1>5, <2>1, FS_Injection
<1>7. IsFiniteSet(recent \cup {Largest(use)}) /\ Cardinality(recent \cup {Largest(use)}) <= GraphKeep + 1
  <2>1. /\ IsFiniteSet(recent \cup {Largest(use)})
        /\ Cardinality(recent \cup {Largest(use)}) =
             IF Largest(use) \in recent THEN Cardinality(recent) ELSE Cardinality(recent) + 1
    <3> HIDE DEF recent
    <3> QED BY <1>6, FS_AddElement
  <2>2. PICK m \in Nat : m = Cardinality(recent) /\ m <= GraphKeep
    <3> HIDE DEF recent
    <3> QED BY <1>6, FS_CardinalityType
  <2> HIDE DEF recent
  <2> QED BY <2>1, <2>2, Numbers
<1>8. DOMAIN use \ TrimGraphs(use) \in SUBSET (recent \cup {Largest(use)})
  <2>1. \A t \in others : rank[t] < GraphKeep \/ rank[t] >= GraphKeep
    BY <1>3, Numbers
  <2> QED BY <1>4, <2>1
<1> HIDE DEF recent
<1>9. /\ IsFiniteSet(DOMAIN use \ TrimGraphs(use))
      /\ Cardinality(DOMAIN use \ TrimGraphs(use)) <= Cardinality(recent \cup {Largest(use)})
  BY <1>7, <1>8, FS_Subset
<1>10. PICK m, n \in Nat : m = Cardinality(recent \cup {Largest(use)}) /\ n = Cardinality(DOMAIN use \ TrimGraphs(use))
  BY <1>7, <1>9, FS_CardinalityType
<1> QED BY <1>7, <1>9, <1>10, Numbers

\* The ages of the row counts stay apart: those used since a count's last use age by one
\* when it is used again, and it is the newest.
LEMMA AgesApart ==
  ASSUME graphUse \in [DOMAIN graphUse -> Nat], NEW rows,
         \A t, u \in DOMAIN graphUse : graphUse[t] = graphUse[u] => t = u
  PROVE  /\ DOMAIN Use(rows) = DOMAIN graphUse \cup {rows}
         /\ \A t, u \in DOMAIN Use(rows) : Use(rows)[t] = Use(rows)[u] => t = u
<1> DEFINE use == Use(rows)
<1>1. DOMAIN use = DOMAIN graphUse \cup {rows} /\ use[rows] = 0
  BY DEF Use
<1>2. \A t \in DOMAIN graphUse : t # rows =>
        use[t] = IF rows \in DOMAIN graphUse /\ graphUse[rows] < graphUse[t] THEN graphUse[t] ELSE graphUse[t] + 1
  BY DEF Use
<1> HIDE DEF use
<1>3. ASSUME NEW t \in DOMAIN graphUse, t # rows PROVE use[t] # 0
  BY <1>2, <1>3
<1>4. ASSUME NEW t \in DOMAIN graphUse, NEW u \in DOMAIN graphUse, t # rows, u # rows, use[t] = use[u] PROVE t = u
  <2>1. PICK m, n \in Nat : m = graphUse[t] /\ n = graphUse[u] /\ (m = n => t = u)
    OBVIOUS
  <2>2. CASE rows \in DOMAIN graphUse
    <3>1. PICK r \in Nat : r = graphUse[rows]
      BY <2>2
    <3>2. r # m /\ r # n
      BY <1>4, <2>1, <2>2, <3>1
    <3>3. use[t] = (IF r < m THEN m ELSE m + 1) /\ use[u] = (IF r < n THEN n ELSE n + 1)
      BY <1>2, <1>4, <2>1, <2>2, <3>1
    <3>4. (IF r < m THEN m ELSE m + 1) = (IF r < n THEN n ELSE n + 1)
      BY <1>4, <3>3
    <3>5. m = n
      BY <3>2, <3>4
    <3> QED BY <2>1, <3>5
  <2>3. CASE rows \notin DOMAIN graphUse
    <3>1. use[t] = m + 1 /\ use[u] = n + 1
      BY <1>2, <1>4, <2>1, <2>3
    <3>2. m + 1 = n + 1
      BY <1>4, <3>1
    <3>3. m = n
      BY <3>2
    <3> QED BY <2>1, <3>3
  <2> QED BY <2>2, <2>3
<1>5. ASSUME NEW t \in DOMAIN use, NEW u \in DOMAIN use, use[t] = use[u] PROVE t = u
  BY <1>1, <1>3, <1>4, <1>5
<1> QED BY <1>1, <1>5 DEF use

\* Queueing a group keeps the graphs few.
LEMMA GroupGraphs == HostInv /\ AliveInv /\ GraphsInv /\ StreamGroup => GraphsInv'
<1> SUFFICES ASSUME HostInv, AliveInv, GraphsInv, StreamGroup PROVE GraphsInv'
  OBVIOUS
<1>1. PICK n \in Nat : GraphHit(batch.rows, n) \/ GraphMiss(batch.rows, n)
  BY GroupStepFacts
<1>2. PICK rows, use : rows = batch.rows /\ use = Use(rows)
  OBVIOUS
<1>3. /\ IsFiniteSet(DOMAIN graphUse) /\ Cardinality(DOMAIN graphUse) <= GraphKeep + 1
      /\ \A k \in graphs : k[1] \in DOMAIN graphUse
  BY DEF GraphsInv
<1>4. /\ use \in [DOMAIN use -> Nat] /\ DOMAIN use = DOMAIN graphUse \cup {rows}
      /\ \A t, u \in DOMAIN use : use[t] = use[u] => t = u
      /\ rows \notin TrimGraphs(use)
  BY <1>2, UseFacts, AgesApart DEF AliveInv, GraphsInv
<1>5. IsFiniteSet(DOMAIN use)
  BY <1>3, <1>4, FS_AddElement
<1>6. CASE GraphHit(batch.rows, n)
  <2>1. <<rows, n>> \in graphs /\ graphs' = graphs /\ graphUse' = use
    BY <1>2, <1>6 DEF GraphHit
  <2>2. DOMAIN use = DOMAIN graphUse
    <3>1. <<rows, n>>[1] \in DOMAIN graphUse
      BY <1>3, <2>1
    <3> QED BY <1>4, <3>1
  <2> QED BY <1>3, <1>4, <2>1, <2>2 DEF GraphsInv
<1>7. CASE GraphMiss(batch.rows, n)
  <2>1. PICK drop : /\ drop = TrimGraphs(use)
                    /\ graphs' = {k \in graphs \cup {<<rows, n>>} : k[1] \notin drop}
                    /\ graphUse' = [t \in DOMAIN use \ drop |-> use[t]]
    BY <1>2, <1>7 DEF GraphMiss
  <2>2. DOMAIN graphUse' = DOMAIN use \ drop /\ \A t \in DOMAIN graphUse' : graphUse'[t] = use[t]
    BY <2>1
  <2>3. IsFiniteSet(DOMAIN graphUse') /\ Cardinality(DOMAIN graphUse') <= GraphKeep + 1
    BY <1>4, <1>5, <2>1, <2>2, TrimFacts
  <2>4. \A t, u \in DOMAIN graphUse' : graphUse'[t] = graphUse'[u] => t = u
    BY <1>4, <2>2
  <2>5. \A k \in graphs' : k[1] \in DOMAIN graphUse'
    BY <1>3, <1>4, <2>1, <2>2
  <2> QED BY <2>3, <2>4, <2>5 DEF GraphsInv
<1> QED BY <1>1, <1>6, <1>7

\* A step that is not a lookup's queues no lookup but the decode graph's.
LEMMA OtherLookups ==
  ASSUME HostInv, [Next]_vars, ~Engram
  PROVE  /\ UNCHANGED engramVars
         /\ \A op \in Pending' : op.op = "lookup" => op \in Pending \/ op = CapturedLookup
<1>1. ASSUME NEW b \in Batches, StartForward(b)
      PROVE  /\ UNCHANGED engramVars
             /\ \A op \in Pending' : op.op = "lookup" => op \in Pending \/ op = CapturedLookup
  <2>1. Pending' \subseteq Pending \cup Vals(Captured) /\ UNCHANGED engramVars
    BY <1>1, StartFacts DEF HostInv
  <2>2. \A op \in Vals(Captured) : op = CapturedLookup \/ op.op # "lookup"
    <3>1. Sum(Graphed, NoBase, CpuExperts, "resident").op # "lookup"
      BY DEF Sum
    <3> QED BY <3>1, CapturedFacts, CapturedOps
  <2> QED BY <2>1, <2>2
<1>2. ASSUME CpuLayer \/ SumLayer \/ StreamLayer \/ StreamGroup
      PROVE  /\ UNCHANGED engramVars
             /\ \A op \in Pending' : op.op = "lookup" => op \in Pending \/ op = CapturedLookup
  <2>1. PICK x : x.op # "lookup" /\ cur' = Append(cur, x)
    BY <1>2 DEF CpuLayer, SumLayer, StreamLayer, StreamGroup, RunGroup, GraphInputs, Sum
  <2>2. UNCHANGED engramVars
    BY <1>2 DEF CpuLayer, SumLayer, StreamLayer, StreamGroup
  <2>3. IsQueue(cur)
    BY DEF HostInv, OpTypes
  <2>4. Vals(cur') = Vals(cur) \cup {x}
    BY <2>1, <2>3, AppendQueue
  <2> QED BY <2>1, <2>2, <2>4 DEF Pending, Vals
<1>3. ASSUME RunCur
      PROVE  /\ UNCHANGED engramVars
             /\ \A op \in Pending' : op.op = "lookup" => op \in Pending \/ op = CapturedLookup
  BY <1>3, RunCurFacts DEF HostInv, RunCur
<1>4. ASSUME RunDma
      PROVE  /\ UNCHANGED engramVars
             /\ \A op \in Pending' : op.op = "lookup" => op \in Pending \/ op = CapturedLookup
  <2>1. UNCHANGED engramVars
    BY <1>4 DEF RunDma
  <2>2. CASE BeginCopy
    BY <2>1, <2>2 DEF BeginCopy, Pending
  <2>3. CASE EndCopy
    <3>1. /\ IsQueue(cur) /\ IsQueue(cur') /\ Len(cur') = Len(cur)
          /\ \A i \in 1 .. Len(cur) :
               IF cur[i].op = "replay"
               THEN cur[i] \in Replays /\ cur'[i] = [cur[i] EXCEPT !.after = Less(cur[i].after)] /\ cur'[i] \in Replays
               ELSE cur'[i] = cur[i]
      BY <2>3, EndCopyFacts DEF HostInv, OpTypes
    <3>2. Pending = {cur[i] : i \in 1 .. Len(cur)} /\ Pending' = {cur'[i] : i \in 1 .. Len(cur)}
      <4>1. DOMAIN cur = 1 .. Len(cur) /\ DOMAIN cur' = 1 .. Len(cur')
        BY <3>1, QueueFacts
      <4> QED BY <3>1, <4>1 DEF Pending
    <3>3. ASSUME NEW i \in 1 .. Len(cur) PROVE cur'[i].op = "lookup" => cur'[i] \in Pending
      BY <3>1, <3>2 DEF Replays
    <3> QED BY <2>1, <3>2, <3>3
  <2> QED BY <1>4, <2>2, <2>3 DEF RunDma
<1>5. ASSUME UNCHANGED vars
      PROVE  /\ UNCHANGED engramVars
             /\ \A op \in Pending' : op.op = "lookup" => op \in Pending \/ op = CapturedLookup
  BY <1>5 DEF vars, streamVars, Pending
<1> QED BY <1>1, <1>2, <1>3, <1>4, <1>5 DEF Next, Finished

\* Sets, works and their sizes.
LEMMA RoomStep == HostInv /\ RoomInv /\ WorksInv /\ [Next]_vars => RoomInv' /\ WorksInv'
<1> SUFFICES ASSUME HostInv, RoomInv, WorksInv, [Next]_vars PROVE RoomInv' /\ WorksInv'
  OBVIOUS
<1>1. CASE Engram
  BY <1>1, EngramRoom, EngramWorks DEF WorksInv
<1>2. CASE ~Engram
  <2>1. UNCHANGED <<staging, works>>
    BY <1>2, OtherLookups DEF engramVars
  <2> QED BY <2>1 DEF RoomInv, WorksInv
<1> QED BY <1>1, <1>2

\* The graphs.
LEMMA GraphsStep == HostInv /\ AliveInv /\ GraphsInv /\ [Next]_vars => GraphsInv'
<1> SUFFICES ASSUME HostInv, AliveInv, GraphsInv, [Next]_vars PROVE GraphsInv'
  OBVIOUS
<1>1. CASE StreamGroup
  BY <1>1, GroupGraphs
<1>2. CASE ~StreamGroup
  <2>1. UNCHANGED <<graphs, graphUse>>
    <3>1. ASSUME NEW b \in Batches, StartForward(b) PROVE UNCHANGED <<graphs, graphUse>>
      BY <3>1 DEF StartForward, streamerVars, graphVars
    <3>2. CASE Engram \/ CpuLayer \/ StreamLayer \/ SumLayer
      BY <3>2 DEF Engram, CpuLayer, StreamLayer, SumLayer, streamerVars, graphVars
    <3>3. CASE RunCur \/ RunDma
      BY <3>3 DEF RunCur, RunDma, graphVars
    <3>4. CASE UNCHANGED vars
      BY <3>4 DEF vars, streamerVars, graphVars
    <3> QED BY <1>2, <3>1, <3>2, <3>3, <3>4 DEF Next, Finished
  <2> QED BY <2>1 DEF GraphsInv
<1> QED BY <1>1, <1>2

\* A base has room for the rows whose views are of it.
LEMMA InputRoom ==
  ASSUME HostInv, BasesInv, NEW rows \in Nat \ {0}
  PROVE  rows <= InputBase(rows)
<1>1. ginRows \in Nat /\ NewRows(rows) \in Nat /\ rows <= NewRows(rows)
  BY Numbers DEF HostInv, NewRows, Most
<1>2. rows <= ViewRows(rows)
  BY <1>1 DEF ViewRows
<1> QED BY <1>2 DEF InputBase, BasesInv

\* The counters, the bases and the places of the lookups.
LEMMA BasesStep == HostInv /\ RoomInv /\ WorksInv /\ BasesInv /\ [Next]_vars => BasesInv'
<1> SUFFICES ASSUME HostInv, RoomInv, WorksInv, BasesInv, [Next]_vars PROVE BasesInv'
  OBVIOUS
<1>1. layer' \in 0 .. Layers - 1 /\ forwards' \in 0 .. MaxForwards
  <2>1. /\ layer \in 0 .. Layers - 1 /\ forwards \in 0 .. MaxForwards
        /\ Layers \in Nat \ {0} /\ MaxForwards \in Nat
    BY LayersAssumption, BoundsAssumption DEF BasesInv
  <2>2. layer' \in {0, layer} \/ (layer' = layer + 1 /\ layer + 1 < Layers)
    <3>1. ASSUME NEW b \in Batches, StartForward(b) PROVE layer' \in {0, layer}
      BY <3>1 DEF StartForward
    <3>2. CASE CpuLayer \/ SumLayer
      <4>1. NextLayer
        BY <3>2 DEF CpuLayer, SumLayer
      <4> QED BY <4>1 DEF NextLayer
    <3>3. CASE Engram \/ StreamLayer \/ StreamGroup
      BY <3>3 DEF Engram, StreamLayer, StreamGroup
    <3>4. CASE RunCur \/ RunDma \/ UNCHANGED vars
      BY <3>4 DEF RunCur, RunDma, vars, hostVars
    <3> QED BY <3>1, <3>2, <3>3, <3>4 DEF Next, Finished
  <2>3. forwards' = forwards \/ (forwards' = forwards + 1 /\ forwards < MaxForwards)
    <3>1. ASSUME NEW b \in Batches, StartForward(b) PROVE forwards' = forwards + 1 /\ forwards < MaxForwards
      BY <3>1 DEF StartForward
    <3>2. CASE Engram \/ CpuLayer \/ StreamLayer \/ StreamGroup \/ SumLayer
      BY <3>2 DEF Engram, CpuLayer, StreamLayer, StreamGroup, SumLayer
    <3>3. CASE RunCur \/ RunDma \/ UNCHANGED vars
      BY <3>3 DEF RunCur, RunDma, vars, hostVars
    <3> QED BY <3>1, <3>2, <3>3 DEF Next, Finished
  <2> QED BY <2>1, <2>2, <2>3
<1>2. \A t \in DOMAIN gin' : t \in Nat /\ t <= gin'[t]
  <2>1. CASE StreamLayer
    <3>1. PICK rows, base :
            /\ rows \in Nat \ {0} /\ rows <= base
            /\ gin' = [t \in DOMAIN gin \cup {rows} |-> IF t = rows THEN base ELSE gin[t]]
      <4>1. batch.rows \in Nat \ {0}
        BY <2>1, BatchFacts DEF StreamLayer, Running
      <4>2. batch.rows <= InputBase(batch.rows)
        BY <4>1, InputRoom
      <4> WITNESS batch.rows, InputBase(batch.rows)
      <4> QED BY <2>1, <4>1, <4>2 DEF StreamLayer, GraphInputs
    <3>2. DOMAIN gin' = DOMAIN gin \cup {rows}
      BY <3>1
    <3> QED BY <3>1, <3>2 DEF BasesInv
  <2>2. CASE ~StreamLayer
    <3>1. gin' = gin
      <4>1. ASSUME NEW b \in Batches, StartForward(b) PROVE gin' = gin
        BY <4>1 DEF StartForward, streamerVars, graphVars
      <4>2. CASE Engram \/ CpuLayer \/ SumLayer
        BY <4>2 DEF Engram, CpuLayer, SumLayer, streamerVars, graphVars
      <4>3. CASE StreamGroup
        BY <4>3 DEF StreamGroup, RunGroup
      <4>4. CASE RunCur \/ RunDma
        BY <4>4 DEF RunCur, RunDma, graphVars
      <4>5. CASE UNCHANGED vars
        BY <4>5 DEF vars, streamerVars, graphVars
      <4> QED BY <2>2, <4>1, <4>2, <4>3, <4>4, <4>5 DEF Next, Finished
    <3> QED BY <3>1 DEF BasesInv
  <2> QED BY <2>1, <2>2
<1>3. \A op \in Pending' : op.op = "lookup" => op.place \in Places
  <2>1. CASE Engram
    <3>1. PICK ids, work : cur' = Append(cur, Lookup(TheSet(ids), work))
      BY <2>1, EngramFacts
    <3>2. TheSet(ids).place \in Places
      BY <2>1, EngramFacts, SetFacts DEF WorksInv
    <3>3. PICK x : x = Lookup(TheSet(ids), work) /\ x.place \in Places /\ cur' = Append(cur, x)
      BY <3>1, <3>2 DEF Lookup
    <3>4. IsQueue(cur)
      BY DEF HostInv, OpTypes
    <3>5. Vals(cur') = Vals(cur) \cup {x}
      BY <3>3, <3>4, AppendQueue
    <3> QED BY <3>3, <3>5 DEF BasesInv, Pending, Vals
  <2>2. CASE ~Engram
    <3>1. CapturedLookup.place = "resident"
      BY DEF CapturedLookup, Lookup, FirstSet, NewSet
    <3> QED BY <2>2, <3>1, OtherLookups DEF BasesInv, Places
  <2> QED BY <2>1, <2>2
<1> QED BY <1>1, <1>2, <1>3 DEF BasesInv

\* Every step keeps the sizes.
LEMMA SizesStep == HostInv /\ AliveInv /\ SizesInv /\ [Next]_vars => SizesInv'
BY RoomStep, GraphsStep, BasesStep DEF SizesInv

\* What the types say follows.
LEMMA SizesTypes == HostInv /\ OutputsOK /\ SizesInv => TypeOK
<1> SUFFICES ASSUME HostInv, OutputsOK, SizesInv PROVE TypeOK
  OBVIOUS
<1>1. \A wk \in DOMAIN works : \A s \in LiveSets : works[wk].set = s.id => wk[2] <= s.cap
  BY DEF SizesInv, RoomInv, LiveSets
<1>2. Cardinality({wk \in DOMAIN works : wk[2] >= EagerRows}) <= WorksLimit
  BY DEF SizesInv, WorksInv, Sized
<1>3. Cardinality({k[1] : k \in graphs}) <= GraphKeep + 1
  <2>1. /\ IsFiniteSet(DOMAIN graphUse) /\ Cardinality(DOMAIN graphUse) <= GraphKeep + 1
        /\ {k[1] : k \in graphs} \in SUBSET DOMAIN graphUse
    BY DEF SizesInv, GraphsInv
  <2>2. IsFiniteSet({k[1] : k \in graphs}) /\ Cardinality({k[1] : k \in graphs}) <= Cardinality(DOMAIN graphUse)
    BY <2>1, FS_Subset
  <2>3. PICK m, n \in Nat : m = Cardinality({k[1] : k \in graphs}) /\ n = Cardinality(DOMAIN graphUse)
    BY <2>1, <2>2, FS_CardinalityType
  <2> QED BY <2>1, <2>2, <2>3, Numbers
<1>4. \A t \in DOMAIN gin : t <= gin[t] /\ gin[t] \in DOMAIN acc
  BY DEF HostInv, SizesInv, BasesInv
<1>5. \A op \in Pending : op.place \in Places
  <2> SUFFICES ASSUME NEW op \in Pending PROVE op.place \in Places
    OBVIOUS
  <2>1. KnownOp(op)
    BY DEF HostInv, OpTypes
  <2>2. CASE IsLookup(op)
    BY <2>2 DEF IsLookup, SizesInv, BasesInv
  <2>3. CASE op \in Zeros \cup Replays \cup Sums
    BY <2>3 DEF Zeros, Replays, Sums, Places
  <2> QED BY <2>1, <2>2, <2>3 DEF KnownOp
<1>6. dma = <<>> => ~copying
  BY DEF HostInv
<1> QED BY <1>1, <1>2, <1>3, <1>4, <1>5, <1>6 DEF TypeOK, HostInv, OutputsOK, SizesInv, BasesInv

-----------------------------------------------------------------------------
(* Theorems *)

\* The inductive invariant: the types, the scratch, what the queued operations point
\* at, what the accumulators and landings hold when they are read, and the sizes.
IInv ==
  HostInv /\ OutputsOK /\ ScratchInv /\ AliveInv /\ AccInv /\ EachExpertOnce /\ SizesInv

\* The first state.
LEMMA InitInv == Init => IInv
<1> SUFFICES ASSUME Init PROVE IInv
  OBVIOUS
<1>1. OutputsOK
  BY DEF Init, OutputsOK, Places
<1>2. EachExpertOnce
  BY DEF Init, EachExpertOnce
<1> QED BY <1>1, <1>2, InitHost, InitScratch, InitAlive, InitAcc, InitSizes DEF IInv

\* Every step.
LEMMA StepInv == IInv /\ [Next]_vars => IInv'
<1> SUFFICES ASSUME IInv, [Next]_vars PROVE IInv'
  OBVIOUS
<1>1. HostInv /\ OutputsOK /\ ScratchInv /\ AliveInv /\ AccInv /\ EachExpertOnce /\ SizesInv
  BY DEF IInv
<1> QED BY <1>1, HostStep, OutputsStep, ScratchStep, AliveStep, AccStep, SummedStep, SizesStep
   DEF IInv

\* The invariant holds of every state of the forwards, the compute stream and the
\* transfers, however far the host is ahead.
THEOREM Invariance == Spec => []IInv
BY InitInv, StepInv, PTL DEF Spec

\* kt_lend.end_window and before_forward wait long enough: when the scratch loses its
\* memory no lookup, transfer, group graph or streamed output is still to use it.
THEOREM ScratchKept == Spec => []ScratchInWindow
<1>1. IInv => ScratchInWindow
  BY DEF IInv, ScratchInv, ScratchInWindow, ScratchFree
<1> QED BY <1>1, Invariance, PTL

\* What engram_backend.py's _owned_rows and the streamer's _trim_graphs drop, no queued
\* callback, lookup or replay still points at, nor does the decode graph.
THEOREM AliveQueued == Spec => []QueuedAlive
<1>1. IInv => QueuedAlive
  BY AliveLookups DEF IInv, AliveInv, QueuedAlive
<1> QED BY <1>1, Invariance, PTL

\* run() of kt_stream_prefill adds each group to the accumulator from a landing that
\* holds its own layer's weights, and with the resident and the CPU's experts every
\* expert is in the layer's sum once, whatever the groups and the CPU's share of them.
THEOREM ExpertsOnce == Spec => []EachExpertOnce
<1>1. IInv => EachExpertOnce
  BY DEF IInv
<1> QED BY <1>1, Invariance, PTL

\* A lookup's set has room for its rows, the sets have numbers of their own, _owned_rows
\* keeps no more works of prefill-sized lookups than its limit, _trim_graphs no more row
\* counts than GraphKeep and the largest, a base has room for the rows whose views are of
\* it, and every buffer lies in the scratch or stays.
THEOREM TypeCorrect == Spec => []TypeOK
<1>1. IInv => TypeOK
  BY SizesTypes DEF IInv
<1> QED BY <1>1, Invariance, PTL
=============================================================================
