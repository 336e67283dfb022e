--------------------------- MODULE RowStore_proofs ---------------------------
(***************************************************************************)
(* Proofs about RowStore for any callers, workers, rows, slots, requests   *)
(* and number of calls.                                                    *)
(***************************************************************************)
EXTENDS RowStore, FiniteSetTheorems, TLAPS

Rows == 0 .. NRows - 1
OutRow == {Unwritten, Zero} \cup Rows
Job == Callers \X (Nat \ {0})
Miss == [at : Nat, id : Int, ok : BOOLEAN, row : Int]

\* Every variable is a function, record or sequence of the kind the code's is.
Shapes ==
  /\ cache \in [0 .. NSlots - 1 -> [key : 0 .. NRows, row : {Zero} \cup Rows]]
  /\ errors \in Nat
  /\ io \in [queue : Seq(Job), next : Nat, pending : Int]
  /\ held \in [Workers -> {NoJob} \cup Job]
  /\ has \in [Workers -> BOOLEAN]
  /\ pc \in [Callers -> {"idle", "lookup", "read", "batch", "wait", "finish"}]
  /\ ids \in [Callers -> Seq(Int)]
  /\ i \in [Callers -> Nat]
  /\ out \in [Callers -> Seq(OutRow)]
  /\ misses \in [Callers -> Seq(Miss)]
  /\ seen \in [Callers -> Nat]
  /\ calls \in [Callers -> 0 .. MaxCalls]

\* A filled slot holds the row its key names.
FilledSlots ==
  \A s \in 0 .. NSlots - 1 : cache[s].key # 0 => cache[s].row = cache[s].key - 1

\* There is an output row for every id, and every loop is within its bound.
InBounds(c) ==
  /\ Len(out[c]) = Len(ids[c])
  /\ pc[c] = "lookup" => i[c] <= Len(ids[c])
  /\ pc[c] \in {"read", "finish"} => i[c] <= Len(misses[c])
  /\ pc[c] \in {"batch", "wait"} => i[c] = 0
  /\ seen[c] <= errors

\* A miss is of a position of the call, of a row of this rank, and what a
\* successful read put there is that row.
MissesExact(c) ==
  \A m \in 1 .. Len(misses[c]) :
    /\ misses[c][m].at \in 1 .. Len(ids[c])
    /\ misses[c][m].id = ids[c][misses[c][m].at]
    /\ Owned(misses[c][m].id)
    /\ misses[c][m].ok => misses[c][m].row = misses[c][m].id

\* Position k of caller c's call holds what it should, or zeros and an error.
Settled(c, k) ==
  \/ Valid(ids[c][k]) /\ Wanted(c, k, out[c][k])
  \/ out[c][k] = Zero /\ errors > seen[c]

\* Position k is one of those the call still has to look at or to fill.
Open(c, k) ==
  \/ pc[c] = "lookup" /\ k > i[c]
  \/ pc[c] # "idle" /\ \E m \in 1 .. Len(misses[c]) :
       misses[c][m].at = k /\ (pc[c] = "finish" => m > i[c])

OpenOrSettled(c) == \A k \in 1 .. Len(ids[c]) : Open(c, k) \/ Settled(c, k)

\* What holds of each caller, whatever the others and the pool do.
CallExact(c) == InBounds(c) /\ MissesExact(c) /\ OpenOrSettled(c)

\* The pool counts its jobs, and no job is twice in the queue.
PoolExact ==
  /\ io.next <= Len(io.queue)
  /\ IsFiniteSet(Busy) /\ PendingCounts
  /\ \A w \in Workers : has[w] => held[w] # NoJob
  /\ \A a, b \in 1 .. Len(io.queue) : a # b => io.queue[a] # io.queue[b]

IInv ==
  /\ Shapes /\ FilledSlots
  /\ \A c \in Callers : CallExact(c)
  /\ PoolExact /\ JobsAlive

-----------------------------------------------------------------------------
(* Rows, slots, outputs and misses *)

\* A row of the rank is a row of the table.
LEMMA OwnedValid ==
  ASSUME NEW id \in Int, Owned(id)
  PROVE  Valid(id) /\ id \in Rows /\ id + 1 \in 0 .. NRows
BY RangeAssumption DEF Owned, Valid, Rows

\* Every row has a slot when there are slots.
LEMMA SlotExists ==
  ASSUME NSlots > 0, NEW id \in Int
  PROVE  SlotOf(id) \in 0 .. NSlots - 1
BY NSlotsAssumption DEF SlotOf

\* A hit finds the row looked for.
LEMMA HitExact ==
  ASSUME Shapes, FilledSlots, NEW id \in Int, Owned(id), Hit(id)
  PROVE  cache[SlotOf(id)].row = id
<1>1. NSlots > 0 /\ SlotOf(id) \in 0 .. NSlots - 1 /\ cache[SlotOf(id)].key = id + 1
  BY SlotExists DEF Hit
<1>2. id + 1 # 0
  BY OwnedValid DEF Rows
<1> QED BY <1>1, <1>2 DEF FilledSlots

\* A step that writes row to position at of caller c's output.
Writes(c, at, row) == out' = [out EXCEPT ![c][at] = row]

\* Writing one output row changes that row.
LEMMA PutRow ==
  ASSUME Shapes, NEW c \in Callers, NEW at \in 1 .. Len(out[c]), NEW row \in OutRow,
         Writes(c, at, row)
  PROVE  /\ out' \in [Callers -> Seq(OutRow)]
         /\ Len(out'[c]) = Len(out[c])
         /\ out'[c][at] = row
         /\ \A k \in 1 .. Len(out[c]) : k # at => out'[c][k] = out[c][k]
         /\ \A d \in Callers : d # c => out'[d] = out[d]
<1>1. out \in [Callers -> Seq(OutRow)] /\ out[c] \in Seq(OutRow)
  BY DEF Shapes
<1> DEFINE o == [out[c] EXCEPT ![at] = row]
<1>2. out' = [out EXCEPT ![c] = o]
  BY DEF Writes
<1>3. /\ o \in Seq(OutRow) /\ Len(o) = Len(out[c]) /\ o[at] = row
      /\ \A k \in 1 .. Len(out[c]) : k # at => o[k] = out[c][k]
  BY <1>1
<1> HIDE DEF o
<1> QED BY <1>1, <1>2, <1>3

\* A read settles whether its miss has the row or failed, and nothing else.
LEMMA ReadMiss ==
  ASSUME Shapes, NEW c \in Callers, MissesExact(c), NEW k \in 1 .. Len(misses[c]),
         Read(c, k)
  PROVE  /\ misses' \in [Callers -> Seq(Miss)]
         /\ Len(misses'[c]) = Len(misses[c])
         /\ \A m \in 1 .. Len(misses[c]) :
              /\ misses'[c][m].at = misses[c][m].at
              /\ misses'[c][m].id = misses[c][m].id
              /\ misses'[c][m].ok => misses'[c][m].row = misses'[c][m].id
         /\ \A d \in Callers : d # c => misses'[d] = misses[d]
<1>1. misses \in [Callers -> Seq(Miss)] /\ misses[c] \in Seq(Miss) /\ misses[c][k] \in Miss
  BY DEF Shapes
<1>2. PICK ok \in BOOLEAN :
        misses' = [misses EXCEPT ![c][k].ok = ok,
                                 ![c][k].row = IF ok THEN misses[c][k].id ELSE Zero]
  BY DEF Read
<1> DEFINE row == IF ok THEN misses[c][k].id ELSE Zero
           x == [misses[c][k] EXCEPT !.ok = ok, !.row = row]
           ms == [misses[c] EXCEPT ![k] = x]
<1>3. /\ x \in Miss /\ x.at = misses[c][k].at /\ x.id = misses[c][k].id
      /\ x.ok => x.row = x.id
  <2>1. row \in Int
    BY <1>1 DEF Miss, Zero
  <2>2. ok => row = misses[c][k].id
    OBVIOUS
  <2> HIDE DEF row
  <2>3. x \in Miss /\ x.at = misses[c][k].at /\ x.id = misses[c][k].id /\ x.ok = ok /\ x.row = row
    BY <1>1, <2>1 DEF Miss
  <2> QED BY <2>2, <2>3
<1>4. misses'[c] = ms
  BY <1>1, <1>2
<1>5. /\ ms \in Seq(Miss) /\ Len(ms) = Len(misses[c]) /\ ms[k] = x
      /\ \A m \in 1 .. Len(misses[c]) : m # k => ms[m] = misses[c][m]
  <2> HIDE DEF x
  <2> QED BY <1>1, <1>3
<1>6. /\ misses' \in [Callers -> Seq(Miss)]
      /\ \A d \in Callers : d # c => misses'[d] = misses[d]
  <2>1. DOMAIN misses' = Callers /\ \A d \in Callers : d # c => misses'[d] = misses[d]
    BY <1>1, <1>2
  <2>2. misses' = [d \in Callers |-> misses'[d]]
    BY <1>1, <1>2
  <2>3. \A d \in Callers : misses'[d] \in Seq(Miss)
    <3> HIDE DEF ms
    <3> QED BY <1>1, <1>4, <1>5, <2>1
  <2> QED BY <2>1, <2>2, <2>3
<1> HIDE DEF ms, x
<1> QED BY <1>3, <1>4, <1>5, <1>6 DEF MissesExact

-----------------------------------------------------------------------------
(* What a step leaves alone *)

\* What holds of a caller whose own variables a step keeps still holds: other
\* callers only add errors.
LEMMA OthersCall ==
  ASSUME Shapes, NEW d \in Callers, CallExact(d),
         pc'[d] = pc[d], ids'[d] = ids[d], i'[d] = i[d], out'[d] = out[d],
         misses'[d] = misses[d], seen'[d] = seen[d],
         errors' \in Nat, errors' >= errors
  PROVE  CallExact(d)'
<1>1. seen[d] \in Nat /\ errors \in Nat
  BY DEF Shapes
<1>2. InBounds(d)' /\ MissesExact(d)'
  BY <1>1 DEF CallExact, InBounds, MissesExact, Owned
<1>3. \A k \in 1 .. Len(ids[d]) :
        (Open(d, k) => Open(d, k)') /\ (Settled(d, k) => Settled(d, k)')
  BY <1>1 DEF Open, Settled, Valid, Wanted, Owned
<1> QED BY <1>2, <1>3 DEF CallExact, OpenOrSettled

\* A job is a caller and the position of a miss.
LEMMA JobsTyped ==
  ASSUME IInv
  PROVE  \A j \in Jobs : j \in Job /\ j[1] \in Callers
<1> SUFFICES ASSUME NEW j \in Jobs PROVE j \in Job
  BY DEF Job
<1> USE DEF IInv, Shapes, PoolExact
<1>1. CASE \E k \in io.next + 1 .. Len(io.queue) : j = io.queue[k]
  BY <1>1
<1>2. CASE \E w \in Busy : j = held[w]
  BY <1>2 DEF Busy
<1> QED BY <1>1, <1>2 DEF Jobs

\* The pool's jobs stay as they were when a step leaves the pool alone, and the
\* calls of its jobs in their wait.
LEMMA PoolKept ==
  ASSUME IInv, UNCHANGED pool,
         \A j \in Jobs : pc'[j[1]] = pc[j[1]] /\ Len(misses'[j[1]]) = Len(misses[j[1]]),
         misses' \in [Callers -> Seq(Miss)]
  PROVE  PoolExact' /\ JobsAlive'
<1> USE DEF IInv, pool
<1>1. Busy' = Busy /\ Jobs' = Jobs
  BY DEF Busy, Jobs
<1>2. PoolExact'
  BY <1>1 DEF PoolExact, PendingCounts
<1>3. \A j \in Jobs : DOMAIN misses'[j[1]] = DOMAIN misses[j[1]]
  BY JobsTyped DEF Shapes
<1>4. JobsAlive'
  BY <1>1, <1>3 DEF JobsAlive
<1> QED BY <1>2, <1>4

\* A caller that does not wait has no job in the pool.
LEMMA NoJobOf ==
  ASSUME IInv, NEW c \in Callers, pc[c] # "wait"
  PROVE  \A j \in Jobs : j[1] # c
BY DEF IInv, JobsAlive

\* With nothing pending there is no job.
LEMMA NothingPending ==
  ASSUME IInv, io.pending = 0
  PROVE  Jobs = {} /\ Busy = {} /\ io.next = Len(io.queue)
<1>1. IsFiniteSet(Busy) /\ Cardinality(Busy) \in Nat
  BY FS_CardinalityType DEF IInv, PoolExact
<1>2. io.next \in Nat /\ Len(io.queue) \in Nat /\ io.next <= Len(io.queue)
  BY DEF IInv, Shapes, PoolExact
<1>3. Cardinality(Busy) = 0 /\ io.next = Len(io.queue)
  BY <1>1, <1>2 DEF IInv, PoolExact, PendingCounts
<1>4. Busy = {}
  BY <1>1, <1>3, FS_EmptySet
<1> QED BY <1>2, <1>3, <1>4 DEF Jobs

\* A step of a caller that leaves the pool alone keeps the invariant if it keeps
\* the shapes, the cache's rows and what holds of that caller.
LEMMA CallerAlone ==
  ASSUME IInv, NEW c \in Callers, pc[c] # "wait", UNCHANGED pool,
         Shapes', FilledSlots', CallExact(c)', errors' >= errors,
         \A d \in Callers : d # c =>
           /\ pc'[d] = pc[d] /\ ids'[d] = ids[d] /\ i'[d] = i[d]
           /\ out'[d] = out[d] /\ misses'[d] = misses[d] /\ seen'[d] = seen[d]
  PROVE  IInv'
<1> USE DEF IInv
<1>1. \A d \in Callers : CallExact(d)'
  <2> SUFFICES ASSUME NEW d \in Callers, d # c PROVE CallExact(d)'
    OBVIOUS
  <2>1. errors' \in Nat
    BY DEF Shapes
  <2> QED BY <2>1, OthersCall
<1>2. PoolExact' /\ JobsAlive'
  <2>1. \A j \in Jobs : j[1] \in Callers /\ j[1] # c
    BY JobsTyped, NoJobOf
  <2>2. misses' \in [Callers -> Seq(Miss)]
    BY DEF Shapes
  <2> QED BY <2>1, <2>2, PoolKept
<1> QED BY <1>1, <1>2

-----------------------------------------------------------------------------
(* The steps of a call *)

\* The invariant holds at the start.
LEMMA InvInit == Init => IInv
<1> SUFFICES ASSUME Init PROVE IInv
  OBVIOUS
<1>1. Shapes
  <2>1. cache \in [0 .. NSlots - 1 -> [key : 0 .. NRows, row : {Zero} \cup Rows]]
    BY RangeAssumption DEF Init
  <2>2. io \in [queue : Seq(Job), next : Nat, pending : Int]
    BY DEF Init
  <2> QED BY <2>1, <2>2, MaxCallsAssumption DEF Init, Shapes
<1>2. FilledSlots
  BY DEF Init, FilledSlots
<1>3. \A c \in Callers : CallExact(c)
  BY DEF Init, CallExact, InBounds, MissesExact, OpenOrSettled
<1>4. Busy = {} /\ Jobs = {}
  BY DEF Init, Busy, Jobs
<1>5. PoolExact
  BY <1>4, FS_EmptySet DEF Init, PoolExact, PendingCounts
<1>6. JobsAlive
  BY <1>4 DEF Init, JobsAlive
<1> QED BY <1>1, <1>2, <1>3, <1>5, <1>6 DEF IInv

\* A call starts with every position to look at.
LEMMA CallStep ==
  ASSUME IInv, NEW c \in Callers, Call(c)
  PROVE  IInv'
<1> USE DEF IInv
<1>1. PICK q \in Requests :
        /\ ids' = [ids EXCEPT ![c] = q]
        /\ out' = [out EXCEPT ![c] = [k \in DOMAIN q |-> Unwritten]]
  BY DEF Call
<1>2. q \in Seq(Int) /\ DOMAIN q = 1 .. Len(q)
  BY RequestsAssumption
<1> DEFINE o == [k \in DOMAIN q |-> Unwritten]
<1>3. o \in Seq(OutRow) /\ Len(o) = Len(q) /\ out' = [out EXCEPT ![c] = o]
  BY <1>1, <1>2 DEF OutRow
<1> HIDE DEF o
<1>4. Shapes'
  <2>1. out' \in [Callers -> Seq(OutRow)]
    BY <1>3 DEF Shapes
  <2>2. calls' \in [Callers -> 0 .. MaxCalls]
    BY MaxCallsAssumption DEF Call, Shapes
  <2> QED BY <1>1, <1>2, <2>1, <2>2 DEF Call, Shapes, pool
<1>5. CallExact(c)'
  <2>1. /\ pc'[c] = "lookup" /\ i'[c] = 0 /\ misses'[c] = <<>> /\ seen'[c] = errors'
        /\ ids'[c] = q /\ Len(out'[c]) = Len(q)
    BY <1>1, <1>3 DEF Call, Shapes
  <2>2. errors' \in Nat
    BY <1>4 DEF Shapes
  <2> QED BY <1>2, <2>1, <2>2 DEF CallExact, InBounds, MissesExact, OpenOrSettled, Open
<1>6. UNCHANGED pool /\ FilledSlots' /\ errors' >= errors /\ pc[c] # "wait"
  BY DEF Call, FilledSlots, Shapes
<1> QED BY <1>1, <1>4, <1>5, <1>6, CallerAlone DEF Call, Shapes

\* A position looked at is settled, or is that of a miss.
LEMMA LookupRowStep ==
  ASSUME IInv, NEW c \in Callers, LookupRow(c)
  PROVE  IInv'
<1> USE DEF IInv
<1> DEFINE at == i[c] + 1
           id == ids[c][at]
<1>1. /\ at \in 1 .. Len(ids[c]) /\ Len(out[c]) = Len(ids[c]) /\ id \in Int
      /\ at = i[c] + 1 /\ id = ids[c][at]
      /\ pc[c] = "lookup" /\ at \in Nat /\ i[c] \in Nat /\ errors \in Nat /\ seen[c] \in Nat
      /\ seen[c] <= errors /\ misses[c] \in Seq(Miss)
  BY DEF LookupRow, Shapes, CallExact, InBounds
<1>2. /\ i' = [i EXCEPT ![c] = at]
      /\ UNCHANGED <<cache, pool, pc, ids, seen, calls>>
  BY DEF LookupRow
<1> DEFINE x == [at |-> at, id |-> id, ok |-> FALSE, row |-> Zero]
<1>s. \/ ~Valid(id) /\ Writes(c, at, Zero) /\ errors' = errors + 1
           /\ UNCHANGED misses
      \/ Valid(id) /\ ~Owned(id) /\ Writes(c, at, Zero)
           /\ UNCHANGED <<errors, misses>>
      \/ Owned(id) /\ Hit(id) /\ Writes(c, at, cache[SlotOf(id)].row)
           /\ UNCHANGED <<errors, misses>>
      \/ Owned(id) /\ ~Hit(id) /\ UNCHANGED <<errors, out>>
           /\ misses' = [misses EXCEPT ![c] = Append(misses[c], x)]
  BY DEF LookupRow, Writes
<1> HIDE DEF at, id
<1>3. UNCHANGED pool /\ FilledSlots' /\ pc[c] # "wait"
  BY <1>1, <1>2 DEF FilledSlots
\* A position written now is settled, and those before it stay as they are.
<1>4. ASSUME NEW row \in OutRow, Writes(c, at, row), misses' = misses,
             errors' \in Nat, errors' >= errors,
             \/ Valid(id) /\ Wanted(c, at, row)
             \/ row = Zero /\ errors' > errors
      PROVE  IInv'
  <2>0. at \in 1 .. Len(out[c])
    BY <1>1
  <2>1. /\ out' \in [Callers -> Seq(OutRow)] /\ Len(out'[c]) = Len(out[c])
        /\ out'[c][at] = row
        /\ \A k \in 1 .. Len(out[c]) : k # at => out'[c][k] = out[c][k]
        /\ \A d \in Callers : d # c => out'[d] = out[d]
    BY <2>0, <1>4, PutRow
  <2>2. Shapes'
    BY <1>1, <1>2, <1>4, <2>1 DEF Shapes, pool
  <2>3. i'[c] = at
    BY <1>2 DEF Shapes
  <2>4. InBounds(c)' /\ MissesExact(c)'
    <3>1. InBounds(c)'
      BY <1>1, <1>2, <1>4, <2>1, <2>3 DEF InBounds
    <3>2. MissesExact(c)'
      BY <1>2, <1>4 DEF CallExact, MissesExact, Owned
    <3> QED BY <3>1, <3>2
  <2>5. OpenOrSettled(c)'
    <3> SUFFICES ASSUME NEW k \in 1 .. Len(ids[c]) PROVE Open(c, k)' \/ Settled(c, k)'
      BY <1>2 DEF OpenOrSettled
    <3>1. Open(c, k) \/ Settled(c, k)
      BY DEF CallExact, OpenOrSettled
    <3>2. CASE k = at
      BY <1>1, <1>2, <1>4, <2>1, <3>2 DEF Settled, Valid, Wanted, Owned
    <3>3. CASE k # at /\ Settled(c, k)
      BY <1>1, <1>2, <1>4, <2>1, <3>3 DEF Settled, Valid, Wanted, Owned
    <3>4. CASE k # at /\ Open(c, k)
      BY <1>1, <1>2, <1>4, <2>3, <3>4 DEF Open
    <3> QED BY <3>1, <3>2, <3>3, <3>4
  <2> QED BY <1>2, <1>3, <1>4, <2>1, <2>2, <2>4, <2>5, CallerAlone DEF CallExact, Shapes
<1>5. CASE ~Valid(id) /\ Writes(c, at, Zero) /\ errors' = errors + 1
           /\ UNCHANGED misses
  BY <1>1, <1>4, <1>5 DEF OutRow
<1>6. CASE Valid(id) /\ ~Owned(id) /\ Writes(c, at, Zero)
           /\ UNCHANGED <<errors, misses>>
  BY <1>1, <1>4, <1>6 DEF OutRow, Wanted
<1>7. CASE Owned(id) /\ Hit(id) /\ Writes(c, at, cache[SlotOf(id)].row)
           /\ UNCHANGED <<errors, misses>>
  <2>1. cache[SlotOf(id)].row = id /\ Valid(id) /\ id \in OutRow
    BY <1>1, <1>7, HitExact, OwnedValid DEF OutRow
  <2> QED BY <1>1, <1>4, <1>7, <2>1 DEF Wanted
<1>8. CASE Owned(id) /\ ~Hit(id) /\ UNCHANGED <<errors, out>>
           /\ misses' = [misses EXCEPT ![c] = Append(misses[c], x)]
  <2>1. /\ x \in Miss /\ x.at = at /\ x.id = id /\ ~x.ok
    BY <1>1 DEF Miss, Zero
  <2> HIDE DEF x
  <2>2. /\ misses' \in [Callers -> Seq(Miss)]
        /\ Len(misses'[c]) = Len(misses[c]) + 1 /\ misses'[c][Len(misses[c]) + 1] = x
        /\ \A m \in 1 .. Len(misses[c]) : misses'[c][m] = misses[c][m]
        /\ \A d \in Callers : d # c => misses'[d] = misses[d]
    BY <1>1, <1>8, <2>1 DEF Shapes
  <2>3. Shapes'
    BY <1>1, <1>2, <1>8, <2>2 DEF Shapes, pool
  <2>4. i'[c] = at
    BY <1>2 DEF Shapes
  <2>5. InBounds(c)'
    BY <1>1, <1>2, <1>8, <2>4 DEF InBounds
  <2>6. MissesExact(c)'
    <3> SUFFICES ASSUME NEW m \in 1 .. Len(misses'[c])
                 PROVE  /\ misses'[c][m].at \in 1 .. Len(ids[c])
                        /\ misses'[c][m].id = ids[c][misses'[c][m].at]
                        /\ Owned(misses'[c][m].id)
                        /\ misses'[c][m].ok => misses'[c][m].row = misses'[c][m].id
      BY <1>2 DEF MissesExact, Owned
    <3>1. CASE m = Len(misses[c]) + 1
      BY <1>1, <1>8, <2>1, <2>2, <3>1
    <3>2. CASE m \in 1 .. Len(misses[c])
      BY <2>2, <3>2 DEF CallExact, MissesExact
    <3> QED BY <1>1, <2>2, <3>1, <3>2
  <2>7. OpenOrSettled(c)'
    <3> SUFFICES ASSUME NEW k \in 1 .. Len(ids[c]) PROVE Open(c, k)' \/ Settled(c, k)'
      BY <1>2 DEF OpenOrSettled
    <3>1. Open(c, k) \/ Settled(c, k)
      BY DEF CallExact, OpenOrSettled
    <3>2. CASE k = at
      <4>1. /\ Len(misses[c]) + 1 \in 1 .. Len(misses'[c])
            /\ misses'[c][Len(misses[c]) + 1].at = k /\ pc'[c] = "lookup"
        BY <1>1, <1>2, <2>1, <2>2, <3>2
      <4> QED BY <4>1 DEF Open
    <3>3. CASE Settled(c, k)
      BY <1>2, <1>8, <3>3 DEF Settled, Valid, Wanted, Owned
    <3>4. CASE k # at /\ Open(c, k)
      <4>1. pc'[c] = "lookup" /\ (k > i[c] => k > at)
        BY <1>1, <1>2, <3>4
      <4>2. CASE k > i[c]
        BY <2>4, <4>1, <4>2 DEF Open
      <4>3. CASE \E m \in 1 .. Len(misses[c]) : misses[c][m].at = k
        <5>1. PICK m \in 1 .. Len(misses[c]) : misses[c][m].at = k
          BY <4>3
        <5>2. m \in 1 .. Len(misses'[c]) /\ misses'[c][m].at = k
          BY <1>1, <2>2, <5>1
        <5> QED BY <4>1, <5>2 DEF Open
      <4> QED BY <1>1, <3>4, <4>2, <4>3 DEF Open
    <3> QED BY <3>1, <3>2, <3>3, <3>4
  <2>8. \A d \in Callers : d # c =>
          /\ pc'[d] = pc[d] /\ ids'[d] = ids[d] /\ i'[d] = i[d]
          /\ out'[d] = out[d] /\ misses'[d] = misses[d] /\ seen'[d] = seen[d]
    BY <1>2, <1>8, <2>2 DEF Shapes
  <2>9. CallExact(c)' /\ errors' >= errors
    BY <1>1, <1>8, <2>5, <2>6, <2>7 DEF CallExact
  <2> QED BY <1>3, <2>3, <2>8, <2>9, CallerAlone
<1> QED BY <1>s, <1>5, <1>6, <1>7, <1>8

\* A call with no miss has settled all its positions.
LEMMA LookupEndStep ==
  ASSUME IInv, NEW c \in Callers, LookupEnd(c)
  PROVE  IInv'
<1> USE DEF IInv
<1>1. /\ pc[c] = "lookup" /\ i[c] = Len(ids[c]) /\ i'[c] = 0
      /\ Len(misses[c]) \in Nat /\ Len(ids[c]) \in Nat
      /\ UNCHANGED <<cache, errors, pool, ids, out, misses, seen, calls>>
  BY DEF LookupEnd, Shapes
<1>2. pc'[c] \in {"idle", "read", "batch"} /\ (pc'[c] = "idle" => Len(misses[c]) = 0)
  BY <1>1 DEF LookupEnd, Shapes
<1>3. Shapes'
  <2>1. pc' \in [Callers -> {"idle", "lookup", "read", "batch", "wait", "finish"}]
    BY <1>1, <1>2 DEF LookupEnd, Shapes
  <2> QED BY <1>1, <2>1 DEF LookupEnd, Shapes, pool
<1>4. CallExact(c)'
  <2>1. InBounds(c)' /\ MissesExact(c)'
    BY <1>1, <1>2 DEF CallExact, InBounds, MissesExact, Owned
  <2>2. ASSUME NEW k \in 1 .. Len(ids[c]) PROVE Open(c, k)' \/ Settled(c, k)'
    <3>1. Settled(c, k) => Settled(c, k)'
      BY <1>1 DEF Settled, Valid, Wanted, Owned
    <3>2. Open(c, k) => Open(c, k)'
      <4>1. ~(k > i[c])
        BY <1>1
      <4> QED BY <1>1, <1>2, <4>1 DEF Open
    <3> QED BY <3>1, <3>2 DEF CallExact, OpenOrSettled
  <2> QED BY <1>1, <2>1, <2>2 DEF CallExact, OpenOrSettled
<1>5. FilledSlots' /\ errors' >= errors
  BY <1>1 DEF FilledSlots, Shapes
<1> QED BY <1>1, <1>3, <1>4, <1>5, CallerAlone DEF LookupEnd, Shapes

\* A read by the callback itself.
LEMMA ReadDirectStep ==
  ASSUME IInv, NEW c \in Callers, ReadDirect(c)
  PROVE  IInv'
<1> USE DEF IInv
<1>1. /\ pc[c] = "read" /\ i[c] \in Nat /\ i[c] + 1 \in 1 .. Len(misses[c])
      /\ i' = [i EXCEPT ![c] = @ + 1] /\ Read(c, i[c] + 1)
      /\ UNCHANGED <<cache, errors, pool, pc, ids, out, seen, calls>>
  BY DEF ReadDirect, Shapes
<1>2. /\ misses' \in [Callers -> Seq(Miss)]
      /\ Len(misses'[c]) = Len(misses[c])
      /\ \A m \in 1 .. Len(misses[c]) :
           /\ misses'[c][m].at = misses[c][m].at
           /\ misses'[c][m].id = misses[c][m].id
           /\ misses'[c][m].ok => misses'[c][m].row = misses'[c][m].id
      /\ \A d \in Callers : d # c => misses'[d] = misses[d]
  BY <1>1, ReadMiss DEF CallExact
<1>3. Shapes' /\ i'[c] = i[c] + 1
  <2>1. i' \in [Callers -> Nat] /\ i'[c] = i[c] + 1
    BY <1>1 DEF Shapes
  <2> QED BY <1>1, <1>2, <2>1 DEF Shapes, pool
<1>4. CallExact(c)'
  <2>1. InBounds(c)'
    BY <1>1, <1>2, <1>3 DEF CallExact, InBounds
  <2>2. MissesExact(c)'
    BY <1>1, <1>2 DEF CallExact, MissesExact, Owned
  <2>3. ASSUME NEW k \in 1 .. Len(ids[c]) PROVE Open(c, k)' \/ Settled(c, k)'
    <3>1. Settled(c, k) => Settled(c, k)'
      BY <1>1 DEF Settled, Valid, Wanted, Owned
    <3>2. Open(c, k) => Open(c, k)'
      BY <1>1, <1>2 DEF Open
    <3> QED BY <3>1, <3>2 DEF CallExact, OpenOrSettled
  <2> QED BY <1>1, <2>1, <2>2, <2>3 DEF CallExact, OpenOrSettled
<1>5. FilledSlots' /\ errors' >= errors
  BY <1>1 DEF FilledSlots, Shapes
<1> QED BY <1>1, <1>2, <1>3, <1>4, <1>5, CallerAlone DEF Shapes

\* From the read, and from the wait, a call goes on to put its misses' rows.
LEMMA CallFinishes ==
  ASSUME IInv, NEW c \in Callers, pc[c] \in {"read", "wait"},
         pc' = [pc EXCEPT ![c] = "finish"],
         i'[c] = 0, i' \in [Callers -> Nat],
         UNCHANGED <<cache, errors, pool, ids, out, misses, seen, calls>>
  PROVE  Shapes' /\ FilledSlots' /\ CallExact(c)'
<1> USE DEF IInv
<1>1. Shapes' /\ FilledSlots' /\ pc'[c] = "finish"
  BY DEF Shapes, FilledSlots, pool
<1>2. InBounds(c)' /\ MissesExact(c)'
  BY <1>1 DEF Shapes, CallExact, InBounds, MissesExact, Owned
<1>3. ASSUME NEW k \in 1 .. Len(ids[c]) PROVE Open(c, k)' \/ Settled(c, k)'
  <2>1. Settled(c, k) => Settled(c, k)'
    BY DEF Settled, Valid, Wanted, Owned
  <2>2. Open(c, k) => Open(c, k)'
    <3>1. misses[c] \in Seq(Miss)
      BY DEF Shapes
    <3>2. \A m \in 1 .. Len(misses[c]) : m > i'[c]
      BY <3>1
    <3> QED BY <1>1, <3>2 DEF Open
  <2> QED BY <2>1, <2>2 DEF CallExact, OpenOrSettled
<1> QED BY <1>1, <1>2, <1>3 DEF CallExact, OpenOrSettled

\* The callback's own reads are done.
LEMMA ReadEndStep ==
  ASSUME IInv, NEW c \in Callers, ReadEnd(c)
  PROVE  IInv'
<1>1. /\ i'[c] = 0 /\ i' \in [Callers -> Nat] /\ pc' = [pc EXCEPT ![c] = "finish"]
      /\ pc[c] = "read"
      /\ UNCHANGED <<cache, errors, pool, ids, out, misses, seen, calls>>
  BY DEF ReadEnd, IInv, Shapes
<1>2. Shapes' /\ FilledSlots' /\ CallExact(c)'
  BY <1>1, CallFinishes
<1>3. \A d \in Callers : d # c =>
        /\ pc'[d] = pc[d] /\ ids'[d] = ids[d] /\ i'[d] = i[d]
        /\ out'[d] = out[d] /\ misses'[d] = misses[d] /\ seen'[d] = seen[d]
  BY DEF ReadEnd, IInv, Shapes
<1>4. errors' >= errors
  BY <1>1 DEF IInv, Shapes
<1> QED BY <1>1, <1>2, <1>3, <1>4, CallerAlone

\* A call returns with all its positions settled: every miss was put.
LEMMA ReturnStep ==
  ASSUME IInv, NEW c \in Callers, Return(c)
  PROVE  IInv'
<1> USE DEF IInv
<1>1. /\ pc[c] = "finish" /\ i[c] = Len(misses[c]) /\ pc'[c] = "idle"
      /\ misses[c] \in Seq(Miss)
      /\ UNCHANGED <<cache, errors, pool, ids, i, out, misses, seen, calls>>
  BY DEF Return, Shapes
<1>2. Shapes' /\ FilledSlots' /\ errors' >= errors
  BY <1>1 DEF Return, Shapes, FilledSlots, pool
<1>3. CallExact(c)'
  <2>1. InBounds(c)' /\ MissesExact(c)'
    BY <1>1 DEF CallExact, InBounds, MissesExact, Owned
  <2>2. ASSUME NEW k \in 1 .. Len(ids[c]) PROVE Settled(c, k)'
    <3>1. ~Open(c, k)
      BY <1>1 DEF Open
    <3>2. Settled(c, k)
      BY <3>1 DEF CallExact, OpenOrSettled
    <3> QED BY <1>1, <3>2 DEF Settled, Valid, Wanted, Owned
  <2> QED BY <1>1, <2>1, <2>2 DEF CallExact, OpenOrSettled
<1>4. \A d \in Callers : d # c => pc'[d] = pc[d]
  BY DEF Return, Shapes
<1> QED BY <1>1, <1>2, <1>3, <1>4, CallerAlone

\* The row of a miss is put, in its position and in its slot, or the position is
\* zeroed and the failure counted.
LEMMA FinishRowStep ==
  ASSUME IInv, NEW c \in Callers, FinishRow(c)
  PROVE  IInv'
<1> USE DEF IInv
<1> DEFINE n == i[c] + 1
           m == misses[c][n]
           row == IF m.ok THEN m.row ELSE Zero
<1>1. /\ pc[c] = "finish" /\ i[c] \in Nat /\ n \in 1 .. Len(misses[c]) /\ n = i[c] + 1
      /\ m \in Miss /\ Len(misses[c]) \in Nat /\ misses[c] \in Seq(Miss) /\ m = misses[c][n]
      /\ i' = [i EXCEPT ![c] = n]
      /\ UNCHANGED <<pool, pc, ids, misses, seen, calls>>
  BY DEF FinishRow, Shapes
<1>2. /\ m.at \in 1 .. Len(ids[c]) /\ m.id = ids[c][m.at] /\ Owned(m.id) /\ m.id \in Int
      /\ m.ok => m.row = m.id
  BY <1>1 DEF CallExact, MissesExact, Miss
<1>3. m.id \in Rows /\ Valid(m.id) /\ m.id + 1 \in 0 .. NRows
  BY <1>2, OwnedValid
<1>4. /\ row \in OutRow /\ (m.ok => row = m.id) /\ (~m.ok => row = Zero)
  BY <1>2, <1>3 DEF OutRow
<1>5. Writes(c, m.at, row)
  BY DEF FinishRow, Writes
<1>6. errors' \in Nat /\ errors' >= errors /\ (~m.ok => errors' = errors + 1) /\ errors \in Nat
  BY DEF FinishRow, Shapes
<1>7. \/ cache' = cache
      \/ m.ok /\ NSlots > 0
           /\ cache' = [cache EXCEPT ![SlotOf(m.id)] = [key |-> m.id + 1, row |-> m.row]]
  BY DEF FinishRow
<1> HIDE DEF n, m, row
<1>8. /\ cache' \in [0 .. NSlots - 1 -> [key : 0 .. NRows, row : {Zero} \cup Rows]]
      /\ FilledSlots'
  <2>1. CASE cache' = cache
    BY <2>1 DEF FilledSlots, Shapes
  <2>2. CASE m.ok /\ NSlots > 0
             /\ cache' = [cache EXCEPT ![SlotOf(m.id)] = [key |-> m.id + 1, row |-> m.row]]
    <3> DEFINE e == [key |-> m.id + 1, row |-> m.row]
    <3>1. SlotOf(m.id) \in 0 .. NSlots - 1
      BY <1>2, <2>2, SlotExists
    <3>2. m.row \in Rows /\ m.row = m.id
      BY <1>2, <1>3, <2>2
    <3>3. e \in [key : 0 .. NRows, row : {Zero} \cup Rows] /\ e.key = m.id + 1 /\ e.row = m.id
      BY <1>3, <3>2
    <3>4. cache' = [cache EXCEPT ![SlotOf(m.id)] = e]
      BY <2>2
    <3> HIDE DEF e
    <3>5. \A s \in 0 .. NSlots - 1 : cache'[s] = IF s = SlotOf(m.id) THEN e ELSE cache[s]
      BY <3>4 DEF Shapes
    <3>6. cache' \in [0 .. NSlots - 1 -> [key : 0 .. NRows, row : {Zero} \cup Rows]]
      BY <3>3, <3>4 DEF Shapes
    <3>7. FilledSlots'
      BY <1>2, <3>3, <3>5 DEF FilledSlots
    <3> QED BY <3>6, <3>7
  <2> QED BY <1>7, <2>1, <2>2
<1>9. /\ m.at \in 1 .. Len(out[c]) /\ Len(out[c]) = Len(ids[c])
      /\ seen[c] <= errors /\ seen[c] \in Nat
  BY <1>2 DEF CallExact, InBounds, Shapes
<1>10. /\ out' \in [Callers -> Seq(OutRow)]
       /\ Len(out'[c]) = Len(out[c])
       /\ out'[c][m.at] = row
       /\ \A k \in 1 .. Len(out[c]) : k # m.at => out'[c][k] = out[c][k]
       /\ \A d \in Callers : d # c => out'[d] = out[d]
  BY <1>4, <1>5, <1>9, PutRow
<1>11. Shapes' /\ i'[c] = n
  <2>1. i' \in [Callers -> Nat] /\ i'[c] = n
    BY <1>1 DEF Shapes
  <2> QED BY <1>1, <1>6, <1>8, <1>10, <2>1 DEF Shapes, pool
<1>12. CallExact(c)'
  <2>1. InBounds(c)' /\ MissesExact(c)'
    BY <1>1, <1>6, <1>9, <1>10, <1>11 DEF CallExact, InBounds, MissesExact, Owned
  <2>2. ASSUME NEW k \in 1 .. Len(ids[c]) PROVE Open(c, k)' \/ Settled(c, k)'
    <3>1. CASE k = m.at
      <4>1. CASE m.ok
        BY <1>1, <1>2, <1>3, <1>4, <1>10, <3>1, <4>1 DEF Settled, Valid, Wanted, Owned
      <4>2. CASE ~m.ok
        BY <1>1, <1>4, <1>6, <1>9, <1>10, <3>1, <4>2 DEF Settled
      <4> QED BY <4>1, <4>2
    <3>2. CASE k # m.at
      <4>1. out'[c][k] = out[c][k]
        BY <1>9, <1>10, <3>2
      <4>2. Settled(c, k) => Settled(c, k)'
        BY <1>1, <1>6, <1>9, <4>1 DEF Settled, Valid, Wanted, Owned
      <4>3. Open(c, k) => Open(c, k)'
        <5>1. \A q \in 1 .. Len(misses[c]) : misses[c][q].at = k /\ q > i[c] => q > n
          BY <1>1, <3>2
        <5> QED BY <1>1, <1>11, <5>1 DEF Open
      <4> QED BY <4>2, <4>3 DEF CallExact, OpenOrSettled
    <3> QED BY <3>1, <3>2
  <2> QED BY <1>1, <2>1, <2>2 DEF CallExact, OpenOrSettled
<1>13. \A d \in Callers : d # c =>
         /\ pc'[d] = pc[d] /\ ids'[d] = ids[d] /\ i'[d] = i[d]
         /\ out'[d] = out[d] /\ misses'[d] = misses[d] /\ seen'[d] = seen[d]
  BY <1>1, <1>10 DEF Shapes
<1> QED BY <1>1, <1>6, <1>8, <1>11, <1>12, <1>13, CallerAlone

-----------------------------------------------------------------------------
(* The pool *)

\* A batch is queued when no job of another is left, and its caller waits.
LEMMA RunBatchStep ==
  ASSUME IInv, NEW c \in Callers, RunBatch(c)
  PROVE  IInv'
<1> USE DEF IInv
<1> DEFINE q == [k \in 1 .. Len(misses[c]) |-> <<c, k>>]
           n == Len(misses[c])
<1>1. /\ pc[c] = "batch" /\ io.pending = 0 /\ pc'[c] = "wait"
      /\ n \in Nat /\ n = Len(misses[c])
      /\ UNCHANGED <<cache, errors, held, has, ids, i, out, misses, seen, calls>>
  BY DEF RunBatch, PoolFree, Shapes
<1>2. /\ q \in Seq(Job) /\ Len(q) = n
      /\ \A k \in 1 .. n : q[k] = <<c, k>>
  BY <1>1 DEF Job
<1>3. io' = [queue |-> q, next |-> 0, pending |-> n]
  <2>1. DOMAIN misses[c] = 1 .. n
    BY DEF Shapes
  <2> QED BY <2>1 DEF RunBatch
<1> HIDE DEF q, n
<1>4. io'.queue = q /\ io'.next = 0 /\ io'.pending = n /\ io' \in [queue : Seq(Job), next : Nat, pending : Int]
  BY <1>1, <1>2, <1>3
<1>5. Shapes'
  BY <1>1, <1>4 DEF RunBatch, Shapes
<1>6. \A d \in Callers : CallExact(d)'
  <2> SUFFICES ASSUME NEW d \in Callers PROVE CallExact(d)'
    OBVIOUS
  <2>1. CASE d # c
    <3>1. pc'[d] = pc[d] /\ errors' \in Nat /\ errors' >= errors
      BY <1>1, <2>1 DEF RunBatch, Shapes
    <3> QED BY <1>1, <3>1, OthersCall
  <2>2. CASE d = c
    <3>1. InBounds(c)' /\ MissesExact(c)'
      BY <1>1 DEF CallExact, InBounds, MissesExact, Owned
    <3>2. ASSUME NEW k \in 1 .. Len(ids[c]) PROVE Open(c, k)' \/ Settled(c, k)'
      BY <1>1 DEF CallExact, OpenOrSettled, Open, Settled, Valid, Wanted, Owned
    <3> QED BY <1>1, <2>2, <3>1, <3>2 DEF CallExact, OpenOrSettled
  <2> QED BY <2>1, <2>2
<1>7. Busy' = {} /\ Busy = {}
  BY <1>1, NothingPending DEF Busy
<1>8. PoolExact'
  <2>1. IsFiniteSet(Busy') /\ Cardinality(Busy') = 0
    BY <1>7, FS_EmptySet
  <2>2. \A a, b \in 1 .. n : a # b => q[a] # q[b]
    BY <1>2
  <2>3. \A w \in Workers : has'[w] => held'[w] # NoJob
    BY <1>1 DEF PoolExact
  <2> QED BY <1>1, <1>2, <1>4, <2>1, <2>2, <2>3 DEF PoolExact, PendingCounts
<1>9. JobsAlive'
  <2>1. \A j \in Jobs' : \E k \in 1 .. n : j = <<c, k>>
    <3>1. Jobs' = {io'.queue[k] : k \in 1 .. n}
      BY <1>2, <1>4, <1>7 DEF Jobs
    <3> QED BY <1>2, <1>4, <3>1
  <2>2. DOMAIN misses'[c] = 1 .. n
    BY <1>1 DEF Shapes
  <2> QED BY <1>1, <1>7, <2>1, <2>2 DEF JobsAlive
<1>10. FilledSlots'
  BY <1>1 DEF FilledSlots
<1> QED BY <1>5, <1>6, <1>8, <1>9, <1>10

\* The wait ends with no job in the pool.
LEMMA BatchDoneStep ==
  ASSUME IInv, NEW c \in Callers, BatchDone(c)
  PROVE  IInv'
<1> USE DEF IInv
<1>1. /\ pc[c] = "wait" /\ io.pending = 0 /\ i[c] = 0 /\ i' = i
      /\ pc' = [pc EXCEPT ![c] = "finish"] /\ i' \in [Callers -> Nat]
      /\ UNCHANGED <<cache, errors, pool, ids, i, out, misses, seen, calls>>
  BY DEF BatchDone, CallExact, InBounds, Shapes
<1>2. Shapes' /\ FilledSlots' /\ CallExact(c)'
  BY <1>1, CallFinishes
<1>3. \A d \in Callers : CallExact(d)'
  <2> SUFFICES ASSUME NEW d \in Callers, d # c PROVE CallExact(d)'
    BY <1>2
  <2>1. pc'[d] = pc[d] /\ errors' \in Nat /\ errors' >= errors
    BY <1>1 DEF Shapes
  <2> QED BY <1>1, <2>1, OthersCall
<1>4. PoolExact' /\ JobsAlive'
  <2>1. Jobs = {}
    BY <1>1, NothingPending
  <2>2. misses' \in [Callers -> Seq(Miss)]
    BY <1>2 DEF Shapes
  <2> QED BY <1>1, <2>1, <2>2, PoolKept
<1> QED BY <1>2, <1>3, <1>4

\* A job taken from the queue is held by the one worker that took it.
LEMMA WorkerTakeStep ==
  ASSUME IInv, NEW w \in Workers, WorkerTake(w)
  PROVE  IInv'
<1> USE DEF IInv
<1> DEFINE n == io.next + 1
           j == io.queue[n]
<1>1. /\ held[w] = NoJob /\ io.next \in Nat /\ Len(io.queue) \in Nat
      /\ n \in io.next + 1 .. Len(io.queue) /\ n \in 1 .. Len(io.queue) /\ j \in Job
      /\ n = io.next + 1 /\ j = io.queue[n]
      /\ held' = [held EXCEPT ![w] = j]
      /\ io'.queue = io.queue /\ io'.next = n /\ io'.pending = io.pending
      /\ io' \in [queue : Seq(Job), next : Nat, pending : Int]
      /\ UNCHANGED <<cache, errors, has, call>>
  <2>1. /\ held[w] = NoJob /\ io.next < Len(io.queue)
        /\ held' = [held EXCEPT ![w] = j]
        /\ io' = [io EXCEPT !.next = @ + 1]
        /\ UNCHANGED <<cache, errors, has, call>>
    BY DEF WorkerTake
  <2>2. /\ io \in [queue : Seq(Job), next : Nat, pending : Int]
        /\ io.queue \in Seq(Job) /\ io.next \in Nat
    BY DEF Shapes
  <2>3. io'.queue = io.queue /\ io'.next = n /\ io'.pending = io.pending
    BY <2>1, <2>2
  <2>4. io' \in [queue : Seq(Job), next : Nat, pending : Int]
    BY <2>1, <2>2
  <2>5. n \in io.next + 1 .. Len(io.queue) /\ n \in 1 .. Len(io.queue) /\ j \in Job
    BY <2>1, <2>2
  <2> QED BY <2>1, <2>2, <2>3, <2>4, <2>5
<1>2. j # NoJob
  <2>1. j \in Callers \X (Nat \ {0})
    BY <1>1 DEF Job
  <2>2. \E d \in Callers, k \in Nat \ {0} : j = <<d, k>>
    BY <2>1
  <2> QED BY <2>2 DEF NoJob
<1> HIDE DEF n, j
<1>3. Shapes' /\ FilledSlots'
  BY <1>1 DEF Shapes, FilledSlots, call
<1>4. \A d \in Callers : CallExact(d)'
  BY <1>1, <1>3, OthersCall DEF call, Shapes
<1>5. Busy' = Busy \cup {w} /\ w \notin Busy
  BY <1>1, <1>2 DEF Busy, Shapes
<1>6. PoolExact'
  <2>1. IsFiniteSet(Busy') /\ Cardinality(Busy') = Cardinality(Busy) + 1
    BY <1>5, FS_AddElement DEF PoolExact
  <2>2. Cardinality(Busy) \in Nat
    BY FS_CardinalityType DEF PoolExact
  <2>3. PendingCounts'
    <3>1. io.pending = Len(io.queue) - io.next + Cardinality(Busy)
      BY DEF PoolExact, PendingCounts
    <3>2. io'.pending = io.pending /\ Len(io'.queue) = Len(io.queue) /\ io'.next = io.next + 1
      BY <1>1
    <3>3. io.next \in Nat /\ Len(io.queue) \in Nat
      BY <1>1
    <3> DEFINE b == Cardinality(Busy)
               l == Len(io.queue)
    <3>4. l - io.next + b = l - (io.next + 1) + (b + 1)
      <4>1. l \in Nat /\ b \in Nat
        BY <2>2, <3>3
      <4> HIDE DEF b, l
      <4> QED BY <3>3, <4>1
    <3>5. io'.pending = Len(io'.queue) - io'.next + Cardinality(Busy')
      BY <2>1, <3>1, <3>2, <3>4
    <3> QED BY <3>5 DEF PendingCounts
  <2>4. \A v \in Workers : has'[v] => held'[v] # NoJob
    BY <1>1, <1>2 DEF PoolExact, Shapes
  <2> QED BY <1>1, <2>1, <2>3, <2>4 DEF PoolExact
<1>7. JobsAlive'
  <2>1. j \in Jobs
    BY <1>1 DEF Jobs
  <2>2. Jobs' \subseteq Jobs
    <3>1. \A v \in Busy' : held'[v] \in Jobs
      BY <1>1, <1>5, <2>1 DEF Jobs, Shapes, Busy
    <3> QED BY <1>1, <3>1 DEF Jobs
  <2>3. \A k \in n + 1 .. Len(io.queue) : io.queue[k] # j
    BY <1>1 DEF PoolExact
  <2>4. \A v \in Busy : held[v] # j /\ held'[v] = held[v]
    BY <1>1, <1>5 DEF JobsAlive, Shapes, Busy
  <2>5. held'[w] = j
    BY <1>1 DEF Shapes
  <2>6. \A u, v \in Busy' : u # v => held'[u] # held'[v]
    BY <1>5, <2>4, <2>5 DEF JobsAlive
  <2>7. \A v \in Busy' : \A k \in n + 1 .. Len(io.queue) : io.queue[k] # held'[v]
    BY <1>1, <1>5, <2>3, <2>4, <2>5 DEF JobsAlive
  <2> QED BY <1>1, <2>2, <2>6, <2>7 DEF JobsAlive, call
<1> QED BY <1>3, <1>4, <1>6, <1>7

\* A worker reads into a miss of a call that waits for it.
LEMMA WorkerReadStep ==
  ASSUME IInv, NEW w \in Workers, WorkerRead(w)
  PROVE  IInv'
<1> USE DEF IInv
<1>0. held[w] \in Jobs /\ held[w] \in Job
  <2>1. held[w] \in Jobs
    BY DEF WorkerRead, Jobs, Busy
  <2> QED BY <2>1, JobsTyped
<1>a. PICK c \in Callers, k \in Nat \ {0} : held[w] = <<c, k>>
  BY <1>0 DEF Job
<1>1. /\ pc[c] = "wait" /\ k \in 1 .. Len(misses[c])
      /\ UNCHANGED <<cache, errors, io, held, pc, ids, i, out, seen, calls>>
  <2>1. pc[c] = "wait" /\ k \in DOMAIN misses[c]
    BY <1>0, <1>a DEF JobsAlive
  <2> QED BY <2>1 DEF WorkerRead, Shapes
<1>2. Read(c, k) /\ has' = [has EXCEPT ![w] = TRUE] /\ held[w] # NoJob
  BY <1>a DEF WorkerRead
<1>3. /\ misses' \in [Callers -> Seq(Miss)]
      /\ Len(misses'[c]) = Len(misses[c])
      /\ \A m \in 1 .. Len(misses[c]) :
           /\ misses'[c][m].at = misses[c][m].at
           /\ misses'[c][m].id = misses[c][m].id
           /\ misses'[c][m].ok => misses'[c][m].row = misses'[c][m].id
      /\ \A d \in Callers : d # c => misses'[d] = misses[d]
  BY <1>1, <1>2, ReadMiss DEF CallExact
<1>4. Shapes' /\ FilledSlots'
  <2>1. has' \in [Workers -> BOOLEAN]
    BY <1>2 DEF Shapes
  <2> QED BY <1>1, <1>3, <2>1 DEF Shapes, FilledSlots
<1>5. \A d \in Callers : CallExact(d)'
  <2> SUFFICES ASSUME NEW d \in Callers PROVE CallExact(d)'
    OBVIOUS
  <2>1. CASE d # c
    <3>1. errors' \in Nat /\ errors' >= errors
      BY <1>1 DEF Shapes
    <3> QED BY <1>1, <1>3, <2>1, <3>1, OthersCall
  <2>2. CASE d = c
    <3>1. InBounds(c)'
      BY <1>1, <1>3 DEF CallExact, InBounds
    <3>2. MissesExact(c)'
      <4>1. MissesExact(c) /\ ids' = ids
        BY <1>1 DEF CallExact
      <4> QED BY <1>3, <4>1 DEF MissesExact, Owned
    <3>3. ASSUME NEW q \in 1 .. Len(ids[c]) PROVE Open(c, q)' \/ Settled(c, q)'
      <4>1. Settled(c, q) => Settled(c, q)'
        BY <1>1 DEF Settled, Valid, Wanted, Owned
      <4>2. Open(c, q) => Open(c, q)'
        BY <1>1, <1>3 DEF Open
      <4> QED BY <4>1, <4>2 DEF CallExact, OpenOrSettled
    <3> QED BY <1>1, <2>2, <3>1, <3>2, <3>3 DEF CallExact, OpenOrSettled
  <2> QED BY <2>1, <2>2
<1>6. Busy' = Busy /\ Jobs' = Jobs
  BY <1>1 DEF Busy, Jobs
<1>7. PoolExact'
  <2>1. \A v \in Workers : has'[v] => held'[v] # NoJob
    BY <1>1, <1>2 DEF PoolExact, Shapes
  <2> QED BY <1>1, <1>6, <2>1 DEF PoolExact, PendingCounts
<1>8. JobsAlive'
  <2>1. \A j \in Jobs : DOMAIN misses'[j[1]] = DOMAIN misses[j[1]]
    <3> SUFFICES ASSUME NEW j \in Jobs PROVE DOMAIN misses'[j[1]] = DOMAIN misses[j[1]]
      OBVIOUS
    <3>1. j[1] \in Callers
      BY JobsTyped
    <3>2. Len(misses'[j[1]]) = Len(misses[j[1]])
      BY <1>3, <3>1
    <3> QED BY <1>3, <3>1, <3>2 DEF Shapes
  <2> QED BY <1>1, <1>6, <2>1 DEF JobsAlive
<1> QED BY <1>4, <1>5, <1>7, <1>8

\* A job done is counted, the last one clears the queue.
LEMMA WorkerDoneStep ==
  ASSUME IInv, NEW w \in Workers, WorkerDone(w)
  PROVE  IInv'
<1> USE DEF IInv
<1>1. /\ held[w] # NoJob /\ held' = [held EXCEPT ![w] = NoJob]
      /\ has' = [has EXCEPT ![w] = FALSE]
      /\ UNCHANGED <<cache, errors, call>>
      /\ io.next \in Nat /\ Len(io.queue) \in Nat /\ io.next <= Len(io.queue)
  BY DEF WorkerDone, PoolExact, Shapes
<1>2. Busy' = Busy \ {w} /\ w \in Busy
  BY <1>1 DEF Busy, Shapes
<1>3. /\ Cardinality(Busy) \in Nat /\ IsFiniteSet(Busy')
      /\ Cardinality(Busy') = Cardinality(Busy) - 1 /\ Cardinality(Busy') \in Nat
  BY <1>2, FS_RemoveElement, FS_CardinalityType DEF PoolExact
<1>4. io.pending = Len(io.queue) - io.next + Cardinality(Busy)
  BY DEF PoolExact, PendingCounts
<1>5. /\ io' \in [queue : Seq(Job), next : Nat, pending : Int]
      /\ io'.pending = Len(io'.queue) - io'.next + Cardinality(Busy')
      /\ io'.next <= Len(io'.queue)
      /\ io'.next \in Nat /\ Len(io'.queue) \in Nat
      /\ io'.next + 1 .. Len(io'.queue) \subseteq io.next + 1 .. Len(io.queue)
      /\ 1 .. Len(io'.queue) \subseteq 1 .. Len(io.queue)
      /\ \A k \in 1 .. Len(io'.queue) : io'.queue[k] = io.queue[k]
  <2>1. CASE io.pending = 1
    <3>1. io' = [queue |-> <<>>, next |-> 0, pending |-> 0]
      BY <2>1 DEF WorkerDone
    <3>2. io'.queue = <<>> /\ io'.next = 0 /\ io'.pending = 0
      BY <3>1
    <3>3. Cardinality(Busy') = 0 /\ Len(io'.queue) = 0
      BY <1>1, <1>3, <1>4, <2>1, <3>2
    <3>4. io' \in [queue : Seq(Job), next : Nat, pending : Int]
      BY <3>1
    <3>5. 1 .. Len(io'.queue) = {} /\ io'.next + 1 .. Len(io'.queue) = {}
      BY <3>2, <3>3
    <3> QED BY <1>1, <3>2, <3>3, <3>4, <3>5
  <2>2. CASE io.pending # 1
    <3>1. io' = [io EXCEPT !.pending = @ - 1]
      BY <2>2 DEF WorkerDone
    <3>2. io'.queue = io.queue /\ io'.next = io.next /\ io'.pending = io.pending - 1
      BY <3>1 DEF Shapes
    <3>3. io' \in [queue : Seq(Job), next : Nat, pending : Int]
      <4>1. io \in [queue : Seq(Job), next : Nat, pending : Int]
        BY DEF Shapes
      <4> QED BY <3>1, <4>1
    <3> QED BY <1>1, <1>3, <1>4, <3>2, <3>3
  <2> QED BY <2>1, <2>2
<1>6. Shapes' /\ FilledSlots'
  <2>1. held' \in [Workers -> {NoJob} \cup Job] /\ has' \in [Workers -> BOOLEAN]
    BY <1>1 DEF Shapes
  <2> QED BY <1>1, <1>5, <2>1 DEF Shapes, FilledSlots, call
<1>7. \A d \in Callers : CallExact(d)'
  BY <1>1, <1>6, OthersCall DEF call, Shapes
<1>8. PoolExact'
  <2>1. \A v \in Workers : has'[v] => held'[v] # NoJob
    BY <1>1 DEF PoolExact, Shapes
  <2>2. \A a, b \in 1 .. Len(io'.queue) : a # b => io'.queue[a] # io'.queue[b]
    BY <1>5 DEF PoolExact
  <2> QED BY <1>3, <1>5, <2>1, <2>2 DEF PoolExact, PendingCounts
<1>9. JobsAlive'
  <2>1. \A v \in Busy' : v \in Busy /\ held'[v] = held[v]
    BY <1>1, <1>2 DEF Shapes, Busy
  <2>2. \A k \in io'.next + 1 .. Len(io'.queue) :
          k \in io.next + 1 .. Len(io.queue) /\ io'.queue[k] = io.queue[k]
    BY <1>5
  <2>3. Jobs' \subseteq Jobs
    BY <2>1, <2>2 DEF Jobs
  <2> QED BY <1>1, <2>1, <2>2, <2>3 DEF JobsAlive, call
<1> QED BY <1>6, <1>7, <1>8, <1>9

-----------------------------------------------------------------------------
(* The inductive invariant, and what it promises *)

\* Every step keeps the invariant.
LEMMA InvStep == IInv /\ [Next]_vars => IInv'
<1> SUFFICES ASSUME IInv, [Next]_vars PROVE IInv'
  OBVIOUS
<1>1. ASSUME NEW c \in Callers, Call(c) \/ CallerStep(c) PROVE IInv'
  BY <1>1, CallStep, LookupRowStep, LookupEndStep, ReadDirectStep, ReadEndStep,
     RunBatchStep, BatchDoneStep, FinishRowStep, ReturnStep DEF CallerStep
<1>2. ASSUME NEW w \in Workers, WorkerStep(w) PROVE IInv'
  BY <1>2, WorkerTakeStep, WorkerReadStep, WorkerDoneStep DEF WorkerStep
<1>3. CASE UNCHANGED vars
  <2> USE <1>3 DEF vars, pool, call, IInv
  <2>1. Shapes' /\ FilledSlots'
    BY DEF Shapes, FilledSlots
  <2>2. \A d \in Callers : CallExact(d)'
    BY <2>1, OthersCall DEF Shapes
  <2>3. PoolExact' /\ JobsAlive'
    BY <2>1, PoolKept DEF Shapes
  <2> QED BY <2>1, <2>2, <2>3
<1> QED BY <1>1, <1>2, <1>3 DEF Next

\* The row store keeps the invariant, whatever callers and workers interleave.
THEOREM Invariance == Spec => []IInv
BY InvInit, InvStep, PTL DEF Spec

\* The variables keep their types, and pending is at every step the number of
\* jobs queued and held.
THEOREM TypeCorrect == Spec => []TypeOK
<1>1. IInv => TypeOK
  <2> SUFFICES ASSUME IInv PROVE TypeOK
    OBVIOUS
  <2> USE DEF IInv, Shapes
  <2>1. \A s \in DOMAIN cache : cache[s].key \in 0 .. NRows /\ cache[s].row \in {Zero} \cup 0 .. NRows - 1
    BY DEF Rows
  <2>2. io.next \in 0 .. Len(io.queue) /\ PendingCounts
        /\ \A w \in Workers : has[w] => held[w] # NoJob
    BY DEF PoolExact
  <2>3. ASSUME NEW c \in Callers
        PROVE  /\ DOMAIN out[c] = DOMAIN ids[c]
               /\ Range(out[c]) \subseteq {Unwritten, Zero} \cup 0 .. NRows - 1
    <3>1. Len(out[c]) = Len(ids[c])
      BY DEF CallExact, InBounds
    <3>2. out[c] \in Seq(OutRow) /\ ids[c] \in Seq(Int)
      OBVIOUS
    <3> QED BY <3>1, <3>2 DEF OutRow, Rows, Range
  <2> QED BY <2>1, <2>2, <2>3 DEF TypeOK
<1> QED BY <1>1, Invariance, PTL

\* A call returns the bytes of the rows asked for, or zeros that were counted,
\* whatever the callers did to the shared cache meanwhile.
THEOREM LookupExact == Spec => []RowsExact
<1>1. IInv => RowsExact
  <2> SUFFICES ASSUME IInv, NEW c \in Callers, pc[c] = "idle", NEW k \in DOMAIN ids[c]
               PROVE  Settled(c, k)
    BY DEF RowsExact, Settled
  <2>1. k \in 1 .. Len(ids[c])
    BY DEF IInv, Shapes
  <2>2. ~Open(c, k)
    BY DEF Open
  <2> QED BY <2>1, <2>2 DEF IInv, CallExact, OpenOrSettled
<1> QED BY <1>1, Invariance, PTL

\* No worker writes into the misses of a call that has gone on, and no two hold
\* the same job.
THEOREM JobsOfWaiting == Spec => []JobsAlive
<1>1. IInv => JobsAlive
  BY DEF IInv
<1> QED BY <1>1, Invariance, PTL
=============================================================================
