------------------------------ MODULE RowStore ------------------------------
(***************************************************************************)
(* The engram row store (tools/engram-adapter/row_store.cpp): host         *)
(* callbacks look rows of a table up in a direct-mapped cache, read those  *)
(* it lacks on a pool of I/O threads, and put them into the cache.         *)
(*                                                                         *)
(* A row's bytes are its number, Zero stands for a zeroed row, Unwritten   *)
(* for what the output buffers held before the call. The shard locks make  *)
(* the look at a slot and the filling of one single steps. A call's misses *)
(* live on its stack: a job of the pool is the caller and the position of  *)
(* its miss. Several Callers are what the code's locks and its first wait  *)
(* on done_cv allow for; the runtime runs the callbacks of a stream one    *)
(* after another. An empty set of Workers is resident mode.                *)
(***************************************************************************)
EXTENDS Integers, FiniteSets, SequencesExt

CONSTANTS
  Callers,   \* threads that run row_store_lookup
  Workers,   \* threads of the pool
  NRows,     \* rows of the table
  Lo, Hi,    \* row_store_range: the rank's rows are Lo .. Hi - 1
  NSlots,    \* slots of the cache
  Requests,  \* the sequences of ids looked up
  MaxCalls   \* calls a caller makes: bounds the run

ASSUME RangeAssumption == NRows \in Nat /\ Lo \in 0 .. NRows /\ Hi \in Lo .. NRows
ASSUME NSlotsAssumption == NSlots \in Nat
ASSUME RequestsAssumption == Requests \subseteq Seq(Int)
ASSUME MaxCallsAssumption == MaxCalls \in Nat

Zero == -1
Unwritten == -2
NoJob == <<>>

VARIABLES
  cache,   \* [slot -> [key, row]]: the key is the id plus one, zero when empty
  errors,  \* the counter of failed lookups
  io,      \* the pool: queue, next, pending
  held,    \* [worker -> its job, or NoJob]
  has,     \* [worker -> has its job run]
  pc,      \* [caller -> where its call is]
  ids,     \* [caller -> the ids looked up]
  i,       \* [caller -> ids, then misses, handled]
  out,     \* [caller -> the output rows]
  misses,  \* [caller -> its misses: at, id, ok, row]
  seen,    \* [caller -> errors when its call began]
  calls    \* [caller -> calls made]

pool == <<io, held, has>>
call == <<pc, ids, i, out, misses, seen, calls>>
vars == <<cache, errors, pool, call>>

Valid(id) == id \in 0 .. NRows - 1
Owned(id) == id \in Lo .. Hi - 1
SlotOf(id) == id % NSlots

Init ==
  /\ cache = [s \in 0 .. NSlots - 1 |-> [key |-> 0, row |-> Zero]]
  /\ errors = 0
  /\ io = [queue |-> <<>>, next |-> 0, pending |-> 0]
  /\ held = [w \in Workers |-> NoJob] /\ has = [w \in Workers |-> FALSE]
  /\ pc = [c \in Callers |-> "idle"] /\ ids = [c \in Callers |-> <<>>]
  /\ i = [c \in Callers |-> 0] /\ out = [c \in Callers |-> <<>>]
  /\ misses = [c \in Callers |-> <<>>]
  /\ seen = [c \in Callers |-> 0] /\ calls = [c \in Callers |-> 0]

Call(c) ==
  /\ pc[c] = "idle" /\ calls[c] < MaxCalls
  /\ \E q \in Requests :
       /\ ids' = [ids EXCEPT ![c] = q]
       /\ out' = [out EXCEPT ![c] = [k \in DOMAIN q |-> Unwritten]]
  /\ pc' = [pc EXCEPT ![c] = "lookup"]
  /\ i' = [i EXCEPT ![c] = 0] /\ misses' = [misses EXCEPT ![c] = <<>>]
  /\ seen' = [seen EXCEPT ![c] = errors] /\ calls' = [calls EXCEPT ![c] = @ + 1]
  /\ UNCHANGED <<cache, errors, pool>>

\* Mutant of Hit: any filled slot will do.
Hit_any_key(id) == NSlots > 0 /\ cache[SlotOf(id)].key # 0

Hit(id) == NSlots > 0 /\ cache[SlotOf(id)].key = id + 1

\* One round of the first loop.
LookupRow(c) ==
  LET at == i[c] + 1
      id == ids[c][at]
      Put(row) == out' = [out EXCEPT ![c][at] = row]
  IN
  /\ pc[c] = "lookup" /\ i[c] < Len(ids[c])
  /\ i' = [i EXCEPT ![c] = at]
  /\ \/ /\ ~Valid(id)
        /\ Put(Zero) /\ errors' = errors + 1 /\ UNCHANGED misses
     \/ /\ Valid(id) /\ ~Owned(id)
        /\ Put(Zero) /\ UNCHANGED <<errors, misses>>
     \/ /\ Owned(id) /\ Hit(id)
        /\ Put(cache[SlotOf(id)].row) /\ UNCHANGED <<errors, misses>>
     \/ /\ Owned(id) /\ ~Hit(id)
        /\ misses' = [misses EXCEPT ![c] =
             Append(@, [at |-> at, id |-> id, ok |-> FALSE, row |-> Zero])]
        /\ UNCHANGED <<errors, out>>
  /\ UNCHANGED <<cache, pool, pc, ids, seen, calls>>

\* One miss, or no pool, is read by the callback itself; more go to the pool.
LookupEnd(c) ==
  LET n == Len(misses[c]) IN
  /\ pc[c] = "lookup" /\ i[c] = Len(ids[c])
  /\ i' = [i EXCEPT ![c] = 0]
  /\ pc' = [pc EXCEPT ![c] = CASE n = 0 -> "idle"
                               [] n > 0 /\ (n = 1 \/ Workers = {}) -> "read"
                               [] OTHER -> "batch"]
  /\ UNCHANGED <<cache, errors, pool, ids, out, misses, seen, calls>>

\* read_bytes of both parts of miss k of caller c: the read may fail.
Read(c, k) ==
  \E ok \in BOOLEAN :
    misses' = [misses EXCEPT ![c][k].ok = ok,
                               ![c][k].row = IF ok THEN misses[c][k].id ELSE Zero]

ReadDirect(c) ==
  /\ pc[c] = "read" /\ i[c] < Len(misses[c])
  /\ Read(c, i[c] + 1)
  /\ i' = [i EXCEPT ![c] = @ + 1]
  /\ UNCHANGED <<cache, errors, pool, pc, ids, out, seen, calls>>

ReadEnd(c) ==
  /\ pc[c] = "read" /\ i[c] = Len(misses[c])
  /\ i' = [i EXCEPT ![c] = 0] /\ pc' = [pc EXCEPT ![c] = "finish"]
  /\ UNCHANGED <<cache, errors, pool, ids, out, misses, seen, calls>>

\* Mutant of PoolFree: a batch starts once the last job of another is taken.
PoolFree_queue_taken == io.next = Len(io.queue)

PoolFree == io.pending = 0

\* io_run_batch: wait for the batch before, then queue this one ...
RunBatch(c) ==
  /\ pc[c] = "batch" /\ PoolFree
  /\ io' = [queue |-> [k \in DOMAIN misses[c] |-> <<c, k>>],
            next |-> 0, pending |-> Len(misses[c])]
  /\ pc' = [pc EXCEPT ![c] = "wait"]
  /\ UNCHANGED <<cache, errors, held, has, ids, i, out, misses, seen, calls>>

\* Mutant of BatchDone: the callback goes on when its last job is taken.
BatchDone_when_taken(c) ==
  /\ pc[c] = "wait" /\ io.next = Len(io.queue)
  /\ pc' = [pc EXCEPT ![c] = "finish"]
  /\ UNCHANGED <<cache, errors, pool, ids, i, out, misses, seen, calls>>

\* ... and wait for it.
BatchDone(c) ==
  /\ pc[c] = "wait" /\ io.pending = 0
  /\ pc' = [pc EXCEPT ![c] = "finish"]
  /\ UNCHANGED <<cache, errors, pool, ids, i, out, misses, seen, calls>>

\* io_worker: take a job, run it without the lock, count it.
WorkerTake(w) ==
  /\ held[w] = NoJob /\ io.next < Len(io.queue)
  /\ held' = [held EXCEPT ![w] = io.queue[io.next + 1]]
  /\ io' = [io EXCEPT !.next = @ + 1]
  /\ UNCHANGED <<cache, errors, has, call>>

WorkerRead(w) ==
  /\ held[w] # NoJob /\ ~has[w]
  /\ Read(held[w][1], held[w][2])
  /\ has' = [has EXCEPT ![w] = TRUE]
  /\ UNCHANGED <<cache, errors, io, held, pc, ids, i, out, seen, calls>>

\* Mutant of WorkerDone: pending is counted only while jobs wait in the queue.
WorkerDone_not_last(w) ==
  /\ has[w]
  /\ held' = [held EXCEPT ![w] = NoJob] /\ has' = [has EXCEPT ![w] = FALSE]
  /\ io' = IF io.next < Len(io.queue) THEN [io EXCEPT !.pending = @ - 1] ELSE io
  /\ UNCHANGED <<cache, errors, call>>

WorkerDone(w) ==
  /\ has[w]
  /\ held' = [held EXCEPT ![w] = NoJob] /\ has' = [has EXCEPT ![w] = FALSE]
  /\ io' = IF io.pending = 1 THEN [queue |-> <<>>, next |-> 0, pending |-> 0]
                             ELSE [io EXCEPT !.pending = @ - 1]
  /\ UNCHANGED <<cache, errors, call>>

\* One round of the last loop.
FinishRow(c) ==
  LET m == misses[c][i[c] + 1] IN
  /\ pc[c] = "finish" /\ i[c] < Len(misses[c])
  /\ \/ /\ ~m.ok
        /\ out' = [out EXCEPT ![c][m.at] = Zero]
        /\ errors' = errors + 1
        /\ UNCHANGED cache
     \/ /\ m.ok
        /\ out' = [out EXCEPT ![c][m.at] = m.row]
        /\ cache' = IF NSlots > 0
                    THEN [cache EXCEPT ![SlotOf(m.id)] = [key |-> m.id + 1, row |-> m.row]]
                    ELSE cache
        /\ UNCHANGED errors
  /\ i' = [i EXCEPT ![c] = @ + 1]
  /\ UNCHANGED <<pool, pc, ids, misses, seen, calls>>

Return(c) ==
  /\ pc[c] = "finish" /\ i[c] = Len(misses[c])
  /\ pc' = [pc EXCEPT ![c] = "idle"]
  /\ UNCHANGED <<cache, errors, pool, ids, i, out, misses, seen, calls>>

CallerStep(c) ==
  \/ LookupRow(c) \/ LookupEnd(c) \/ ReadDirect(c) \/ ReadEnd(c)
  \/ RunBatch(c) \/ BatchDone(c) \/ FinishRow(c) \/ Return(c)

WorkerStep(w) == WorkerTake(w) \/ WorkerRead(w) \/ WorkerDone(w)

Next == (\E c \in Callers : Call(c) \/ CallerStep(c)) \/ (\E w \in Workers : WorkerStep(w))

\* A callback that can go on goes on, and so does a thread of the pool. No
\* condition variable is assumed to be fair between callers.
Fairness ==
  /\ \A c \in Callers : WF_vars(CallerStep(c))
  /\ \A w \in Workers : WF_vars(WorkerStep(w))

Spec == Init /\ [][Next]_vars /\ Fairness

-----------------------------------------------------------------------------

Busy == {w \in Workers : held[w] # NoJob}

\* pending counts the jobs not yet run: those in the queue and those held
\* (one batch at a time, lines 105-118).
PendingCounts == io.pending = Len(io.queue) - io.next + Cardinality(Busy)

\* The variables have their types, and the pool its count.
TypeOK ==
  /\ \A s \in DOMAIN cache : cache[s].key \in 0 .. NRows /\ cache[s].row \in {Zero} \cup 0 .. NRows - 1
  /\ errors \in Nat
  /\ io.next \in 0 .. Len(io.queue)
  /\ PendingCounts
  /\ \A w \in Workers : has[w] => held[w] # NoJob
  /\ \A c \in Callers :
       /\ pc[c] \in {"idle", "lookup", "read", "batch", "wait", "finish"}
       /\ DOMAIN out[c] = DOMAIN ids[c] /\ Range(out[c]) \subseteq {Unwritten, Zero} \cup 0 .. NRows - 1
       /\ calls[c] \in 0 .. MaxCalls

\* What position k of a call should hold: the row, or zeros for a row of the
\* other rank.
Wanted(c, k, row) == IF Owned(ids[c][k]) THEN row = ids[c][k] ELSE row = Zero

\* A call that has returned left in every position the bytes of the row asked
\* for, whatever the cache went through, or zeros that the error counter
\* shows (lines 220-288).
RowsExact ==
  \A c \in Callers : pc[c] = "idle" =>
    \A k \in DOMAIN ids[c] :
      \/ Valid(ids[c][k]) /\ Wanted(c, k, out[c][k])
      \/ out[c][k] = Zero /\ errors > seen[c]

Jobs == {io.queue[k] : k \in io.next + 1 .. Len(io.queue)} \cup {held[w] : w \in Busy}

\* A job of the pool writes into the misses of the call that queued it
\* (line 261): while there is one its caller waits, and no job is both queued
\* and held or held twice.
JobsAlive ==
  /\ \A j \in Jobs : pc[j[1]] = "wait" /\ j[2] \in DOMAIN misses[j[1]]
  /\ \A v, w \in Busy : v # w => held[v] # held[w]
  /\ \A w \in Busy : \A k \in io.next + 1 .. Len(io.queue) : io.queue[k] # held[w]

\* A lookup returns: no count is missed and no caller is left waiting (lines
\* 68-85 and 107-118).
CallsReturn == \A c \in Callers : pc[c] # "idle" ~> pc[c] = "idle"
=============================================================================
