---------------------------- MODULE StreamMemops ----------------------------
(***************************************************************************)
(* The hand-over of MoE work between a GPU stream and the CPU experts with *)
(* stream memory operations (patches/kt-stream-memops.py, and TaskQueue).  *)
(*                                                                         *)
(* For every MoE layer the host makes two calls, submit and sync. Each     *)
(* arms an entry in mentries_ and gives the stream operations on the       *)
(* entry's two flags, req and done. A poller thread scans its copy of the  *)
(* entries: a raised req of a submit entry puts a task on the queue of one *)
(* worker, a raised req of a sync entry waits for the queue to be empty    *)
(* (allow_n_pending is 0 as served) and raises done, which the stream is   *)
(* waiting for. Entries armed while the stream is capturing are permanent  *)
(* and the graph that replays them writes their flags again.               *)
(*                                                                         *)
(* mentries_ is the set of its entries, each with at, its place in arming  *)
(* order (the order of the vector); n is what fetch_add returned for it.   *)
(* Ring counters only grow, and a slot is the counter modulo kRing.        *)
(*                                                                         *)
(* asked, ran and overtaken are history: what the stream asked of a slot,  *)
(* what the worker did for it, and whether a sync was handled ahead of a   *)
(* submit the stream had already asked for.                                *)
(***************************************************************************)
EXTENDS Integers, Sequences

CONSTANTS
  KRing, KPerm,  \* slots for one-shot and for permanent entries
  Depth,         \* operations a stream holds before the driver blocks the host
  MaxLayers,     \* bound on the submit/sync pairs armed
  MaxReplays     \* bound on the graph replays

\* A submit and its sync take two slots in a row, so an even ring (4096) never
\* splits a pair.
ASSUME RingAssumption ==
  KRing \in Nat \ {0} /\ KRing % 2 = 0 /\ KPerm \in Nat /\ Depth \in Nat
ASSUME BoundAssumption == MaxLayers \in Nat /\ MaxReplays \in Nat

Slots == 0 .. KRing + KPerm - 1
None == KRing + KPerm

VARIABLES
  entries,    \* mentries_
  fresh,      \* does the poller's copy have the current mversion_
  ringNext, permNext,
  open,       \* slot of the submit whose sync the host has not called yet, or None
  capturing, graph, layers, replays,
  stream,     \* operations the GPU still has to run
  req, done,  \* the flags in mapped memory
  snap, scanning, left,  \* the poller: its copy, is it in the loop over it, what
                         \* it has still to visit,
  claimed, retire,       \* the entry whose flag it has taken ({}: none), slots to retire
  queue,      \* tasks (slots of submit entries) not finished, oldest first
  asked, ran, overtaken

hostVars == <<ringNext, permNext, open, capturing, graph, layers, replays>>
pollVars == <<snap, scanning, left, claimed, retire>>
ghostVars == <<asked, ran, overtaken>>
vars == <<entries, fresh, hostVars, stream, req, done, pollVars, queue, ghostVars>>

Write(i, n) == [op |-> "write", idx |-> i, n |-> n]
WaitDone(i) == [op |-> "wait", idx |-> i]
Clear(i) == [op |-> "clear", idx |-> i]
Use(i) == [op |-> "use", idx |-> i]    \* a kernel reads what task i wrote

Init ==
  /\ entries = {} /\ fresh = FALSE
  /\ ringNext = 0 /\ permNext = 0 /\ open = None
  /\ capturing = FALSE /\ graph = <<>> /\ layers = 0 /\ replays = 0
  /\ stream = <<>>
  /\ req = [i \in Slots |-> 0] /\ done = [i \in Slots |-> 0]
  /\ snap = {} /\ scanning = FALSE /\ left = {} /\ claimed = {} /\ retire = {}
  /\ queue = <<>>
  /\ asked = [i \in Slots |-> 0] /\ ran = [i \in Slots |-> 0] /\ overtaken = FALSE

-----------------------------------------------------------------------------
(* The host *)

\* The counter that names the slot: perm_next_ while capturing, else ring_next_.
Ticket == IF capturing THEN permNext ELSE ringNext

\* Mutant of ArmSlot: a captured call takes a ring slot like the others.
ArmSlot_ring == ringNext % KRing

ArmSlot == IF capturing THEN KRing + permNext ELSE ringNext % KRing

Entry(sync) ==
  [at |-> ringNext + permNext, n |-> Ticket, idx |-> ArmSlot, sync |-> sync, permanent |-> capturing]

\* Mutant of Arm: no check that a permanent slot is left.
Arm_no_limit(sync) ==
  /\ IF capturing
     THEN permNext' = permNext + 1 /\ ringNext' = ringNext
     ELSE ringNext' = ringNext + 1 /\ permNext' = permNext
  /\ entries' = entries \cup {Entry(sync)}
  /\ fresh' = FALSE

\* memop_arm; a capture fails when no permanent slot is left.
Arm(sync) ==
  /\ IF capturing
     THEN permNext < KPerm /\ permNext' = permNext + 1 /\ ringNext' = ringNext
     ELSE ringNext' = ringNext + 1 /\ permNext' = permNext
  /\ entries' = entries \cup {Entry(sync)}
  /\ fresh' = FALSE

\* What a call gives the stream; a capture keeps it for the graph.
Give(ops) ==
  IF capturing THEN graph' = graph \o ops /\ stream' = stream
  ELSE Len(stream) < Depth /\ stream' = stream \o ops /\ graph' = graph

\* submit_with_cuda_stream
Submit ==
  /\ open = None /\ layers < MaxLayers
  /\ Arm(FALSE)
  /\ Give(<<Write(ArmSlot, Ticket)>>)
  /\ open' = ArmSlot
  /\ asked' = [asked EXCEPT ![ArmSlot] = 0] /\ ran' = [ran EXCEPT ![ArmSlot] = 0]
  /\ UNCHANGED <<capturing, layers, replays, req, done, pollVars, queue, overtaken>>

\* Mutant of Sync: done is not written back to 0.
Sync_no_clear ==
  /\ open # None
  /\ Arm(TRUE)
  /\ Give(<<Write(ArmSlot, Ticket), WaitDone(ArmSlot), Use(open)>>)
  /\ open' = None /\ layers' = layers + 1
  /\ UNCHANGED <<capturing, replays, req, done, pollVars, queue, ghostVars>>

\* sync_with_cuda_stream, then the kernels that read the experts' output.
Sync ==
  /\ open # None
  /\ Arm(TRUE)
  /\ Give(<<Write(ArmSlot, Ticket), WaitDone(ArmSlot), Clear(ArmSlot), Use(open)>>)
  /\ open' = None /\ layers' = layers + 1
  /\ UNCHANGED <<capturing, replays, req, done, pollVars, queue, ghostVars>>

BeginCapture ==
  /\ open = None /\ ~capturing /\ graph = <<>> /\ layers < MaxLayers
  /\ capturing' = TRUE
  /\ UNCHANGED <<entries, fresh, ringNext, permNext, open, graph, layers, replays, stream, req, done,
                 pollVars, queue, ghostVars>>

EndCapture ==
  /\ open = None /\ capturing /\ graph # <<>>
  /\ capturing' = FALSE
  /\ UNCHANGED <<entries, fresh, ringNext, permNext, open, graph, layers, replays, stream, req, done,
                 pollVars, queue, ghostVars>>

Replay ==
  /\ open = None /\ ~capturing /\ graph # <<>>
  /\ replays < MaxReplays /\ Len(stream) < Depth
  /\ replays' = replays + 1
  /\ stream' = stream \o graph
  /\ UNCHANGED <<entries, fresh, ringNext, permNext, open, capturing, graph, layers, req, done,
                 pollVars, queue, ghostVars>>

-----------------------------------------------------------------------------
(* The GPU: the stream's operations, in order *)

GpuStep ==
  /\ stream # <<>>
  /\ LET o == Head(stream) IN
     CASE o.op = "write" -> /\ req' = [req EXCEPT ![o.idx] = 1] /\ done' = done
                            /\ asked' = [asked EXCEPT ![o.idx] = @ + 1]
       [] o.op = "wait"  -> done[o.idx] = 1 /\ UNCHANGED <<req, done, asked>>
       [] o.op = "clear" -> done' = [done EXCEPT ![o.idx] = 0] /\ UNCHANGED <<req, asked>>
       [] o.op = "use"   -> UNCHANGED <<req, done, asked>>
  /\ stream' = Tail(stream)
  /\ UNCHANGED <<entries, fresh, hostVars, pollVars, queue, ran, overtaken>>

-----------------------------------------------------------------------------
(* The poller thread *)

\* Mutant of PollTop: a copy is taken once and for all.
PollTop_stale ==
  /\ ~scanning /\ scanning' = TRUE
  /\ snap' = IF snap = {} THEN entries ELSE snap
  /\ left' = snap' /\ fresh' = TRUE /\ retire' = {}
  /\ UNCHANGED <<entries, hostVars, stream, req, done, claimed, queue, ghostVars>>

\* The top of the loop: a new copy when the version has moved.
PollTop ==
  /\ ~scanning /\ scanning' = TRUE
  /\ snap' = IF fresh THEN snap ELSE entries
  /\ left' = snap' /\ fresh' = TRUE /\ retire' = {}
  /\ UNCHANGED <<entries, hostVars, stream, req, done, claimed, queue, ghostVars>>

\* The scan visits its copy in arming order.
IsNext(e) == e \in left /\ \A f \in left : e.at <= f.at

PollSkip ==
  /\ claimed = {}
  /\ \E e \in left : IsNext(e) /\ req[e.idx] # 1 /\ left' = left \ {e}
  /\ UNCHANGED <<entries, fresh, hostVars, stream, req, done, snap, scanning, claimed, retire,
                 queue, ghostVars>>

\* The poller clears the flag of e before it handles e.
PollClaim ==
  /\ claimed = {}
  /\ \E e \in left :
       /\ IsNext(e) /\ req[e.idx] = 1
       /\ req' = [req EXCEPT ![e.idx] = 0]
       /\ claimed' = {e}
       /\ overtaken' = (overtaken \/ (e.sync /\ \E f \in snap : f.at < e.at /\ req[f.idx] = 1))
  /\ UNCHANGED <<entries, fresh, hostVars, stream, done, snap, scanning, left, retire, queue, asked, ran>>

\* if (!e.permanent) retire.push_back(e.idx)
Handled(e) ==
  /\ claimed' = {} /\ left' = left \ {e}
  /\ retire' = IF e.permanent THEN retire ELSE retire \cup {e.idx}

\* e.func(e.args) enqueues the layer's task.
PollSubmit ==
  /\ \E e \in claimed : ~e.sync /\ queue' = Append(queue, e.idx) /\ Handled(e)
  /\ UNCHANGED <<entries, fresh, hostVars, stream, req, done, snap, scanning, ghostVars>>

\* Mutant of PollSync: done raised before the queue is empty.
PollSync_no_wait ==
  /\ \E e \in claimed : e.sync /\ done' = [done EXCEPT ![e.idx] = 1] /\ Handled(e)
  /\ UNCHANGED <<entries, fresh, hostVars, stream, req, snap, scanning, queue, ghostVars>>

\* TaskQueue::sync(0), then done is raised.
PollSync ==
  /\ queue = <<>>
  /\ \E e \in claimed : e.sync /\ done' = [done EXCEPT ![e.idx] = 1] /\ Handled(e)
  /\ UNCHANGED <<entries, fresh, hostVars, stream, req, snap, scanning, queue, ghostVars>>

\* Mutant of PollEnd: handled entries stay in mentries_.
PollEnd_keeps ==
  /\ scanning /\ left = {}
  /\ scanning' = FALSE
  /\ UNCHANGED <<entries, fresh, hostVars, stream, req, done, snap, left, claimed, retire, queue, ghostVars>>

\* The end of a scan: what was handled leaves mentries_ (RingSlotsDistinct: a slot
\* names one of them).
PollEnd ==
  /\ scanning /\ left = {}
  /\ scanning' = FALSE
  /\ entries' = {e \in entries : e.permanent \/ e.idx \notin retire}
  /\ fresh' = (fresh /\ retire = {})
  /\ UNCHANGED <<hostVars, stream, req, done, snap, left, claimed, retire, queue, ghostVars>>

Poller == PollTop \/ PollSkip \/ PollClaim \/ PollSubmit \/ PollSync \/ PollEnd

\* The worker finishes the oldest task.
Worker ==
  /\ queue # <<>>
  /\ queue' = Tail(queue)
  /\ ran' = [ran EXCEPT ![Head(queue)] = @ + 1]
  /\ UNCHANGED <<entries, fresh, hostVars, stream, req, done, pollVars, asked, overtaken>>

Host == Submit \/ Sync \/ BeginCapture \/ EndCapture \/ Replay

Next == Host \/ GpuStep \/ Poller \/ Worker

\* The GPU, the poller and the worker run; the host finishes the layer it is in.
Fairness == WF_vars(GpuStep) /\ WF_vars(Poller) /\ WF_vars(Worker) /\ WF_vars(Sync)

Spec == Init /\ [][Next]_vars /\ Fairness

-----------------------------------------------------------------------------
\* The variables have their types: slots stay within their array, and the poller
\* is at one entry of its copy at most.
TypeOK ==
  /\ entries \cup snap \subseteq
       [at : Nat, n : Nat, idx : Slots, sync : BOOLEAN, permanent : BOOLEAN]
  /\ ringNext \in Nat /\ permNext \in 0 .. KPerm /\ open \in Slots \cup {None}
  /\ req \in [Slots -> {0, 1}] /\ done \in [Slots -> {0, 1}]
  /\ claimed \subseteq left /\ left \subseteq snap /\ retire \subseteq Slots
  /\ \A e, f \in claimed : e = f
  /\ queue \in Seq(Slots)
  /\ \A b \in {fresh, capturing, scanning, overtaken} : b \in BOOLEAN

\* The comment in memop_poller: "Arming order is stream order, so within one scan
\* a submit is handled before the sync that follows it." When the poller takes up
\* a sync, no submit the stream asked for before it is still to be handled.
SubmitBeforeSync == ~overtaken

\* A kernel that reads a task's output finds it complete: the task ran as often as
\* the stream asked for it, unless a sync has overtaken its submit. The overtaking
\* is the only way to stale output.
OutputReady ==
  stream # <<>> /\ Head(stream).op = "use" =>
    LET i == Head(stream).idx IN overtaken \/ ran[i] = asked[i]

\* done is up only while the stream is at the sync that asked for it: no later sync
\* that reuses the slot finds it up and passes without waiting.
DoneIsAwaited ==
  \A i \in Slots : done[i] = 1 =>
    stream # <<>> /\ Head(stream) \in {WaitDone(i), Clear(i)}

\* No two armed entries share flags: the ring does not wrap onto an entry the
\* poller has not retired, and a permanent slot is never given out again.
RingSlotsDistinct == \A e, f \in entries : e.idx = f.idx => e = f

\* The stream never hangs: whatever it was given runs, also when a sync overtakes a
\* submit and when graphs replay.
StreamDrains == (stream # <<>>) ~> (stream = <<>>)

\* One-shot entries do not pile up: the poller ends with the permanent ones only.
OneShotsRetired == <>[](\A e \in entries : e.permanent \/ open # None)
=============================================================================
