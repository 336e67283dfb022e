------------------------------- MODULE KTLend -------------------------------
(***************************************************************************)
(* The prefill lend of patches/kt_lend.py: during a window of streamed     *)
(* prefills the decoder layers' weights give up their physical memory, and *)
(* each layer runs from one of two scratch slots that a side stream fills  *)
(* from a pinned mirror while the layer before it runs. Before the first   *)
(* other forward the weights come back at their old addresses.             *)
(*                                                                         *)
(* The host only queues work: `cur` and `side` are the two CUDA streams as *)
(* queues of operations still to run, and the host may be far ahead of     *)
(* both. An event is the number of operations its stream had been given    *)
(* when it was recorded. Addresses are captured when a kernel is queued    *)
(* and read when it runs. A copy is not atomic: its target holds junk from *)
(* its start to its end.                                                   *)
(***************************************************************************)
EXTENDS Naturals, Sequences

CONSTANTS
  N,            \* decoder layers that lend, numbered from 0
  Batches,      \* forwards: [extend, graph : BOOLEAN, rows, seq : Nat]
  Threshold,    \* rows from which a prefill is streamed
  LongSeq,      \* KT_PREFILL_LEND_LONG_SEQ
  MaxForwards   \* bound on the forwards of a behaviour

ASSUME NAssumption == N \in Nat \ {0}
ASSUME ThresholdAssumption == Threshold \in Nat \ {0} /\ LongSeq \in Nat
ASSUME BatchesAssumption ==
  /\ Batches \subseteq [extend : BOOLEAN, graph : BOOLEAN, rows : Nat, seq : Nat]
  \* a forward in the lend window runs eagerly: graphs captured the spans
  /\ \A b \in Batches : b.extend => ~b.graph
ASSUME MaxForwardsAssumption == MaxForwards \in Nat

Layers == 0 .. N - 1
Slots == {0, 1}
Spans == {<<"span", i>> : i \in Layers}
Places == Spans \cup {<<"slot", k>> : k \in Slots}
None == N           \* no layer
Junk == N           \* what freshly mapped or half-written memory holds
Idle == [extend |-> FALSE, graph |-> FALSE, rows |-> 0, seq |-> 0]

VARIABLES
  phase,     \* STATE["phase"]: "load", "decode", "prefill"
  alive,     \* FALSE once _check_room has raised
  forward,   \* the batch whose layers the host is queueing, or Idle
  layer,     \* the layer the host queues next
  entered,   \* has the host run the entry hook of that layer
  forwards,  \* forwards started
  pfCur,     \* STATE["pf_cur"], None when there is none
  issued,    \* STATE["pf_issued"]
  ready,     \* STATE["pf_ready"][k], events on side
  done,      \* STATE["pf_done"][k], events on cur (0: none)
  point,     \* [Layers -> the place the layer's tensors point at]
  mapped,    \* places that physical memory backs
  holds,     \* [Places -> layer whose weights are there, or Junk]
  cur, side, \* operations the two streams still have to run
  given,     \* operations given to each stream so far
  copying    \* streams whose first operation, a copy, has begun

hostVars == <<phase, alive, forward, layer, entered, forwards>>
lendVars == <<pfCur, issued, ready, done, point>>
memVars == <<mapped, holds>>
streamVars == <<cur, side, given, copying>>
vars == <<hostVars, lendVars, memVars, streamVars>>

Wait(n) == [op |-> "wait", upto |-> n]
Read(i, place) == [op |-> "read", layer |-> i, from |-> place]
Copy(i, place) == [op |-> "copy", layer |-> i, to |-> place]

Span(i) == <<"span", i>>
SlotOf(i) == <<"slot", i % 2>>

\* Nothing is queued: what torch.cuda.synchronize waits for, and what
\* torch_memory_saver's pause (cuMemUnmap) waits for before it unmaps.
Drained == cur = <<>> /\ side = <<>>

Init ==
  /\ phase = "load" /\ alive = TRUE
  /\ forward = Idle /\ layer = 0 /\ entered = FALSE /\ forwards = 0
  /\ pfCur = None /\ issued = {}
  /\ ready = [k \in Slots |-> 0] /\ done = [k \in Slots |-> 0]
  /\ point = [i \in Layers |-> Span(i)]
  /\ mapped = Places
  /\ holds = [p \in Places |-> IF p[1] = "span" THEN p[2] ELSE Junk]
  /\ cur = <<>> /\ side = <<>>
  /\ given = [cur |-> 0, side |-> 0]
  /\ copying = {}

-----------------------------------------------------------------------------
(* Load and phase swap *)

\* after_load: the mirror is taken (it is never written again, so it is not a
\* variable), the scratch is released.
AfterLoad ==
  /\ phase = "load" /\ forward = Idle /\ Drained
  /\ phase' = "decode"
  /\ mapped' = Spans
  /\ UNCHANGED <<alive, forward, layer, entered, forwards, lendVars, holds, streamVars>>

\* _streamed
Streamed(b) == b.extend /\ (b.rows >= Threshold \/ (LongSeq > 0 /\ b.seq >= LongSeq))

\* before_forward, then the forward starts.
Starts(b) ==
  /\ alive /\ forward = Idle /\ forwards < MaxForwards
  /\ forward' = b /\ layer' = 0 /\ entered' = FALSE
  /\ forwards' = forwards + 1

\* The phase already fits, or nothing is lent yet.
StartAsIs(b) ==
  /\ phase = "load" \/ Streamed(b) = (phase = "prefill")
  /\ Starts(b)
  /\ UNCHANGED <<phase, alive, lendVars, memVars, streamVars>>

\* Pause the weights, resume the scratch, synchronize.
StartPrefill(b) ==
  /\ phase = "decode" /\ Streamed(b) /\ Drained
  /\ Starts(b)
  /\ phase' = "prefill"
  /\ issued' = {}
  /\ mapped' = Places \ Spans
  /\ holds' = [p \in Places |-> Junk]
  /\ UNCHANGED <<alive, pfCur, ready, done, point, streamVars>>

\* _leave
Left == IF pfCur = None THEN point ELSE [point EXCEPT ![pfCur] = Span(pfCur)]

\* Mutant of EndWindow: the layer that ran last keeps pointing at its slot.
EndWindow_no_leave(b) ==
  /\ phase = "prefill" /\ ~Streamed(b) /\ Drained
  /\ pfCur' = None
  /\ Starts(b)
  /\ phase' = "decode"
  /\ mapped' = Spans
  /\ holds' = [p \in Places |-> Junk]
  /\ cur' = [n \in 1 .. N |-> Copy(n - 1, Span(n - 1))]
  /\ given' = [given EXCEPT !.cur = @ + N]
  /\ UNCHANGED <<alive, issued, ready, done, point, side, copying>>

\* end_window: point the last layer home, pause the scratch, resume the weights,
\* queue the copies back on the current stream.
EndWindow(b) ==
  /\ phase = "prefill" /\ ~Streamed(b) /\ Drained
  /\ pfCur' = None /\ point' = Left
  /\ Starts(b)
  /\ phase' = "decode"
  /\ mapped' = Spans
  /\ holds' = [p \in Places |-> Junk]
  /\ cur' = [n \in 1 .. N |-> Copy(n - 1, Span(n - 1))]
  /\ given' = [given EXCEPT !.cur = @ + N]
  /\ UNCHANGED <<alive, issued, ready, done, side, copying>>

\* end_window, when the prefill kept memory the weights need: _check_room raises
\* with the scratch gone and the weights still away.
EndWindowNoRoom(b) ==
  /\ phase = "prefill" /\ ~Streamed(b) /\ Drained
  /\ alive /\ forward = Idle /\ forwards < MaxForwards
  /\ pfCur' = None /\ point' = Left
  /\ alive' = FALSE
  /\ mapped' = {}
  /\ holds' = [p \in Places |-> Junk]
  /\ UNCHANGED <<phase, forward, layer, entered, forwards, issued, ready, done, streamVars>>

-----------------------------------------------------------------------------
(* Per-layer streaming. A host step gives work to both streams at once: `new` *)
(* is the record of what it leaves, threaded through _prefetch.               *)

\* Mutant of Prefetch: the slot is filled without waiting for the layer that
\* used it last.
Prefetch_no_wait(i, new) ==
  IF i >= N \/ i \in new.issued THEN new
  ELSE [new EXCEPT !.side = @ \o <<Copy(i, SlotOf(i))>>,
                   !.given.side = @ + 1,
                   !.ready[i % 2] = new.given.side + 1,
                   !.issued = @ \cup {i}]

\* Mutant of Prefetch: the last layer prefetches a layer that does not exist.
Prefetch_past_end(i, new) ==
  IF i \in new.issued THEN new
  ELSE [new EXCEPT !.side = @ \o <<Wait(new.done[i % 2]), Copy(i, SlotOf(i))>>,
                   !.given.side = @ + 2,
                   !.ready[i % 2] = new.given.side + 2,
                   !.issued = @ \cup {i}]

\* _prefetch(i): side waits for the slot's last reader, copies, records.
Prefetch(i, new) ==
  IF i >= N \/ i \in new.issued THEN new
  ELSE [new EXCEPT !.side = @ \o <<Wait(new.done[i % 2]), Copy(i, SlotOf(i))>>,
                   !.given.side = @ + 2,
                   !.ready[i % 2] = new.given.side + 2,
                   !.issued = @ \cup {i}]

\* pf_stream.wait_stream(cur)
WaitStream(new) ==
  [new EXCEPT !.side = Append(@, Wait(new.given.cur)), !.given.side = @ + 1]

\* Mutant of Issued: what was issued counts for one layer only.
Issued_none(i) == {}

\* The copies that layer i may take as issued: in a new forward, none.
Issued(i) == IF pfCur = None \/ i <= pfCur THEN {} ELSE issued

\* _enter(i) in a prefill window, for a layer other than the current one: the
\* previous layer goes home and its slot is free once cur gets here, layer i goes
\* to its slot, layer i + 1's copy starts.
EnterLayer(i) ==
  LET start == [cur |-> cur, side |-> side, given |-> given, ready |-> ready,
                done |-> IF pfCur = None THEN done ELSE [done EXCEPT ![pfCur % 2] = given.cur],
                issued |-> Issued(i)]
      first == IF i \in start.issued THEN start ELSE Prefetch(i, WaitStream(start))
      here == [first EXCEPT !.cur = Append(@, Wait(first.ready[i % 2])), !.given.cur = @ + 1]
      new == Prefetch(i + 1, here)
  IN
  /\ point' = [Left EXCEPT ![i] = SlotOf(i)]
  /\ pfCur' = i
  /\ cur' = new.cur /\ side' = new.side /\ given' = new.given
  /\ ready' = new.ready /\ done' = new.done /\ issued' = new.issued
  /\ UNCHANGED copying

\* Mutant of Enter: the hook does not ask for the phase.
Enter_any_phase ==
  /\ forward # Idle /\ layer < N /\ ~entered
  /\ entered' = TRUE
  /\ IF ~forward.graph /\ pfCur # layer
     THEN EnterLayer(layer)
     ELSE UNCHANGED <<lendVars, streamVars>>
  /\ UNCHANGED <<phase, alive, forward, layer, forwards, memVars>>

\* The hooks of the layer run; outside a window, and in a graph, they do nothing.
Enter ==
  /\ forward # Idle /\ layer < N /\ ~entered
  /\ entered' = TRUE
  /\ IF phase = "prefill" /\ pfCur # layer
     THEN EnterLayer(layer)
     ELSE UNCHANGED <<lendVars, streamVars>>
  /\ UNCHANGED <<phase, alive, forward, layer, forwards, memVars>>

\* The layer's kernels are queued, with the addresses its tensors have now; a
\* graph has the spans' addresses from its capture.
Launch ==
  /\ forward # Idle /\ layer < N /\ entered
  /\ cur' = Append(cur, Read(layer, IF forward.graph THEN Span(layer) ELSE point[layer]))
  /\ given' = [given EXCEPT !.cur = @ + 1]
  /\ layer' = layer + 1 /\ entered' = FALSE
  /\ UNCHANGED <<phase, alive, forward, forwards, lendVars, memVars, side, copying>>

\* The forward returns; the device may still be running it.
ForwardReturns ==
  /\ forward # Idle /\ layer = N
  /\ forward' = Idle
  /\ UNCHANGED <<phase, alive, layer, entered, forwards, lendVars, memVars, streamVars>>

-----------------------------------------------------------------------------
(* The device *)

Ran(s, q) == given[s] - Len(q)

\* A wait passes when the other stream has run what it names; a read takes one
\* step, at any time after it has become the first.
CurStep ==
  /\ cur # <<>>
  /\ \/ Head(cur).op = "wait" /\ Ran("side", side) >= Head(cur).upto
     \/ Head(cur).op = "read"
  /\ cur' = Tail(cur)
  /\ UNCHANGED <<hostVars, lendVars, memVars, side, given, copying>>

SideWait ==
  /\ side # <<>> /\ Head(side).op = "wait" /\ Ran("cur", cur) >= Head(side).upto
  /\ side' = Tail(side)
  /\ UNCHANGED <<hostVars, lendVars, memVars, cur, given, copying>>

CopyBegins(s, q) ==
  /\ q # <<>> /\ Head(q).op = "copy" /\ s \notin copying
  /\ copying' = copying \cup {s}
  /\ holds' = [holds EXCEPT ![Head(q).to] = Junk]
  /\ UNCHANGED <<hostVars, lendVars, mapped, cur, side, given>>

CopyEnds(s, q) ==
  /\ s \in copying
  /\ copying' = copying \ {s}
  /\ holds' = [holds EXCEPT ![Head(q).to] = Head(q).layer]
  /\ IF s = "cur" THEN cur' = Tail(cur) /\ side' = side ELSE side' = Tail(side) /\ cur' = cur
  /\ UNCHANGED <<hostVars, lendVars, mapped, given>>

Device ==
  \/ CurStep \/ SideWait
  \/ CopyBegins("cur", cur) \/ CopyEnds("cur", cur)
  \/ CopyBegins("side", side) \/ CopyEnds("side", side)

Next ==
  \/ AfterLoad
  \/ \E b \in Batches : StartAsIs(b) \/ StartPrefill(b) \/ EndWindow(b) \/ EndWindowNoRoom(b)
  \/ Enter \/ Launch \/ ForwardReturns
  \/ Device

Spec == Init /\ [][Next]_vars

-----------------------------------------------------------------------------
\* The variables have their types: no layer past the last is lent or prefetched.
TypeOK ==
  /\ phase \in {"load", "decode", "prefill"}
  /\ alive \in BOOLEAN /\ entered \in BOOLEAN
  /\ forward \in Batches \cup {Idle}
  /\ layer \in 0 .. N /\ forwards \in 0 .. MaxForwards
  /\ pfCur \in 0 .. N /\ issued \subseteq Layers
  /\ ready \in [Slots -> Nat] /\ done \in [Slots -> Nat]
  /\ point \in [Layers -> Places]
  /\ mapped \subseteq Places /\ holds \in [Places -> 0 .. N]
  /\ copying \subseteq {"cur", "side"}

\* A kernel that runs reads its own layer's weights, whole, from memory that is
\* there, for as long as it runs: no slot is refilled under it, no read slips in
\* before a copy has ended, decode does not start on weights still coming back.
ReadsItsWeights ==
  cur # <<>> /\ Head(cur).op = "read" =>
    Head(cur).from \in mapped /\ holds[Head(cur).from] = Head(cur).layer

\* A copy, too, goes to memory that is there: none is under way, or left in a
\* stream, when the phase swap unmaps its target.
CopiesToMapped ==
  \A q \in {cur, side} : \A n \in DOMAIN q : q[n].op = "copy" => q[n].to \in mapped

\* Only the layer being run points away from its span, and none does outside a
\* prefill window: no layer is left on a slot that will be refilled or unmapped.
OthersAtHome ==
  \A i \in Layers :
    point[i] # Span(i) => phase = "prefill" /\ pfCur = i /\ point[i] = SlotOf(i)

\* Operation q of the queue s comes after a wait for event e, or a later one.
Behind(s, q, e) == \E p \in 1 .. q - 1 : s[p].op = "wait" /\ s[p].upto >= e

\* The next layer's weights are in the other slot, or on their way there without
\* waiting for the kernel that runs, which is cur's operation number now.
NextComing(i, now) ==
  \/ holds[SlotOf(i + 1)] = i + 1
  \/ \E q \in DOMAIN side : side[q] = Copy(i + 1, SlotOf(i + 1)) /\ ~Behind(side, q, now)

\* The first copy the running kernel holds up is the next filling of the slot it
\* reads, or a new forward's first layer.
HoldsUpOnly(place, now) ==
  \A q \in DOMAIN side :
    side[q].op = "copy" /\ Behind(side, q, now) =>
      \/ side[q].to = place
      \/ side[q].layer = 0
      \/ \E c \in 1 .. q - 1 : side[c].op = "copy" /\ Behind(side, c, now)

\* In a window a layer's weights are fetched while the layer before it runs, once:
\* no copy but those of the two cases above waits for the running kernel. A copy
\* made late, or made again, loses the overlap and leaves every result right.
FetchedAhead ==
  phase = "prefill" /\ cur # <<>> /\ Head(cur).op = "read" =>
    LET i == Head(cur).layer
        now == Ran("cur", cur) + 1
    IN  /\ i + 1 < N => NextComing(i, now)
        /\ HoldsUpOnly(Head(cur).from, now)
=============================================================================
