--------------------------- MODULE PrefillBuffers ---------------------------
(***************************************************************************)
(* The buffers of a rank's forwards, put together: the lend window around  *)
(* them (kt_lend.before_forward, end_window), the engram lookup of a       *)
(* forward, and its MoE layers, each streamed (kt_stream_prefill) or       *)
(* computed by the CPU experts into an output buffer (kt-kernel's          *)
(* experts_base), as kt_ep_wrapper's apply puts them together. The rank is *)
(* rank 0, which has the CPU experts. A decode step replays a graph that   *)
(* captured its lookup and its output buffer.                              *)
(*                                                                         *)
(* Every buffer made for a prefill lives in the lend scratch, which has no *)
(* memory behind it outside the window, or outside it, where it stays.     *)
(***************************************************************************)
EXTENDS EngramStaging, ExpertStreamer

CONSTANTS
  Layers,       \* MoE layers, numbered from 0
  Batches,      \* forwards: [rows : Nat, graph, streamed : BOOLEAN]
  MaxForwards,  \* bound on the forwards of a behaviour
  Ahead         \* bound on the operations the host is ahead of cur

\* A streamed batch has the rows for it or a long sequence; a decode batch
\* has neither, and its rows are the graph's.
ASSUME LayersAssumption == Layers \in Nat \ {0}
ASSUME BatchesAssumption ==
  /\ Batches \subseteq [rows : Nat \ {0}, graph : BOOLEAN, streamed : BOOLEAN]
  /\ \A b \in Batches :
       IF b.graph THEN ~b.streamed /\ b.rows = Graphed
       ELSE b.rows >= Threshold => b.streamed
ASSUME BoundsAssumption == MaxForwards \in Nat /\ Ahead \in Nat \ {0}

VARIABLES
  batch,     \* the forward the host is queueing, or NoBatch
  step,      \* "engram", or the next group of the layer (Groups: its sum)
  layer,     \* the layer the host queues next
  forwards,  \* forwards started
  outputs,   \* capture_buffers: row count -> where its output_gpu is
  summed     \* [expert -> times it is in the last layer output summed]

hostVars == <<batch, step, layer, forwards>>
vars == <<window, streamVars, engramVars, streamerVars, hostVars, outputs, summed>>

NoBatch == [rows |-> 0, graph |-> FALSE, streamed |-> FALSE]
CpuExperts == Hot .. Experts - 1
Once == [e \in 0 .. Experts - 1 |-> 1]
NoBase == 0

Init ==
  /\ window = FALSE /\ cur = <<>> /\ dma = <<>> /\ copying = FALSE
  /\ EngramInit /\ StreamerInit
  /\ batch = NoBatch /\ step = 0 /\ layer = 0 /\ forwards = 0
  /\ outputs = [t \in {Graphed} |-> "resident"]
  /\ summed = Once

Sum(rows, base, cpu, place) ==
  [op |-> "sum", rows |-> rows, base |-> base, cpu |-> cpu, place |-> place, after |-> 0]

\* The decode graph: its lookup and each layer's output, as captured.
Captured == <<CapturedLookup>> \o [l \in 1 .. Layers |->
              Sum(Graphed, NoBase, CpuExperts, "resident")]

\* before_forward, then the forward: a window opens or closes once both
\* streams are idle. A decode graph is replayed; anything else starts with
\* its lookup.
StartForward(b) ==
  /\ batch = NoBatch /\ forwards < MaxForwards
  /\ b.streamed # window => Drained
  /\ window' = b.streamed
  /\ forwards' = forwards + 1
  /\ IF b.graph
     THEN cur' = cur \o Captured /\ UNCHANGED <<batch, step, layer>>
     ELSE batch' = b /\ step' = 0 /\ layer' = 0 /\ UNCHANGED cur
  /\ UNCHANGED <<dma, copying, engramVars, streamerVars, outputs, summed>>

Running == batch # NoBatch /\ Len(cur) < Ahead

\* The forward's engram lookup (before its first layer).
Engram ==
  /\ Running /\ step = 0 /\ layer = 0
  /\ OwnedRows(batch.rows)
  /\ step' = 1
  /\ UNCHANGED <<window, dma, copying, streamerVars, batch, layer, forwards, outputs, summed>>

\* get_buffer: the output of a row count is made once, from the base of the
\* lend scratch inside a window, else from the resident one (_gpu_output).
GpuOutput == IF window THEN "scratch" ELSE "resident"
GetBuffer(rows) == IF rows \in DOMAIN outputs THEN outputs[rows] ELSE GpuOutput
Got(rows) == [t \in DOMAIN outputs \cup {rows} |-> GetBuffer(t)]

NextLayer ==
  IF layer + 1 < Layers
  THEN layer' = layer + 1 /\ step' = 1 /\ UNCHANGED batch
  ELSE batch' = NoBatch /\ step' = 0 /\ layer' = 0

\* apply of a layer the CPU computes: submit, the resident experts, sync.
CpuLayer ==
  /\ Running /\ step = 1 /\ ~StreamPrefillFor(batch.rows)
  /\ outputs' = Got(batch.rows)
  /\ cur' = Append(cur, Sum(batch.rows, NoBase, CpuExperts, GetBuffer(batch.rows)))
  /\ NextLayer
  /\ UNCHANGED <<window, dma, copying, engramVars, streamerVars, forwards, summed>>

\* apply of a streamed layer, up to its groups: the CPU's share is submitted,
\* the inputs and the accumulator are made ready, the first copy is queued.
StreamLayer ==
  /\ Running /\ step = 1 /\ StreamPrefillFor(batch.rows)
  /\ outputs' = IF Cutoff < Experts THEN Got(batch.rows) ELSE outputs
  /\ GraphInputs(batch.rows)
  /\ Stage(layer, 0)
  /\ step' = 2
  /\ UNCHANGED <<window, copying, engramVars, landing, computeDone, graphs, graphUse,
                 batch, layer, forwards, summed>>

StreamGroup ==
  /\ Running /\ step - 2 \in 0 .. Groups - 1
  /\ RunGroup(batch.rows, layer, step - 2)
  /\ step' = step + 1
  /\ UNCHANGED <<window, engramVars, batch, layer, forwards, outputs, summed>>

\* The accumulator, the resident experts and the CPU's share are added.
SumLayer ==
  /\ Running /\ step = Groups + 2
  /\ cur' = Append(cur, Sum(batch.rows, gin[batch.rows], Cutoff .. Experts - 1,
                            IF Cutoff < Experts THEN GetBuffer(batch.rows) ELSE "resident"))
  /\ NextLayer
  /\ UNCHANGED <<window, dma, copying, engramVars, streamerVars, forwards, outputs, summed>>

\* The experts in a layer's output, once the sum has run.
Summed(op) ==
  [e \in 0 .. Experts - 1 |->
     (IF e < Hot THEN 1 ELSE 0) + (IF e \in op.cpu THEN 1 ELSE 0)
     + (IF op.base = NoBase THEN 0 ELSE acc[op.base][e])]

\* cur runs the operation at its head.
RunCur ==
  /\ cur # <<>> /\ Head(cur).after = 0
  /\ LET op == Head(cur)
     IN /\ acc' = IF op.op = "zero" THEN [acc EXCEPT ![op.base] = NoExperts]
                  ELSE IF op.op = "replay" THEN [acc EXCEPT ![op.base] = Added(op)] ELSE acc
        /\ summed' = IF op.op = "sum" THEN Summed(op) ELSE summed
  /\ cur' = Tail(cur)
  /\ dma' = Sooner(dma)
  /\ computeDone' = [s \in Slots |-> Less(computeDone[s])]
  /\ UNCHANGED <<window, copying, engramVars, landing, dmaDone, graphVars, hostVars, outputs>>

RunDma ==
  /\ BeginCopy \/ EndCopy
  /\ UNCHANGED <<window, engramVars, graphVars, acc, hostVars, outputs, summed>>

\* All forwards done and nothing left to run.
Finished ==
  /\ forwards = MaxForwards /\ batch = NoBatch /\ Drained
  /\ UNCHANGED vars

Next ==
  \/ \E b \in Batches : StartForward(b)
  \/ Engram \/ CpuLayer \/ StreamLayer \/ StreamGroup \/ SumLayer
  \/ RunCur \/ RunDma
  \/ Finished

Spec == Init /\ [][Next]_vars

-----------------------------------------------------------------------------
Places == {"scratch", "resident"}

\* The types, the sizes between buffers, and the bounds of the caches: a
\* Work reads no more rows than its set has, the works of prefill-sized
\* lookups are no more than the limit, and no row counts but GraphKeep and the
\* largest have graphs.
TypeOK ==
  /\ window \in BOOLEAN /\ copying \in BOOLEAN /\ step \in 0 .. Groups + 2
  /\ layer \in 0 .. Layers - 1 /\ forwards \in 0 .. MaxForwards
  /\ \A wk \in DOMAIN works : \A s \in LiveSets : works[wk].set = s.id => wk[2] <= s.cap
  /\ Cardinality({wk \in DOMAIN works : wk[2] >= EagerRows}) <= WorksLimit
  /\ Cardinality({k[1] : k \in graphs}) <= GraphKeep + 1
  /\ \A t \in DOMAIN gin : t <= gin[t] /\ gin[t] \in DOMAIN acc
  /\ \A t \in DOMAIN outputs : outputs[t] \in Places
  /\ \A op \in Pending : op.place \in Places
  /\ dma = <<>> => ~copying

\* Whatever a stream still has to run, and the decode graph, finds what it
\* points at: the Work a callback reads and the pinned rows it fills
\* (engram_backend.py drops both), and the graph of a queued replay
\* (_trim_graphs drops it).
QueuedAlive == LookupsAlive /\ GraphsAlive

\* The scratch is read and written inside the window only: lookups, transfers,
\* group graphs and outputs are done with it when it loses its memory. The
\* output of an unstreamed call of a row count first seen inside a window is
\* left out: get_buffer keeps handing out the scratch one (see the README).
ScratchInWindow ==
  ~window =>
    /\ dma = <<>>
    /\ \A op \in Pending :
         op.place = "scratch" => op.op = "sum" /\ op.rows < Threshold

\* Every expert's output is in the layer's sum exactly once, computed with its
\* own layer's weights: resident, streamed by the group of its landing, or
\* the CPU's.
EachExpertOnce == summed = Once
=============================================================================
