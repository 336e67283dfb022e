--------------------------- MODULE ExpertStreamer ---------------------------
(***************************************************************************)
(* kt_stream_prefill.py (sglang-dsv41-tree-20261007.patch, zero-copy and   *)
(* CUDA graphs on, as the launcher starts it): during a streamed prefill   *)
(* a layer's CPU experts are copied to the GPU a group at a time, into one *)
(* of two landings, while the group before runs from the other; one graph  *)
(* for each row count and group adds the group's output to an accumulator. *)
(* The experts are 0 .. Experts - 1 in physical order, the first Hot of    *)
(* them resident.                                                          *)
(***************************************************************************)
EXTENDS PrefillStream, FiniteSets

CONSTANTS
  Experts, Hot,  \* global_num_experts, num_gpu_experts
  G,             \* experts of a group
  CpuGroups,     \* KT_STREAM_CPU_GROUPS: last groups left to the CPU
  GraphKeep,     \* KT_STREAM_GRAPH_KEEP
  MinRows,       \* least rows of an input base (2048)
  Chunk,         \* the server's prefill chunk, 0 when there is none
  Threshold      \* KT_GPU_STREAM_PREFILL, rows from which a call is streamed

ASSUME ExpertsAssumption == Experts \in Nat /\ Hot \in 0 .. Experts - 1 /\ G \in Nat \ {0}
\* the CPU share needs a resident expert (kt_ep_wrapper raises without one)
ASSUME CpuGroupsAssumption == CpuGroups \in Nat /\ (CpuGroups > 0 => Hot > 0)
ASSUME GraphKeepAssumption == GraphKeep \in Nat \ {0}
ASSUME RowsAssumption == MinRows \in Nat \ {0} /\ Chunk \in Nat /\ Threshold \in Nat \ {0}

VARIABLES
  landing,      \* [slot -> what its raw buffer holds: <<layer, group>>, or Junk]
  computeDone,  \* [slot -> operations of cur before its compute_done fires]
  dmaDone,      \* [slot -> operations of dma before its dma_done fires]
  gin,          \* _gin: row count -> the rows of the base its views are of
  ginRows,      \* rows of the newest base, 0 before the first
  graphs,       \* _graphs: the captured <<rows, group>>
  graphUse,     \* _graph_use: row count -> row counts used since its last use
  acc           \* [base -> [expert -> times its output was added]]

landingVars == <<landing, computeDone, dmaDone>>
graphVars == <<gin, ginRows, graphs, graphUse>>
streamerVars == <<landingVars, graphVars, acc>>

Slots == {0, 1}
Junk == <<>>
Least(a, b) == IF a < b THEN a ELSE b
Most(a, b) == IF a < b THEN b ELSE a
NoExperts == [e \in 0 .. Experts - 1 |-> 0]

AllGroups == (Experts - Hot + G - 1) \div G
\* Groups streamed: all but the CPU's share, never none.
Groups == IF CpuGroups = 0 THEN AllGroups
          ELSE IF AllGroups > CpuGroups THEN AllGroups - CpuGroups ELSE 1
Group(gi) == (Hot + gi * G) .. (Least(Hot + (gi + 1) * G, Experts) - 1)

\* stream_cpu_cutoff: the first expert the CPU takes of a streamed call.
Cutoff == IF CpuGroups = 0 THEN Experts ELSE Least(Experts, Hot + Groups * G)

StreamerInit ==
  /\ landing = [s \in Slots |-> Junk]
  /\ computeDone = [s \in Slots |-> 0] /\ dmaDone = [s \in Slots |-> 0]
  /\ gin = <<>> /\ ginRows = 0
  /\ graphs = {} /\ graphUse = [t \in {} |-> 0]
  /\ acc = <<>>

\* stream_prefill_for, outside a capture and with the streamer built.
StreamPrefillFor(rows) == rows >= Threshold

\* _gin_view: the views of a row count, of the newest base if they fit, else
\* of a new one; the views of other counts stay on theirs.
NewRows(rows) == Most(Most(rows, MinRows), Chunk)
ViewRows(rows) == IF ginRows >= rows THEN ginRows ELSE NewRows(rows)
InputBase(rows) == IF rows \in DOMAIN gin THEN gin[rows] ELSE ViewRows(rows)

\* Landings, bases, workspace and output are made in a window, in its scratch.
StreamerPlace == "scratch"

\* _graph_inputs; acc.zero_() is queued.
GraphInputs(rows) ==
  LET base == InputBase(rows)
  IN /\ gin' = [t \in DOMAIN gin \cup {rows} |-> IF t = rows THEN base ELSE gin[t]]
     /\ ginRows' = IF rows \in DOMAIN gin THEN ginRows ELSE base
     /\ acc' = [b \in DOMAIN acc \cup {base} |-> IF b \in DOMAIN acc THEN acc[b] ELSE NoExperts]
     /\ cur' = Append(cur, [op |-> "zero", base |-> base, place |-> StreamerPlace, after |-> 0])

\* Mutant: the copy does not wait for the graph that reads the landing.
Stage_now(layer, gi) ==
  /\ dma' = Append(dma, [group |-> <<layer, gi>>, slot |-> gi % 2, after |-> 0])
  /\ dmaDone' = [dmaDone EXCEPT ![gi % 2] = Len(dma) + 1]
\* _stage_zc: the copy into the landing of gi waits for the last graph that
\* read it; dma_done is recorded behind it.
Stage(layer, gi) ==
  /\ dma' = Append(dma, [group |-> <<layer, gi>>, slot |-> gi % 2,
                         after |-> computeDone[gi % 2]])
  /\ dmaDone' = [dmaDone EXCEPT ![gi % 2] = Len(dma) + 1]

\* _trim_graphs: the largest count stays, and the GraphKeep used last.
Use(rows) ==
  [t \in DOMAIN graphUse \cup {rows} |->
     IF t = rows THEN 0
     ELSE IF rows \in DOMAIN graphUse /\ graphUse[rows] < graphUse[t] THEN graphUse[t]
     ELSE graphUse[t] + 1]
Largest(use) == CHOOSE t \in DOMAIN use : \A u \in DOMAIN use : u <= t
UsedSince(use, t) == {u \in DOMAIN use \ {Largest(use)} : use[u] < use[t]}
\* Mutant: one row count more than GraphKeep stays.
TrimGraphs_late(use) ==
  {t \in DOMAIN use \ {Largest(use)} : Cardinality(UsedSince(use, t)) > GraphKeep}
TrimGraphs(use) ==
  {t \in DOMAIN use \ {Largest(use)} : Cardinality(UsedSince(use, t)) >= GraphKeep}

\* _graph_for, a graph that is there.
GraphHit(rows, gi) ==
  /\ <<rows, gi>> \in graphs
  /\ graphUse' = Use(rows)
  /\ UNCHANGED <<graphs, acc>>

\* _graph_for, a new graph: the capture stream waits for cur and the host for
\* the warm-up on it, which adds to a scratch accumulator, not the one the graph
\* captures; then the trim, which waits for the device.
GraphMiss(rows, gi) ==
  LET drop == TrimGraphs(Use(rows))
  IN /\ <<rows, gi>> \notin graphs
     /\ Idle
     /\ drop # {} => Drained
     /\ graphs' = {k \in graphs \cup {<<rows, gi>>} : k[1] \notin drop}
     /\ graphUse' = [t \in DOMAIN Use(rows) \ drop |-> Use(rows)[t]]
     /\ UNCHANGED acc

\* One group of run(): its graph replayed behind its copy, compute_done
\* recorded, the next group's copy queued.
RunGroup(rows, layer, gi) ==
  /\ GraphHit(rows, gi) \/ GraphMiss(rows, gi)
  /\ cur' = Append(cur, [op |-> "replay", graph |-> <<rows, gi>>, base |-> gin[rows],
                         layer |-> layer, slot |-> gi % 2, place |-> StreamerPlace,
                         after |-> dmaDone[gi % 2]])
  /\ computeDone' = [computeDone EXCEPT ![gi % 2] = Len(cur) + 1]
  /\ IF gi + 1 < Groups THEN Stage(layer, gi + 1) ELSE UNCHANGED <<dma, dmaDone>>
  /\ UNCHANGED <<gin, ginRows, landing, copying>>

\* The body of the group's graph: each expert's output is added, a wrong one
\* (2) when the landing does not hold the group's weights.
Added(op) ==
  LET group == <<op.layer, op.graph[2]>>
  IN [e \in 0 .. Experts - 1 |->
        IF e \notin Group(op.graph[2]) THEN acc[op.base][e]
        ELSE IF landing[op.slot] = group THEN Least(2, acc[op.base][e] + 1) ELSE 2]

\* The transfer stream begins a copy once its event has fired, and ends it.
BeginCopy ==
  /\ dma # <<>> /\ ~copying /\ Head(dma).after = 0
  /\ copying' = TRUE
  /\ landing' = [landing EXCEPT ![Head(dma).slot] = Junk]
  /\ UNCHANGED <<cur, dma, computeDone, dmaDone>>
EndCopy ==
  /\ copying
  /\ copying' = FALSE
  /\ landing' = [landing EXCEPT ![Head(dma).slot] = Head(dma).group]
  /\ dma' = Tail(dma)
  /\ cur' = [i \in DOMAIN cur |->
               IF cur[i].op = "replay" THEN [cur[i] EXCEPT !.after = Less(@)] ELSE cur[i]]
  /\ dmaDone' = [s \in Slots |-> Less(dmaDone[s])]
  /\ UNCHANGED computeDone

\* A queued replay's graph is still there.
GraphsAlive ==
  \A op \in Pending : op.op = "replay" => op.graph \in graphs
=============================================================================
