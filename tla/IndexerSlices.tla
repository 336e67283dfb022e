--------------------------- MODULE IndexerSlices ---------------------------
(***************************************************************************)
(* The dense low-ratio indexer of a prefill chunk (deepseek_v4_backend.py, *)
(* sglang-dsv4-indexer-query-step.py, -indexer-slice-budget.py and         *)
(* -candidate-mask-*.py): every query row of the chunk scores the          *)
(* compressed positions of its own request so far and keeps the TopK best. *)
(* The rows are walked request by request and slice by slice. A source     *)
(* layer leaves, per request, the blocks of positions worth scoring, and   *)
(* the layers that use them sink the others, slice by slice again.         *)
(*                                                                         *)
(* A row is its number in the chunk, a position its number in its request; *)
(* what a row selects is numbered in the keys of all requests together.    *)
(* Scores are the constant Score, a row's scores all different.            *)
(***************************************************************************)
EXTENDS Integers, Sequences, FiniteSets, FiniteSetsExt, Functions, TLC

CONSTANTS
  Batches,      \* chunks: sequences of [prefix, rows : Nat], one per request
  Ratio,        \* tokens of a compressed position
  Steps,        \* SGLANG_DSV41_INDEXER_QUERY_STEP, some values; 0: whole chunk
  SliceBudget,  \* scores a slice may have
  LeastRows,    \* rows a slice may always have (16)
  Block,        \* candidate_block_size
  TopBlocks,    \* candidate_topk_blocks
  TopK,         \* index_topk
  Roles,        \* the layers' roles, in order: "plain", "source", "uses"
  Score(_, _, _),  \* (layer, row, position)
  MaxChunks     \* bound on the chunks of a behaviour

ASSUME SizesAssumption ==
  /\ Ratio \in Nat \ {0} /\ Block \in Nat \ {0} /\ TopBlocks \in Nat \ {0} /\ TopK \in Nat \ {0}
  /\ Steps \subseteq Nat /\ SliceBudget \in Nat /\ LeastRows \in Nat \ {0} /\ MaxChunks \in Nat
\* a layer that uses candidates has a source before it
ASSUME RolesAssumption ==
  \A l \in DOMAIN Roles :
    Roles[l] = "uses" => \E k \in 1 .. l - 1 : Roles[k] = "source"

VARIABLES
  step,      \* _INDEXER_QUERY_STEP
  batch,     \* the chunk's requests
  layer,     \* the layer being indexed
  request,   \* the request being walked, Len(batch) + 1 when none is left
  from,      \* the first row of the next slice, in the request
  selected,  \* [rows of the chunk -> selected keys]
  table,     \* mask_b: the request's mask, its rows so far
  publish,   \* masks of the requests walked so far in a source layer
  masks,     \* self.candidate_masks
  chunks     \* chunks started

vars == <<step, batch, layer, request, from, selected, table, publish, masks, chunks>>

MinusInf == -1
Unwritten == 1000   \* what a score row holds past the row's own positions
EmptyMask == <<>>
CeilAlign(n, k) == ((n + k - 1) \div k) * k
NumBlocks(width) == (width + Block - 1) \div Block

Source == Roles[layer] = "source"
Uses == Roles[layer] = "uses"

\* Compressed positions of a request at the end of the chunk, and the keys of
\* the requests before it.
Lc(b) == (batch[b].prefix + batch[b].rows) \div Ratio
SumBefore(b, sizes) == SumFunctionOnSet(sizes, 1 .. b - 1)
Start(b) == SumBefore(b, [k \in DOMAIN batch |-> Lc(k)])
FirstRow(b) == SumBefore(b, [k \in DOMAIN batch |-> batch[k].rows])
ChunkRows == FirstRow(Len(batch) + 1)

\* compress_lens: the positions row i of a request reaches.
Reach(b, i) == (batch[b].prefix + i + 1) \div Ratio

\* _dense_fp4_mqa_logits of one row, width scores of which its own are written.
Logits(b, i, width) ==
  [j \in 0 .. width - 1 |->
     IF j < Reach(b, i) THEN Score(layer, FirstRow(b) + i, j) ELSE Unwritten]

\* The n of a set that score best.
Best(s, score, n) ==
  {x \in s : Cardinality({y \in s : score[y] > score[x]}) < n}

\* select_candidate_blocks of one row's scores: the maxima of the full blocks
\* and of the tail, the block of the newest position above all, the TopBlocks
\* best of those that can be reached. One entry a block, or one a position.
BlockMax(scores, width) ==
  LET full == width - (width % Block)
      maxOf(first, end) == Max({scores[j] : j \in first .. end - 1})
      blocks == [k \in 0 .. (full \div Block) - 1 |-> maxOf(k * Block, (k + 1) * Block)]
  IN IF full < width THEN blocks @@ (full \div Block :> maxOf(full, width)) ELSE blocks
KeptBlocks(scores, width, reach) ==
  LET max == BlockMax(scores, width)
      last == (reach - 1) \div Block
      rank == [k \in DOMAIN max |-> IF k = last THEN Unwritten ELSE max[k]]
  IN {k \in Best(DOMAIN max, rank, TopBlocks) : rank[k] > MinusInf}
BlockMask(kept, width) == [k \in 0 .. NumBlocks(width) - 1 |-> k \in kept]
PositionMask(kept, width) == [j \in 0 .. width - 1 |-> j \div Block \in kept]

\* A source layer first sinks what the row cannot reach.
Reachable(scores, reach) == [j \in DOMAIN scores |-> IF j < reach THEN scores[j] ELSE MinusInf]

\* _sink_non_candidates of one row: the mask is one entry a position if it is as
\* wide as the scores, else one a block; the columns past width are left alone.
Candidate(mask, j, width) ==
  IF Cardinality(DOMAIN mask) = width THEN mask[j] ELSE mask[j \div Block]
SinkNonCandidates(scores, mask, width) ==
  [j \in DOMAIN scores |-> IF j < width /\ ~Candidate(mask, j, width) THEN MinusInf ELSE scores[j]]

\* topk_transform_ragged_v2 of one row: the best of the positions it reaches.
TopKOf(scores, reach) == Best(0 .. reach - 1, scores, TopK)

\* _mask_topk_scores: a layer that uses candidates drops what was sunk.
Dropped(chosen, scores) == {j \in chosen : scores[j] > MinusInf}

-----------------------------------------------------------------------------
\* One row of a request: its scores as the layer's role leaves them.
Scores(b, i, width) ==
  LET raw == Logits(b, i, width)
  IN IF Source THEN Reachable(raw, Reach(b, i))
     ELSE IF Uses THEN SinkNonCandidates(raw, masks[b][i], Lc(b)) ELSE raw

Chosen(b, i, width) ==
  LET scores == Scores(b, i, width)
      top == TopKOf(scores, Reach(b, i))
  IN {Start(b) + j : j \in IF Uses THEN Dropped(top, scores) ELSE top}

\* A slice's rows: fewer where the prefix is long.
SliceRows(b) ==
  LET fitting == SliceBudget \div CeilAlign(Lc(b), 4)
      wanted == IF fitting < step THEN fitting ELSE step
  IN IF wanted < LeastRows THEN LeastRows ELSE wanted

Init ==
  /\ step \in Steps
  /\ batch = <<>> /\ layer = Len(Roles) /\ request = 1 /\ from = 0
  /\ selected = <<>> /\ table = <<>> /\ publish = <<>> /\ masks = <<>> /\ chunks = 0

LayerDone == request > Len(batch)

\* The next chunk's first layer, or the next layer of the chunk.
Walk ==
  /\ request' = 1 /\ from' = 0 /\ selected' = <<>> /\ table' = EmptyMask /\ publish' = <<>>
StartChunk(c) ==
  /\ LayerDone /\ layer = Len(Roles) /\ chunks < MaxChunks
  /\ batch' = c /\ chunks' = chunks + 1 /\ layer' = 1
  /\ Walk
  /\ UNCHANGED <<step, masks>>
StartLayer ==
  /\ LayerDone /\ layer < Len(Roles)
  /\ layer' = layer + 1
  /\ Walk
  /\ UNCHANGED <<step, batch, masks, chunks>>

\* The request's mask is published; the masks are the layer's at once, with its
\* last request.
NextRequest(mask) ==
  /\ request' = request + 1 /\ from' = 0 /\ table' = EmptyMask
  /\ publish' = IF Source THEN Append(publish, mask) ELSE publish
  /\ masks' = IF Source /\ request = Len(batch) THEN publish' ELSE masks

\* The rows of the request from first on get what chosen says.
Select(rows, chosen) ==
  LET r0 == FirstRow(request)
  IN selected' = selected @@ [r \in {r0 + i : i \in rows} |-> chosen[r - r0]]

\* A request without rows, or whose rows reach nothing: nothing is scored.
SkipRequest ==
  /\ step > 0 /\ ~LayerDone
  /\ batch[request].rows = 0 \/ Lc(request) = 0
  /\ Select(0 .. batch[request].rows - 1, [i \in 0 .. batch[request].rows - 1 |-> {}])
  /\ NextRequest(EmptyMask)
  /\ UNCHANGED <<step, batch, layer, chunks>>

\* Mutant of RowMask: the row's reach is looked up by its number in the slice.
RowMask_slice_row(i) ==
  LET width == Lc(request)
      scores == Scores(request, i, CeilAlign(width, 4))
  IN BlockMask(KeptBlocks(scores, width, Reach(request, i - from)), width)
\* One slice of rows; a source layer writes its rows of the request's mask.
RowMask(i) ==
  LET width == Lc(request)
      scores == Scores(request, i, CeilAlign(width, 4))
  IN BlockMask(KeptBlocks(scores, width, Reach(request, i)), width)
TableWith(rows) ==
  IF Source THEN table @@ [i \in rows |-> RowMask(i)] ELSE EmptyMask
Slice ==
  /\ step > 0 /\ ~LayerDone /\ batch[request].rows > 0 /\ Lc(request) > 0
  /\ LET end == IF from + SliceRows(request) < batch[request].rows
                THEN from + SliceRows(request) ELSE batch[request].rows
         rows == from .. end - 1
         mask == TableWith(rows)
     IN /\ Select(rows, [i \in rows |-> Chosen(request, i, CeilAlign(Lc(request), 4))])
        /\ \/ end = batch[request].rows /\ NextRequest(mask)
           \/ /\ end < batch[request].rows
              /\ from' = end /\ table' = mask
              /\ UNCHANGED <<request, publish, masks>>
  /\ UNCHANGED <<step, batch, layer, chunks>>

\* The whole chunk at once, every row as wide as the widest request. The masks
\* are by position; a request with nothing to score leaves an empty one.
WidestLc == Max({Lc(b) : b \in DOMAIN batch})
WholeMask(b) ==
  LET width == Lc(b)
  IN IF batch[b].rows = 0 \/ width = 0 THEN EmptyMask
     ELSE [i \in 0 .. batch[b].rows - 1 |->
             PositionMask(KeptBlocks(Scores(b, i, width), width, Reach(b, i)), width)]
RequestOf(r) == CHOOSE b \in DOMAIN batch : FirstRow(b) <= r /\ r < FirstRow(b) + batch[b].rows
WholeSelected ==
  [r \in 0 .. ChunkRows - 1 |->
     LET b == RequestOf(r)
     IN IF Lc(b) = 0 THEN {} ELSE Chosen(b, r - FirstRow(b), CeilAlign(WidestLc, 4))]
Whole ==
  /\ step = 0 /\ ~LayerDone
  /\ masks' = IF Source THEN [b \in DOMAIN batch |-> WholeMask(b)] ELSE masks
  /\ selected' = WholeSelected
  /\ request' = Len(batch) + 1
  /\ UNCHANGED <<step, batch, layer, from, table, publish, chunks>>

Finished ==
  /\ LayerDone /\ layer = Len(Roles) /\ chunks = MaxChunks
  /\ UNCHANGED vars

Next ==
  \/ \E c \in Batches : StartChunk(c)
  \/ StartLayer \/ SkipRequest \/ Slice \/ Whole \/ Finished

Spec == Init /\ [][Next]_vars

-----------------------------------------------------------------------------
(* SGLANG_DSV41_INDEXER_QUERY_CHECK: once a sliced layer is done, the      *)
(* whole-chunk path runs on the same inputs and is compared with it.       *)

\* _expand_candidates of one row.
Expanded(mask, width) ==
  IF Cardinality(DOMAIN mask) = width THEN mask
  ELSE [j \in 0 .. width - 1 |-> mask[j \div Block]]

SameMasks ==
  \A b \in DOMAIN batch :
    LET ref == WholeMask(b)
    IN IF masks[b] # EmptyMask /\ ref # EmptyMask
       THEN \A i \in DOMAIN ref : Expanded(masks[b][i], Lc(b)) = ref[i]
       ELSE masks[b] = ref

QueryCheck == selected = WholeSelected /\ (Source => SameMasks)

-----------------------------------------------------------------------------
(* What a row should select, from the scores alone.                        *)

SourceOf(l) == Max({k \in 1 .. l : Roles[k] = "source"})
Positions(b, i, k) == {j \in 0 .. Reach(b, i) - 1 : j \div Block = k}

\* The blocks layer l's row scores best in, its newest one among them.
Worth(l, b, i) ==
  LET r == FirstRow(b) + i
      blocks == {j \div Block : j \in 0 .. Reach(b, i) - 1}
      best == [k \in blocks |-> Max({Score(l, r, j) : j \in Positions(b, i, k)})]
      newest == (Reach(b, i) - 1) \div Block
  IN IF blocks = {} THEN {}
     ELSE {newest} \cup Best(blocks \ {newest}, best, TopBlocks - 1)

Wanted(b, i) ==
  LET r == FirstRow(b) + i
      own == [j \in 0 .. Reach(b, i) - 1 |-> Score(layer, r, j)]
      among == IF Uses THEN {j \in DOMAIN own : j \div Block \in Worth(SourceOf(layer), b, i)}
               ELSE DOMAIN own
  IN {Start(b) + j : j \in Best(among, own, TopK)}

\* However a chunk is sliced, once a layer is done each row has the best keys
\* of its own request among those it reaches (and, in a layer that uses them,
\* among the candidates its own row of the source layer left), no other row's,
\* request's or chunk's; and SGLANG_DSV41_INDEXER_QUERY_CHECK finds the
\* whole-chunk path's selection and masks to be the same.
SlicedAsWhole ==
  LayerDone /\ batch # <<>> =>
    /\ DOMAIN selected = 0 .. ChunkRows - 1
    /\ \A b \in DOMAIN batch : \A i \in 0 .. batch[b].rows - 1 :
         selected[FirstRow(b) + i] = Wanted(b, i)
    /\ QueryCheck
=============================================================================
