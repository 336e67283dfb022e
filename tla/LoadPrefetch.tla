---------------------------- MODULE LoadPrefetch ----------------------------
(***************************************************************************)
(* Loading the CPU experts layer by layer through the page cache, with     *)
(* KT_LOAD_PREFETCH and KT_GPU_STREAM_DROP_CACHE on, as the launcher has   *)
(* them (patches/kt-kernel-load-prefetch.py, _drop_checkpoint_cache of the *)
(* tree patch).                                                            *)
(*                                                                         *)
(* For each layer the wrapper may drop the page cache of the whole         *)
(* checkpoint, then the loader evicts the layer before, waits for the      *)
(* layer's background read or reads it now, starts the background read of  *)
(* the next layer, and the C++ side allocates the layer's arena and copies *)
(* the bytes into it, faulting in from disk what the cache does not hold.  *)
(* The bytes of a layer are Pieces pieces; reads counts the times a piece  *)
(* came from disk. (What fadvise does to the cache is the kernel's.)       *)
(***************************************************************************)
EXTENDS Naturals, FiniteSets

CONSTANTS
  NumLayers,  \* layers with CPU experts, numbered from 0
  Tail,       \* KT_LOAD_PREFETCH_TAIL
  NPieces     \* pieces of a layer's byte ranges

ASSUME NumLayersAssumption == NumLayers \in Nat \ {0}
ASSUME TailAssumption == Tail \in Nat
ASSUME NPiecesAssumption == NPieces \in Nat \ {0}

Layers == 0 .. NumLayers - 1
Pieces == 1 .. NPieces
Dense == NumLayers     \* the shards' other tensors, read before the experts

VARIABLES
  layer,    \* the layer being loaded
  pc,       \* what its load does next
  pending,  \* _pending: layers whose background read was started
  left,     \* pieces the background read still has to read
  copied,   \* pieces of the layer copied into its arena
  cache,    \* <<layer, piece>> in the page cache
  reads     \* [Layers \X Pieces -> times read from disk]

vars == <<layer, pc, pending, left, copied, cache, reads>>

Init ==
  /\ layer = 0 /\ pc = "drop"
  /\ pending = {} /\ left = {} /\ copied = {}
  /\ cache = {Dense} \X Pieces
  /\ reads = [p \in Layers \X Pieces |-> 0]

PagesOf(l) == {l} \X Pieces
Layered(pages) == {p[1] : p \in pages}

\* Reading pages through the cache costs a disk read for those it lacks.
ReadPages(pages) ==
  /\ cache' = cache \cup pages
  /\ reads' = [p \in DOMAIN reads |-> IF p \in pages \ cache THEN reads[p] + 1 ELSE reads[p]]

\* Mutant of Skips: the drop comes back one layer earlier still.
Skips_one_less(l) == l > 0 /\ l + Tail + 2 < NumLayers

\* layer_idx > 0 and layer_idx < num_layers - tail - 1
Skips(l) == l > 0 /\ l + Tail + 1 < NumLayers

\* _drop_checkpoint_cache
DropCache ==
  /\ pc = "drop" /\ layer < NumLayers
  /\ cache' = IF Skips(layer) THEN cache ELSE {}
  /\ pc' = "evict"
  /\ UNCHANGED <<layer, pending, left, copied, reads>>

\* Mutant of EvictPrevious: nothing is evicted.
EvictPrevious_none ==
  /\ pc = "evict"
  /\ pc' = "read"
  /\ UNCHANGED <<layer, pending, left, copied, cache, reads>>

\* prefetch_layer: _evict_ranges of the layer before.
EvictPrevious ==
  /\ pc = "evict"
  /\ cache' = IF layer > 0 THEN cache \ PagesOf(layer - 1) ELSE cache
  /\ pc' = "read"
  /\ UNCHANGED <<layer, pending, left, copied, reads>>

\* fut.result() of the read started during the layer before.
AwaitRead ==
  /\ pc = "read" /\ layer \in pending /\ left = {}
  /\ pending' = pending \ {layer}
  /\ pc' = "ahead"
  /\ UNCHANGED <<layer, left, copied, cache, reads>>

\* No read was started: read now.
ReadNow ==
  /\ pc = "read" /\ layer \notin pending
  /\ ReadPages(PagesOf(layer))
  /\ pc' = "ahead"
  /\ UNCHANGED <<layer, pending, left, copied>>

\* Mutant of ReadsAhead: `<` for `<=` in the test of the tail.
ReadsAhead_wide(l) == l + 1 < NumLayers /\ (Tail > 0 => NumLayers - 1 - l >= Tail)

\* Mutant of ReadsAhead: no test that there is a next layer.
ReadsAhead_always(l) == TRUE

\* There is a next layer, and more than Tail layers remain.
ReadsAhead(l) == l + 1 < NumLayers /\ (Tail > 0 => NumLayers - 1 - l > Tail)

\* Start the next layer's read in the background.
ReadAhead ==
  /\ pc = "ahead"
  /\ IF ReadsAhead(layer)
     THEN pending' = pending \cup {layer + 1} /\ left' = Pieces
     ELSE UNCHANGED <<pending, left>>
  /\ pc' = "arena"
  /\ UNCHANGED <<layer, copied, cache, reads>>

\* Mutant of BackgroundRead: it gives up before the last piece, and its future
\* waits for all of them.
BackgroundRead_short ==
  \E l \in pending : \E p \in left :
    /\ left # {p}
    /\ ReadPages({<<l, p>>})
    /\ left' = left \ {p}
    /\ UNCHANGED <<layer, pc, pending, copied>>

\* One piece of the background read; the executor has one thread.
BackgroundRead ==
  \E l \in pending : \E p \in left :
    /\ ReadPages({<<l, p>>})
    /\ left' = left \ {p}
    /\ UNCHANGED <<layer, pc, pending, copied>>

\* make_expert_arena, in the C++ load_weights
MakeArena ==
  /\ pc = "arena"
  /\ pc' = "copy"
  /\ UNCHANGED <<layer, pending, left, copied, cache, reads>>

CopyPiece ==
  /\ pc = "copy"
  /\ \E p \in Pieces \ copied :
       /\ ReadPages({<<layer, p>>})
       /\ copied' = copied \cup {p}
  /\ UNCHANGED <<layer, pc, pending, left>>

LayerDone ==
  /\ pc = "copy" /\ copied = Pieces
  /\ layer' = layer + 1 /\ copied' = {} /\ pc' = "drop"
  /\ UNCHANGED <<pending, left, cache, reads>>

Next ==
  \/ DropCache \/ EvictPrevious \/ AwaitRead \/ ReadNow \/ ReadAhead
  \/ BackgroundRead \/ MakeArena \/ CopyPiece \/ LayerDone

\* The loading thread and the reading thread both run.
Fairness == WF_vars(BackgroundRead) /\ WF_vars(Next)

Spec == Init /\ [][Next]_vars

-----------------------------------------------------------------------------
\* The variables have their types: no layer past the last is read.
TypeOK ==
  /\ layer \in 0 .. NumLayers
  /\ pc \in {"drop", "evict", "read", "ahead", "arena", "copy"}
  /\ pending \subseteq Layers /\ left \subseteq Pieces /\ copied \subseteq Pieces
  /\ cache \subseteq (Layers \cup {Dense}) \X Pieces
  /\ reads \in [Layers \X Pieces -> Nat]

\* The docstring's bound: the cache holds at most two layers, the one being
\* copied and the one being read ahead, and once the first drop is past nothing
\* else of the checkpoint.
AtMostTwoLayers ==
  layer > 0 \/ pc # "drop" =>
    Cardinality(Layered(cache)) <= 2 /\ Dense \notin Layered(cache)

\* The layer whose own drop hits what was read ahead for it (see DropKeepsReadAhead).
Redropped == NumLayers - Tail - 1

\* No byte is read from disk twice: eviction and read-ahead never work against
\* each other, but for the layer the drop comes back too early for.
ReadOnce ==
  \A p \in DOMAIN reads : p[1] # Redropped => reads[p] <= 1

\* The arenas of the last Tail layers, and of the one before them, are allocated
\* with no other layer's pages in the cache, so that they find free 2 MB blocks.
TailArenaAlone ==
  pc = "arena" /\ layer + Tail + 1 >= NumLayers => cache \subseteq PagesOf(layer)

\* Loading ends: the loader never waits for a read nobody does.
Loads == <>(layer = NumLayers)

\* "a whole-tree drop here would throw away the next layer's background read"
\* (_drop_checkpoint_cache): the drop runs only where no read-ahead is lost.
DropKeepsReadAhead ==
  [][cache' = {} => \A l \in pending : cache \cap PagesOf(l) = {}]_vars
=============================================================================
