# A verification project for the dual-EPYC DeepSeek V4.1-Flash server

The repository holds the patches, launchers and probes that serve DeepSeek
V4.1-Flash from a dual-socket EPYC board with two GPUs that cannot reach each
other's memory. SGLang runs one process per GPU (two tensor-parallel ranks), the
routed experts are computed by kt-kernel on the CPUs or streamed to the GPUs
during a long prefill, and the engram tables are read from NVMe. Most of what is
new here is concurrent: kernels that spin on host memory another GPU writes,
copy streams ordered by flags and events, a poller thread between a GPU stream
and a task queue, weights unmapped and brought back under a running device,
buffers and graphs dropped while a stream may still need them, background reads
against the page cache, a pool of I/O threads behind a cache.
That is what these TLA+ modules model. Paths below are relative to the
repository; `tree patch` is `patches/sglang-dsv41-tree-20261007.patch`.

## Inventory

| Part | Code | State | Operations | What must hold | Module |
|---|---|---|---|---|---|
| LL all-reduce, decode-sized | `patches/sglang-ll-allreduce.py` | counter, four slots of words in shared host memory | launch, store, spin and sum, return | only words of one's own call are summed; no unread word is lost; no call hangs | `LLAllReduce` |
| Host-staged all-reduce, prefill-sized | tree patch 187-339, `patches/sglang-host-staged-allreduce-race.py` | two regions a rank, two flags a rank, streams d2h and h2d | copy out, publish, copy in, add, release | no half-summed or reused piece; the streams do not wait for each other for ever | `HostStagedAllReduce` |
| Prefill lend | `patches/kt_lend.py`, wiring in `patches/sglang-dsv41-kt-prefill-lend.py` | phase, spans, two slots, events, layer in its slot | before_forward, end_window, _enter, _prefetch, _leave | a layer runs on its own weights, from mapped memory | `KTLend` |
| Lend span layout | `patches/kt_lend.py` 165-446 | a layer's span, items, owners, host mirror | bind_model, after_module, _relayout, after_load | repacks, renames and fusions lose no weight | `LendLayout` |
| Stream memops | `patches/kt-stream-memops.py`, TaskQueue in `patches/kt-kernel-tree-20261006.patch` | entries, flags in mapped memory, ring and permanent slots, queue | arm, submit, sync, poll, retire, replay | the stream reads finished output, never hangs, slots are not shared | `StreamMemops` |
| Expert loading | `patches/kt-kernel-load-prefetch.py`, `_drop_checkpoint_cache` in the tree patch, expert arenas in the kt-kernel patch | pending reads, page cache | drop, evict, await or read, read ahead, arena, copy | two layers in the cache, each byte read once, arenas find free pages | `LoadPrefetch` |
| Engram row store | `tools/engram-adapter/row_store.cpp` | direct-mapped cache, I/O pool, error counter | look-up, batch, worker, close | every row exact or zero and counted; no job outlives its call | `RowStore` |
| Engram adapter | `tools/engram-adapter/engram_backend.py` | staging sets, works | _owned_rows | a queued callback's work and buffers stay alive, the scratch is used in its window | `EngramStaging`, `PrefillBuffers` |
| Expert streamer | tree patch 2149-3680, `patches/sglang-kt-stream-graph-keep.py`, `sglang-kt-stream-shared-graph-inputs.py`, older `kt-stream-prefill.patch` | landings, events, input bases, graphs by row count | stage, replay, capture, trim | no landing is rewritten before it is read, no queued graph is dropped | `ExpertStreamer`, `PrefillBuffers` |
| KT wrapper | `patches/kt-ep-wrapper.patch`, tree patch 871-1177, `kt-kernel-shared-gpu-output.py`, `kt-kernel-lend-gpu-output.py` | expert split, shared output buffers | apply, get_buffer | every expert is in a layer's sum once | `PrefillBuffers` |
| Lend hint, calibration, KV guard | `_write_hint` of `patches/kt_lend.py`, `tools/kt-lend-auto.sh` | chunk, hint files, side file | launch, calibrate, halve, guard, write hint | hints fit, a calibration ends, no chunk that cut the pool comes back | `LendChunk`, `LendLaunch` |
| Indexer slicing | `patches/sglang-dsv4-indexer-*.py`, `sglang-dsv4-candidate-*.py` | candidate masks | slice, select, publish | slicing changes no selection | `IndexerSlices` |
| Dense prefetch, load barrier, KV pool floor | `patches/sglang-dense-prefetch.py`, `sglang-load-barrier-timeout.py`, `sglang-dsv4-swa-pool-floor.py` | none that others depend on | - | - | not modelled |
| Numeric kernels | `patches/kt-mxfp4-*`, `mxfp4-avx2-gemv.patch`, `fp8-skinny-splitk.patch` | - | - | bit-equal sums | out of reach |
| Launcher, guards, probes, offline tests | `tools/*` | processes | - | - | not modelled |

How they meet: a forward reaches `before_forward` (lend), runs layer by layer;
each layer's hooks move its weights (lend), its all-reduces take the LL path when
the tensor is small and the host-staged path when it is large, its MoE goes to
the streamer above the threshold and otherwise to the CPUs through the memops,
and the engram layers look rows up from a callback of the stream. The models
meet in three places. Both all-reduces implement `AllReduce`. `PrefillBuffers`
composes the engram lookup, the streamer and the wrapper's sum over one pair of
streams and one lend window, because all of them keep buffers in the window's
scratch. `LendLaunch` composes the launcher, the hint and the span layout over
the life of a server, because a launch's choice depends on what the window of an
earlier server measured. The other parts share no state in the code.

The hard behaviours, line by line, are `hazards` in `PROJECT.json`.

## Modules

- `AllReduce` is what the group promises: two ranks make the same calls, a rank
  leaves a call only after the other has entered it, and then each unit of its
  tensor holds both ranks' input of that call once.
- `LLAllReduce` models the kernel a word and a thread at a time. `counter`,
  `slot[rank][parity][word]`, the order of a thread's loads (`SameThread`,
  `EarlierOfThread`) and the wrap (`Succ`, `NotBefore`) are the code's. The
  stores are relaxed: they become visible word by word in any order, as late as
  the end of the kernel, and a thread may take before its own are visible. The
  data of a word is the call it was written for, which the kernel does not see;
  `SeqMod` stands for 2^32.
- `HostStagedAllReduce` has the two streams of each rank as positions in the
  call's list of pieces (`copied`, `flagged`, `taken`, `added`, `done`), since
  every wait of the code is on such a position. Cells hold the multiset of
  inputs summed into them, so that a half-summed piece shows.
- `KTLend` gives each CUDA stream a queue of waits, copies and reads that the
  host fills and the device empties later. A read takes its address when it is
  queued and looks when it runs. Copies are not atomic. `EnterLayer` is the
  whole of `_enter`, with the two `_prefetch` calls in it.
- `StreamMemops` has the entries, both flags of every slot, the poller's copy
  and what its scan has still to visit, the queue, and one GPU stream with a graph
  that may be captured and replayed. The vector of entries is a set of them, each
  with its place in arming order (`at`) and the counter's value it was armed with
  (`n`). `asked`, `ran` and `overtaken` are history.
- `LoadPrefetch` has the loader's steps for a layer and the background reader;
  the page cache is a set of layer pieces.
- `LendLayout` has one layer's span while the model loads: `BindModel` moves the
  built parameters in, `Repack`, `Rename` and `Fuse` are what quant methods and
  the model do to them (external), `AfterModule` and `LayoutDone` lay the layer
  out again (`Relayout`), with the fused owner and the parameters inside it.
  A unit of memory holds whose it is and of which version, so that a stale, a
  moved and an overwritten tensor all show. `EnterSlot` and `CloseLayout` are a
  window as one layer sees it; `KTLend` has the timing of the same steps.
- `LendChunk` is arithmetic: the hint from a window's rows, growth and free
  memory, and what the launcher makes of the ranks' files. `LendLaunch` is the
  state machine around it: user's chunk, hint or calibration; load; windows; out
  of memory or a stop at any time; and the files that outlive the server.
- `PrefillStream` has the two streams as queues, `EngramStaging` the lookups with
  the addresses the callbacks carry, `ExpertStreamer` landings, input bases,
  accumulators and graphs, `PrefillBuffers` the forward that uses them layer by
  layer. An operation that waits for an event of the other stream counts what
  that stream has still to run before it. It is the rank with CPU experts, with
  zero-copy and graphs on, as the launcher starts it; a decode forward replays
  the graph captured before the first forward.
- `IndexerSlices` is a walk over pure operators: `Slice` selects the keys of some
  rows of a request and extends its mask, `Whole` is the code's unsliced path,
  and `QueryCheck` its built-in comparison of the two.
- `RowStore` has every loop round of a look-up, the pool's queue, `next` and
  `pending`, and the workers' take, read and count as steps of their own; the
  shard locks are what makes one look at, or fill of, a slot a step.

Proofs are in modules of their own, each extending the module it is about:
`LLAllReduce_proofs`, `HostStagedAllReduce_proofs`, `KTLend_proofs`,
`StreamMemops_proofs`, `LoadPrefetch_proofs`, `RowStore_proofs`,
`LendLaunch_proofs`, `PrefillBuffers_proofs`.

## Runs

`MC*` modules only add constants and the stuttering end of a bounded program.

| Run | Bounds | Shows |
|---|---|---|
| `LLAllReduce` | 3 words, calls of 1 or 3, 2 threads, 4 calls, SeqMod 16 | type, `NoForeignWord`, `UnreadKept`, refinement of `AllReduce`, `EveryCallEnds`. Four calls use both parities twice; a call of one word leaves two words stale. |
| `LLAllReduceStale` | 2 words, 7 calls, SeqMod 8 | a violation: see findings |
| `HostStagedAllReduce` | regions of 2 pieces, 2 regions, calls of 1 or 5 pieces, 3 calls | type, `TakesPeersInput`, `UnreadKept`, refinement, `EveryCallEnds`. A call of five pieces has three chunks, so regions are reused inside a call and across calls, with a partial last chunk. |
| `KTLend` | 3 layers, 4 forwards of 4 kinds | a forward is a graph or eager decode, a streamed prefill, or a short extend of a long sequence; a window may hold several prefills, end, and open again; three layers make slot 0 serve two. Type, `ReadsItsWeights`, `CopiesToMapped`, `OthersAtHome`, `FetchedAhead`; deadlock |
| `StreamMemops` | 12 ring and 2 permanent slots, 8 layers, 2 replays, stream depth 2 | the ring is wide for the depth as the proofs ask (12 > 3 * 2 + 4) and still wraps (16 tickets), the permanent slots run out at one captured layer, replays reuse it |
| `StreamMemopsOrder` | same | a violation: see findings |
| `LoadPrefetch` | 6 layers, tail 2, 2 pieces | layers before, at and in the tail |
| `LoadPrefetchDrop` | same | a violation: see findings |
| `RowStore` | 2 callers of one call each, 2 workers, 4 rows, 2 slots | batches of two and three misses, shared slots, another rank's row, an invalid id, failing reads |
| `LendLaunch` | 2 ranks with different memory, 2 launches, 2 windows a server, forwards of 1, 3 or 5 thousand rows or a whole chunk; a layer of five names, 2 loading changes | windows that fill a chunk and that do not, hints above and below the chunk, halving down to the lowest, a pool cut by a wide chunk and the launch after it, repack then fuse and fuse then repack, an idle weight, an out-of-memory in a window |
| `PrefillBuffers` | 2 layers, 4 forwards of 6 kinds, host up to 5 operations ahead; 6 experts (1 resident, 2 streamed groups of 2, 1 left to the CPU); works limit 2, graphs kept 1 | three streamed row counts against one kept graph, two input bases, a lookup growing the eager set, works trimmed with lookups queued, freed addresses coming back, both kinds of short forwards |
| `IndexerSlices` | 6 chunks of one to three requests, 2 chunks after each other, 5 steps, 4 layers | requests without rows, too short for a position, with one position, with a tail block and with more blocks than are kept; a plain, a source and two using layers |

The type invariants carry the bookkeeping that is easy to get wrong (a flag never
ahead of its copy; `pending` counts exactly the jobs not yet run).

`UnreadKept` of both all-reduces says in terms of contents that a cell which
changes was not needed any more; nothing in the code acknowledges a word of the
LL path, and only a chunk number does in the staged one.

`ReadsItsWeights` is what the lend is for: the kernel at the head of the compute
stream reads its own layer's bytes, whole, from mapped memory. `OthersAtHome`
says that after any step only the layer being run points away from its span.

`FetchedAhead` is about the other half of the lend, which no result shows: while a
layer's kernels run in a window, the next layer's weights are in the other slot or
on their way there without waiting for these kernels, and the kernels hold up no
copy that could go on. Three things may wait for them: the next filling of the slot
they read, the copy of a new forward's first layer (`_enter` makes the side stream
wait for everything given so far, since nothing was prefetched for it), and copies
queued behind one of these. A layer whose copy `pf_issued` has forgotten is copied
again behind the whole compute stream; every layer still reads its own weights, and
only the overlap is gone. That is the mutant, and only this property meets it.
`HoldsUpOnly` tells the first such copy from those behind it, since a side stream
that lags may hold several layers' copies.

`OutputReady` excepts streams where a sync overtook its submit: that overtaking
is reachable (`StreamMemopsOrder`) and is the only way to stale output.

`RingSlotsDistinct` holds because the stream blocks the host before KRing entries
are outstanding: the model's `Depth` stands for what the driver queues, the code
relies on the driver's limit being far below 4096 entries and nothing in it
checks. With Depth 4 and six slots TLC finds two armed entries with one slot; the
proof asks for more than `3 * Depth + 4` slots, which 4096 are for a driver that
queues about a thousand operations.

`ReadOnce` excepts one layer, `Redropped`, which `LoadPrefetchDrop` is about.

`KeepsWeights` compares what a forward may read through a parameter with what the
loading last left under its name, in every phase, the idle weights of a window
excepted, which nobody reads (`ReadsWhole`); and it says that a fused tensor and its
parameters stay one memory (`FusedShares`). The second is meant for tensors that are
lent: `_owners_after_load` passes over one below `MIN_BYTES` (`kt_lend.py:291`), and
lent parameters inside it are then laid out by themselves, away from it.
`FusedIsLarge` says that no such tensor can come about; TLC evaluates it for the
run's sizes.

`HintFits` is about windows that filled a chunk and about all of this server's
windows, not the last: the kept smallest hint is what makes it hold when the free
memory wobbles. A chunk of less than 4096 rows is left out: its full windows are
among those `_write_hint` takes as saying nothing, so it stays on record however
little room they left. `CutNotRepeated` remembers, in history, every chunk that all
ranks of a server recorded with a smaller pool, and says that no later launch of
the launcher's own choosing picks one of them or a wider one. It counts only
chunks every rank has recorded: if a server is stopped between its ranks' writes,
the guard (`kt-lend-auto.sh:159-160`) combines the smallest pool with the largest
chunk of two servers. Nor does it count the lowest chunk, which is what remains
when it cuts the pool too.

`QueuedAlive` is a use-after-free property: every callback queued, with the
decode graph's, finds its Work, the Work's pinned set and the set's device rows,
and every queued replay its graph. `ScratchInWindow` leaves one kind of output
out, see the findings. `EachExpertOnce` covers the split of experts (resident,
streamed, CPU), the event between transfer and graph both ways, and the zeroing
of the accumulator between layers that share it.

`SlicedAsWhole` compares each layer's selection with one computed from the scores
alone, and with the code's own whole-chunk path. Scores are a constant that tells
all positions of a row apart, so ties are not examined; the tail block of a
request is the newest block of the rows that reach it.

### Findings

- `sglang-ll-allreduce.py:79` accepts any number up to 2^31 ahead, where the
  docstring speaks of the same number. A word position that only long calls use,
  untouched for more than 2^31 calls, is then summed stale. That is days of
  decoding between two long calls; the proofs' hypothesis `FewCalls` is exactly
  what excludes it.
- `kt-stream-memops.py:281-282` says a submit is handled before the sync that
  follows it. The poller reads each flag once while the GPU raises them, so it
  can pass the submit's entry just before it is raised and meet the sync's raised
  flag later in the same scan. It then releases the stream with the task not yet
  queued. The window is a few cache lines wide and normally covered by the GPU
  work between the two calls, which nothing guarantees.
- tree patch 909: the drop comes back at layer `num_layers - tail - 1`, one
  before the tail, and discards what was just read ahead for it. The comment two
  lines up gives that as the reason to skip.

Three more are visible in the code and were met at the edge of a property, which
is stated around them; they have no run of their own:

- `kt_lend.py:508` adds the room to the running chunk although the window measured
  its largest forward, which may be smaller. With a negative room the hint need
  not have fitted (chunk 8K, 5K rows, growth 6, free 6, margin 1: hint 7K, which
  at that cost a row takes 8.4), where the docstring says "the chunk that would
  still have fitted". `HintFits` is therefore about windows that filled a chunk.
- `kt_lend.py:577` describes a table built by the launcher. The launcher has no
  such code and nothing calls `table_chunk`.
- kt-kernel patch 2301: `get_buffer` keeps an output for each row count. A short
  extend of a long sequence runs unstreamed inside a window and so caches a view
  of the lend scratch; a later forward of as many rows outside the window is given
  it, with no memory behind it. `kt-kernel-lend-gpu-output.py:12-13` says that
  unstreamed prefills keep the resident base. `ScratchInWindow` excepts these
  outputs.

The comment at `engram_backend.py:74-80` calls lookups of at least `EAGER_ROWS`
rows prefill-sized; the code tests the rounded-up capacity, so counts between half
of it and it use the eager set, and their works are not among those dropped at the
limit. `EngramStaging` does as the code does.

Two smaller disagreements have no run: `README.md:261-262` says the drop is kept
for layer 0 only, where the code keeps it for the last layers too; and
`memguard-dsv41.sh` speaks of 2 GB of swap and tests 6144 MB. Comments at tree
patch 904 say that the tail layers are read after their arena exists, where
`prefetch_layer` reads them before the C++ side makes it.

## Fairness and assumptions

All fairness is weak. A launched kernel, a queued copy or stream operation, a
poller, worker or reader thread runs as long as it can; that is what the GPU and
the scheduler give. The two ranks run the same program on the same batch, so the
rank behind enters the call its peer is in: that is the one host step the
all-reduces' liveness needs (`WF(Enter /\ call < Len(sizes))`). In
`StreamMemops` the host gives the sync of a submit it has given (`WF(Sync)`); it is
never assumed to start a layer. In `RowStore` no condition variable is fair: `CallsReturn` rests on the callers'
bounded calls, and in the server the callbacks of a stream are serial.

`CalibrationEnds` needs only the launcher's own steps: its waits are bounded loops,
its kill is final, and a server that does nothing is killed all the same. The
safety runs `KTLend`, `PrefillBuffers` and `IndexerSlices` state no fairness; all
check deadlock, and may stop only at the bounded program's end (`Stopped`,
`Finished`), so that no wait of the host or between the streams is for something
that cannot come. For `KTLend` that is no more than a check of the model: an event
can only name work already queued.

`PrefillBuffers` assumes that at least one graph is kept (`GraphKeep`: with 0 the
graph just captured could be dropped before its replay), that a decode batch has
fewer rows than the streaming threshold, and that capture is over: a capture of a
row count that was not warmed raises in the code.

Modelled from use and marked external: CUDA streams run their operations in
order, waits as the API says; `torch_memory_saver`'s pause unmaps after the work
already queued (cuMemUnmap; `before_forward` itself synchronizes only after it, so
that `Drained` guards the swap is taken from there, and the properties of `KTLend`
hold under it and say nothing of it; nor do they of what follows a `_check_room`
that raised, which ends the process);
`fadvise(DONTNEED)` drops clean pages at once, and the kernel drops none on its
own; a 64-bit word and a flag are written whole, and what a stream writes before
a flag is visible with it. `LoadPrefetch` takes `num_layers` to be the layers
with experts in the checkpoint.

## Proofs

Every proof is about the module's `Spec` and for every value of its constants
that its assumptions allow; those are what the code asserts or what makes a
constant meaningful (a region has a piece, a tensor a word). Each `*_proofs`
module has one inductive invariant `IInv` (in `StreamMemops_proofs` three parts,
each resting on the one before; in `LendLaunch_proofs` a second one, `LayoutInv`, of
the layer; in `KTLend_proofs` a second one, `FetchInv`, of the side stream), lemmas action by action, the theorem
`Invariance` that collects them, and one theorem per property. Each `IInv` was
checked by TLC on its run's bounds first.

**`LLAllReduce_proofs`**: any slot size, call sizes, number of threads and calls,
any even width of the counter. `TypeCorrect` has no further hypothesis;
`NoForeignWordHolds`, `UnreadKeptHolds` and `ImplementsAllReduceHolds` (the
refinement of `AllReduce`, initial states and steps) need `FewCalls`: fewer calls
than half the counter's range, see the findings. `NoForeignWord` is not
inductive: what is in the slots matters. `IInv` adds that the counter is the
number of calls (`Counted`), that the ranks are at most one call apart and a
finished rank's peer has entered the call (`Lockstep`), that a slot's word
carries its call's number and parity and no later call than its owner's
(`SlotWords`), that a word not yet stored by the running call is an older call's
(`NotStoredYet`), and that what was taken belongs to the taker's call
(`TakenWords`). The step that needs all of it is `Take`: the word is of the right
parity, not before the call, not after the peer's, and the peer is at most one
call ahead, so it is the call's own.

**`HostStagedAllReduce_proofs`**: any region, number of regions, program and
number of calls, no further hypothesis. `TypeCorrect`, `PeersInput`
(`TakesPeersInput`), `UnreadKeptHolds`, `ImplementsAllReduceHolds`. `TakesPeersInput`
looks at host memory, which both ranks' streams move through at their own pace,
so `IInv` has to say where everything is: where the streams are in a call and
what each position implies of the others (`Progress`), that a flag is what the
earlier calls and this one have published or used (`FlagsCount`), that the ranks
are at most one call apart and then count alike (`Lockstep`), that a piece the
peer has still to copy back is in the region and place where it will look
(`UnreadThere`), and that host memory holds nothing else but what was copied back
(`HostInputs`). `NotOverwritten` is the step all this is for: an unread piece in
the region of the chunk about to be copied out would be `NBuf` chunks older
(`ModGap`), and the flag the stream has waited for says that the peer has used
that chunk. `Tensor` is needed for the refinement: what is in the tensor piece by
piece.

**`KTLend_proofs`**: any number of layers, thresholds, mix of forwards and
lengths. `TypeCorrect`, `LayersHome` (`OthersAtHome`), `CopiesSafe`
(`CopiesToMapped`), `WeightsRead` (`ReadsItsWeights`). The property is about the
head of a queue, the invariant about every operation in it: in a window, each
read is after a copy of its layer that the stream has waited for, and every later
copy to its slot waits for an event after the read (`ReadsGuarded`, `Filled`).
When the host queues the next read it needs the same of the layer it is at and
the one after it (`CurrentFilled`, `NextFilled`), and that the slots' done events
come after all their reads (`DoneAfterReads`). Outside a window, layers' copies
home come once and before their reads (`HomeOps`, `HomeFilled`). The rest ties the
hooks' variables to the phase (`Mapping`, `HostAt`, `CurrentAway`).

`CopiesAhead` (`FetchedAhead`) is about what is *not* waited for, on which the first
invariant is silent. `FetchInv` says it of every read still queued, of which the
property sees the head: the next layer's copy waits for no event as late as the read
(`Fetched`), every later copy to that slot does, and the first copy that waits for
the read is one of the two the property allows (`HoldsUpOnly`). When the host enters
a layer it queues copies behind the reads still to run; that these have such a copy
before them already, but for the layer entered last, is `Covered`, and what the host
may add to the side stream is `Asked`. No wait is for work not yet given (`Wide`), so
a read just queued is waited for by nothing.

**`StreamMemops_proofs`**: any number of permanent slots, layers and replays, any
depth of the stream and any even ring. `TypeCorrect` and `DoneAwaited`
(`DoneIsAwaited`) need no more. Their invariant is `BasicInv`: submits have even
slots and syncs the odd ones after them (`Pairs`, `Roles`), a sync's operations
stand together in every queue and follow its submit's (`QueueBlocks`), and as long
as a sync's flag is up or in the poller's hands the stream is at its wait
(`Awaited`).

`SlotsDistinct` (`RingSlotsDistinct`) and `OutputComplete` (`OutputReady`) have the
hypothesis `WideRing`. The counter only grows, so what has to be shown is that the
live tickets span less than the ring. `RingInv` counts them from both ends: `g`
tickets have been run by the stream, which holds all later ones in order
(`Tickets`); `g1` had been run and `s` armed when the poller took its copy, and
`g0` run when it took the one before (`Window`). What had been run by the time of
a copy is handled in its scan and has left at the end of it (`Live`), so every
entry is at or after `g0`; and the GPU cannot run more than one pair past the copy,
since it waits for a sync the poller does not see. `Room` is then arithmetic.
`OneTask` is the hand-over: while nothing is overtaken, one task at most is busy
(flag up, in hand or queued, never two of these), and its sync comes next in the
stream. `ClaimedSync` is where an overtaking shows: if the flag of a claimed sync's
submit is up, the submit's entry was armed just before it and so is in the copy.

**`LoadPrefetch_proofs`**: any number of layers and pieces, any tail.
`TypeCorrect`, `NoByteTwice` (`ReadOnce`), `CacheBounded` (`AtMostTwoLayers`),
`TailAlone` (`TailArenaAlone`). `IInv` says which one layer's background read can
be pending (`ReadPending`), whose pages can be in the cache (`CacheWindow`), that
nothing was asked for too early (`NotAskedYet`), and that what was read stays
cached until its layer is done, `Redropped` excepted (`ReadIsCached`).

**`RowStore_proofs`**: any callers, workers, table, cache, requests (also invalid
ids) and number of calls, reads failing at will. `TypeCorrect`, `LookupExact`
(`RowsExact`), `JobsOfWaiting` (`JobsAlive`). `RowsExact` is about a finished call;
`CallExact` is its running form: every position of the request is still to be
looked at or among the misses to be filled (`Open`), or settled (`OpenOrSettled`),
and a miss that was read has its row (`MissesExact`). It needs that a filled slot
holds the row of its key (`FilledSlots`), which any caller may have put there.
`PoolExact` counts the pool's jobs for `pending`.

**`LendLaunch_proofs`**: any ranks, costs, memories, margins and pools, a pool
being no larger for a wider chunk. `HintsFit` (`HintFits`) and `CutsRemembered`
(`CutNotRepeated`). The arithmetic is `FittingFits` (a full window's cost a row and
the scratch, times what `Fitting` adds, is at most its room) and `FewerFit`; the
invariant `MinFits` is `HintFits` of the kept smallest hint, which the file never
exceeds (`BelowMin`). `CutsKnown` says that a chunk that cut the pool is remembered
by the guard or still in every rank's file, which is what the guard reads next.
Of the layout these proofs need only the phase.

The same module proves what the layer keeps, for any names, sizes (of what is built and
of what a repack makes), idle and skipped names, order of the loading's changes,
servers and windows: `LayerReads` (`ReadsWhole`) and `TypeCorrect` (`TypeOK`) with no
hypothesis, `LayerKeepsWeights` (`KeepsWeights`) with `FusedIsLarge`. The property
is about views, and a view breaks when the bytes under it move, so the invariant
`LayoutInv` has to say where everything is. It looks at the layer pointed home: slots
read as the span, the mirror as the span's contents once there is one (`HomeParam`,
`HomeMem`). There every tensor has its name's units where it points (`Reads`) and what
points into the span is held by some item (`Kept`); nothing points into the owner's
storage before there is an owner, and a fused tensor in the span is large and still
has parameters, so the next layout finds it again (`OwnerKept`); and of a large one
that is not lent no parameter is (`OwnerApart`). These hold in the middle of the
loading too; between modules everything large is held (`LargeHeld`), and after the load
the items are where the parameters are, the idle ones behind the rest (`Laid`). A
window then only needs `Windowed`: the slot's active part is the mirror's, and exactly
what begins before the idle part points to it.

A new layout is the step all this is for. `NewItemsIs` says what its items are,
`MovedIs` where each tensor goes, `MovedReads` that its new place has its old units,
which are read before any is written (through the host), and `Laying` puts them
together. They rest on lemmas about the model's sequences: sums (`UptoIs`),
selections (`OnlyIs`, `Flattened`), items end to end that do not overlap (`Apart`,
`Covers`), stretches of memory put over one another (`PutOver`, `Part`,
`GatheredIs`). `Upto` is a recursive function; that it has the values of its equation
is `Iteration` again, and what is needed of its sums goes by least counterexamples.
`InSlot` and `NotInSpan` are the window's two dangers: an entered layer that points
behind the active part of a slot, and one that still points to the unmapped span.

**`PrefillBuffers_proofs`**: any batches and their rows, any experts, group size and
CPU share, any limits of works and graphs, any number of layers and forwards, and a
host any number of operations ahead. `ScratchKept` (`ScratchInWindow`),
`AliveQueued` (`QueuedAlive`), `ExpertsOnce` (`EachExpertOnce`), `TypeCorrect`
(`TypeOK`, with its rooms and bounds). `HostInv` has the types of what is queued
and where the host is: a forward is streamed exactly in a window, and only one
of enough rows gets to its groups. `ScratchInv`: what is queued outside a window
leaves the scratch alone, and of the staging sets only the window's own lies in
it. `AliveInv`: a Work names the set whose pinned ids it was made for and no two
sets share ids, so a set and its works go together; the decode graph's set and
Work are of a capacity that is never replaced or trimmed; and the row count just
used has age 0, so the trim after a capture cannot take the graph about to be
replayed.

`EachExpertOnce` is about the end of a layer, and the operations that add to it stand
in the queue with others between them. `ChainInv` links each replay and sum to the
operation before it that leaves the groups below its own in its accumulator.
`LandingInv` says of each queued replay that its group is in its landing, or will be
when as many copies have ended as it waits for, that later copies into that landing
wait for it, and that the host's next group will find its own so too. The rest is
arithmetic of the groups: they do not overlap and end where the CPU's share begins
(`GroupsFacts`, `AddedPartial`, `SummedOnce`).

`SizesInv` is for the rooms and bounds. A set's capacity is the power of two that has
room for the rows it was made for (`CapacityFacts`), and a set made later has a number
no set and no Work has (`FreshFacts`), so a Work cannot come to name a smaller one:
that takes that sets and works are finite. The prefill-sized works start over when
there are as many as the limit. A trim leaves the largest row count and those with
fewer than `GraphKeep` others used since, and as no two row counts were used last at
the same time these have different numbers of others (`AgesApart`, `TrimFacts`). The
inductions these rest on go by least counterexamples (`LeastNat`), and that a function
given by its value at 0 and its step is there is a lemma of its own (`Iteration`).

Only model-checked, and why:

- liveness (`EveryCallEnds` of both all-reduces, `StreamDrains`,
  `OneShotsRetired`, `Loads`, `CallsReturn`, `CalibrationEnds`): beyond the prover;
- `SlicedAsWhole` of the indexer: it compares two computations that select the best
  keys of each row by score, block by block, and is about what those selections
  return for every input. Only its bounded inputs are checked.

## Plan

Modelled, in this order: both all-reduces with their contract; the lend; the
memops; expert loading; the row store; the lend's layout, hint and launches; the
buffers of a prefill; the indexer's slices. Proved: every safety property of the
two all-reduces, `KTLend`, the memops, expert loading and the row store, with both
refinements; the hints and the guard of the launches; that a layer keeps its weights
through loading, new layouts and windows; the life of a prefill's buffers and what its
layers sum. Every safety property of the passing runs but `SlicedAsWhole` is a
theorem.

## Not modelled

- The streamer's older host-buffer hand-shake (`write_seq`, `ready`, `consumed`
  and the 600 s give-up): zero-copy replaces it and the launcher turns that on.
  The eager path without graphs, and the set-up of the streamer, whose failure on
  one rank raises there.
- Which physical expert a logical one is, and which experts' weights the loader
  skips: tables, with no state of their own.
- `row_store_close` and the counters: no server code closes a store, and only the
  offline checks of the adapter do, with no call under way.
- `table_chunk`, which nothing calls, and the points a hint records.
- The first guess of a calibration from the cards' sizes, and the launch scripts
  around `kt-lend-auto.sh`: settings, which the models take as constants.
- The dense shard prefetch reads files the loader would read anyway; the load
  barrier's patch makes a constant a setting, the KV pool's a sizing formula.
- Numeric kernels, timing patches, probes, benchmarks, offline tests, the older
  tree patch.
