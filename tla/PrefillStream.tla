--------------------------- MODULE PrefillStream ---------------------------
(***************************************************************************)
(* The two CUDA streams the buffers of a prefill are used from, and the    *)
(* lend window they are used in: `cur`, the compute stream, runs lookups,  *)
(* group graphs and the layer's sums in the order the host queued them,    *)
(* `dma` the streamer's transfers. The host only queues. An operation that *)
(* waits for an event of the other stream carries `after`, the operations  *)
(* that stream has still to run before the event.                          *)
(***************************************************************************)
EXTENDS Naturals, Sequences

VARIABLES
  window,    \* STATE["phase"] = "prefill": scratch mapped, weights away
  cur, dma,  \* operations the two streams have still to run
  copying    \* the transfer at the head of dma has begun

streamVars == <<cur, dma, copying>>

Less(n) == IF n = 0 THEN 0 ELSE n - 1

\* One operation of the other stream has run.
Sooner(queue) == [i \in DOMAIN queue |-> [queue[i] EXCEPT !.after = Less(@)]]

\* What current_stream().synchronize() and synchronize(device) wait for.
Idle == cur = <<>>
Drained == cur = <<>> /\ dma = <<>>

\* Where the operations a stream has to run read and write.
Pending == {cur[i] : i \in DOMAIN cur}
=============================================================================
