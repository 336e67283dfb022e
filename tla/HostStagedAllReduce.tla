------------------------- MODULE HostStagedAllReduce -------------------------
(***************************************************************************)
(* The prefill-sized all-reduce of the tree patch                          *)
(* (host_staged_allreduce.py): every rank copies its tensor to a pinned    *)
(* host region in pieces on stream d2h, publishes a piece counter, and on  *)
(* stream h2d copies the peer's pieces back and adds them. A tensor larger *)
(* than a region goes region by region (a chunk); a rank has NBuf regions  *)
(* and chunk number s uses region s % NBuf.                                *)
(*                                                                         *)
(* Streams: cur waits for h2d at the end of a call and both streams wait   *)
(* for cur at its start, so the calls of a rank do not overlap; within a   *)
(* call d2h and h2d run freely but for the waits below. A memory cell is   *)
(* the list, per rank, of the inputs <<call, piece>> summed into it.       *)
(***************************************************************************)
EXTENDS Naturals, Sequences

CONSTANTS
  Region,    \* pieces a host region holds (region_bytes / _PIECE)
  NBuf,      \* _NBUF: host regions of a rank
  Sizes,     \* the pieces a call may have
  MaxCalls   \* bound on the calls of a behaviour

ASSUME RegionAssumption == Region \in Nat \ {0}
ASSUME NBufAssumption == NBuf \in Nat \ {0}
ASSUME SizesAssumption == Sizes \subseteq Nat \ {0}
ASSUME MaxCallsAssumption == MaxCalls \in Nat

Ranks == {0, 1}

VARIABLES
  sizes,      \* the program both ranks run: the pieces of each call so far
  inside,     \* [Ranks -> BOOLEAN]: are the streams in a call
  call,       \* [Ranks -> calls entered]
  seq,        \* [Ranks -> self.seq before the call: chunks so far]
  published,  \* [Ranks -> self.published before the call: pieces so far]
  copied,     \* [Ranks -> pieces of the call d2h has copied to the host]
  flagged,    \* [Ranks -> pieces of the call d2h has written the flag for]
  taken,      \* [Ranks -> pieces of the call h2d has copied back]
  added,      \* [Ranks -> chunks of the call h2d has added]
  done,       \* [Ranks -> chunks of the call h2d has written the flag for]
  pubFlag,    \* flags[r]: pieces rank r has landed in host memory
  doneFlag,   \* flags[2 + r]: chunks rank r has finished reading back
  src,        \* [Ranks -> the call's tensor, a cell per piece]
  tmp,        \* [Ranks -> the peer's pieces on this device, a cell per place]
  host        \* [Ranks -> [region -> a cell per place]]

places == <<copied, flagged, taken, added, done>>
flags == <<pubFlag, doneFlag>>
vars == <<sizes, inside, call, seq, published, places, flags, src, tmp, host>>

Empty == [q \in Ranks |-> <<>>]
Input(r, c, j) == [Empty EXCEPT ![r] = << <<c, j>> >>]
Plus(a, b) == [q \in Ranks |-> a[q] \o b[q]]

\* Piece j of a call is at place Place(j) of its chunk Chunk(j), both from 1.
Chunk(j) == ((j - 1) \div Region) + 1
Place(j) == ((j - 1) % Region) + 1
Pieces(r) == sizes[call[r]]
ChunkEnd(r, k) == IF k * Region < Pieces(r) THEN k * Region ELSE Pieces(r)
Slot(r, k) == (seq[r] + k) % NBuf

Init ==
  /\ sizes = <<>>
  /\ inside = [r \in Ranks |-> FALSE]
  /\ call = [r \in Ranks |-> 0]
  /\ seq = [r \in Ranks |-> 0]
  /\ published = [r \in Ranks |-> 0]
  /\ copied = [r \in Ranks |-> 0]
  /\ flagged = [r \in Ranks |-> 0]
  /\ taken = [r \in Ranks |-> 0]
  /\ added = [r \in Ranks |-> 0]
  /\ done = [r \in Ranks |-> 0]
  /\ pubFlag = [r \in Ranks |-> 0]
  /\ doneFlag = [r \in Ranks |-> 0]
  /\ src = [r \in Ranks |-> <<>>]
  /\ tmp = [r \in Ranks |-> [i \in 1 .. Region |-> Empty]]
  /\ host = [r \in Ranks |-> [s \in 0 .. NBuf - 1 |-> [i \in 1 .. Region |-> Empty]]]

\* d2h.wait_stream(cur), h2d.wait_stream(cur): the tensor is ready.
Enter(r) ==
  /\ ~inside[r] /\ call[r] < MaxCalls
  /\ IF call[r] = Len(sizes)
     THEN \E n \in Sizes : sizes' = Append(sizes, n)
     ELSE sizes' = sizes
  /\ inside' = [inside EXCEPT ![r] = TRUE]
  /\ call' = [call EXCEPT ![r] = @ + 1]
  /\ copied' = [copied EXCEPT ![r] = 0]
  /\ flagged' = [flagged EXCEPT ![r] = 0]
  /\ taken' = [taken EXCEPT ![r] = 0]
  /\ added' = [added EXCEPT ![r] = 0]
  /\ done' = [done EXCEPT ![r] = 0]
  /\ src' = [src EXCEPT ![r] = [j \in 1 .. sizes'[call'[r]] |-> Input(r, call'[r], j)]]
  /\ UNCHANGED <<seq, published, flags, tmp, host>>

\* Mutant of CopyOut: a region is reused without asking whether the peer has
\* read it back.
CopyOut_no_wait(r) ==
  LET j == copied[r] + 1 IN
  /\ inside[r] /\ j <= Pieces(r) /\ flagged[r] = copied[r]
  /\ host' = [host EXCEPT ![r][Slot(r, Chunk(j))][Place(j)] = src[r][j]]
  /\ copied' = [copied EXCEPT ![r] = j]
  /\ UNCHANGED <<sizes, inside, call, seq, published, flagged, taken, added, done, flags, src, tmp>>

\* d2h copies the next piece to the host; before a chunk it waits until the peer
\* has read back the chunk that used the region last.
CopyOut(r) ==
  LET j == copied[r] + 1
      s == seq[r] + Chunk(j)
  IN
  /\ inside[r] /\ j <= Pieces(r) /\ flagged[r] = copied[r]
  /\ s > NBuf => doneFlag[1 - r] >= s - NBuf
  /\ host' = [host EXCEPT ![r][Slot(r, Chunk(j))][Place(j)] = src[r][j]]
  /\ copied' = [copied EXCEPT ![r] = j]
  /\ UNCHANGED <<sizes, inside, call, seq, published, flagged, taken, added, done, flags, src, tmp>>

\* Mutant of Publish: the flag is written ahead of the copy.
Publish_early(r) ==
  /\ inside[r] /\ flagged[r] = copied[r] /\ copied[r] < Pieces(r)
  /\ flagged' = [flagged EXCEPT ![r] = copied[r] + 1]
  /\ pubFlag' = [pubFlag EXCEPT ![r] = published[r] + copied[r] + 1]
  /\ UNCHANGED <<sizes, inside, call, seq, published, copied, taken, added, done, doneFlag, src, tmp, host>>

\* d2h writes flags[r] once the copy is done.
Publish(r) ==
  /\ inside[r] /\ flagged[r] < copied[r]
  /\ flagged' = [flagged EXCEPT ![r] = copied[r]]
  /\ pubFlag' = [pubFlag EXCEPT ![r] = published[r] + copied[r]]
  /\ UNCHANGED <<sizes, inside, call, seq, published, copied, taken, added, done, doneFlag, src, tmp, host>>

\* Mutant of CopyIn: waits for one piece more than it reads.
CopyIn_one_late(r) ==
  LET j == taken[r] + 1 IN
  /\ inside[r] /\ j <= Pieces(r)
  /\ Chunk(j) = added[r] + 1 /\ done[r] = added[r]
  /\ pubFlag[1 - r] > published[r] + j
  /\ tmp' = [tmp EXCEPT ![r][Place(j)] = host[1 - r][Slot(r, Chunk(j))][Place(j)]]
  /\ taken' = [taken EXCEPT ![r] = j]
  /\ UNCHANGED <<sizes, inside, call, seq, published, copied, flagged, added, done, flags, src, host>>

\* h2d waits for the peer's next piece and copies it to this device. Both ranks
\* have published the same number of pieces before the call.
CopyIn(r) ==
  LET j == taken[r] + 1 IN
  /\ inside[r] /\ j <= Pieces(r)
  /\ Chunk(j) = added[r] + 1 /\ done[r] = added[r]
  /\ pubFlag[1 - r] >= published[r] + j
  /\ tmp' = [tmp EXCEPT ![r][Place(j)] = host[1 - r][Slot(r, Chunk(j))][Place(j)]]
  /\ taken' = [taken EXCEPT ![r] = j]
  /\ UNCHANGED <<sizes, inside, call, seq, published, copied, flagged, added, done, flags, src, host>>

\* Mutant of Add: the race of 09-26, the sum written over pieces this rank has
\* not yet copied out.
Add_no_wait(r) ==
  LET k == added[r] + 1 IN
  /\ inside[r] /\ done[r] = added[r] /\ added[r] < Chunk(Pieces(r))
  /\ taken[r] = ChunkEnd(r, k)
  /\ src' = [src EXCEPT ![r] = [j \in DOMAIN @ |->
               IF Chunk(j) = k THEN Plus(@[j], tmp[r][Place(j)]) ELSE @[j]]]
  /\ added' = [added EXCEPT ![r] = k]
  /\ UNCHANGED <<sizes, inside, call, seq, published, copied, flagged, taken, done, flags, tmp, host>>

\* h2d.wait_stream(d2h), then the add in place.
Add(r) ==
  LET k == added[r] + 1 IN
  /\ inside[r] /\ done[r] = added[r] /\ added[r] < Chunk(Pieces(r))
  /\ taken[r] = ChunkEnd(r, k)
  /\ flagged[r] >= ChunkEnd(r, k)
  /\ src' = [src EXCEPT ![r] = [j \in DOMAIN @ |->
               IF Chunk(j) = k THEN Plus(@[j], tmp[r][Place(j)]) ELSE @[j]]]
  /\ added' = [added EXCEPT ![r] = k]
  /\ UNCHANGED <<sizes, inside, call, seq, published, copied, flagged, taken, done, flags, tmp, host>>

\* h2d writes flags[2 + r]: the peer's region may be reused.
Release(r) ==
  /\ inside[r] /\ done[r] < added[r]
  /\ done' = [done EXCEPT ![r] = added[r]]
  /\ doneFlag' = [doneFlag EXCEPT ![r] = seq[r] + added[r]]
  /\ UNCHANGED <<sizes, inside, call, seq, published, copied, flagged, taken, added, pubFlag, src, tmp, host>>

\* Mutant of Exit: cur waits for the wrong stream.
Exit_after_d2h(r) ==
  /\ inside[r] /\ flagged[r] = Pieces(r)
  /\ inside' = [inside EXCEPT ![r] = FALSE]
  /\ seq' = [seq EXCEPT ![r] = @ + Chunk(Pieces(r))]
  /\ published' = [published EXCEPT ![r] = @ + Pieces(r)]
  /\ UNCHANGED <<sizes, call, places, flags, src, tmp, host>>

\* cur.wait_stream(h2d): the call is over for this rank.
Exit(r) ==
  /\ inside[r] /\ done[r] = Chunk(Pieces(r))
  /\ inside' = [inside EXCEPT ![r] = FALSE]
  /\ seq' = [seq EXCEPT ![r] = @ + Chunk(Pieces(r))]
  /\ published' = [published EXCEPT ![r] = @ + Pieces(r)]
  /\ UNCHANGED <<sizes, call, places, flags, src, tmp, host>>

Next ==
  \E r \in Ranks :
    \/ Enter(r) \/ Exit(r)
    \/ CopyOut(r) \/ Publish(r)
    \/ CopyIn(r) \/ Add(r) \/ Release(r)

\* The copy engines and streams run what is queued, and a rank enters the call
\* its peer is in (one program on both).
Fairness ==
  \A r \in Ranks :
    /\ WF_vars(Enter(r) /\ call[r] < Len(sizes))
    /\ WF_vars(CopyOut(r)) /\ WF_vars(Publish(r))
    /\ WF_vars(CopyIn(r)) /\ WF_vars(Add(r)) /\ WF_vars(Release(r))
    /\ WF_vars(Exit(r))

Spec == Init /\ [][Next]_vars

-----------------------------------------------------------------------------
\* The variables have their types, and no stream is ahead of its own order: a
\* flag is never written before its copy or its add.
TypeOK ==
  /\ sizes \in Seq(Sizes)
  /\ inside \in [Ranks -> BOOLEAN]
  /\ call \in [Ranks -> 0 .. MaxCalls]
  /\ \A f \in {seq, published, copied, flagged, taken, added, done, pubFlag, doneFlag} :
       f \in [Ranks -> Nat]
  /\ \A r \in Ranks : flagged[r] <= copied[r] /\ done[r] <= added[r]
  /\ DOMAIN src = Ranks /\ DOMAIN tmp = Ranks /\ DOMAIN host = Ranks

\* A piece copied back and not yet added is the peer's input for this call and
\* this piece, never a sum: what comes back is what the peer put in, whatever
\* the peer's own h2d stream has done to its tensor meanwhile.
TakesPeersInput ==
  \A r \in Ranks : \A j \in 1 .. taken[r] :
    inside[r] /\ Chunk(j) = added[r] + 1 =>
      tmp[r][Place(j)] = Input(1 - r, call[r], j)

\* A host cell that changes held nothing, or a piece the peer has already copied
\* back: NBuf regions and the wait for flags[2 + p] are enough (lines 319-321).
UnreadKept ==
  [][\A r \in Ranks : \A s \in 0 .. NBuf - 1 : \A i \in 1 .. Region :
       host'[r][s][i] # host[r][s][i] =>
         \A n \in DOMAIN host[r][s][i][r] :
           LET c == host[r][s][i][r][n][1]
               j == host[r][s][i][r][n][2]
           IN  c < call[1 - r] \/ (c = call[1 - r] /\ j <= taken[1 - r])]_vars

-----------------------------------------------------------------------------
Abstract == INSTANCE AllReduce WITH
  begun <- call,
  ended <- [r \in Ranks |-> IF inside[r] THEN call[r] - 1 ELSE call[r]],
  out <- [r \in Ranks |-> IF inside[r] THEN <<>> ELSE src[r]]

\* The staged copies implement the all-reduce contract: the tensor a call leaves
\* holds, piece by piece, each rank's input of that call exactly once.
ImplementsAllReduce == Abstract!Spec

\* No two waits of the two ranks wait for each other for ever.
EveryCallEnds == Abstract!EveryCallEnds
=============================================================================
