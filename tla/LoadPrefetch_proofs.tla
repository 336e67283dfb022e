------------------------ MODULE LoadPrefetch_proofs ------------------------
(***************************************************************************)
(* Proofs about LoadPrefetch for any number of layers and pieces and any   *)
(* KT_LOAD_PREFETCH_TAIL.                                                  *)
(***************************************************************************)
EXTENDS LoadPrefetch, FiniteSetTheorems, TLAPS

\* Before "ahead" the loader has not asked for its own layer's bytes.
Unread == {"drop", "evict", "read"}

\* Only a layer that exists is loaded, and pieces are copied by "copy" alone.
Loading ==
  /\ pc # "drop" => layer < NumLayers
  /\ pc # "copy" => copied = {}

\* The layer whose background read can be pending: the layer itself until it is
\* awaited, none until the next is started, then the next.
ReadPending ==
  /\ pc \in Unread =>
       pending = IF layer > 0 /\ ReadsAhead(layer - 1) THEN {layer} ELSE {}
  /\ pc = "ahead" => pending = {}
  /\ pc \in {"arena", "copy"} =>
       pending = IF ReadsAhead(layer) THEN {layer + 1} ELSE {}

\* The layers that can have pages in the cache. Before the first drop these are
\* the dense shards; then the layer before until it is evicted, the layer once it
\* is read, and what is read ahead.
Window ==
  CASE pc = "drop" /\ layer = 0 -> {Dense}
    [] pc \in {"drop", "evict"} /\ layer > 0 -> {layer - 1} \cup pending
    [] pc = "evict" /\ layer = 0 -> {}
    [] pc = "read" -> pending
    [] OTHER -> {layer} \cup pending

CacheWindow == cache \subseteq Window \X Pieces

\* Nobody has asked for the bytes of a layer to come that is not pending.
NotAskedYet ==
  \A l \in Layers : \A p \in Pieces :
    l \notin pending /\ (l > layer \/ (l = layer /\ pc \in Unread)) =>
      reads[<<l, p>>] = 0

\* What was read is still cached until its layer is done, but for the layer the
\* drop comes back too early for.
ReadIsCached ==
  \A l \in Layers : \A p \in Pieces :
    l # Redropped =>
      /\ reads[<<l, p>>] <= 1
      /\ l >= layer /\ reads[<<l, p>>] > 0 => <<l, p>> \in cache

IInv == TypeOK /\ Loading /\ ReadPending /\ CacheWindow /\ NotAskedYet /\ ReadIsCached

-----------------------------------------------------------------------------
(* What a layer's number decides *)

\* A layer read ahead exists, and is at most the first of the tail's drops.
LEMMA AheadExists ==
  ASSUME NEW l \in Nat, ReadsAhead(l)
  PROVE  l + 1 \in Layers /\ l + 1 <= Redropped
BY NumLayersAssumption, TailAssumption DEF ReadsAhead, Layers, Redropped

\* The drop that comes at a layer past the first comes where nothing but the
\* layer of Redropped can have been read ahead.
LEMMA DropAtTail ==
  ASSUME NEW l \in Nat, l > 0, ~Skips(l)
  PROVE  l >= Redropped
BY NumLayersAssumption, TailAssumption DEF Skips, Redropped

\* A set within two elements has at most two.
LEMMA TwoElements ==
  ASSUME NEW a, NEW b, NEW S, S \subseteq {a, b}
  PROVE  Cardinality(S) <= 2
<1>1. IsFiniteSet({a}) /\ Cardinality({a}) = 1
  BY FS_Singleton
<1>2. IsFiniteSet({a} \cup {b}) /\ Cardinality({a} \cup {b}) <= 2
  BY <1>1, FS_AddElement
<1>3. S \in SUBSET ({a} \cup {b})
  OBVIOUS
<1>4. IsFiniteSet(S) /\ Cardinality(S) <= Cardinality({a} \cup {b})
  BY <1>2, <1>3, FS_Subset
<1> QED BY <1>2, <1>4, FS_CardinalityType

\* Reading pages of a layer keeps the types of the cache and of the counts.
LEMMA ReadPagesType ==
  ASSUME TypeOK, NEW pages \in SUBSET (Layers \X Pieces), ReadPages(pages)
  PROVE  /\ cache' \subseteq (Layers \cup {Dense}) \X Pieces
         /\ reads' \in [Layers \X Pieces -> Nat]
BY DEF TypeOK, ReadPages

\* Reading pages nobody dropped leaves them cached, and a page read at most once
\* is read again only if the cache has lost it.
LEMMA ReadPagesCached ==
  ASSUME TypeOK, ReadIsCached, NEW pages \in SUBSET (Layers \X Pieces), ReadPages(pages),
         layer' = layer, \A p \in pages : p[1] >= layer
  PROVE  ReadIsCached'
<1> SUFFICES ASSUME NEW l \in Layers, NEW p \in Pieces, l # Redropped
             PROVE  /\ reads'[<<l, p>>] <= 1
                    /\ l >= layer /\ reads'[<<l, p>>] > 0 => <<l, p>> \in cache'
  BY DEF ReadIsCached, Redropped
<1>1. /\ reads[<<l, p>>] <= 1
      /\ l >= layer /\ reads[<<l, p>>] > 0 => <<l, p>> \in cache
  BY DEF ReadIsCached
<1>2. <<l, p>> \in Layers \X Pieces /\ reads[<<l, p>>] \in Nat
  BY DEF TypeOK
<1>3. CASE <<l, p>> \in pages \ cache
  <2>1. reads'[<<l, p>>] = reads[<<l, p>>] + 1 /\ <<l, p>> \in cache'
    BY <1>2, <1>3 DEF ReadPages, TypeOK
  <2>2. l >= layer
    BY <1>3
  <2> QED BY <1>1, <1>2, <1>3, <2>1, <2>2
<1>4. CASE <<l, p>> \notin pages \ cache
  BY <1>1, <1>2, <1>4 DEF ReadPages, TypeOK
<1> QED BY <1>3, <1>4

-----------------------------------------------------------------------------
(* The inductive invariant *)

\* The invariant holds at the start.
LEMMA InvInit == Init => IInv
<1> SUFFICES ASSUME Init PROVE IInv
  OBVIOUS
<1>1. TypeOK
  BY NumLayersAssumption DEF Init, TypeOK
<1>2. Loading /\ ReadPending
  BY DEF Init, Loading, ReadPending, Unread
<1>3. CacheWindow
  BY DEF Init, CacheWindow, Window
<1>4. NotAskedYet /\ ReadIsCached
  BY DEF Init, NotAskedYet, ReadIsCached
<1> QED BY <1>1, <1>2, <1>3, <1>4 DEF IInv

\* The drop loses only the pages of layers already copied, and those read ahead
\* for Redropped.
LEMMA DropStep == IInv /\ DropCache => IInv'
<1> SUFFICES ASSUME IInv, DropCache PROVE IInv'
  OBVIOUS
<1> USE DEF IInv
<1>1. TypeOK' /\ Loading' /\ ReadPending'
  BY DEF DropCache, TypeOK, Loading, ReadPending, Unread, ReadsAhead
<1>2. CacheWindow'
  <2>1. CASE cache' = {}
    BY <2>1 DEF CacheWindow
  <2>2. CASE Skips(layer) /\ cache' = cache
    BY <2>2 DEF DropCache, CacheWindow, Window, Skips
  <2> QED BY <2>1, <2>2 DEF DropCache
<1>3. NotAskedYet'
  BY DEF DropCache, NotAskedYet, Unread
<1>4. ReadIsCached'
  <2> SUFFICES ASSUME NEW l \in Layers, NEW p \in Pieces, l # Redropped
               PROVE  /\ reads'[<<l, p>>] <= 1
                      /\ l >= layer' /\ reads'[<<l, p>>] > 0 => <<l, p>> \in cache'
    BY DEF ReadIsCached, Redropped
  <2>1. /\ reads[<<l, p>>] <= 1
        /\ l >= layer /\ reads[<<l, p>>] > 0 => <<l, p>> \in cache
    BY DEF ReadIsCached
  <2>2. ASSUME l >= layer, ~Skips(layer) PROVE reads[<<l, p>>] = 0
    <3>1. layer \in Nat /\ l \in Nat /\ pc \in Unread
      BY DEF TypeOK, DropCache, Unread, Layers
    <3>2. l \notin pending
      <4>1. CASE layer > 0 /\ ReadsAhead(layer - 1)
        <5>1. layer >= Redropped
          BY <2>2, <3>1, <4>1, DropAtTail
        <5>2. layer <= Redropped
          BY <3>1, <4>1, AheadExists
        <5> QED BY <3>1, <4>1, <5>1, <5>2, NumLayersAssumption, TailAssumption
                DEF ReadPending, Redropped
      <4>2. CASE ~(layer > 0 /\ ReadsAhead(layer - 1))
        BY <3>1, <4>2 DEF ReadPending
      <4> QED BY <4>1, <4>2
    <3> QED BY <2>2, <3>1, <3>2 DEF NotAskedYet
  <2> QED BY <2>1, <2>2 DEF DropCache
<1> QED BY <1>1, <1>2, <1>3, <1>4

\* Evicting the layer before takes no page of a layer still to be copied.
LEMMA EvictStep == IInv /\ EvictPrevious => IInv'
<1> SUFFICES ASSUME IInv, EvictPrevious PROVE IInv'
  OBVIOUS
<1> USE DEF IInv
<1>1. layer \in Nat /\ layer' = layer /\ pc = "evict" /\ pc' = "read" /\ pending' = pending
  BY DEF EvictPrevious, TypeOK
<1>2. TypeOK' /\ Loading' /\ ReadPending'
  BY DEF EvictPrevious, TypeOK, Loading, ReadPending, Unread, ReadsAhead
<1>3. CacheWindow'
  <2>1. Window' = pending
    BY <1>1 DEF Window
  <2>2. CASE layer > 0
    <3>1. Window = {layer - 1} \cup pending
      BY <1>1, <2>2 DEF Window
    <3> QED BY <2>1, <2>2, <3>1 DEF EvictPrevious, CacheWindow, PagesOf
  <2>3. CASE layer = 0
    <3>1. Window = {}
      BY <1>1, <2>3 DEF Window
    <3> QED BY <2>1, <2>3, <3>1 DEF EvictPrevious, CacheWindow
  <2> QED BY <1>1, <2>2, <2>3
<1>4. NotAskedYet'
  BY DEF EvictPrevious, NotAskedYet, Unread
<1>5. ReadIsCached'
  BY <1>1 DEF EvictPrevious, ReadIsCached, Redropped, PagesOf, Layers
<1> QED BY <1>2, <1>3, <1>4, <1>5

\* A layer read ahead is all cached when its future is done.
LEMMA AwaitStep == IInv /\ AwaitRead => IInv'
<1> SUFFICES ASSUME IInv, AwaitRead PROVE IInv'
  OBVIOUS
<1> USE DEF IInv
<1>1. layer \in Nat /\ layer' = layer /\ pc = "read" /\ pc' = "ahead"
  BY DEF AwaitRead, TypeOK
<1>2. pending = {layer} /\ pending' = {}
  BY <1>1 DEF AwaitRead, ReadPending, Unread
<1>3. TypeOK' /\ Loading' /\ ReadPending'
  BY <1>1, <1>2 DEF AwaitRead, TypeOK, Loading, ReadPending, Unread
<1>4. CacheWindow'
  BY <1>1, <1>2 DEF AwaitRead, CacheWindow, Window
<1>5. NotAskedYet'
  BY <1>1, <1>2 DEF AwaitRead, NotAskedYet, Unread, Layers
<1>6. ReadIsCached'
  BY DEF AwaitRead, ReadIsCached, Redropped
<1> QED BY <1>3, <1>4, <1>5, <1>6

\* A layer nobody read ahead is read once, before it is copied.
LEMMA ReadNowStep == IInv /\ ReadNow => IInv'
<1> SUFFICES ASSUME IInv, ReadNow PROVE IInv'
  OBVIOUS
<1> USE DEF IInv
<1>1. layer \in Layers /\ layer' = layer /\ pc = "read" /\ pc' = "ahead"
  BY NumLayersAssumption DEF ReadNow, TypeOK, Loading, Layers
<1>2. pending = {} /\ pending' = {}
  BY <1>1 DEF ReadNow, ReadPending, Unread
<1>3. PagesOf(layer) \in SUBSET (Layers \X Pieces) /\ ReadPages(PagesOf(layer))
  BY <1>1 DEF PagesOf, ReadNow
<1>4. TypeOK'
  BY <1>3, ReadPagesType DEF ReadNow, TypeOK
<1>5. Loading' /\ ReadPending'
  BY <1>1, <1>2 DEF ReadNow, Loading, ReadPending, Unread, Layers
<1>6. CacheWindow'
  BY <1>1, <1>2, <1>3 DEF ReadPages, PagesOf, CacheWindow, Window
<1>7. NotAskedYet'
  BY <1>1, <1>2, <1>3 DEF ReadPages, PagesOf, NotAskedYet, Unread, Layers, TypeOK
<1>8. ReadIsCached'
  <2>1. \A p \in PagesOf(layer) : p[1] >= layer
    BY <1>1 DEF PagesOf, Layers
  <2> QED BY <1>1, <1>3, <2>1, ReadPagesCached
<1> QED BY <1>4, <1>5, <1>6, <1>7, <1>8

\* The read of the next layer is the only one in the background.
LEMMA ReadAheadStep == IInv /\ ReadAhead => IInv'
<1> SUFFICES ASSUME IInv, ReadAhead PROVE IInv'
  OBVIOUS
<1> USE DEF IInv
<1>1. layer \in Nat /\ layer' = layer /\ pc = "ahead" /\ pc' = "arena" /\ pending = {}
  BY DEF ReadAhead, TypeOK, ReadPending
<1>2. pending' = IF ReadsAhead(layer) THEN {layer + 1} ELSE {}
  BY <1>1 DEF ReadAhead
<1>3. TypeOK'
  BY <1>1, <1>2, AheadExists DEF ReadAhead, TypeOK
<1>4. Loading' /\ ReadPending'
  BY <1>1, <1>2 DEF ReadAhead, Loading, ReadPending, Unread, ReadsAhead
<1>5. CacheWindow'
  BY <1>1, <1>2 DEF ReadAhead, CacheWindow, Window
<1>6. NotAskedYet'
  BY <1>1, <1>2 DEF ReadAhead, NotAskedYet, Unread
<1>7. ReadIsCached'
  BY DEF ReadAhead, ReadIsCached, Redropped
<1> QED BY <1>3, <1>4, <1>5, <1>6, <1>7

\* A pending layer exists and is not done.
LEMMA PendingToCome ==
  ASSUME IInv, NEW l \in pending
  PROVE  l \in Layers /\ l >= layer
<1> USE DEF IInv
<1>1. layer \in Nat /\ l \in Layers
  BY DEF TypeOK
<1>2. pc \in Unread \cup {"ahead", "arena", "copy"}
  BY DEF TypeOK, Unread
<1> QED BY <1>1, <1>2 DEF ReadPending, Unread

\* A piece read in the background is a piece of the pending layer.
LEMMA BackgroundStep == IInv /\ BackgroundRead => IInv'
<1> SUFFICES ASSUME IInv, NEW l \in pending, NEW p \in left,
                    ReadPages({<<l, p>>}), left' = left \ {p},
                    UNCHANGED <<layer, pc, pending, copied>>
             PROVE  IInv'
  BY DEF BackgroundRead
<1> USE DEF IInv
<1>1. l \in Layers /\ l >= layer /\ p \in Pieces
  BY PendingToCome DEF TypeOK
<1>2. {<<l, p>>} \in SUBSET (Layers \X Pieces)
  BY <1>1
<1>3. TypeOK'
  BY <1>2, ReadPagesType DEF TypeOK
<1>4. Loading' /\ ReadPending'
  BY DEF Loading, ReadPending, Unread, ReadsAhead
<1>5. CacheWindow'
  <2>1. Window' = Window
    BY DEF Window
  <2>2. l \in Window
    <3>1. ~(pc = "drop" /\ layer = 0) /\ ~(pc = "evict" /\ layer = 0)
      BY DEF ReadPending, Unread, TypeOK
    <3> QED BY <3>1 DEF Window, TypeOK
  <2> QED BY <1>1, <2>1, <2>2 DEF ReadPages, CacheWindow
<1>6. NotAskedYet'
  BY <1>1 DEF ReadPages, NotAskedYet, Unread, TypeOK
<1>7. ReadIsCached'
  <2>1. \A q \in {<<l, p>>} : q[1] >= layer
    BY <1>1
  <2> QED BY <1>2, <2>1, ReadPagesCached
<1> QED BY <1>3, <1>4, <1>5, <1>6, <1>7

\* The arena is allocated without a page moving.
LEMMA ArenaStep == IInv /\ MakeArena => IInv'
<1> SUFFICES ASSUME IInv, MakeArena PROVE IInv'
  OBVIOUS
<1> USE DEF IInv
<1>1. TypeOK' /\ Loading' /\ ReadPending'
  BY DEF MakeArena, TypeOK, Loading, ReadPending, Unread, ReadsAhead
<1>2. CacheWindow'
  BY DEF MakeArena, CacheWindow, Window
<1>3. NotAskedYet' /\ ReadIsCached'
  BY DEF MakeArena, NotAskedYet, ReadIsCached, Redropped, Unread
<1> QED BY <1>1, <1>2, <1>3

\* A piece copied is read from disk only if its layer was dropped on the way.
LEMMA CopyStep == IInv /\ CopyPiece => IInv'
<1> SUFFICES ASSUME IInv, NEW p \in Pieces \ copied, pc = "copy",
                    ReadPages({<<layer, p>>}), copied' = copied \cup {p},
                    UNCHANGED <<layer, pc, pending, left>>
             PROVE  IInv'
  BY DEF CopyPiece
<1> USE DEF IInv
<1>1. layer \in Layers
  BY NumLayersAssumption DEF TypeOK, Loading, Layers
<1>2. {<<layer, p>>} \in SUBSET (Layers \X Pieces)
  BY <1>1
<1>3. TypeOK'
  BY <1>2, ReadPagesType DEF TypeOK
<1>4. Loading' /\ ReadPending'
  BY DEF Loading, ReadPending, Unread, ReadsAhead
<1>5. CacheWindow'
  BY DEF ReadPages, CacheWindow, Window
<1>6. NotAskedYet'
  BY <1>1 DEF ReadPages, NotAskedYet, Unread, TypeOK, Layers
<1>7. ReadIsCached'
  <2>1. \A q \in {<<layer, p>>} : q[1] >= layer
    BY <1>1 DEF Layers
  <2> QED BY <1>2, <2>1, ReadPagesCached
<1> QED BY <1>3, <1>4, <1>5, <1>6, <1>7

\* A layer done leaves its pages, and those of the pending layer, to the next.
LEMMA DoneStep == IInv /\ LayerDone => IInv'
<1> SUFFICES ASSUME IInv, LayerDone PROVE IInv'
  OBVIOUS
<1> USE DEF IInv
<1>1. layer \in Layers /\ layer \in Nat /\ layer' = layer + 1 /\ pc = "copy" /\ pc' = "drop"
  BY NumLayersAssumption DEF LayerDone, TypeOK, Loading, Layers
<1>2. pending = IF ReadsAhead(layer) THEN {layer + 1} ELSE {}
  BY <1>1 DEF ReadPending
<1>3. TypeOK' /\ Loading'
  BY <1>1, NumLayersAssumption DEF LayerDone, TypeOK, Loading, Layers
<1>4. ReadPending'
  <2>1. layer' > 0 /\ layer' - 1 = layer
    BY <1>1
  <2> QED BY <1>1, <1>2, <2>1 DEF LayerDone, ReadPending, Unread, ReadsAhead
<1>5. CacheWindow'
  BY <1>1 DEF LayerDone, CacheWindow, Window
<1>6. NotAskedYet'
  BY <1>1 DEF LayerDone, NotAskedYet, Unread, Layers
<1>7. ReadIsCached'
  BY <1>1 DEF LayerDone, ReadIsCached, Redropped, Layers
<1> QED BY <1>3, <1>4, <1>5, <1>6, <1>7

\* Every step keeps the invariant.
LEMMA InvStep == IInv /\ [Next]_vars => IInv'
<1> SUFFICES ASSUME IInv, UNCHANGED vars PROVE IInv'
  BY DropStep, EvictStep, AwaitStep, ReadNowStep, ReadAheadStep, BackgroundStep,
     ArenaStep, CopyStep, DoneStep DEF Next
<1> QED BY DEF vars, IInv, TypeOK, Loading, ReadPending, CacheWindow, Window,
               NotAskedYet, ReadIsCached, Unread, ReadsAhead, Redropped

\* Loading keeps the invariant throughout.
THEOREM Invariance == Spec => []IInv
BY InvInit, InvStep, PTL DEF Spec

-----------------------------------------------------------------------------
(* What it promises *)

\* Every variable keeps its type: no layer past the last is read or loaded.
THEOREM TypeCorrect == Spec => []TypeOK
<1>1. IInv => TypeOK
  BY DEF IInv
<1> QED BY <1>1, Invariance, PTL

\* Whatever the interleaving of the loading and the reading thread, a byte comes
\* from disk once, but for the layer the drop comes back too early for.
THEOREM NoByteTwice == Spec => []ReadOnce
<1>1. IInv => ReadOnce
  BY DEF IInv, TypeOK, ReadIsCached, ReadOnce
<1> QED BY <1>1, Invariance, PTL

\* The cache never holds more of the checkpoint than two layers.
THEOREM CacheBounded == Spec => []AtMostTwoLayers
<1>1. IInv => AtMostTwoLayers
  <2> SUFFICES ASSUME IInv, ~(layer = 0 /\ pc = "drop")
               PROVE  Cardinality(Layered(cache)) <= 2 /\ Dense \notin Layered(cache)
    BY DEF AtMostTwoLayers, IInv, TypeOK
  <2> USE DEF IInv
  <2>1. layer \in Nat /\ layer <= NumLayers
    BY NumLayersAssumption DEF TypeOK
  <2>2. \E a, b \in Int : Window = {a, b} \/ Window = {a} \/ Window = {}
    <3>1. \E b \in Int : pending = {b} \/ pending = {}
      BY <2>1 DEF TypeOK, ReadPending, Unread
    <3>2. \E a \in Int : Window \in {{a} \cup pending, pending, {}}
      BY <2>1 DEF Window, TypeOK
    <3> QED BY <3>1, <3>2
  <2>3. Layered(cache) \subseteq Window
    BY DEF CacheWindow, Layered
  <2>4. Cardinality(Layered(cache)) <= 2
    BY <2>2, <2>3, TwoElements
  <2>5. Dense \notin Window
    <3>1. \A l \in pending : l # Dense
      BY NumLayersAssumption DEF TypeOK, Layers, Dense
    <3> QED BY <2>1, <3>1, NumLayersAssumption DEF Window, Dense, Loading, TypeOK
  <2> QED BY <2>3, <2>4, <2>5
<1> QED BY <1>1, Invariance, PTL

\* The tail's arenas, and the one before them, are allocated beside no other
\* layer's pages.
THEOREM TailAlone == Spec => []TailArenaAlone
<1>1. IInv => TailArenaAlone
  <2> SUFFICES ASSUME IInv, pc = "arena", layer + Tail + 1 >= NumLayers
               PROVE  cache \subseteq PagesOf(layer)
    BY DEF TailArenaAlone
  <2> USE DEF IInv
  <2>1. layer \in Nat /\ ~ReadsAhead(layer)
    BY NumLayersAssumption, TailAssumption DEF TypeOK, ReadsAhead
  <2>2. Window = {layer}
    BY <2>1 DEF Window, ReadPending
  <2> QED BY <2>2 DEF CacheWindow, PagesOf
<1> QED BY <1>1, Invariance, PTL
=============================================================================
