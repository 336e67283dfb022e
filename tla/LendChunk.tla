----------------------------- MODULE LendChunk ------------------------------
(***************************************************************************)
(* How the prefill chunk of the next launch is worked out: the hint a rank *)
(* leaves at the end of a lend window (_write_hint of patches/kt_lend.py), *)
(* and what tools/kt-lend-auto.sh makes of the ranks' hints. Rows and      *)
(* chunks are counted in thousands (1024), the steps of the hint; a        *)
(* fraction of a row is not told apart.                                    *)
(***************************************************************************)
EXTENDS Integers, FiniteSets, FiniteSetsExt

CONSTANTS
  Margin,        \* KT_PREFILL_LEND_MARGIN_MB
  ScratchPerRow  \* chunk-sized scratch a row costs

ASSUME ChunkAssumption == Margin \in Nat /\ ScratchPerRow \in Nat

Lowest == 2      \* 2048: no chunk is narrower
Highest == 32    \* 32768
FewRows == 4     \* 4096: a smaller window says nothing
NoChunk == 0

Least(a, b) == IF a < b THEN a ELSE b
Most(a, b) == IF a > b THEN a ELSE b

\* What a window measured: its most rows, peak growth and free memory.
\* The chunk that would have fitted, at most twice the running one.
Fitting(chunk, w) ==
  LET cost == w.growth + ScratchPerRow * w.rows   \* of w.rows rows
      room == w.free - w.growth - Margin
  IN Least(IF cost > 0 THEN chunk + (room * w.rows) \div cost ELSE chunk, 2 * chunk)

\* A window that never filled a chunk teaches nothing about a larger one.
Learned(chunk, w) == w.rows >= FewRows /\ ~(w.rows < chunk /\ Fitting(chunk, w) >= chunk)

\* The hint, given the smallest so far (NoChunk: none).
Hint(chunk, w, least) ==
  LET h == IF Learned(chunk, w) THEN Fitting(chunk, w)
           ELSE IF least = NoChunk THEN chunk ELSE Least(chunk, least)
      rounded == Most(Lowest, Least(Highest, h))
  IN IF least = NoChunk THEN rounded ELSE Least(rounded, least)

\* Mutant of HintMin: the last window's hint is kept, not the smallest.
HintMin_last(chunk, w, least) == least

\* STATE["hint_min"] after the window.
HintMin(chunk, w, least) == IF Learned(chunk, w) THEN Hint(chunk, w, least) ELSE least

-----------------------------------------------------------------------------
(* The launcher. A rank's file is None or [chunk, ran, full].              *)

None == [chunk |-> NoChunk, ran |-> 0, full |-> 0]
Written(files) == {r \in DOMAIN files : files[r] # None}

\* _kt_lend_read_hint: the smallest of the ranks' chunks.
ReadHint(files) ==
  IF Written(files) = {} THEN NoChunk ELSE Min({files[r].chunk : r \in Written(files)})

\* The full KV pool the last server got, and the chunk it ran.
FullPool(files) == IF Written(files) = {} THEN 0 ELSE Min({files[r].full : r \in Written(files)})
LastRan(files) == IF Written(files) = {} THEN 0 ELSE Max({files[r].ran : r \in Written(files)})

\* _kt_lend_kv_guard: what it remembers, side = [ref, cutAt] (cutAt NoChunk: none).
Cut(files, side) == FullPool(files) > 0 /\ LastRan(files) > 0 /\ FullPool(files) < side.ref

\* Mutant of Remembered: the last chunk that cut the pool replaces the others.
Remembered_last(files, side) ==
  IF ~Cut(files, side) THEN side
  ELSE IF LastRan(files) <= Lowest THEN [side EXCEPT !.ref = FullPool(files)]
  ELSE [side EXCEPT !.cutAt = LastRan(files) + 1]

Remembered(files, side) ==
  IF ~Cut(files, side) THEN side
  ELSE IF LastRan(files) <= Lowest THEN [side EXCEPT !.ref = FullPool(files)]
  ELSE [side EXCEPT !.cutAt = IF @ = NoChunk THEN LastRan(files) ELSE Least(@, LastRan(files))]

\* ... and the chunk of this launch.
Guarded(chunk, side) ==
  IF side.cutAt = NoChunk THEN chunk ELSE Least(chunk, Most(Lowest, side.cutAt - 1))
=============================================================================
