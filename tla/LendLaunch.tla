----------------------------- MODULE LendLaunch -----------------------------
(***************************************************************************)
(* The life of a server with the prefill lend, launch after launch: the    *)
(* launcher (tools/kt-lend-auto.sh) picks a chunk from what earlier        *)
(* servers measured, or calibrates; the server loads (LendLayout), opens   *)
(* and closes lend windows, and each rank leaves a hint at the end of each *)
(* (LendChunk); it may run out of memory or be stopped at any time.        *)
(*                                                                         *)
(* The ranks run the same forwards; each closes its window on its own.     *)
(* What a forward costs, what is free and how large the KV pool becomes    *)
(* are the device's: they are constants, or chosen when a window opens.    *)
(* LendLayout's variables are those of rank R0.                            *)
(***************************************************************************)
EXTENDS LendLayout, LendChunk

CONSTANTS
  Ranks, R0,
  UserChunks,   \* chunks a user may give
  Calibrate,    \* KT_PREFILL_LEND_CALIBRATE
  FirstGuess,   \* the calibration's first chunk, from the cards' size
  Unmeasured,   \* the chunk without calibration (8192)
  Rows,         \* rows of a forward, besides a whole chunk
  Costs,        \* [rows -> peak growth], one function per sequence length
  Total,        \* [Ranks -> memory a window finds free before the chunk's scratch, some values]
  Pool,         \* [chunks -> full KV pool]
  Cap,          \* KT_PREFILL_LEND_KV_CAP
  MaxLaunches, MaxWindows   \* bounds

\* Chunks are those a hint may name; a forward of a thousand rows allocates; a
\* wider chunk leaves a smaller pool, and there is always one.
ASSUME LaunchAssumption ==
  /\ R0 \in Ranks /\ Calibrate \in BOOLEAN
  /\ UserChunks \subseteq Lowest .. Highest
  /\ FirstGuess \in Lowest .. Highest /\ Unmeasured \in Lowest .. Highest
  /\ Rows \subseteq Nat \ {0}
  /\ Costs \subseteq [1 .. Highest -> Nat \ {0}]
  /\ Total \subseteq [Ranks -> Nat]
  /\ Cap \in Nat /\ Pool \in [Lowest .. Highest -> Nat \ {0}]
  /\ \A c, d \in Lowest .. Highest : c <= d => Pool[d] <= Pool[c]
  /\ MaxLaunches \in Nat /\ MaxWindows \in Nat

VARIABLES
  doing,     \* the launcher: "nothing", "calibrating", "serving"
  chunk,     \* chunked_prefill_size of the server, or NoChunk
  files,     \* [Ranks -> the rank's hint file]
  side,      \* <hint>-kv.json
  hintMin,   \* [Ranks -> STATE["hint_min"]]
  window,    \* [Ranks -> what the open window measured, or Closed]
  oom,       \* the server's log has an out-of-memory line
  launches,  \* launches by the user, for the bound
  windows,   \* windows the server has opened, for the bound
  \* history
  given,     \* a user has given a chunk
  full,      \* [Ranks -> the server's windows that filled a chunk]
  cuts       \* chunks, but the lowest, all ranks have recorded with a cut KV pool

launchVars == <<doing, chunk, files, side, hintMin, window, oom, launches, windows, given, full, cuts>>
vars == <<layoutVars, launchVars>>

Closed == [rows |-> 0, growth |-> 0, free |-> 0]

Init ==
  /\ LayoutInit
  /\ doing = "nothing" /\ chunk = NoChunk
  /\ files = [r \in Ranks |-> None] /\ side = [ref |-> Cap, cutAt |-> NoChunk]
  /\ hintMin = [r \in Ranks |-> NoChunk] /\ window = [r \in Ranks |-> Closed]
  /\ oom = FALSE /\ launches = 0 /\ windows = 0
  /\ given = FALSE /\ full = [r \in Ranks |-> {}] /\ cuts = {}

-----------------------------------------------------------------------------
(* The launcher *)

\* A server starts to load, with chunk c.
Starts(c) ==
  /\ chunk' = c
  /\ oom' = FALSE
  /\ UNCHANGED <<hintMin, window, windows, full>>
  /\ BindModel

Counted == launches < MaxLaunches /\ launches' = launches + 1

\* A chunk the user gave: no hint, no guard.
LaunchGiven(c) ==
  /\ doing = "nothing" /\ Counted
  /\ doing' = "serving"
  /\ Starts(c)
  /\ given' = TRUE
  /\ UNCHANGED <<files, side, cuts>>

\* The KV guard, then the server.
Serve(c) ==
  /\ doing' = "serving"
  /\ side' = Remembered(files, side)
  /\ Starts(Guarded(c, side'))
  /\ UNCHANGED <<files, given, cuts>>

Calibration(c) ==
  /\ doing' = "calibrating"
  /\ Starts(c)
  /\ UNCHANGED <<files, side, given, cuts>>

\* kt_lend_auto: a hint, no calibration, or a calibration.
Launch ==
  /\ doing = "nothing" /\ Counted
  /\ IF ReadHint(files) # NoChunk THEN Serve(ReadHint(files))
     ELSE IF ~Calibrate THEN Serve(Unmeasured)
     ELSE Calibration(FirstGuess)

\* What a server keeps in memory goes with it.
Stopped ==
  /\ window' = [r \in Ranks |-> Closed] /\ windows' = 0
  /\ hintMin' = [r \in Ranks |-> NoChunk] /\ full' = [r \in Ranks |-> {}]

\* The calibration server has left a hint or the waits are over: it is killed.
EndCalibration ==
  /\ doing = "calibrating" /\ phase # "off"
  /\ ServerGone /\ Stopped
  /\ UNCHANGED <<doing, chunk, files, side, oom, launches, given, cuts>>

\* Mutant of AfterCalibration: the chunk is not halved.
AfterCalibration_same ==
  /\ doing = "calibrating" /\ phase = "off" /\ UNCHANGED launches
  /\ IF ReadHint(files) # NoChunk THEN Serve(ReadHint(files))
     ELSE IF oom THEN Calibration(chunk)
     ELSE Serve(Lowest)

\* A hint ends the calibration, out of memory halves its chunk, and anything
\* else, or a chunk below the lowest, ends it at the lowest.
AfterCalibration ==
  /\ doing = "calibrating" /\ phase = "off" /\ UNCHANGED launches
  /\ IF ReadHint(files) # NoChunk THEN Serve(ReadHint(files))
     ELSE IF oom /\ chunk \div 2 >= Lowest THEN Calibration(chunk \div 2)
     ELSE Serve(Lowest)

\* The calibration server does not start: the launcher gives up.
LaunchFails ==
  /\ doing = "calibrating" /\ phase = "load"
  /\ doing' = "nothing"
  /\ ServerGone /\ Stopped
  /\ UNCHANGED <<chunk, files, side, oom, launches, given, cuts>>

\* Somebody stops the server, at any time.
StopServer ==
  /\ doing = "serving" /\ phase # "off"
  /\ doing' = "nothing"
  /\ ServerGone /\ Stopped
  /\ UNCHANGED <<chunk, files, side, oom, launches, given, cuts>>

-----------------------------------------------------------------------------
(* The server *)

Load == Loading /\ UNCHANGED launchVars
AfterLoad == LayoutDone /\ UNCHANGED launchVars
EnterLayer == EnterSlot /\ UNCHANGED launchVars

Grown(w, rows, growth) == [w EXCEPT !.rows = Most(@, rows), !.growth = Most(@, growth)]

\* before_forward opens a window on every rank: free memory and the baseline are
\* measured, the forward's rows and growth are the window's first.
OpenWindow(rows, growth, total) ==
  /\ phase = "decode" /\ windows < MaxWindows
  /\ \A r \in Ranks : window[r] = Closed
  /\ windows' = windows + 1
  /\ OpenLayout
  /\ window' = [r \in Ranks |-> [rows |-> rows, growth |-> growth,
                                 free |-> total[r] - ScratchPerRow * chunk]]
  /\ UNCHANGED <<doing, chunk, files, side, hintMin, oom, launches, given, full, cuts>>

\* A further forward in the window.
ExtendWindow(rows, growth) ==
  /\ phase = "prefill" /\ \A r \in Ranks : window[r] # Closed
  /\ window' = [r \in Ranks |-> Grown(window[r], rows, growth)]
  /\ window' # window
  /\ UNCHANGED <<layoutVars, doing, chunk, files, side, hintMin, oom, launches, windows, given, full, cuts>>

\* The window needs more than is free on some rank: out of memory. A rank whose
\* weights cannot come back ("cannot come back", _check_room) dies the same way.
Fits == \A r \in Ranks : window[r].growth <= window[r].free
RunsOut ==
  /\ phase = "prefill"
  /\ \/ ~Fits \/ \E r \in Ranks : window[r] = Closed
  /\ oom' = TRUE
  /\ doing' = IF doing = "serving" THEN "nothing" ELSE doing
  /\ ServerGone /\ Stopped
  /\ UNCHANGED <<chunk, files, side, launches, given, cuts>>

\* end_window on rank r: the hint is written (unless the window is too short to
\* say anything), then the layout is put back.
WriteHint(r) ==
  IF window[r].rows < Lowest THEN UNCHANGED <<files, hintMin, full, cuts>>
  ELSE
    /\ files' = [files EXCEPT ![r] =
         [chunk |-> Hint(chunk, window[r], hintMin[r]), ran |-> chunk, full |-> Pool[chunk]]]
    /\ hintMin' = [hintMin EXCEPT ![r] = HintMin(chunk, window[r], @)]
    /\ full' = IF window[r].rows = chunk THEN [full EXCEPT ![r] = @ \cup {window[r]}] ELSE full
    /\ cuts' = IF chunk > Lowest /\ Pool[chunk] < side.ref /\ \A q \in Ranks : files'[q].ran = chunk
               THEN cuts \cup {chunk} ELSE cuts
EndWindow(r) ==
  /\ phase \in {"prefill", "decode"} /\ window[r] # Closed /\ Fits
  /\ WriteHint(r)
  /\ window' = [window EXCEPT ![r] = Closed]
  /\ IF r = R0 THEN CloseLayout ELSE UNCHANGED layoutVars
  /\ UNCHANGED <<doing, chunk, side, oom, launches, windows, given>>

Window ==
  \/ \E f \in Costs : \E rows \in {k \in Rows : k <= chunk} \cup {chunk} :
       \/ \E total \in Total : OpenWindow(rows, f[rows], total)
       \/ ExtendWindow(rows, f[rows])
  \/ EnterLayer \/ RunsOut
  \/ \E r \in Ranks : EndWindow(r)

Next ==
  \/ \E c \in UserChunks : LaunchGiven(c)
  \/ Launch \/ EndCalibration \/ AfterCalibration \/ LaunchFails \/ StopServer
  \/ Load \/ AfterLoad \/ Window

\* The launcher goes on by itself: its waits are bounded and its kill is final.
Fairness == WF_vars(EndCalibration) /\ WF_vars(AfterCalibration)

Spec == Init /\ [][Next]_vars /\ Fairness

-----------------------------------------------------------------------------
\* The variables have their types; a chunk, and a hint, is a whole number of
\* thousands from 2048 to 32768.
TypeOK ==
  /\ LayoutTypeOK
  /\ doing \in {"nothing", "calibrating", "serving"}
  /\ chunk = NoChunk \/ chunk \in Lowest .. Highest
  /\ \A r \in Ranks : files[r] = None \/ files[r].chunk \in Lowest .. Highest
  /\ \A r \in Ranks : hintMin[r] = NoChunk \/ files[r].chunk <= hintMin[r]
  /\ side.cutAt = NoChunk \/ side.cutAt \in Lowest + 1 .. Highest

\* What h rows would have needed in window w of a server at chunk c: the window's
\* cost a row, the chunk-sized scratch grown or shrunk, the margin.
WouldFit(h, w, c) ==
  w.growth * h + ScratchPerRow * (h - c) * w.rows + Margin * w.rows <= w.free * w.rows

\* A rank's hint fits every window of this server that filled a chunk, not only
\* the last, and is at most twice what it ran at. (A chunk below 4096 rows is
\* filled by windows that say nothing of what fits.)
HintFits ==
  \A r \in Ranks : \A w \in full[r] :
    /\ w.rows >= FewRows => files[r].chunk = Lowest \/ WouldFit(files[r].chunk, w, chunk)
    /\ files[r].chunk <= 2 * chunk

\* A chunk that has once cut the KV pool is not picked again, nor a wider one
\* (unless a user gives chunks, over which the guard has no say; the lowest chunk
\* is what remains when every other cuts).
CutNotRepeated ==
  [][doing # "serving" /\ doing' = "serving" /\ ~given' =>
       chunk' = Lowest \/ \A c \in cuts : chunk' < c]_vars

\* A calibration ends, whatever its servers do.
CalibrationEnds == (doing = "calibrating") ~> (doing # "calibrating")
=============================================================================
