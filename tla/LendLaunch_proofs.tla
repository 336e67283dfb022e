-------------------------- MODULE LendLaunch_proofs --------------------------
(***************************************************************************)
(* Proofs of LendLaunch. First of the hints: every hint on record fits the *)
(* full windows it was drawn from (HintFits), and a chunk that cut the KV  *)
(* pool is not picked again (CutNotRepeated); of the layout only the phase *)
(* matters to them. Then of the layer (LendLayout): whatever the loading   *)
(* does to its parameters, it reads what was loaded (KeepsWeights).        *)
(***************************************************************************)
EXTENDS LendLaunch, WellFoundedInduction, TLAPS

Chunks == Lowest .. Highest
File == [chunk : Chunks, ran : Chunks, full : Nat]
Measured == [rows : Nat, growth : Nat, free : Int]

-----------------------------------------------------------------------------
(* The inductive invariant of the launches *)

\* The launcher's variables and the ranks' windows have their types.
LaunchTypes ==
  /\ phase \in {"off", "load", "decode", "prefill"}
  /\ doing \in {"nothing", "calibrating", "serving"}
  /\ chunk \in {NoChunk} \cup Chunks
  /\ files \in [Ranks -> {None} \cup File]
  /\ side \in [ref : Nat, cutAt : {NoChunk} \cup Lowest + 1 .. Highest]
  /\ hintMin \in [Ranks -> {NoChunk} \cup Chunks]
  /\ window \in [Ranks -> Measured]
  /\ full \in [Ranks -> SUBSET Measured]
  /\ cuts \subseteq Lowest + 1 .. Highest
  /\ given \in BOOLEAN

\* A server that runs has a chunk; without one nothing of a server is left.
Running ==
  /\ phase # "off" => chunk \in Chunks
  /\ phase = "off" => \A r \in Ranks : hintMin[r] = NoChunk /\ window[r] = Closed /\ full[r] = {}

\* A forward of an open window that has rows has cost something.
Grew == \A r \in Ranks : window[r].rows > 0 => window[r].growth > 0

\* A file's pool is that of the chunk it ran.
PoolOfRan == \A r \in Ranks : files[r] # None => files[r].full = Pool[files[r].ran]

\* The file holds no more than the smallest hint.
BelowMin == \A r \in Ranks :
  hintMin[r] # NoChunk => files[r] # None /\ files[r].chunk <= hintMin[r]

\* The smallest hint fits every full window that says anything.
MinFits == \A r \in Ranks : \A w \in full[r] :
  /\ files[r] # None /\ files[r].chunk <= 2 * chunk
  /\ w.rows >= FewRows =>
       hintMin[r] # NoChunk /\ (hintMin[r] = Lowest \/ WouldFit(hintMin[r], w, chunk))

\* A chunk that cut the pool is remembered, or about to be: every file says so.
Ran(c) ==
  /\ chunk = c /\ Pool[c] < side.ref
  /\ \A r \in Ranks : files[r] # None /\ files[r].ran = c
CutsKnown == given \/ \A c \in cuts : (side.cutAt # NoChunk /\ side.cutAt <= c) \/ Ran(c)

IInv ==
  /\ LaunchTypes /\ Running /\ Grew /\ PoolOfRan /\ BelowMin /\ MinFits /\ CutsKnown

-----------------------------------------------------------------------------
(* Least, most, least of a set *)

\* The smaller and the larger of two integers.
LEMMA LeastMost ==
  ASSUME NEW a \in Int, NEW b \in Int
  PROVE  /\ Least(a, b) \in {a, b} /\ Least(a, b) <= a /\ Least(a, b) <= b
         /\ Most(a, b) \in {a, b} /\ Most(a, b) >= a /\ Most(a, b) >= b
BY DEF Least, Most

\* A set of naturals that is not empty has a least element.
LEMMA HasLeast ==
  ASSUME NEW S, S \subseteq Nat, S # {}
  PROVE  \E x \in S : \A y \in S : x <= y
<1> DEFINE R == {ss \in Nat \X Nat : ss[1] < ss[2]}
<1>1. IsWellFoundedOn(R, Nat)
  BY NatLessThanWellFounded DEF OpToRel
<1>2. \A x, y \in Nat : <<y, x>> \in R <=> y < x
  OBVIOUS
<1> HIDE DEF R
<1>3. PICK x \in S : \A y \in S : ~ (<<y, x>> \in R)
  BY <1>1, WFMin
<1>4. ASSUME NEW y \in S PROVE x <= y
  <2>1. x \in Nat /\ y \in Nat /\ ~ (<<y, x>> \in R)
    BY <1>3
  <2>2. ~ (y < x)
    BY <1>2, <2>1
  <2> QED BY <2>1, <2>2
<1> QED BY <1>4

\* Min and Max of a set of chunks are among them.
LEMMA MinMaxOf ==
  ASSUME NEW S, S \subseteq Nat, S # {}
  PROVE  /\ Min(S) \in S
         /\ \A n \in Nat : S \subseteq 0 .. n => Max(S) \in S
<1>1. Min(S) \in S
  BY HasLeast DEF Min
<1>2. ASSUME NEW n \in Nat, S \subseteq 0 .. n PROVE Max(S) \in S
  <2> DEFINE T == {n - x : x \in S}
  <2>1. T \subseteq Nat /\ T # {}
    <3>1. \A x \in S : n - x \in Nat
      BY <1>2
    <3> QED BY <3>1
  <2>2. PICK t \in T : \A u \in T : t <= u
    BY <2>1, HasLeast
  <2>3. PICK x \in S : t = n - x
    BY <2>2
  <2>4. ASSUME NEW y \in S PROVE x >= y
    <3>1. n - y \in T
      OBVIOUS
    <3>2. t <= n - y
      BY <2>2, <3>1
    <3> QED BY <2>3, <3>2
  <2> QED BY <2>4 DEF Max
<1> QED BY <1>1, <1>2

-----------------------------------------------------------------------------
(* The hint *)

\* Division of an integer, floored.
LEMMA Floored ==
  ASSUME NEW a \in Int, NEW b \in Nat \ {0}
  PROVE  a \div b \in Int /\ (a \div b) * b <= a
OBVIOUS

\* What a full window says fits, does: its cost a row, the scratch, the margin.
LEMMA FittingFits ==
  ASSUME NEW c \in Chunks, NEW w \in Measured, w.rows = c, w.growth > 0
  PROVE  Fitting(c, w) \in Int /\ WouldFit(Fitting(c, w), w, c)
<1> DEFINE cost == w.growth + ScratchPerRow * c
           room == w.free - w.growth - Margin
           d == (room * c) \div cost
<1>1. c \in Nat /\ w.growth \in Nat /\ w.free \in Int /\ Margin \in Nat /\ ScratchPerRow \in Nat
  BY ChunkAssumption DEF Chunks, Lowest, Highest, Measured
<1>2. ScratchPerRow * c \in Nat
  BY <1>1
<1>3. cost \in Nat \ {0} /\ room * c \in Int
  BY <1>1, <1>2
<1>4. d \in Int /\ d * cost <= room * c
  BY <1>3, Floored
<1>5. Fitting(c, w) = Least(c + d, 2 * c)
  BY <1>3 DEF Fitting
<1>6. PICK h \in Int : h = Fitting(c, w) /\ h - c <= d
  BY <1>1, <1>4, <1>5, LeastMost
<1>7. (h - c) * cost <= d * cost
  <2> HIDE DEF cost, d
  <2> QED BY <1>1, <1>3, <1>4, <1>6
<1>8. (h - c) * cost = (h - c) * w.growth + (h - c) * (ScratchPerRow * c)
  BY <1>1, <1>2, <1>6
<1>9. room * c = w.free * c - w.growth * c - Margin * c
  BY <1>1
<1>10. (h - c) * w.growth = w.growth * h - w.growth * c
  BY <1>1, <1>6
<1>11. (h - c) * (ScratchPerRow * c) = ScratchPerRow * (h - c) * c
  BY <1>1, <1>6
<1>12. w.growth * h + ScratchPerRow * (h - c) * c + Margin * c <= w.free * c
  <2>1. (h - c) * cost <= room * c
    <3> HIDE DEF cost, d, room
    <3> QED BY <1>1, <1>3, <1>4, <1>6, <1>7
  <2> QED BY <1>1, <1>6, <1>8, <1>9, <1>10, <1>11, <2>1
<1> QED BY <1>6, <1>12 DEF WouldFit

\* What fits, fits with fewer rows.
LEMMA FewerFit ==
  ASSUME NEW c \in Chunks, NEW w \in Measured, NEW h \in Int, NEW g \in Int,
         h <= g, WouldFit(g, w, c)
  PROVE  WouldFit(h, w, c)
<1>1. c \in Nat /\ w.growth \in Nat /\ w.rows \in Nat /\ w.free \in Int
      /\ Margin \in Nat /\ ScratchPerRow \in Nat
  BY ChunkAssumption DEF Chunks, Lowest, Highest, Measured
<1>2. w.growth * h <= w.growth * g
  BY <1>1
<1>3. ScratchPerRow * (h - c) <= ScratchPerRow * (g - c)
  BY <1>1
<1>4. ScratchPerRow * (h - c) * w.rows <= ScratchPerRow * (g - c) * w.rows
  BY <1>1, <1>3
<1> QED BY <1>1, <1>2, <1>4 DEF WouldFit

\* At most twice the running chunk.
LEMMA FittingRange ==
  ASSUME NEW c \in Chunks, NEW w \in Measured
  PROVE  Fitting(c, w) \in Int /\ Fitting(c, w) <= 2 * c
<1> DEFINE cost == w.growth + ScratchPerRow * w.rows
           room == w.free - w.growth - Margin
           more == IF cost > 0 THEN c + (room * w.rows) \div cost ELSE c
<1>1. c \in Nat /\ w.growth \in Nat /\ w.rows \in Nat /\ w.free \in Int
      /\ Margin \in Nat /\ ScratchPerRow \in Nat
  BY ChunkAssumption DEF Chunks, Lowest, Highest, Measured
<1>2. cost \in Nat /\ room * w.rows \in Int
  <2>1. ScratchPerRow * w.rows \in Nat
    BY <1>1
  <2>2. \A a \in Int, b \in Nat : a * b \in Int
    OBVIOUS
  <2>3. room \in Int
    BY <1>1
  <2> QED BY <1>1, <2>1, <2>2, <2>3
<1>3. more \in Int
  <2>1. CASE cost > 0
    <3>1. (room * w.rows) \div cost \in Int
      BY <1>2, <2>1, Floored
    <3> QED BY <1>1, <2>1, <3>1
  <2> QED BY <1>1, <2>1
<1>4. Fitting(c, w) = Least(more, 2 * c)
  BY DEF Fitting
<1> HIDE DEF more
<1> QED BY <1>1, <1>3, <1>4, LeastMost

\* A hint is a chunk, at most twice the running one, no larger than the smallest
\* so far, and, when the window says something, no larger than what fits.
LEMMA HintRange ==
  ASSUME NEW c \in Chunks, NEW w \in Measured, NEW least \in {NoChunk} \cup Chunks
  PROVE  /\ Hint(c, w, least) \in Chunks
         /\ Hint(c, w, least) <= 2 * c
         /\ least # NoChunk => Hint(c, w, least) <= least
         /\ Learned(c, w) => Hint(c, w, least) = Lowest \/ Hint(c, w, least) <= Fitting(c, w)
<1> DEFINE h == IF Learned(c, w) THEN Fitting(c, w)
                ELSE IF least = NoChunk THEN c ELSE Least(c, least)
           rounded == Most(Lowest, Least(Highest, h))
<1>1. c \in 2 .. 32 /\ (least = 0 \/ least \in 2 .. 32)
  BY DEF Chunks, Lowest, Highest, NoChunk
<1>2. h \in Int /\ h <= 2 * c /\ (Learned(c, w) => h = Fitting(c, w))
  BY <1>1, FittingRange, LeastMost DEF NoChunk
<1>3. Hint(c, w, least) = IF least = NoChunk THEN rounded ELSE Least(rounded, least)
  BY DEF Hint
<1> HIDE DEF h
<1>4. rounded \in 2 .. 32 /\ rounded <= 2 * c /\ (rounded = 2 \/ rounded <= h)
  BY <1>1, <1>2 DEF Least, Most, Lowest, Highest
<1> HIDE DEF rounded
<1> QED BY <1>1, <1>2, <1>3, <1>4 DEF Least, Chunks, Lowest, Highest, NoChunk

\* The smallest hint after a window is the one before or the window's.
LEMMA HintMinIs ==
  ASSUME NEW c, NEW w, NEW least
  PROVE  HintMin(c, w, least) = IF Learned(c, w) THEN Hint(c, w, least) ELSE least
BY DEF HintMin

-----------------------------------------------------------------------------
(* The launcher's reading of the files *)

\* None is no file's record.
LEMMA NoneNoFile == \A f \in File : f # None /\ f.chunk \in Chunks /\ f.ran \in Chunks /\ f.full \in Nat
BY DEF File, None, NoChunk, Chunks, Lowest, Highest

\* The chunk read from the files is one of theirs.
LEMMA ReadHintRange ==
  ASSUME files \in [Ranks -> {None} \cup File]
  PROVE  /\ ReadHint(files) \in {NoChunk} \cup Chunks
         /\ (\E r \in Ranks : files[r] # None) => ReadHint(files) # NoChunk
<1> DEFINE S == {files[r].chunk : r \in Written(files)}
<1>1. \A r \in Written(files) : r \in Ranks /\ files[r] \in File
  BY DEF Written
<1>2. S \subseteq Chunks
  BY <1>1, NoneNoFile
<1>3. \A x \in Chunks : x \in Nat /\ x # NoChunk
  BY DEF Chunks, Lowest, Highest, NoChunk
<1>4. CASE Written(files) = {}
  BY <1>4 DEF ReadHint, Written
<1>5. CASE Written(files) # {}
  <2>1. S # {} /\ S \subseteq Nat
    BY <1>2, <1>3, <1>5
  <2>2. Min(S) \in S
    <3> HIDE DEF S
    <3> QED BY <2>1, MinMaxOf
  <2>3. ReadHint(files) = Min(S)
    BY <1>5 DEF ReadHint
  <2> QED BY <1>2, <1>3, <2>2, <2>3
<1> QED BY <1>4, <1>5

\* The widest chunk that ran is one of theirs, and the pool a number.
LEMMA RanRange ==
  ASSUME files \in [Ranks -> {None} \cup File]
  PROVE  LastRan(files) \in {0} \cup Chunks /\ FullPool(files) \in Nat
<1> DEFINE S == {files[r].ran : r \in Written(files)}
           F == {files[r].full : r \in Written(files)}
<1>1. \A r \in Written(files) : r \in Ranks /\ files[r] \in File
  BY DEF Written
<1>2. S \subseteq Chunks /\ F \subseteq Nat
  BY <1>1, NoneNoFile
<1>3. Chunks \subseteq 0 .. 32 /\ Chunks \subseteq Nat
  BY DEF Chunks, Lowest, Highest
<1>4. CASE Written(files) = {}
  BY <1>4 DEF LastRan, FullPool
<1>5. CASE Written(files) # {}
  <2>1. S # {} /\ S \subseteq Nat /\ S \subseteq 0 .. 32 /\ F # {}
    BY <1>2, <1>3, <1>5
  <2>2. Max(S) \in S /\ Min(F) \in F
    <3>1. F \subseteq Nat
      BY <1>2
    <3> HIDE DEF S, F
    <3> QED BY <2>1, <3>1, MinMaxOf
  <2>3. LastRan(files) = Max(S) /\ FullPool(files) = Min(F)
    BY <1>5 DEF LastRan, FullPool
  <2> HIDE DEF S, F
  <2> QED BY <1>2, <2>2, <2>3
<1> QED BY <1>4, <1>5

\* When every rank's file says one chunk, it and its pool are read.
LEMMA AllRan ==
  ASSUME files \in [Ranks -> {None} \cup File], PoolOfRan, NEW c \in Chunks,
         \A r \in Ranks : files[r] # None /\ files[r].ran = c
  PROVE  LastRan(files) = c /\ FullPool(files) = Pool[c]
<1> DEFINE S == {files[r].ran : r \in Written(files)}
           F == {files[r].full : r \in Written(files)}
<1>1. Written(files) = Ranks /\ Ranks # {}
  BY LaunchAssumption DEF Written
<1>2. S = {c} /\ F = {Pool[c]}
  BY <1>1 DEF PoolOfRan
<1>3. c \in Nat /\ Pool[c] \in Nat
  BY LaunchAssumption DEF Chunks, Lowest, Highest
<1>4. \A x \in Int : Max({x}) = x /\ Min({x}) = x
  BY DEF Max, Min
<1>5. LastRan(files) = Max(S) /\ FullPool(files) = Min(F)
  BY <1>1 DEF LastRan, FullPool
<1>6. LastRan(files) = Max({c}) /\ FullPool(files) = Min({Pool[c]})
  BY <1>2, <1>5
<1>7. c \in Int /\ Pool[c] \in Int
  BY <1>3
<1> QED BY <1>4, <1>6, <1>7

\* What the guard remembers: the reference is a pool, the chunk that cut only
\* becomes smaller; a cut by one chunk on every rank is remembered.
LEMMA RememberedFacts ==
  ASSUME LaunchTypes, PoolOfRan
  PROVE  /\ Remembered(files, side) \in [ref : Nat, cutAt : {NoChunk} \cup Lowest + 1 .. Highest]
         /\ side.cutAt # NoChunk =>
              /\ Remembered(files, side).cutAt # NoChunk
              /\ Remembered(files, side).cutAt <= side.cutAt
         /\ \A c \in Lowest + 1 .. Highest : Ran(c) =>
              /\ Remembered(files, side).cutAt # NoChunk
              /\ Remembered(files, side).cutAt <= c
<1> DEFINE m == Remembered(files, side)
           pool == FullPool(files)
           ran == LastRan(files)
<1>1. files \in [Ranks -> {None} \cup File] /\ side \in [ref : Nat, cutAt : {NoChunk} \cup Lowest + 1 .. Highest]
  BY DEF LaunchTypes
<1>2. ran \in {0} \cup Chunks /\ pool \in Nat
  BY <1>1, RanRange
<1>3. side.ref \in Nat /\ (side.cutAt = 0 \/ side.cutAt \in 3 .. 32)
  BY <1>1 DEF NoChunk, Lowest, Highest
<1>4. ran = 0 \/ ran \in 2 .. 32
  BY <1>2 DEF Chunks, Lowest, Highest
<1>5. CASE ~ Cut(files, side)
  <2>1. m = side
    BY <1>5 DEF Remembered
  <2>2. ASSUME NEW c \in Lowest + 1 .. Highest, Ran(c) PROVE FALSE
    <3>1. c \in Chunks
      BY DEF Chunks, Lowest, Highest
    <3>2. ran = c /\ pool = Pool[c]
      BY <1>1, <2>2, <3>1, AllRan DEF Ran
    <3>3. Pool[c] \in Nat \ {0} /\ c > 0
      BY <3>1, LaunchAssumption DEF Chunks, Lowest, Highest
    <3> QED BY <1>5, <2>2, <3>2, <3>3 DEF Cut, Ran
  <2> QED BY <1>1, <1>3, <2>1, <2>2
<1>6. CASE Cut(files, side) /\ ran <= Lowest
  <2>1. m = [side EXCEPT !.ref = pool]
    BY <1>6 DEF Remembered
  <2>2. m.ref = pool /\ m.cutAt = side.cutAt /\ m \in [ref : Nat, cutAt : {NoChunk} \cup Lowest + 1 .. Highest]
    BY <1>1, <1>2, <2>1
  <2>3. ASSUME NEW c \in Lowest + 1 .. Highest, Ran(c) PROVE FALSE
    <3>1. c \in Chunks /\ c > Lowest
      BY DEF Chunks, Lowest, Highest
    <3>2. ran = c
      BY <1>1, <2>3, <3>1, AllRan DEF Ran
    <3> QED BY <1>6, <3>1, <3>2 DEF Lowest
  <2> QED BY <1>3, <2>2, <2>3
<1>7. CASE Cut(files, side) /\ ~ (ran <= Lowest)
  <2> DEFINE at == IF side.cutAt = NoChunk THEN ran ELSE Least(side.cutAt, ran)
  <2>1. m = [side EXCEPT !.cutAt = at]
    BY <1>7 DEF Remembered
  <2>2. ran \in 3 .. 32
    BY <1>4, <1>7 DEF Lowest
  <2>3. at \in 3 .. 32 /\ at <= ran /\ (side.cutAt # 0 => at <= side.cutAt)
    BY <1>3, <2>2 DEF Least, NoChunk
  <2> HIDE DEF at
  <2>4. at \in {NoChunk} \cup Lowest + 1 .. Highest
    BY <2>3 DEF Lowest, Highest
  <2>5. m.cutAt = at /\ m \in [ref : Nat, cutAt : {NoChunk} \cup Lowest + 1 .. Highest]
    BY <1>1, <2>1, <2>4
  <2>6. ASSUME NEW c \in Lowest + 1 .. Highest, Ran(c) PROVE ran = c
    <3>1. c \in Chunks
      BY DEF Chunks, Lowest, Highest
    <3> QED BY <1>1, <2>6, <3>1, AllRan DEF Ran
  <2> QED BY <2>3, <2>5, <2>6 DEF NoChunk
<1> QED BY <1>5, <1>6, <1>7

\* The guarded chunk is a chunk, and below every one that cut, or the lowest.
LEMMA GuardedFacts ==
  ASSUME NEW c \in Chunks, NEW m \in [ref : Nat, cutAt : {NoChunk} \cup Lowest + 1 .. Highest]
  PROVE  /\ Guarded(c, m) \in Chunks
         /\ m.cutAt # NoChunk => Guarded(c, m) = Lowest \/ Guarded(c, m) < m.cutAt
<1>1. c \in 2 .. 32 /\ (m.cutAt = 0 \/ m.cutAt \in 3 .. 32)
  BY DEF Chunks, Lowest, Highest, NoChunk
<1> QED BY <1>1 DEF Guarded, Least, Most, Chunks, Lowest, Highest, NoChunk

-----------------------------------------------------------------------------
(* The invariant of the launches is kept *)

Doing == {"nothing", "calibrating", "serving"}
Side == [ref : Nat, cutAt : {NoChunk} \cup Lowest + 1 .. Highest]

\* No server runs at first, and nothing is on record.
LEMMA InitInv == Init => IInv
<1> SUFFICES ASSUME Init PROVE IInv
  OBVIOUS
<1>1. /\ phase = "off" /\ doing = "nothing" /\ chunk = NoChunk
      /\ files = [r \in Ranks |-> None] /\ side = [ref |-> Cap, cutAt |-> NoChunk]
      /\ hintMin = [r \in Ranks |-> NoChunk] /\ window = [r \in Ranks |-> Closed]
      /\ given = FALSE /\ full = [r \in Ranks |-> {}] /\ cuts = {}
  BY DEF Init, LayoutInit
<1>2. side \in Side
  BY <1>1, LaunchAssumption DEF Side
<1>3. Closed \in Measured /\ Closed.rows = 0
  BY DEF Closed, Measured
<1>4. LaunchTypes
  BY <1>1, <1>2, <1>3 DEF LaunchTypes, Side
<1>5. Running /\ Grew /\ PoolOfRan /\ BelowMin /\ MinFits /\ CutsKnown
  BY <1>1, <1>3 DEF Running, Grew, PoolOfRan, BelowMin, MinFits, CutsKnown
<1> QED BY <1>4, <1>5 DEF IInv

\* A server that starts has nothing in memory.
LEMMA StartKeeps ==
  ASSUME IInv, NEW c \in Chunks, Starts(c), doing' \in Doing, side' \in Side, given' \in BOOLEAN,
         UNCHANGED <<files, cuts>>, CutsKnown'
  PROVE  IInv'
<1>1. /\ chunk' = c /\ phase = "off" /\ phase' = "load"
      /\ hintMin' = hintMin /\ window' = window /\ full' = full /\ files' = files /\ cuts' = cuts
  BY DEF Starts, BindModel
<1>2. \A r \in Ranks : hintMin[r] = NoChunk /\ window[r] = Closed /\ full[r] = {}
  BY <1>1 DEF IInv, Running
<1>3. LaunchTypes'
  BY <1>1 DEF IInv, LaunchTypes, Doing, Side
<1>4. Running' /\ Grew' /\ PoolOfRan' /\ BelowMin'
  BY <1>1 DEF IInv, Running, Grew, PoolOfRan, BelowMin
<1>5. MinFits'
  BY <1>1, <1>2 DEF MinFits
<1> QED BY <1>3, <1>4, <1>5 DEF IInv

\* Once the guard has read the files, it knows every chunk that cut the pool.
LEMMA ServeRemembers ==
  ASSUME IInv, NEW c \in Chunks, Serve(c)
  PROVE  /\ side' \in Side /\ Guarded(c, side') \in Chunks
         /\ given \/ \A d \in cuts : side'.cutAt # NoChunk /\ side'.cutAt <= d
<1>1. side' = Remembered(files, side) /\ LaunchTypes /\ PoolOfRan /\ CutsKnown
  BY DEF Serve, IInv
<1>2. side' \in Side
  BY <1>1, RememberedFacts DEF Side
<1>3. Guarded(c, side') \in Chunks
  BY <1>2, GuardedFacts DEF Side
<1>4. ASSUME NEW d \in cuts, ~ given PROVE side'.cutAt # NoChunk /\ side'.cutAt <= d
  <2>1. d \in Lowest + 1 .. Highest /\ side.cutAt \in {NoChunk} \cup Lowest + 1 .. Highest
    BY <1>1 DEF LaunchTypes
  <2>2. CASE Ran(d)
    BY <1>1, <2>1, <2>2, RememberedFacts
  <2>3. CASE side.cutAt # NoChunk /\ side.cutAt <= d
    <3>1. side'.cutAt # NoChunk /\ side'.cutAt <= side.cutAt
      BY <1>1, <2>3, RememberedFacts
    <3>2. side'.cutAt \in Int /\ side.cutAt \in Int /\ d \in Int
      BY <1>2, <2>1 DEF Side, NoChunk, Lowest, Highest
    <3> QED BY <2>3, <3>1, <3>2
  <2> QED BY <1>1, <1>4, <2>2, <2>3 DEF CutsKnown
<1> QED BY <1>2, <1>3, <1>4

\* The guard and the server.
LEMMA ServeKeeps ==
  ASSUME IInv, NEW c \in Chunks, Serve(c)
  PROVE  IInv'
<1>1. /\ doing' = "serving" /\ Starts(Guarded(c, side')) /\ UNCHANGED <<files, given, cuts>>
  BY DEF Serve
<1>2. CutsKnown'
  BY <1>1, ServeRemembers DEF CutsKnown
<1>3. given' \in BOOLEAN
  BY <1>1 DEF IInv, LaunchTypes
<1> QED BY <1>1, <1>2, <1>3, ServeRemembers, StartKeeps DEF Doing

\* The guarded chunk is the lowest, or below every chunk that cut the pool.
LEMMA ServeBelow ==
  ASSUME IInv, NEW c \in Chunks, Serve(c), ~ given
  PROVE  chunk' = Lowest \/ \A d \in cuts : chunk' < d
<1>1. PICK m \in Side : m = side'
  BY ServeRemembers
<1>2. chunk' = Guarded(c, m) /\ Guarded(c, m) \in Chunks
  BY <1>1, ServeRemembers DEF Serve, Starts
<1>3. ASSUME NEW d \in cuts PROVE Guarded(c, m) = Lowest \/ Guarded(c, m) < d
  <2>1. m.cutAt # NoChunk /\ m.cutAt <= d
    BY <1>1, ServeRemembers
  <2>2. Guarded(c, m) = Lowest \/ Guarded(c, m) < m.cutAt
    BY <2>1, GuardedFacts DEF Side
  <2>3. m.cutAt \in Int /\ d \in Int /\ Guarded(c, m) \in Int
    BY <1>2 DEF IInv, LaunchTypes, Side, Chunks, NoChunk, Lowest, Highest
  <2> QED BY <2>1, <2>2, <2>3
<1> QED BY <1>2, <1>3

\* A calibration, when no rank has left a file.
LEMMA CalibrationKeeps ==
  ASSUME IInv, NEW c \in Chunks, Calibration(c), ReadHint(files) = NoChunk
  PROVE  IInv'
<1>1. /\ doing' = "calibrating" /\ Starts(c) /\ UNCHANGED <<files, side, given, cuts>>
  BY DEF Calibration
<1>2. LaunchTypes /\ CutsKnown
  BY DEF IInv
<1>3. \A r \in Ranks : files[r] = None
  BY <1>2, ReadHintRange DEF LaunchTypes
<1>4. \A d : ~ Ran(d)
  BY <1>3, LaunchAssumption DEF Ran
<1>5. CutsKnown'
  BY <1>1, <1>2, <1>4 DEF CutsKnown
<1>6. given' \in BOOLEAN /\ side' \in Side
  BY <1>1, <1>2 DEF LaunchTypes, Side
<1> QED BY <1>1, <1>5, <1>6, StartKeeps DEF Doing

\* What ends a server, ends its memory.
LEMMA StoppedKeeps ==
  ASSUME IInv, ServerGone, Stopped, doing' \in Doing,
         UNCHANGED <<chunk, files, side, given, cuts>>
  PROVE  IInv'
<1>1. /\ phase' = "off"
      /\ window' = [r \in Ranks |-> Closed] /\ hintMin' = [r \in Ranks |-> NoChunk]
      /\ full' = [r \in Ranks |-> {}]
  BY DEF ServerGone, Stopped
<1>2. Closed \in Measured /\ Closed.rows = 0
  BY DEF Closed, Measured
<1>3. LaunchTypes'
  BY <1>1, <1>2 DEF IInv, LaunchTypes, Doing
<1>4. Running' /\ Grew' /\ PoolOfRan' /\ BelowMin' /\ MinFits'
  BY <1>1, <1>2 DEF IInv, Running, Grew, PoolOfRan, BelowMin, MinFits
<1>5. CutsKnown'
  BY DEF IInv, CutsKnown, Ran
<1> QED BY <1>3, <1>4, <1>5 DEF IInv

\* The layout moves on; the launcher and the windows stay.
LEMMA LayoutKeeps ==
  ASSUME IInv, UNCHANGED launchVars,
         phase' \in {"off", "load", "decode", "prefill"}, phase' = "off" <=> phase = "off"
  PROVE  IInv'
<1>1. /\ doing' = doing /\ chunk' = chunk /\ files' = files /\ side' = side
      /\ hintMin' = hintMin /\ window' = window /\ given' = given /\ full' = full /\ cuts' = cuts
  BY DEF launchVars
<1>2. LaunchTypes' /\ Running'
  BY <1>1 DEF IInv, LaunchTypes, Running
<1>3. Grew' /\ PoolOfRan' /\ BelowMin' /\ MinFits' /\ CutsKnown'
  BY <1>1 DEF IInv, Grew, PoolOfRan, BelowMin, MinFits, CutsKnown, Ran
<1> QED BY <1>2, <1>3 DEF IInv

\* A window opens, with what a forward cost.
LEMMA OpenKeeps ==
  ASSUME IInv, NEW rows \in Nat, NEW growth \in Nat \ {0}, NEW total \in [Ranks -> Nat],
         OpenWindow(rows, growth, total)
  PROVE  IInv'
<1>1. /\ phase = "decode" /\ phase' = "prefill"
      /\ window' = [r \in Ranks |-> [rows |-> rows, growth |-> growth,
                                     free |-> total[r] - ScratchPerRow * chunk]]
      /\ UNCHANGED <<doing, chunk, files, side, hintMin, given, full, cuts>>
  BY DEF OpenWindow, OpenLayout
<1>2. chunk \in Nat /\ ScratchPerRow \in Nat
  BY <1>1, ChunkAssumption DEF IInv, Running, Chunks, Lowest, Highest
<1>3. ScratchPerRow * chunk \in Int
  BY <1>2
<1>4. \A r \in Ranks : window'[r] \in Measured /\ window'[r].growth > 0
  <2> TAKE r \in Ranks
  <2>1. total[r] - ScratchPerRow * chunk \in Int
    BY <1>3
  <2> QED BY <1>1, <2>1 DEF Measured
<1>5. window' \in [Ranks -> Measured]
  BY <1>1, <1>4
<1>6. LaunchTypes' /\ Running'
  BY <1>1, <1>5 DEF IInv, LaunchTypes, Running
<1>7. Grew'
  BY <1>4 DEF Grew
<1>8. PoolOfRan' /\ BelowMin' /\ MinFits' /\ CutsKnown'
  BY <1>1 DEF IInv, PoolOfRan, BelowMin, MinFits, CutsKnown, Ran
<1> QED BY <1>6, <1>7, <1>8 DEF IInv

\* A further forward widens the window.
LEMMA ExtendKeeps ==
  ASSUME IInv, NEW rows \in Nat, NEW growth \in Nat \ {0}, ExtendWindow(rows, growth)
  PROVE  IInv'
<1>1. /\ window' = [r \in Ranks |-> Grown(window[r], rows, growth)]
      /\ phase' = phase /\ phase = "prefill"
      /\ UNCHANGED <<doing, chunk, files, side, hintMin, given, full, cuts>>
  BY DEF ExtendWindow, layoutVars
<1>2. \A r \in Ranks : window'[r] \in Measured /\ window'[r].growth > 0
  <2> TAKE r \in Ranks
  <2> DEFINE w == window[r]
  <2>1. w \in Measured
    BY DEF IInv, LaunchTypes
  <2>2. w.rows \in Nat /\ w.growth \in Nat
    BY <2>1 DEF Measured
  <2>3. Most(w.rows, rows) \in Nat /\ Most(w.growth, growth) \in Nat /\ Most(w.growth, growth) > 0
    BY <2>2 DEF Most
  <2>4. window'[r] = [w EXCEPT !.rows = Most(@, rows), !.growth = Most(@, growth)]
    BY <1>1 DEF Grown
  <2> QED BY <2>1, <2>3, <2>4 DEF Measured
<1>3. window' \in [Ranks -> Measured]
  BY <1>1, <1>2
<1>4. LaunchTypes' /\ Running'
  BY <1>1, <1>3 DEF IInv, LaunchTypes, Running
<1>5. Grew'
  BY <1>2 DEF Grew
<1>6. PoolOfRan' /\ BelowMin' /\ MinFits' /\ CutsKnown'
  BY <1>1 DEF IInv, PoolOfRan, BelowMin, MinFits, CutsKnown, Ran
<1> QED BY <1>4, <1>5, <1>6 DEF IInv

\* What rank r has on record after the window it wrote a hint of.
LEMMA HintWritten ==
  ASSUME IInv, NEW r \in Ranks, phase # "off", window[r].rows >= Lowest, WriteHint(r)
  PROVE  /\ files'[r] \in File /\ files'[r] # None
         /\ files'[r].ran = chunk /\ files'[r].full = Pool[chunk]
         /\ files'[r].chunk <= 2 * chunk
         /\ hintMin'[r] \in {NoChunk} \cup Chunks
         /\ hintMin[r] # NoChunk => hintMin'[r] # NoChunk /\ hintMin'[r] <= hintMin[r]
         /\ hintMin'[r] # NoChunk => files'[r].chunk <= hintMin'[r]
         /\ Learned(chunk, window[r]) =>
              /\ hintMin'[r] # NoChunk
              /\ hintMin'[r] = Lowest \/ hintMin'[r] <= Fitting(chunk, window[r])
         /\ \A q \in Ranks : q # r => files'[q] = files[q] /\ hintMin'[q] = hintMin[q]
         /\ files' \in [Ranks -> {None} \cup File] /\ hintMin' \in [Ranks -> {NoChunk} \cup Chunks]
<1>1. /\ files \in [Ranks -> {None} \cup File] /\ hintMin \in [Ranks -> {NoChunk} \cup Chunks]
      /\ window[r] \in Measured /\ chunk \in Chunks
  BY DEF IInv, LaunchTypes, Running
<1>2. PICK h : h = Hint(chunk, window[r], hintMin[r])
  OBVIOUS
<1>3. PICK least \in {NoChunk} \cup Chunks : least = hintMin[r]
  BY <1>1
<1>4. /\ h \in Chunks /\ h <= 2 * chunk /\ (least # NoChunk => h <= least)
      /\ Learned(chunk, window[r]) => h = Lowest \/ h <= Fitting(chunk, window[r])
  BY <1>1, <1>2, <1>3, HintRange
<1>5. PICK f \in File : f = [chunk |-> h, ran |-> chunk, full |-> Pool[chunk]]
  <2>1. Pool[chunk] \in Nat
    BY <1>1, LaunchAssumption DEF Chunks
  <2> QED BY <1>1, <1>4, <2>1 DEF File
<1>6. files' = [files EXCEPT ![r] = f] /\ hintMin' = [hintMin EXCEPT ![r] = HintMin(chunk, window[r], @)]
  <2>1. ~ (window[r].rows < Lowest)
    BY <1>1 DEF Measured, Lowest
  <2> QED BY <2>1, <1>2, <1>5 DEF WriteHint
<1>7. PICK m : m = HintMin(chunk, window[r], least)
  OBVIOUS
<1>8. m = IF Learned(chunk, window[r]) THEN h ELSE least
  BY <1>2, <1>3, <1>7 DEF HintMin
<1>9. files'[r] = f /\ hintMin'[r] = m /\ \A q \in Ranks : q # r => files'[q] = files[q] /\ hintMin'[q] = hintMin[q]
  BY <1>1, <1>3, <1>6, <1>7
<1>10. m \in {NoChunk} \cup Chunks
  BY <1>4, <1>8
<1>11. files' \in [Ranks -> {None} \cup File] /\ hintMin' \in [Ranks -> {NoChunk} \cup Chunks]
  <2>1. \A S, T, g, x, v : g \in [S -> T] /\ x \in S /\ v \in T => [g EXCEPT ![x] = v] \in [S -> T]
    OBVIOUS
  <2>2. hintMin' = [hintMin EXCEPT ![r] = m]
    BY <1>3, <1>6, <1>7
  <2> QED BY <1>1, <1>6, <1>10, <2>1, <2>2
<1>12. f # None /\ f.chunk = h /\ f.ran = chunk /\ f.full = Pool[chunk]
  BY <1>5, NoneNoFile
<1>13. \A x \in Chunks : x \in Int /\ x # NoChunk
  BY DEF Chunks, Lowest, Highest, NoChunk
<1>14. (least # NoChunk => m # NoChunk /\ m <= least) /\ (m # NoChunk => h <= m)
  BY <1>3, <1>4, <1>8, <1>13
<1>15. Learned(chunk, window[r]) => m # NoChunk /\ (m = Lowest \/ m <= Fitting(chunk, window[r]))
  BY <1>4, <1>8, <1>13
<1> QED BY <1>3, <1>4, <1>9, <1>10, <1>11, <1>12, <1>14, <1>15

\* A window ends on a rank: its hint fits what it and the others before it were.
LEMMA EndKeeps ==
  ASSUME IInv, NEW r \in Ranks, EndWindow(r)
  PROVE  IInv'
<1>1. /\ phase \in {"prefill", "decode"} /\ WriteHint(r)
      /\ window' = [window EXCEPT ![r] = Closed]
      /\ UNCHANGED <<doing, chunk, side, given>>
  BY DEF EndWindow
<1>2. phase' \in {"prefill", "decode"}
  BY <1>1 DEF EndWindow, CloseLayout, layoutVars
<1>3. /\ LaunchTypes /\ Grew /\ PoolOfRan /\ BelowMin /\ MinFits /\ CutsKnown /\ chunk \in Chunks
      /\ window[r] \in Measured
  BY <1>1 DEF IInv, LaunchTypes, Running
<1>4. Closed \in Measured /\ Closed.rows = 0
  BY DEF Closed, Measured
<1>5. window' \in [Ranks -> Measured] /\ \A q \in Ranks : window'[q] = window[q] \/ window'[q].rows = 0
  <2>1. window \in [Ranks -> Measured]
    BY <1>3 DEF LaunchTypes
  <2> QED BY <1>1, <1>4, <2>1
<1>6. Grew'
  BY <1>3, <1>5 DEF Grew
<1>7. Running'
  BY <1>1, <1>2, <1>3 DEF Running
<1>8. CASE window[r].rows < Lowest
  <2>1. files' = files /\ hintMin' = hintMin /\ full' = full /\ cuts' = cuts
    BY <1>1, <1>8 DEF WriteHint
  <2>2. LaunchTypes'
    BY <1>1, <1>2, <1>3, <1>5, <2>1 DEF LaunchTypes
  <2>3. PoolOfRan' /\ BelowMin' /\ MinFits' /\ CutsKnown'
    BY <1>1, <1>3, <2>1 DEF PoolOfRan, BelowMin, MinFits, CutsKnown, Ran
  <2> QED BY <1>6, <1>7, <2>2, <2>3 DEF IInv
<1>9. CASE ~ (window[r].rows < Lowest)
  <2> DEFINE w == window[r]
  <2>1. w \in Measured /\ w.rows \in Nat /\ w.rows >= Lowest /\ w.growth > 0
    <3>1. w.rows \in Nat /\ w.rows >= Lowest /\ w.rows > 0
      BY <1>3, <1>9 DEF Measured, Lowest
    <3> QED BY <1>3, <3>1 DEF Grew
  <2>2. /\ full' = IF w.rows = chunk THEN [full EXCEPT ![r] = @ \cup {w}] ELSE full
        /\ cuts' = IF chunk > Lowest /\ Pool[chunk] < side.ref /\ \A q \in Ranks : files'[q].ran = chunk
                   THEN cuts \cup {chunk} ELSE cuts
    BY <1>1, <1>9 DEF WriteHint
  <2>3. /\ files'[r] \in File /\ files'[r] # None
        /\ files'[r].ran = chunk /\ files'[r].full = Pool[chunk]
        /\ files'[r].chunk <= 2 * chunk
        /\ hintMin'[r] \in {NoChunk} \cup Chunks
        /\ hintMin[r] # NoChunk => hintMin'[r] # NoChunk /\ hintMin'[r] <= hintMin[r]
        /\ hintMin'[r] # NoChunk => files'[r].chunk <= hintMin'[r]
        /\ Learned(chunk, w) =>
             /\ hintMin'[r] # NoChunk
             /\ hintMin'[r] = Lowest \/ hintMin'[r] <= Fitting(chunk, w)
        /\ \A q \in Ranks : q # r => files'[q] = files[q] /\ hintMin'[q] = hintMin[q]
        /\ files' \in [Ranks -> {None} \cup File] /\ hintMin' \in [Ranks -> {NoChunk} \cup Chunks]
    BY <1>1, <2>1, HintWritten
  <2>4. full' \in [Ranks -> SUBSET Measured]
        /\ \A q \in Ranks : \A v \in full'[q] :
             v \in full[q] \/ (q = r /\ v = w /\ w.rows = chunk)
    <3>1. full \in [Ranks -> SUBSET Measured]
      BY <1>3 DEF LaunchTypes
    <3> QED BY <2>1, <2>2, <3>1
  <2>5. cuts' \subseteq Lowest + 1 .. Highest
    BY <1>3, <2>2 DEF LaunchTypes, Chunks, Lowest, Highest
  <2>6. LaunchTypes'
    BY <1>1, <1>2, <1>3, <1>5, <2>3, <2>4, <2>5 DEF LaunchTypes
  <2>7. PoolOfRan'
    <3> SUFFICES ASSUME NEW q \in Ranks, files'[q] # None PROVE files'[q].full = Pool[files'[q].ran]
      BY DEF PoolOfRan
    <3> QED BY <1>3, <2>3 DEF PoolOfRan
  <2>8. BelowMin'
    <3> SUFFICES ASSUME NEW q \in Ranks, hintMin'[q] # NoChunk
                 PROVE  files'[q] # None /\ files'[q].chunk <= hintMin'[q]
      BY DEF BelowMin
    <3> QED BY <1>3, <2>3 DEF BelowMin
  <2>9. MinFits'
    <3> SUFFICES ASSUME NEW q \in Ranks, NEW v \in full'[q]
                 PROVE  /\ files'[q] # None /\ files'[q].chunk <= 2 * chunk'
                        /\ v.rows >= FewRows =>
                             hintMin'[q] # NoChunk /\ (hintMin'[q] = Lowest \/ WouldFit(hintMin'[q], v, chunk'))
      BY DEF MinFits, WouldFit
    <3>1. chunk' = chunk
      BY <1>1
    <3>2. CASE q # r
      BY <1>3, <2>3, <2>4, <3>1, <3>2 DEF MinFits
    <3>3. CASE q = r /\ v \in full[q]
      <4>1. files'[q] # None /\ files'[q].chunk <= 2 * chunk'
        BY <2>3, <3>1, <3>3
      <4>2. ASSUME v.rows >= FewRows
            PROVE  hintMin'[q] # NoChunk /\ (hintMin'[q] = Lowest \/ WouldFit(hintMin'[q], v, chunk))
        <5>1. hintMin[r] # NoChunk /\ (hintMin[r] = Lowest \/ WouldFit(hintMin[r], v, chunk))
          BY <1>3, <3>3, <4>2 DEF MinFits
        <5>2. PICK a \in Chunks, b \in Chunks : a = hintMin'[r] /\ b = hintMin[r] /\ a <= b
          BY <1>3, <2>3, <5>1 DEF LaunchTypes
        <5>3. a \in Int /\ b \in Int /\ a >= Lowest /\ a # NoChunk
          BY DEF Chunks, Lowest, Highest, NoChunk
        <5>4. CASE b = Lowest
          <6>1. a = Lowest
            BY <5>2, <5>3, <5>4 DEF Lowest
          <6> QED BY <3>3, <5>2, <5>3, <6>1
        <5>5. CASE WouldFit(b, v, chunk)
          <6>1. v \in Measured
            BY <1>3, <3>3 DEF LaunchTypes
          <6>2. WouldFit(a, v, chunk)
            BY <1>3, <5>2, <5>3, <5>5, <6>1, FewerFit
          <6> QED BY <3>3, <5>2, <5>3, <6>2
        <5> QED BY <5>1, <5>2, <5>4, <5>5
      <4> QED BY <3>1, <4>1, <4>2
    <3>4. CASE q = r /\ v = w /\ w.rows = chunk
      <4>1. files'[q] # None /\ files'[q].chunk <= 2 * chunk'
        BY <2>3, <3>1, <3>4
      <4>2. ASSUME w.rows >= FewRows
            PROVE  hintMin'[r] # NoChunk /\ (hintMin'[r] = Lowest \/ WouldFit(hintMin'[r], w, chunk))
        <5>1. Learned(chunk, w)
          <6>1. ~ (w.rows < chunk)
            BY <2>1, <3>4
          <6> QED BY <4>2, <6>1 DEF Learned
        <5>2. PICK a \in Chunks : a = hintMin'[r] /\ (a = Lowest \/ a <= Fitting(chunk, w))
          BY <2>3, <5>1
        <5>3. a \in Int /\ a # NoChunk
          BY DEF Chunks, Lowest, Highest, NoChunk
        <5>4. Fitting(chunk, w) \in Int /\ WouldFit(Fitting(chunk, w), w, chunk)
          BY <1>3, <2>1, <3>4, FittingFits
        <5>5. ASSUME a <= Fitting(chunk, w) PROVE WouldFit(a, w, chunk)
          BY <1>3, <2>1, <5>3, <5>4, <5>5, FewerFit
        <5> QED BY <5>2, <5>3, <5>5
      <4> QED BY <3>1, <3>4, <4>1, <4>2
    <3> QED BY <2>4, <3>2, <3>3, <3>4
  <2>10. CutsKnown'
    <3> SUFFICES ASSUME ~ given, NEW c \in cuts'
                 PROVE  (side.cutAt # NoChunk /\ side.cutAt <= c) \/ Ran(c)'
      BY <1>1 DEF CutsKnown
    <3>1. CASE c \in cuts
      <4>1. (side.cutAt # NoChunk /\ side.cutAt <= c) \/ Ran(c)
        BY <1>3, <3>1 DEF CutsKnown
      <4>2. ASSUME Ran(c) PROVE Ran(c)'
        <5>1. chunk = c /\ Pool[c] < side.ref /\ \A q \in Ranks : files[q] # None /\ files[q].ran = c
          BY <4>2 DEF Ran
        <5>2. \A q \in Ranks : files'[q] # None /\ files'[q].ran = c
          BY <2>3, <5>1
        <5> QED BY <1>1, <5>1, <5>2 DEF Ran
      <4> QED BY <4>1, <4>2
    <3>2. CASE c \notin cuts
      <4>1. c = chunk /\ Pool[chunk] < side.ref /\ \A q \in Ranks : files'[q].ran = chunk
        BY <2>2, <3>2
      <4>2. \A q \in Ranks : files'[q] # None
        <5>1. None.ran = 0 /\ chunk # 0
          BY <1>3 DEF None, Chunks, Lowest, Highest
        <5> QED BY <4>1, <5>1
      <4> QED BY <1>1, <4>1, <4>2 DEF Ran
    <3> QED BY <3>1, <3>2
  <2> QED BY <1>6, <1>7, <2>6, <2>7, <2>8, <2>9, <2>10 DEF IInv
<1> QED BY <1>8, <1>9

\* Every step keeps the invariant.
LEMMA StepInv == IInv /\ [Next]_vars => IInv'
<1> SUFFICES ASSUME IInv, [Next]_vars PROVE IInv'
  OBVIOUS
<1>1. LaunchTypes /\ chunk \in {NoChunk} \cup Chunks /\ ReadHint(files) \in {NoChunk} \cup Chunks
  BY ReadHintRange DEF IInv, LaunchTypes
<1>2. ASSUME NEW c \in UserChunks, LaunchGiven(c) PROVE IInv'
  <2>1. /\ c \in Chunks /\ doing' = "serving" /\ given' = TRUE /\ Starts(c)
        /\ UNCHANGED <<files, side, cuts>>
    BY <1>2, LaunchAssumption DEF LaunchGiven, Chunks
  <2>2. CutsKnown' /\ side' \in Side /\ given' \in BOOLEAN
    BY <1>1, <2>1 DEF CutsKnown, LaunchTypes, Side
  <2> QED BY <2>1, <2>2, StartKeeps DEF Doing
<1>3. ASSUME Launch PROVE IInv'
  <2>1. Unmeasured \in Chunks /\ FirstGuess \in Chunks
    BY LaunchAssumption DEF Chunks
  <2> QED BY <1>1, <1>3, <2>1, ServeKeeps, CalibrationKeeps DEF Launch
<1>4. ASSUME AfterCalibration PROVE IInv'
  <2>1. Lowest \in Chunks
    BY DEF Chunks, Lowest, Highest
  <2>2. ASSUME chunk \div 2 >= Lowest PROVE chunk \div 2 \in Chunks
    BY <1>1, <2>2 DEF Chunks, Lowest, Highest, NoChunk
  <2> QED BY <1>1, <1>4, <2>1, <2>2, ServeKeeps, CalibrationKeeps DEF AfterCalibration
<1>5. ASSUME EndCalibration \/ LaunchFails \/ StopServer \/ RunsOut PROVE IInv'
  <2>1. ServerGone /\ Stopped /\ UNCHANGED <<chunk, files, side, given, cuts>>
    BY <1>5 DEF EndCalibration, LaunchFails, StopServer, RunsOut
  <2>2. doing' \in Doing
    BY <1>1, <1>5 DEF EndCalibration, LaunchFails, StopServer, RunsOut, LaunchTypes, Doing
  <2> QED BY <2>1, <2>2, StoppedKeeps
<1>6. ASSUME Load \/ AfterLoad \/ EnterLayer \/ UNCHANGED vars PROVE IInv'
  <2>1. UNCHANGED launchVars
    BY <1>6 DEF Load, AfterLoad, EnterLayer, vars
  <2>2. phase' \in {"off", "load", "decode", "prefill"} /\ (phase' = "off" <=> phase = "off")
    <3>1. CASE Load
      BY <1>1, <3>1 DEF Load, Loading, Repack, Rename, Fuse, AfterModule, Processing, LaunchTypes
    <3>2. CASE AfterLoad
      BY <3>2 DEF AfterLoad, LayoutDone
    <3>3. CASE EnterLayer
      BY <1>1, <3>3 DEF EnterLayer, EnterSlot, LaunchTypes
    <3>4. CASE UNCHANGED vars
      BY <1>1, <3>4 DEF vars, layoutVars, LaunchTypes
    <3> QED BY <1>6, <3>1, <3>2, <3>3, <3>4
  <2> QED BY <2>1, <2>2, LayoutKeeps
<1>7. ASSUME NEW f \in Costs, NEW rows \in {k \in Rows : k <= chunk} \cup {chunk},
             \/ \E total \in Total : OpenWindow(rows, f[rows], total)
             \/ ExtendWindow(rows, f[rows])
      PROVE  IInv'
  <2>1. chunk \in Chunks
    BY <1>7 DEF IInv, Running, OpenWindow, ExtendWindow
  <2>2. rows \in Nat /\ rows \in 1 .. Highest
    BY <2>1, LaunchAssumption DEF Chunks, Lowest, Highest
  <2>3. f[rows] \in Nat \ {0}
    BY <2>2, LaunchAssumption
  <2>4. \A total \in Total : total \in [Ranks -> Nat]
    BY LaunchAssumption
  <2>5. CASE \E total \in Total : OpenWindow(rows, f[rows], total)
    BY <2>2, <2>3, <2>4, <2>5, OpenKeeps
  <2>6. CASE ExtendWindow(rows, f[rows])
    BY <2>2, <2>3, <2>6, ExtendKeeps
  <2> QED BY <1>7, <2>5, <2>6
<1>8. ASSUME NEW r \in Ranks, EndWindow(r) PROVE IInv'
  BY <1>8, EndKeeps
<1>9. ASSUME Window PROVE IInv'
  BY <1>5, <1>6, <1>7, <1>8, <1>9 DEF Window
<1> QED BY <1>2, <1>3, <1>4, <1>5, <1>6, <1>9 DEF Next

-----------------------------------------------------------------------------
(* What holds of the launches *)

\* The invariant of the launches and the hints, for any number of ranks and any
\* costs, memories and pools.
THEOREM Invariance == Spec => []IInv
<1>1. Init => IInv
  BY InitInv
<1>2. IInv /\ [Next]_vars => IInv'
  BY StepInv
<1> QED BY <1>1, <1>2, PTL DEF Spec

\* A rank's hint fits every window of its server that filled a chunk of 4096
\* rows or more (_write_hint keeps the smallest), and is at most doubled.
THEOREM HintsFit == Spec => []HintFits
<1>1. IInv => HintFits
  <2> SUFFICES ASSUME IInv, NEW r \in Ranks, NEW w \in full[r]
               PROVE  /\ w.rows >= FewRows => files[r].chunk = Lowest \/ WouldFit(files[r].chunk, w, chunk)
                      /\ files[r].chunk <= 2 * chunk
    BY DEF HintFits
  <2>1. files[r] # None /\ files[r].chunk <= 2 * chunk
    BY DEF IInv, MinFits
  <2>2. ASSUME w.rows >= FewRows PROVE files[r].chunk = Lowest \/ WouldFit(files[r].chunk, w, chunk)
    <3>1. hintMin[r] # NoChunk /\ (hintMin[r] = Lowest \/ WouldFit(hintMin[r], w, chunk))
      BY <2>2 DEF IInv, MinFits
    <3>2. PICK a \in Chunks, b \in Chunks : a = files[r].chunk /\ b = hintMin[r] /\ a <= b
      <4>1. files[r] \in File /\ hintMin[r] \in Chunks /\ files[r].chunk <= hintMin[r]
        BY <2>1, <3>1 DEF IInv, LaunchTypes, BelowMin
      <4> QED BY <4>1, NoneNoFile
    <3>3. a \in Int /\ b \in Int /\ a >= Lowest
      BY DEF Chunks, Lowest, Highest
    <3>4. CASE b = Lowest
      BY <3>2, <3>3, <3>4 DEF Lowest
    <3>5. CASE WouldFit(b, w, chunk)
      <4>1. chunk \in Chunks /\ w \in Measured
        BY DEF IInv, LaunchTypes, Running
      <4>2. WouldFit(a, w, chunk)
        BY <3>2, <3>3, <3>5, <4>1, FewerFit
      <4> QED BY <3>2, <4>2
    <3> QED BY <3>1, <3>2, <3>4, <3>5
  <2> QED BY <2>1, <2>2
<1> QED BY <1>1, Invariance, PTL

\* What a step that starts to serve may choose.
Chooses ==
  doing # "serving" /\ doing' = "serving" /\ ~ given' =>
    chunk' = Lowest \/ \A c \in cuts : chunk' < c

\* A step that starts to serve has gone through the guard, or a user gave the chunk.
LEMMA ChoosesStep ==
  ASSUME IInv, [Next]_vars
  PROVE  [Chooses]_vars
<1> SUFFICES ASSUME doing # "serving", doing' = "serving", ~ given'
             PROVE  chunk' = Lowest \/ \A c \in cuts : chunk' < c
  BY DEF Chooses
<1>1. LaunchTypes /\ ReadHint(files) \in {NoChunk} \cup Chunks
  BY ReadHintRange DEF IInv, LaunchTypes
<1>2. \A c : Calibration(c) => doing' = "calibrating"
  BY DEF Calibration
<1>3. \A c : Serve(c) => given' = given
  BY DEF Serve
<1>4. ASSUME NEW c \in Chunks, Serve(c) PROVE chunk' = Lowest \/ \A d \in cuts : chunk' < d
  BY <1>3, <1>4, ServeBelow
<1>5. CASE Launch
  <2>1. Unmeasured \in Chunks
    BY LaunchAssumption DEF Chunks
  <2> QED BY <1>1, <1>2, <1>4, <1>5, <2>1 DEF Launch
<1>6. CASE AfterCalibration
  <2>1. Lowest \in Chunks
    BY DEF Chunks, Lowest, Highest
  <2> QED BY <1>1, <1>2, <1>4, <1>6, <2>1 DEF AfterCalibration
<1>7. CASE \E c \in UserChunks : LaunchGiven(c)
  BY <1>7 DEF LaunchGiven
<1>8. ASSUME EndCalibration \/ LaunchFails \/ StopServer \/ RunsOut PROVE doing' = doing \/ doing' = "nothing"
  BY <1>8 DEF EndCalibration, LaunchFails, StopServer, RunsOut
<1>9. ASSUME Load \/ AfterLoad \/ EnterLayer \/ UNCHANGED vars PROVE doing' = doing
  BY <1>9 DEF Load, AfterLoad, EnterLayer, vars, launchVars
<1>10. ASSUME NEW r \in Ranks, EndWindow(r) PROVE doing' = doing
  BY <1>10 DEF EndWindow
<1>11. ASSUME NEW a, NEW b, NEW t, OpenWindow(a, b, t) \/ ExtendWindow(a, b) PROVE doing' = doing
  BY <1>11 DEF OpenWindow, ExtendWindow
<1>12. CASE Window
  BY <1>8, <1>9, <1>10, <1>11, <1>12 DEF Window
<1> QED BY <1>5, <1>6, <1>7, <1>8, <1>9, <1>12 DEF Next

\* The guard (_kt_lend_kv_guard) does not pick a chunk that has once cut the KV
\* pool, nor a wider one, unless a user has given chunks.
THEOREM CutsRemembered == Spec => CutNotRepeated
<1>1. IInv /\ [Next]_vars => [Chooses]_vars
  BY ChoosesStep
<1>2. Spec => [][Chooses]_vars
  BY <1>1, Invariance, PTL DEF Spec
<1> QED BY <1>2 DEF CutNotRepeated, Chooses

-----------------------------------------------------------------------------
(* Sums and sequences *)

\* The elements of a sequence are of its type.
LEMMA Elements ==
  ASSUME NEW T, NEW s \in Seq(T)
  PROVE  /\ DOMAIN s = 1 .. Len(s) /\ Len(s) \in Nat /\ \A k \in 1 .. Len(s) : s[k] \in T
         /\ \A x : x \in ToSet(s) <=> \E k \in 1 .. Len(s) : s[k] = x
         /\ ToSet(s) \subseteq T
BY DEF ToSet

\* What starts from a and goes on by D is there.
Iterates(f, a, D) == f[0] = a /\ \A n \in Nat : f[n + 1] = D[<<n, f[n]>>]

\* A step function has an iteration.
LEMMA Iteration ==
  ASSUME NEW S, NEW a \in S, NEW D \in [Nat \X S -> S]
  PROVE  \E f \in [Nat -> S] : Iterates(f, a, D)
<1> DEFINE Good(g, n) == /\ g \in [0 .. n -> S] /\ g[0] = a
                         /\ \A k \in 0 .. n - 1 : g[k + 1] = D[<<k, g[k]>>]
<1>1. \A n \in Nat : \E g : Good(g, n)
  <2> DEFINE Bad == {n \in Nat : ~ \E g : Good(g, n)}
  <2>1. SUFFICES ASSUME Bad # {} PROVE FALSE
    OBVIOUS
  <2>2. PICK n \in Bad : \A m \in Bad : n <= m
    BY <2>1, HasLeast
  <2>3. n # 0
    <3>1. Good([k \in 0 .. 0 |-> a], 0)
      OBVIOUS
    <3>2. \E g : Good(g, 0)
      BY <3>1, Zenon
    <3> HIDE DEF Good
    <3> QED BY <2>2, <3>2
  <2>4. PICK g : Good(g, n - 1)
    BY <2>2, <2>3
  <2> DEFINE h == [k \in 0 .. n |-> IF k = n THEN D[<<n - 1, g[n - 1]>>] ELSE g[k]]
  <2>5. Good(h, n)
    <3>1. g[n - 1] \in S /\ n \in Nat /\ n - 1 \in Nat
      BY <2>2, <2>3, <2>4
    <3>2. h \in [0 .. n -> S]
      BY <2>4, <3>1
    <3>3. h[0] = a
      BY <2>3, <2>4, <3>1
    <3>4. ASSUME NEW k \in 0 .. n - 1 PROVE h[k + 1] = D[<<k, h[k]>>]
      <4>1. k + 1 \in 0 .. n /\ k \in 0 .. n /\ k # n /\ h[k] = g[k]
        BY <3>1
      <4>2. CASE k = n - 1
        BY <4>1, <4>2, <3>1
      <4>3. CASE k # n - 1
        <5>1. k \in 0 .. (n - 1) - 1 /\ k + 1 # n
          BY <4>3, <3>1
        <5>2. g[k + 1] = D[<<k, g[k]>>]
          BY <2>4, <5>1
        <5> QED BY <4>1, <5>1, <5>2
      <4> QED BY <4>2, <4>3
    <3> QED BY <3>2, <3>3, <3>4
  <2> QED BY <2>2, <2>5
<1>2. ASSUME NEW n \in Nat, NEW g, NEW h, Good(g, n), Good(h, n + 1)
      PROVE  g[n] = h[n]
  <2> DEFINE Bad == {k \in Nat : k <= n /\ g[k] # h[k]}
  <2>1. SUFFICES ASSUME Bad # {} PROVE FALSE
    OBVIOUS
  <2>2. PICK k \in Bad : \A m \in Bad : k <= m
    BY <2>1, HasLeast
  <2>3. k # 0
    BY <1>2, <2>2
  <2>4. k - 1 \in 0 .. n - 1 /\ g[k - 1] = h[k - 1]
    BY <2>2, <2>3
  <2>5. g[(k - 1) + 1] = h[(k - 1) + 1]
    <3>1. g[(k - 1) + 1] = D[<<k - 1, g[k - 1]>>]
      BY <1>2, <2>4
    <3>2. k - 1 \in 0 .. (n + 1) - 1
      BY <2>2, <2>4
    <3>3. h[(k - 1) + 1] = D[<<k - 1, h[k - 1]>>]
      BY <1>2, <3>2
    <3> QED BY <3>1, <3>3, <2>4
  <2> QED BY <2>2, <2>5
<1> DEFINE Approx(n) == CHOOSE g : Good(g, n)
           f == [n \in Nat |-> Approx(n)[n]]
<1>3. ASSUME NEW n \in Nat PROVE Good(Approx(n), n)
  BY <1>1
<1>4. f \in [Nat -> S] /\ f[0] = a
  <2> HIDE DEF Approx
  <2> QED BY <1>3
<1>5. ASSUME NEW n \in Nat PROVE f[n + 1] = D[<<n, f[n]>>]
  <2>1. Good(Approx(n), n) /\ Good(Approx(n + 1), n + 1)
    <3> HIDE DEF Approx, Good
    <3>1. n + 1 \in Nat
      OBVIOUS
    <3> QED BY <1>3, <3>1
  <2>2. Approx(n)[n] = Approx(n + 1)[n]
    <3> HIDE DEF Approx, Good
    <3> QED BY <1>2, <2>1
  <2> HIDE DEF Approx
  <2> QED BY <2>1, <2>2
<1> HIDE DEF f
<1> QED BY <1>4, <1>5 DEF Iterates

\* The sums of Upto, from the first on.
LEMMA UptoIs ==
  ASSUME NEW T, NEW s \in Seq(T), NEW f \in [T -> Nat]
  PROVE  /\ Upto(f, s)[0] = 0
         /\ \A k \in 1 .. Len(s) : Upto(f, s)[k] = Upto(f, s)[k - 1] + f[s[k]]
         /\ \A k \in 0 .. Len(s) : Upto(f, s)[k] \in Nat
<1> DEFINE D == [p \in Nat \X Nat |-> IF p[1] + 1 \in 1 .. Len(s) THEN p[2] + f[s[p[1] + 1]] ELSE 0]
<1>0. \A k \in 1 .. Len(s) : f[s[k]] \in Nat
  OBVIOUS
<1>1. D \in [Nat \X Nat -> Nat]
  BY <1>0
<1>2. PICK a, d : a = 0 /\ d = D
  OBVIOUS
<1>3. a \in Nat /\ d \in [Nat \X Nat -> Nat]
  BY <1>1, <1>2
<1>4. \A k \in Nat, x \in Nat : k + 1 \in 1 .. Len(s) => d[<<k, x>>] = x + f[s[k + 1]]
  BY <1>2
<1> HIDE DEF D
<1>5. \E h \in [Nat -> Nat] : Iterates(h, a, d)
  BY <1>3, Iteration, Zenon
<1>6. PICK h \in [Nat -> Nat] : h[0] = 0 /\ \A n \in Nat : h[n + 1] = d[<<n, h[n]>>]
  BY <1>2, <1>5 DEF Iterates
<1>7. ASSUME NEW k \in 1 .. Len(s) PROVE h[k] = h[k - 1] + f[s[k]]
  <2>1. k - 1 \in Nat /\ (k - 1) + 1 = k /\ h[k - 1] \in Nat
    <3>1. k - 1 \in Nat /\ (k - 1) + 1 = k
      BY Elements
    <3> QED BY <3>1
  <2>2. h[(k - 1) + 1] = d[<<k - 1, h[k - 1]>>]
    BY <1>6, <2>1
  <2> QED BY <1>4, <2>1, <2>2
<1> DEFINE g == [k \in 0 .. Len(s) |-> h[k]]
<1>8. g = [k \in 0 .. Len(s) |-> IF k = 0 THEN 0 ELSE g[k - 1] + f[s[k]]]
  <2>1. ASSUME NEW k \in 0 .. Len(s) PROVE g[k] = IF k = 0 THEN 0 ELSE g[k - 1] + f[s[k]]
    <3>1. k # 0 => k \in 1 .. Len(s) /\ k - 1 \in 0 .. Len(s)
      OBVIOUS
    <3>2. g[k] = h[k] /\ (k # 0 => g[k - 1] = h[k - 1])
      BY <3>1
    <3> HIDE DEF g
    <3> QED BY <1>6, <1>7, <3>1, <3>2
  <2> QED BY <2>1
<1> HIDE DEF g
<1>9. Upto(f, s) = [k \in 0 .. Len(s) |-> IF k = 0 THEN 0 ELSE Upto(f, s)[k - 1] + f[s[k]]]
  BY <1>8, Zenon DEF Upto
<1>10. PICK u : u = Upto(f, s)
  OBVIOUS
<1>11. u = [k \in 0 .. Len(s) |-> IF k = 0 THEN 0 ELSE u[k - 1] + f[s[k]]]
  BY <1>9, <1>10
<1>15. \A k \in 0 .. Len(s) : u[k] = IF k = 0 THEN 0 ELSE u[k - 1] + f[s[k]]
  BY <1>11, Zenon
<1>12. u[0] = 0
  <2>1. 0 \in 0 .. Len(s)
    OBVIOUS
  <2> QED BY <1>15, <2>1
<1>13. ASSUME NEW k \in 1 .. Len(s) PROVE u[k] = u[k - 1] + f[s[k]]
  BY <1>15
<1>14. ASSUME NEW k \in 0 .. Len(s) PROVE u[k] \in Nat
  <2> DEFINE Bad == {m \in 0 .. Len(s) : u[m] \notin Nat}
  <2>1. SUFFICES ASSUME Bad # {} PROVE FALSE
    OBVIOUS
  <2>5. Bad \subseteq 0 .. Len(s) /\ \A m \in 0 .. Len(s) : m \in Bad <=> u[m] \notin Nat
    BY Zenon
  <2> HIDE DEF Bad
  <2>7. Bad \subseteq Nat
    BY <2>5
  <2>2. PICK m \in Bad : \A q \in Bad : m <= q
    BY <2>1, <2>7, HasLeast
  <2>6. m \in 0 .. Len(s) /\ u[m] \notin Nat
    BY <2>2, <2>5, Zenon
  <2>8. m # 0
    BY <1>12, <2>6
  <2>3. m \in 1 .. Len(s) /\ m - 1 \in 0 .. Len(s) /\ ~ (m <= m - 1)
    BY <2>6, <2>8
  <2>9. m - 1 \notin Bad
    BY <2>2, <2>3
  <2>4. u[m - 1] \in Nat /\ u[m] = u[m - 1] + f[s[m]] /\ f[s[m]] \in Nat
    BY <1>0, <1>13, <2>3, <2>5, <2>9
  <2>10. \A x, y \in Nat : x + y \in Nat
    OBVIOUS
  <2> QED BY <2>4, <2>6, <2>10
<1> QED BY <1>10, <1>12, <1>13, <1>14

\* The elements of a sequence and another behind it.
LEMMA Joined ==
  ASSUME NEW T, NEW s \in Seq(T), NEW t \in Seq(T)
  PROVE  /\ s \o t \in Seq(T)
         /\ \A x : x \in ToSet(s \o t) <=> x \in ToSet(s) \/ x \in ToSet(t)
<1>1. /\ s \o t \in Seq(T) /\ Len(s \o t) = Len(s) + Len(t)
      /\ \A k \in 1 .. Len(s) : (s \o t)[k] = s[k]
      /\ \A k \in 1 .. Len(t) : (s \o t)[Len(s) + k] = t[k]
  OBVIOUS
<1>2. DOMAIN (s \o t) = 1 .. Len(s) + Len(t) /\ DOMAIN s = 1 .. Len(s) /\ DOMAIN t = 1 .. Len(t)
  BY <1>1
<1>3. ASSUME NEW x, x \in ToSet(s \o t) PROVE x \in ToSet(s) \/ x \in ToSet(t)
  <2>1. PICK k \in 1 .. Len(s) + Len(t) : x = (s \o t)[k]
    BY <1>2, <1>3 DEF ToSet
  <2>2. CASE k \in 1 .. Len(s)
    BY <1>1, <1>2, <2>1, <2>2 DEF ToSet
  <2>3. CASE k \notin 1 .. Len(s)
    <3>1. k - Len(s) \in 1 .. Len(t) /\ Len(s) + (k - Len(s)) = k
      BY <2>3
    <3> QED BY <1>1, <1>2, <2>1, <3>1 DEF ToSet
  <2> QED BY <2>2, <2>3
<1>4. ASSUME NEW x, x \in ToSet(s) PROVE x \in ToSet(s \o t)
  <2>1. PICK k \in 1 .. Len(s) : x = s[k]
    BY <1>2, <1>4 DEF ToSet
  <2>2. k \in 1 .. Len(s) + Len(t)
    OBVIOUS
  <2> QED BY <1>1, <1>2, <2>1, <2>2 DEF ToSet
<1>5. ASSUME NEW x, x \in ToSet(t) PROVE x \in ToSet(s \o t)
  <2>1. PICK k \in 1 .. Len(t) : x = t[k]
    BY <1>2, <1>5 DEF ToSet
  <2>2. Len(s) + k \in 1 .. Len(s) + Len(t)
    OBVIOUS
  <2> QED BY <1>1, <1>2, <2>1, <2>2 DEF ToSet
<1> QED BY <1>1, <1>3, <1>4, <1>5

\* A flattened sequence has the elements of its parts.
LEMMA Flattened ==
  ASSUME NEW T, NEW ss \in Seq(Seq(T))
  PROVE  /\ FlattenSeq(ss) \in Seq(T)
         /\ \A x : x \in ToSet(FlattenSeq(ss)) <=> \E k \in DOMAIN ss : x \in ToSet(ss[k])
<1> DEFINE D == [p \in Nat \X Seq(T) |-> IF p[1] + 1 \in 1 .. Len(ss) THEN p[2] \o ss[p[1] + 1] ELSE <<>>]
<1>0. \A k \in 1 .. Len(ss) : ss[k] \in Seq(T)
  OBVIOUS
<1>1. D \in [Nat \X Seq(T) -> Seq(T)]
  BY <1>0
<1>2. PICK R, a, d : R = Seq(T) /\ a = <<>> /\ d = D
  OBVIOUS
<1>3. a \in R /\ d \in [Nat \X R -> R]
  BY <1>1, <1>2
<1>4. \A k \in Nat, x \in Seq(T) : k + 1 \in 1 .. Len(ss) => d[<<k, x>>] = x \o ss[k + 1]
  BY <1>2
<1> HIDE DEF D
<1>5. \E h \in [Nat -> R] : Iterates(h, a, d)
  BY <1>3, Iteration, Zenon
<1>6. PICK h \in [Nat -> Seq(T)] : h[0] = <<>> /\ \A n \in Nat : h[n + 1] = d[<<n, h[n]>>]
  BY <1>2, <1>5 DEF Iterates
<1>7. ASSUME NEW k \in 1 .. Len(ss) PROVE h[k] = h[k - 1] \o ss[k]
  <2>1. k - 1 \in Nat /\ (k - 1) + 1 = k /\ h[k - 1] \in Seq(T)
    OBVIOUS
  <2>2. h[(k - 1) + 1] = d[<<k - 1, h[k - 1]>>]
    BY <1>6, <2>1
  <2> QED BY <1>4, <2>1, <2>2
<1>8. 1 \in 1 .. Len(ss) => h[1] = ss[1]
  <2>1. ASSUME 1 \in 1 .. Len(ss) PROVE h[1] = <<>> \o ss[1]
    <3>1. h[1] = h[1 - 1] \o ss[1]
      BY <1>7, <2>1
    <3>2. 1 - 1 = 0
      OBVIOUS
    <3> QED BY <1>6, <3>1, <3>2
  <2> QED BY <1>0, <2>1
<1> DEFINE g == [k \in 1 .. Len(ss) |-> h[k]]
<1>9. g = [k \in 1 .. Len(ss) |-> IF k = 1 THEN ss[k] ELSE g[k - 1] \o ss[k]]
  <2>1. ASSUME NEW k \in 1 .. Len(ss) PROVE g[k] = IF k = 1 THEN ss[k] ELSE g[k - 1] \o ss[k]
    <3>1. k # 1 => k - 1 \in 1 .. Len(ss)
      OBVIOUS
    <3>2. g[k] = h[k] /\ (k # 1 => g[k - 1] = h[k - 1])
      BY <3>1
    <3> HIDE DEF g
    <3> QED BY <1>7, <1>8, <3>1, <3>2
  <2> QED BY <2>1
<1> HIDE DEF g
<1>10. \E e : /\ e = [k \in 1 .. Len(ss) |-> IF k = 1 THEN ss[k] ELSE e[k - 1] \o ss[k]]
              /\ FlattenSeq(ss) = IF Len(ss) = 0 THEN ss ELSE e[Len(ss)]
  BY <1>9, ZenonT(60) DEF FlattenSeq
<1>11. PICK e : /\ e = [k \in 1 .. Len(ss) |-> IF k = 1 THEN ss[k] ELSE e[k - 1] \o ss[k]]
                /\ FlattenSeq(ss) = IF Len(ss) = 0 THEN ss ELSE e[Len(ss)]
  BY <1>10
<1>15. \A k \in 1 .. Len(ss) : e[k] = IF k = 1 THEN ss[k] ELSE e[k - 1] \o ss[k]
  BY <1>11, Zenon
<1> DEFINE Good(k) == /\ e[k] \in Seq(T)
                      /\ \A x : x \in ToSet(e[k]) <=> \E i \in 1 .. k : x \in ToSet(ss[i])
<1>12. ASSUME NEW k \in 1 .. Len(ss) PROVE Good(k)
  <2> DEFINE Bad == {m \in 1 .. Len(ss) : ~ Good(m)}
  <2>1. SUFFICES ASSUME Bad # {} PROVE FALSE
    OBVIOUS
  <2> HIDE DEF Good
  <2>12. Bad \subseteq Nat /\ \A m \in Bad : m \in 1 .. Len(ss) /\ ~ Good(m)
    OBVIOUS
  <2>13. \A m \in 1 .. Len(ss) : m \notin Bad => Good(m)
    OBVIOUS
  <2> HIDE DEF Bad
  <2>2. PICK m \in Bad : \A q \in Bad : m <= q
    BY <2>1, <2>12, HasLeast
  <2> USE DEF Good
  <2>3. m # 1
    <3>1. 1 \in 1 .. Len(ss) => e[1] = ss[1]
      BY <1>15
    <3>2. ASSUME 1 \in 1 .. Len(ss) PROVE Good(1)
      <4>1. e[1] \in Seq(T) /\ e[1] = ss[1]
        BY <1>0, <3>1, <3>2
      <4>2. \A i : i \in 1 .. 1 <=> i = 1
        OBVIOUS
      <4> QED BY <4>1, <4>2
    <3> HIDE DEF Good
    <3> QED BY <2>2, <2>12, <3>2
  <2>4. m - 1 \in 1 .. Len(ss) /\ m \in 1 .. Len(ss) /\ m \in Nat
    BY <2>2, <2>3, <2>12
  <2>5. Good(m - 1)
    <3> HIDE DEF Good
    <3>1. m - 1 \notin Bad
      BY <2>2, <2>4
    <3> QED BY <2>4, <2>13, <3>1
  <2>6. e[m] = e[m - 1] \o ss[m]
    BY <1>15, <2>3, <2>4
  <2>7. PICK b, c : b = e[m - 1] /\ c = ss[m]
    OBVIOUS
  <2>8. b \in Seq(T) /\ c \in Seq(T)
    BY <1>0, <2>4, <2>5, <2>7
  <2>9. b \o c \in Seq(T) /\ \A x : x \in ToSet(b \o c) <=> x \in ToSet(b) \/ x \in ToSet(c)
    BY <2>8, Joined
  <2>10. \A x : (\E i \in 1 .. m : x \in ToSet(ss[i])) <=> (\E i \in 1 .. m - 1 : x \in ToSet(ss[i])) \/ x \in ToSet(ss[m])
    <3>1. \A i \in 1 .. m : i \in 1 .. m - 1 \/ i = m
      BY <2>4
    <3>2. m \in 1 .. m /\ \A i \in 1 .. m - 1 : i \in 1 .. m
      BY <2>4
    <3> QED BY <3>1, <3>2
  <2>11. Good(m)
    BY <2>5, <2>6, <2>7, <2>9, <2>10
  <2> HIDE DEF Good
  <2> QED BY <2>2, <2>11, <2>12
<1>13. CASE Len(ss) = 0
  <2>1. FlattenSeq(ss) = ss /\ ss = <<>>
    BY <1>11, <1>13
  <2> QED BY <2>1 DEF ToSet
<1>14. CASE Len(ss) # 0
  <2>1. Len(ss) \in 1 .. Len(ss) /\ DOMAIN ss = 1 .. Len(ss)
    BY <1>14
  <2>2. FlattenSeq(ss) = e[Len(ss)]
    BY <1>11, <1>14
  <2>3. Good(Len(ss))
    BY <1>12, <2>1
  <2> QED BY <2>1, <2>2, <2>3
<1> QED BY <1>13, <1>14

\* Only the empty sequence has no elements.
LEMMA Empty ==
  ASSUME NEW T, NEW s \in Seq(T)
  PROVE  s = <<>> <=> Len(s) = 0
<1>1. Len(s) = 0 => s = <<>>
  OBVIOUS
<1>2. s = <<>> => Len(s) = 0
  OBVIOUS
<1> QED BY <1>1, <1>2

\* What Only leaves of a sequence.
LEMMA OnlyIs ==
  ASSUME NEW T, NEW s \in Seq(T), NEW S
  PROVE  /\ Only(s, S) \in Seq(T)
         /\ \A x : x \in ToSet(Only(s, S)) <=> x \in S /\ x \in ToSet(s)
<1> DEFINE ss == [k \in DOMAIN s |-> IF s[k] \in S THEN <<s[k]>> ELSE <<>>]
<1>1. DOMAIN s = 1 .. Len(s) /\ Len(s) \in Nat /\ \A k \in 1 .. Len(s) : s[k] \in T
  BY Elements
<1>2. \A t \in T : <<t>> \in Seq(T) /\ \A x : x \in ToSet(<<t>>) <=> x = t
  <2> SUFFICES ASSUME NEW t \in T PROVE <<t>> \in Seq(T) /\ \A x : x \in ToSet(<<t>>) <=> x = t
    OBVIOUS
  <2>1. <<t>> \in Seq(T) /\ Len(<<t>>) = 1 /\ <<t>>[1] = t
    OBVIOUS
  <2>2. \A x : x \in ToSet(<<t>>) <=> \E k \in 1 .. 1 : <<t>>[k] = x
    BY <2>1, Elements
  <2> QED BY <2>1, <2>2
<1>3. <<>> \in Seq(T) /\ \A x : x \notin ToSet(<<>>)
  BY DEF ToSet
<1>4. ss \in [1 .. Len(s) -> Seq(T)]
  BY <1>1, <1>2, <1>3
<1>5. ss \in Seq(Seq(T)) /\ DOMAIN ss = 1 .. Len(s)
  BY <1>1, <1>4
<1>6. \A k \in 1 .. Len(s) : \A x : x \in ToSet(ss[k]) <=> s[k] \in S /\ x = s[k]
  BY <1>1, <1>2, <1>3
<1>7. \A x : x \in ToSet(s) <=> \E k \in 1 .. Len(s) : s[k] = x
  BY Elements
<1>8. FlattenSeq(ss) = Only(s, S)
  BY DEF Only
<1> HIDE DEF ss
<1>9. /\ FlattenSeq(ss) \in Seq(T)
      /\ \A x : x \in ToSet(FlattenSeq(ss)) <=> \E k \in 1 .. Len(s) : x \in ToSet(ss[k])
  BY <1>5, Flattened
<1>10. \A x : x \in ToSet(FlattenSeq(ss)) <=> x \in S /\ x \in ToSet(s)
  <2> SUFFICES ASSUME NEW x PROVE x \in ToSet(FlattenSeq(ss)) <=> x \in S /\ x \in ToSet(s)
    OBVIOUS
  <2>1. x \in ToSet(FlattenSeq(ss)) <=> \E k \in 1 .. Len(s) : x \in ToSet(ss[k])
    BY <1>9, Zenon
  <2>2. (\E k \in 1 .. Len(s) : x \in ToSet(ss[k])) <=> \E k \in 1 .. Len(s) : s[k] \in S /\ x = s[k]
    BY <1>6, Zenon
  <2>3. x \in ToSet(s) <=> \E k \in 1 .. Len(s) : s[k] = x
    BY <1>7, Zenon
  <2> QED BY <2>1, <2>2, <2>3, Zenon
<1> QED BY <1>8, <1>9, <1>10

-----------------------------------------------------------------------------
(* Layouts *)

\* What an item is, and items one after the other from the span's first unit, an
\* owner only at the head.
Item == [kind : {"param", "owner"}, n : Names \cup {"owner"}, off : Nat, size : Nat,
         inner : SUBSET [n : Names, delta : Nat]]
Tiled(its) ==
  /\ its # <<>> => its[1].off = 0
  /\ \A k \in 1 .. Len(its) - 1 : its[k + 1].off = its[k].off + its[k].size
Fitted(its) ==
  /\ its \in Seq(Item) /\ Tiled(its)
  /\ \A k \in 1 .. Len(its) :
       \/ its[k].kind = "param" /\ its[k].n \in Names /\ its[k].inner = {}
       \/ k = 1 /\ its[k].kind = "owner" /\ its[k].n = "owner"

\* What an item is made of.
LEMMA ItemFields ==
  \A item \in Item : /\ item.off \in Nat /\ item.size \in Nat /\ item.kind \in {"param", "owner"}
                     /\ item.inner \in SUBSET [n : Names, delta : Nat]
BY DEF Item

\* What follows end to end does not overlap.
LEMMA Chain ==
  ASSUME NEW n \in Nat, NEW o \in [1 .. n -> Nat], NEW z \in [1 .. n -> Nat],
         \A k \in 1 .. n - 1 : o[k + 1] = o[k] + z[k]
  PROVE  \A i, j \in 1 .. n : i < j => o[i] + z[i] <= o[j]
<1> SUFFICES ASSUME NEW i \in 1 .. n, NEW j \in 1 .. n, i < j, ~ (o[i] + z[i] <= o[j]) PROVE FALSE
  OBVIOUS
<1> DEFINE Bad == {m \in 1 .. n : i < m /\ ~ (o[i] + z[i] <= o[m])}
<1>2. \A m : m \in Bad <=> m \in 1 .. n /\ i < m /\ ~ (o[i] + z[i] <= o[m])
  BY Zenon
<1> HIDE DEF Bad
<1>1. Bad # {} /\ Bad \subseteq Nat
  <2>1. j \in Bad
    BY <1>2, Zenon
  <2>2. ASSUME NEW m \in Bad PROVE m \in Nat
    BY <1>2
  <2> QED BY <2>1, <2>2
<1>3. PICK m \in Bad : \A q \in Bad : m <= q
  BY <1>1, HasLeast
<1>4. m \in 1 .. n /\ i < m /\ ~ (o[i] + z[i] <= o[m])
  BY <1>2, <1>3
<1>5. m - 1 \in 1 .. n /\ m - 1 \in 1 .. n - 1 /\ (m - 1) + 1 = m /\ ~ (m <= m - 1)
  BY <1>4
<1>6. m - 1 \notin Bad
  BY <1>3, <1>5
<1>7. o[m] = o[m - 1] + z[m - 1]
  <2>1. o[(m - 1) + 1] = o[m - 1] + z[m - 1]
    BY <1>5
  <2> QED BY <1>5, <2>1
<1>8. PICK a \in Nat, b \in Nat, c \in Nat, d \in Nat, e \in Nat :
        a = o[i] /\ b = z[i] /\ c = o[m - 1] /\ d = z[m - 1] /\ e = o[m]
  BY <1>4, <1>5
<1>9. e = c + d /\ ~ (a + b <= e)
  BY <1>4, <1>7, <1>8
<1>10. CASE i = m - 1
  BY <1>8, <1>9, <1>10
<1>11. CASE i # m - 1
  <2>1. i < m - 1
    BY <1>4, <1>11
  <2>2. a + b <= c
    BY <1>2, <1>5, <1>6, <1>8, <2>1
  <2> QED BY <1>9, <2>2
<1> QED BY <1>10, <1>11

\* The items of a layout lie apart, in the order they have, and before its end.
LEMMA Apart ==
  ASSUME NEW its \in Seq(Item), Tiled(its)
  PROVE  /\ EndOf(its) \in Nat
         /\ \A i, j \in 1 .. Len(its) : i < j => its[i].off + its[i].size <= its[j].off
         /\ \A i \in 1 .. Len(its) : its[i].off + its[i].size <= EndOf(its)
<1> DEFINE o == [k \in 1 .. Len(its) |-> its[k].off]
           z == [k \in 1 .. Len(its) |-> its[k].size]
<1>1. \A k \in 1 .. Len(its) : its[k] \in Item /\ its[k].off \in Nat /\ its[k].size \in Nat
  BY ItemFields
<1>2. Len(its) \in Nat /\ o \in [1 .. Len(its) -> Nat] /\ z \in [1 .. Len(its) -> Nat]
  BY <1>1
<1>3. \A k \in 1 .. Len(its) - 1 : o[k + 1] = o[k] + z[k]
  <2> SUFFICES ASSUME NEW k \in 1 .. Len(its) - 1 PROVE o[k + 1] = o[k] + z[k]
    OBVIOUS
  <2>1. k \in 1 .. Len(its) /\ k + 1 \in 1 .. Len(its)
    OBVIOUS
  <2> QED BY <2>1 DEF Tiled
<1>4. \A k \in 1 .. Len(its) : o[k] = its[k].off /\ z[k] = its[k].size
  OBVIOUS
<1> HIDE DEF o, z
<1>5. \A i, j \in 1 .. Len(its) : i < j => o[i] + z[i] <= o[j]
  BY <1>2, <1>3, Chain
<1>6. CASE its = <<>>
  <2>1. Len(its) = 0
    BY <1>6
  <2> QED BY <1>6, <2>1 DEF EndOf
<1>7. CASE its # <<>>
  <2>1. Len(its) \in 1 .. Len(its)
    BY <1>7
  <2>2. EndOf(its) = o[Len(its)] + z[Len(its)] /\ EndOf(its) \in Nat
    <3>1. EndOf(its) = its[Len(its)].off + its[Len(its)].size
      BY <1>7 DEF EndOf
    <3> QED BY <1>1, <1>4, <2>1, <3>1
  <2>3. ASSUME NEW i \in 1 .. Len(its) PROVE o[i] + z[i] <= EndOf(its)
    <3>1. PICK a \in Nat, b \in Nat, c \in Nat, d \in Nat : a = o[i] /\ b = z[i] /\ c = o[Len(its)] /\ d = z[Len(its)]
      BY <1>2, <2>1
    <3>2. CASE i = Len(its)
      BY <2>2, <3>1, <3>2
    <3>3. CASE i # Len(its)
      <4>1. i < Len(its)
        BY <3>3
      <4>2. a + b <= c
        BY <1>5, <2>1, <3>1, <4>1
      <4> QED BY <2>2, <3>1, <4>2
    <3> QED BY <3>2, <3>3
  <2> QED BY <1>4, <1>5, <2>2, <2>3
<1> QED BY <1>6, <1>7

\* The item that covers a unit is the one whose place it is in.
LEMMA Covers ==
  ASSUME NEW its \in Seq(Item), Tiled(its), NEW k \in 1 .. Len(its), NEW j \in 1 .. its[k].size
  PROVE  /\ its[k].off + j \in 1 .. EndOf(its)
         /\ Covering(its, its[k].off + j) = its[k]
<1> DEFINE u == its[k].off + j
           In(item) == item.off < u /\ u <= item.off + item.size
<1>1. \A i \in 1 .. Len(its) : its[i].off \in Nat /\ its[i].size \in Nat
  BY ItemFields
<1>2. u \in Nat /\ j >= 1 /\ j <= its[k].size /\ its[k].off < u /\ u <= its[k].off + its[k].size
  BY <1>1
<1>3. /\ EndOf(its) \in Nat /\ its[k].off + its[k].size <= EndOf(its)
      /\ \A i, q \in 1 .. Len(its) : i < q => its[i].off + its[i].size <= its[q].off
  BY Apart
<1>4. u \in 1 .. EndOf(its)
  BY <1>1, <1>2, <1>3
<1>5. ASSUME NEW i \in 1 .. Len(its), In(its[i]) PROVE i = k
  <2>1. PICK a \in Nat, b \in Nat, c \in Nat, d \in Nat :
          a = its[i].off /\ b = its[i].size /\ c = its[k].off /\ d = its[k].size
    BY <1>1
  <2>2. a < u /\ u <= a + b /\ c < u /\ u <= c + d
    BY <1>2, <1>5, <2>1
  <2>3. ~ (i < k)
    <3>1. ASSUME i < k PROVE FALSE
      <4>1. a + b <= c
        BY <1>3, <2>1, <3>1
      <4> QED BY <1>2, <2>2, <4>1
    <3> QED BY <3>1
  <2>4. ~ (k < i)
    <3>1. ASSUME k < i PROVE FALSE
      <4>1. c + d <= a
        BY <1>3, <2>1, <3>1
      <4> QED BY <1>2, <2>2, <4>1
    <3> QED BY <3>1
  <2> QED BY <2>3, <2>4
<1>6. DOMAIN its = 1 .. Len(its) /\ In(its[k])
  BY <1>2
<1> HIDE DEF In
<1>7. \A x \in {its[i] : i \in 1 .. Len(its)} : In(x) => x = its[k]
  BY <1>5
<1>8. (CHOOSE x \in {its[i] : i \in 1 .. Len(its)} : In(x)) = its[k]
  BY <1>6, <1>7
<1>9. Covering(its, u) = (CHOOSE x \in {its[i] : i \in 1 .. Len(its)} : In(x))
  BY <1>6 DEF Covering, In
<1> QED BY <1>4, <1>8, <1>9

\* One parameter after the other.
LaidFrom(L, names, sizes, from) ==
         /\ L \in Seq(Item) /\ Len(L) = Len(names)
         /\ \A k \in 1 .. Len(L) : /\ L[k].kind = "param" /\ L[k].n = names[k] /\ L[k].inner = {}
                                   /\ L[k].size = sizes[names[k]]
         /\ L # <<>> => L[1].off = from
         /\ \A k \in 1 .. Len(L) - 1 : L[k + 1].off = L[k].off + L[k].size

\* _relayout lists them so.
LEMMA LayIs ==
  ASSUME NEW names \in Seq(Names), NEW sizes \in [Names -> Nat], NEW from \in Nat,
         NEW L, L = Lay(names, sizes, from)
  PROVE  LaidFrom(L, names, sizes, from)
<1> DEFINE u == Upto(sizes, names)
           N == Len(names)
<1>1. DOMAIN names = 1 .. N /\ N \in Nat /\ \A k \in 1 .. N : names[k] \in Names
  BY Elements
<1>2. /\ u[0] = 0
      /\ \A k \in 1 .. N : u[k] = u[k - 1] + sizes[names[k]]
      /\ \A k \in 0 .. N : u[k] \in Nat
  BY UptoIs
<1> HIDE DEF u
<1>3. \A k \in 1 .. N : u[k - 1] \in Nat /\ sizes[names[k]] \in Nat
  <2> SUFFICES ASSUME NEW k \in 1 .. N PROVE u[k - 1] \in Nat /\ sizes[names[k]] \in Nat
    OBVIOUS
  <2>1. k - 1 \in 0 .. N /\ names[k] \in Names
    BY <1>1
  <2> QED BY <1>2, <2>1
<1>4. L = [k \in 1 .. N |-> ParamItem(names[k], from + u[k - 1], sizes[names[k]])]
  BY <1>1, Zenon DEF Lay, u
<1>5. \A m \in Names, o \in Nat, z \in Nat :
        /\ ParamItem(m, o, z) \in Item
        /\ ParamItem(m, o, z).kind = "param" /\ ParamItem(m, o, z).n = m /\ ParamItem(m, o, z).inner = {}
        /\ ParamItem(m, o, z).off = o /\ ParamItem(m, o, z).size = z
  BY DEF ParamItem, Item
<1>6. \A k \in 1 .. N : from + u[k - 1] \in Nat
  <2>1. \A x \in Nat : from + x \in Nat
    OBVIOUS
  <2> QED BY <1>3, <2>1
<1>7. ASSUME NEW k \in 1 .. N
      PROVE  /\ L[k] \in Item /\ L[k].kind = "param" /\ L[k].n = names[k] /\ L[k].inner = {}
             /\ L[k].off = from + u[k - 1] /\ L[k].size = sizes[names[k]]
  <2>1. L[k] = ParamItem(names[k], from + u[k - 1], sizes[names[k]])
    BY <1>4
  <2>2. PICK m, o, z : m = names[k] /\ o = from + u[k - 1] /\ z = sizes[names[k]]
    OBVIOUS
  <2>3. m \in Names /\ o \in Nat /\ z \in Nat
    BY <1>1, <1>3, <1>6, <2>2
  <2>4. L[k] = ParamItem(m, o, z)
    BY <2>1, <2>2
  <2>5. PICK x : x = ParamItem(m, o, z)
    OBVIOUS
  <2>6. x \in Item /\ x.kind = "param" /\ x.n = m /\ x.inner = {} /\ x.off = o /\ x.size = z
    BY <1>5, <2>3, <2>5
  <2>7. L[k] = x
    BY <2>4, <2>5
  <2> QED BY <2>2, <2>6, <2>7
<1>8. L \in Seq(Item) /\ Len(L) = N
  <2>1. L \in [1 .. N -> Item]
    BY <1>4, <1>7
  <2> QED BY <1>1, <2>1
<1>9. ASSUME L # <<>> PROVE L[1].off = from
  <2>1. 1 \in 1 .. N
    BY <1>1, <1>8, <1>9
  <2>2. L[1].off = from + u[1 - 1] /\ 1 - 1 = 0
    BY <1>7, <2>1
  <2> QED BY <1>2, <2>2
<1>10. ASSUME NEW k \in 1 .. N - 1 PROVE L[k + 1].off = L[k].off + L[k].size
  <2>1. k \in 1 .. N /\ k + 1 \in 1 .. N /\ (k + 1) - 1 = k
    BY <1>1
  <2>2. L[k + 1].off = from + u[k] /\ L[k].off = from + u[k - 1] /\ L[k].size = sizes[names[k]]
    BY <1>7, <2>1
  <2>3. u[k] = u[k - 1] + sizes[names[k]]
    BY <1>2, <2>1
  <2>4. \A x, y \in Nat : from + (x + y) = (from + x) + y
    OBVIOUS
  <2> QED BY <1>3, <2>1, <2>2, <2>3, <2>4
<1> HIDE DEF N
<1> QED BY <1>7, <1>8, <1>9, <1>10 DEF N, LaidFrom

\* A head, then the named parameters.
Headed(its, head, names, sizes) ==
  /\ Fitted(its) /\ Len(its) = Len(head) + Len(names)
  /\ \A k \in 1 .. Len(head) : its[k] = head[k]
  /\ \A k \in 1 .. Len(names) :
       LET item == its[Len(head) + k]
       IN item.kind = "param" /\ item.n = names[k] /\ item.inner = {} /\ item.size = sizes[names[k]]

\* A layout: at most an owner, then parameters.
LEMMA LaidOut ==
  ASSUME NEW head \in Seq(Item), Len(head) <= 1,
         \A k \in 1 .. Len(head) : head[k].kind = "owner" /\ head[k].n = "owner" /\ head[k].off = 0,
         NEW names \in Seq(Names), NEW sizes \in [Names -> Nat],
         NEW its, its = head \o Lay(names, sizes, EndOf(head))
  PROVE  Headed(its, head, names, sizes)
<1>1. Len(head) \in {0, 1} /\ (Len(head) = 0 => head = <<>>) /\ (Len(head) = 1 => head # <<>>)
  <2>1. Len(head) \in Nat
    OBVIOUS
  <2>2. Len(head) = 0 => head = <<>>
    OBVIOUS
  <2>3. head = <<>> => Len(head) = 0
    OBVIOUS
  <2>4. Len(head) \in {0, 1}
    <3>1. \A x \in Nat : x <= 1 => x = 0 \/ x = 1
      OBVIOUS
    <3>2. Len(head) = 0 \/ Len(head) = 1
      BY <2>1, <3>1, Zenon
    <3> QED BY <3>2
  <2>5. Len(head) = 1 => head # <<>>
    BY <2>3
  <2> QED BY <2>4, <2>2, <2>5
<1>2. EndOf(head) \in Nat /\ (Len(head) = 1 => EndOf(head) = head[1].off + head[1].size)
  <2>1. CASE Len(head) = 0
    BY <1>1, <2>1 DEF EndOf
  <2>2. CASE Len(head) = 1
    <3>1. head[1] \in Item
      <4>1. 1 \in 1 .. Len(head)
        BY <2>2
      <4> QED BY <4>1, Elements
    <3>2. head[1].off \in Nat /\ head[1].size \in Nat
      BY <3>1, ItemFields
    <3>3. EndOf(head) = head[1].off + head[1].size
      BY <1>1, <2>2 DEF EndOf
    <3> QED BY <2>2, <3>2, <3>3
  <2> QED BY <1>1, <2>1, <2>2
<1>3. PICK from, L : from = EndOf(head) /\ L = Lay(names, sizes, from)
  BY <1>2
<1>4. /\ L \in Seq(Item) /\ Len(L) = Len(names)
      /\ \A k \in 1 .. Len(L) : /\ L[k].kind = "param" /\ L[k].n = names[k] /\ L[k].inner = {}
                                /\ L[k].size = sizes[names[k]]
      /\ L # <<>> => L[1].off = EndOf(head)
      /\ \A k \in 1 .. Len(L) - 1 : L[k + 1].off = L[k].off + L[k].size
  <2>1. from \in Nat /\ L = Lay(names, sizes, from)
    BY <1>2, <1>3
  <2>2. /\ L \in Seq(Item) /\ Len(L) = Len(names)
        /\ \A k \in 1 .. Len(L) : /\ L[k].kind = "param" /\ L[k].n = names[k] /\ L[k].inner = {}
                                  /\ L[k].size = sizes[names[k]]
        /\ L # <<>> => L[1].off = from
        /\ \A k \in 1 .. Len(L) - 1 : L[k + 1].off = L[k].off + L[k].size
    <3>1. LaidFrom(L, names, sizes, from)
      BY <2>1, LayIs
    <3> QED BY <3>1 DEF LaidFrom
  <2> QED BY <1>3, <2>2
<1>5. its = head \o L
  BY <1>3
<1>6. /\ its \in Seq(Item) /\ Len(its) = Len(head) + Len(L)
      /\ \A k \in 1 .. Len(head) : its[k] = head[k]
      /\ \A k \in 1 .. Len(L) : its[Len(head) + k] = L[k]
  <2>1. \A a, b \in Seq(Item) :
          /\ a \o b \in Seq(Item) /\ Len(a \o b) = Len(a) + Len(b)
          /\ \A k \in 1 .. Len(a) : (a \o b)[k] = a[k]
          /\ \A k \in 1 .. Len(b) : (a \o b)[Len(a) + k] = b[k]
    OBVIOUS
  <2>2. head \in Seq(Item) /\ L \in Seq(Item)
    BY <1>4
  <2>3. /\ head \o L \in Seq(Item) /\ Len(head \o L) = Len(head) + Len(L)
        /\ \A k \in 1 .. Len(head) : (head \o L)[k] = head[k]
        /\ \A k \in 1 .. Len(L) : (head \o L)[Len(head) + k] = L[k]
    BY <2>1, <2>2
  <2> QED BY <1>5, <2>3
<1>7. \A k \in 1 .. Len(L) : k \in 1 .. Len(names) /\ names[k] \in Names
  BY <1>4
<1>8. Tiled(its)
  <2>1. ASSUME its # <<>> PROVE its[1].off = 0
    <3>1. CASE Len(head) = 1
      <4>1. its[1] = head[1] /\ 1 \in 1 .. Len(head)
        BY <1>6, <3>1
      <4> QED BY <4>1
    <3>2. CASE Len(head) = 0
      <4>1. Len(L) # 0 /\ 1 \in 1 .. Len(L) /\ L # <<>>
        BY <1>4, <1>5, <1>6, <2>1, <3>2
      <4>4. its[Len(head) + 1] = L[1] /\ Len(head) + 1 = 1
        BY <1>6, <3>2, <4>1
      <4>2. EndOf(head) = 0
        BY <1>1, <3>2 DEF EndOf
      <4>3. L[1].off = EndOf(head)
        BY <1>4, <4>1
      <4> QED BY <4>1, <4>2, <4>3, <4>4
    <3> QED BY <1>1, <3>1, <3>2
  <2>2. ASSUME NEW k \in 1 .. Len(its) - 1 PROVE its[k + 1].off = its[k].off + its[k].size
    <3>1. CASE k \in 1 .. Len(head)
      <4>1. k = 1 /\ Len(head) = 1 /\ its[1] = head[1]
        BY <1>1, <1>6, <3>1
      <4>2. 1 \in 1 .. Len(L) /\ its[Len(head) + 1] = L[1] /\ L # <<>>
        <5>1. PICK b \in Nat : b = Len(L)
          BY <1>4, Elements
        <5>2. Len(its) = 1 + b
          BY <1>6, <4>1, <5>1
        <5>3. 1 \in 1 .. (1 + b) - 1
          BY <2>2, <4>1, <5>2
        <5>4. 1 \in 1 .. Len(L)
          BY <5>1, <5>3
        <5>5. L # <<>>
          BY <5>4
        <5> QED BY <1>6, <5>4, <5>5
      <4> QED BY <1>2, <1>4, <4>1, <4>2
    <3>2. CASE k \notin 1 .. Len(head)
      <4>1. PICK i \in 1 .. Len(L) - 1 : k = Len(head) + i
        <5>2. PICK a \in Nat, b \in Nat : a = Len(head) /\ b = Len(L)
          BY <1>4
        <5>3. k \in 1 .. (a + b) - 1 /\ k \notin 1 .. a
          BY <1>6, <3>2, <5>2
        <5>4. k - a \in 1 .. b - 1 /\ k = a + (k - a)
          BY <5>3
        <5>1. k - Len(head) \in 1 .. Len(L) - 1 /\ k = Len(head) + (k - Len(head))
          BY <5>2, <5>4
        <5> QED BY <5>1
      <4>2. i \in 1 .. Len(L) /\ i + 1 \in 1 .. Len(L) /\ k + 1 = Len(head) + (i + 1)
        BY <1>1, <1>4, <4>1
      <4>3. its[k] = L[i] /\ its[k + 1] = L[i + 1]
        BY <1>6, <4>1, <4>2
      <4> QED BY <1>4, <4>1, <4>3
    <3> QED BY <3>1, <3>2
  <2> QED BY <2>1, <2>2 DEF Tiled
<1>9. ASSUME NEW k \in 1 .. Len(its)
      PROVE  \/ its[k].kind = "param" /\ its[k].n \in Names /\ its[k].inner = {}
             \/ k = 1 /\ its[k].kind = "owner" /\ its[k].n = "owner"
  <2>1. CASE k \in 1 .. Len(head)
    BY <1>1, <1>6, <2>1
  <2>2. CASE k \notin 1 .. Len(head)
    <3>1. k - Len(head) \in 1 .. Len(L) /\ Len(head) + (k - Len(head)) = k
      <4>1. PICK a \in Nat, b \in Nat : a = Len(head) /\ b = Len(L)
        BY <1>4, Elements
      <4>2. k \in 1 .. a + b /\ k \notin 1 .. a
        BY <1>6, <1>9, <2>2, <4>1
      <4>3. k - a \in 1 .. b /\ a + (k - a) = k
        BY <4>2
      <4> QED BY <4>1, <4>3
    <3>2. its[k] = L[k - Len(head)]
      BY <1>6, <3>1
    <3> QED BY <1>4, <1>7, <3>1, <3>2
  <2> QED BY <2>1, <2>2
<1>10. Fitted(its)
  BY <1>6, <1>8, <1>9 DEF Fitted
<1> QED BY <1>4, <1>6, <1>10 DEF Headed

-----------------------------------------------------------------------------
(* Pointing *)

\* An item of its holds n; where n lies in it.
Holder(its, n) == \E k \in 1 .. Len(its) : Holds(its[k], n)
Delta(item, n) == IF item.kind = "param" THEN 0 ELSE (CHOOSE r \in item.inner : r.n = n).delta

\* The item chosen for a name holds it, as a parameter or inside the owner.
LEMMA Chosen ==
  ASSUME NEW its, Fitted(its), NEW n \in Names, Holder(its, n)
  PROVE  \E i \in 1 .. Len(its) :
           /\ ItemOf(its, n) = its[i]
           /\ \/ its[i].kind = "param" /\ its[i].n = n /\ Delta(its[i], n) = 0
              \/ /\ i = 1 /\ its[i].kind = "owner"
                 /\ \E r \in its[i].inner : r.n = n /\ Delta(its[i], n) = r.delta /\ r.delta \in Nat
<1>1. its \in Seq(Item) /\ DOMAIN its = 1 .. Len(its)
  BY DEF Fitted
<1> DEFINE All == {its[k] : k \in DOMAIN its}
<1>2. \E item \in All : Holds(item, n)
  BY <1>1 DEF Holder
<1>3. ItemOf(its, n) \in All /\ Holds(ItemOf(its, n), n)
  <2> HIDE DEF All
  <2>1. \E x : x \in All /\ Holds(x, n)
    BY <1>2
  <2>2. ItemOf(its, n) = CHOOSE x \in All : Holds(x, n)
    BY Zenon DEF ItemOf, All
  <2> QED BY <1>2, <2>2
<1>4. PICK i \in 1 .. Len(its) : ItemOf(its, n) = its[i]
  BY <1>1, <1>3
<1>5. Holds(its[i], n)
  BY <1>3, <1>4
<1>6. CASE its[i].kind = "param" /\ its[i].n \in Names /\ its[i].inner = {}
  <2>1. its[i].n = n
    BY <1>5, <1>6 DEF Holds
  <2> QED BY <1>4, <1>6, <2>1 DEF Delta
<1>7. CASE i = 1 /\ its[i].kind = "owner" /\ its[i].n = "owner"
  <2>1. n # "owner"
    BY LayoutAssumption
  <2>2. \E r \in its[i].inner : r.n = n
    BY <1>5, <1>7, <2>1 DEF Holds
  <2>3. PICK r : r \in its[i].inner /\ r.n = n /\ r = CHOOSE q \in its[i].inner : q.n = n
    BY <2>2
  <2>4. Delta(its[i], n) = r.delta
    BY <1>7, <2>3 DEF Delta
  <2>5. its[i] \in Item
    BY <1>1
  <2>6. r \in [n : Names, delta : Nat]
    BY <2>3, <2>5, ItemFields
  <2>7. r.delta \in Nat
    BY <2>6
  <2> QED BY <1>4, <1>7, <2>3, <2>4, <2>7
<1> QED BY <1>4, <1>6, <1>7 DEF Fitted

\* Some item before the limit holds n; the place a name's item gives it.
Before(its, n, limit) == \E k \in 1 .. Len(its) : its[k].off < limit /\ Holds(its[k], n)
PlaceOf(its, n, s, size) ==
  LET item == ItemOf(its, n)
  IN At(s, item.off + Delta(item, n), IF item.kind = "param" THEN item.size ELSE size)

\* A tensor is where it is.
LEMMA Tensors ==
  /\ \A s \in Storages \cup {"nowhere"}, o, z \in Nat :
       /\ At(s, o, z) \in Tensor /\ At(s, o, z).in = s /\ At(s, o, z).off = o /\ At(s, o, z).size = z
  /\ \A t \in Tensor : /\ t.in \in Storages \cup {"nowhere"} /\ t.off \in Nat /\ t.size \in Nat
                       /\ t = At(t.in, t.off, t.size)
  /\ Nowhere \in Tensor /\ Nowhere = At("nowhere", 0, 0) /\ Nowhere.size = 0 /\ Nowhere.in = "nowhere"
  /\ "span" \in Storages /\ "slot" \in Storages /\ "owner" \in Storages /\ Names \subseteq Storages
  /\ \A n \in Names : n \notin {"span", "slot", "owner", "nowhere"}
BY LayoutAssumption DEF At, Tensor, Storages, Nowhere

\* A place: the item's, or one in the owner's.
PlacedIn(its, n, s, size) ==
  \E i \in 1 .. Len(its) :
     /\ ItemOf(its, n) = its[i] /\ its[i].off \in Nat /\ its[i].size \in Nat
     /\ \/ /\ its[i].kind = "param" /\ its[i].n = n /\ Delta(its[i], n) = 0
           /\ PlaceOf(its, n, s, size) = At(s, its[i].off, its[i].size)
        \/ /\ i = 1 /\ its[i].kind = "owner" /\ its[i].off = 0
           /\ \E r \in its[i].inner :
                /\ r.n = n /\ r.delta \in Nat /\ Delta(its[i], n) = r.delta
                /\ PlaceOf(its, n, s, size) = At(s, r.delta, size)

\* What Pointed gives a name that is held is such a place.
LEMMA PlaceIs ==
  ASSUME NEW its, Fitted(its), NEW n \in Names, Holder(its, n), NEW s \in Storages, NEW size \in Nat
  PROVE  /\ PlaceOf(its, n, s, size) \in Tensor /\ PlaceOf(its, n, s, size).in = s
         /\ PlacedIn(its, n, s, size)
<1>1. PICK i \in 1 .. Len(its) :
           /\ ItemOf(its, n) = its[i]
           /\ \/ its[i].kind = "param" /\ its[i].n = n /\ Delta(its[i], n) = 0
              \/ /\ i = 1 /\ its[i].kind = "owner"
                 /\ \E r \in its[i].inner : r.n = n /\ Delta(its[i], n) = r.delta /\ r.delta \in Nat
  BY Chosen
<1>2. its[i] \in Item /\ its # <<>>
  BY DEF Fitted
<1>3. its[i].off \in Nat /\ its[i].size \in Nat
  BY <1>2, ItemFields
<1>4. PlaceOf(its, n, s, size) = At(s, its[i].off + Delta(its[i], n), IF its[i].kind = "param" THEN its[i].size ELSE size)
  BY <1>1 DEF PlaceOf
<1>5. CASE its[i].kind = "param" /\ its[i].n = n /\ Delta(its[i], n) = 0
  <2>1. its[i].off + Delta(its[i], n) = its[i].off
    BY <1>3, <1>5
  <2>2. PlaceOf(its, n, s, size) = At(s, its[i].off, its[i].size)
    BY <1>4, <1>5, <2>1
  <2>3. PlaceOf(its, n, s, size) \in Tensor /\ PlaceOf(its, n, s, size).in = s
    BY <1>3, <2>2, Tensors
  <2> QED BY <1>1, <1>3, <1>5, <2>2, <2>3 DEF PlacedIn
<1>6. CASE i = 1 /\ its[i].kind = "owner"
  <2>1. PICK r \in its[i].inner : r.n = n /\ Delta(its[i], n) = r.delta /\ r.delta \in Nat
    BY <1>1, <1>6
  <2>2. its[i].off = 0
    BY <1>2, <1>6 DEF Fitted, Tiled
  <2>3. its[i].off + Delta(its[i], n) = r.delta
    BY <2>1, <2>2
  <2>4. PlaceOf(its, n, s, size) = At(s, r.delta, size)
    BY <1>4, <1>6, <2>3
  <2>5. PlaceOf(its, n, s, size) \in Tensor /\ PlaceOf(its, n, s, size).in = s
    BY <2>1, <2>4, Tensors
  <2> QED BY <1>1, <1>3, <1>6, <2>1, <2>2, <2>4, <2>5 DEF PlacedIn
<1> QED BY <1>1, <1>5, <1>6

\* _point: what is before the limit gets its place, the rest stays.
LEMMA PointedIs ==
  ASSUME NEW its, Fitted(its), NEW p \in [Names -> Tensor], NEW s \in Storages, NEW limit \in Nat,
         NEW q, q = Pointed(p, its, s, limit)
  PROVE  /\ q \in [Names -> Tensor]
         /\ \A n \in Names : q[n] = IF Before(its, n, limit) THEN PlaceOf(its, n, s, p[n].size) ELSE p[n]
         /\ \A n \in Names : Before(its, n, limit) => Holder(its, n)
         /\ limit > EndOf(its) => \A n \in Names : Before(its, n, limit) <=> Holder(its, n)
<1>1. its \in Seq(Item) /\ DOMAIN its = 1 .. Len(its)
  BY DEF Fitted
<1>2. \A n \in Names : Before(its, n, limit) => Holder(its, n)
  BY DEF Before, Holder
<1>3. ASSUME NEW n \in Names
      PROVE  /\ q[n] = IF Before(its, n, limit) THEN PlaceOf(its, n, s, p[n].size) ELSE p[n]
             /\ q[n] \in Tensor
  <2>1. q[n] = IF \E k \in 1 .. Len(its) : its[k].off < limit /\ Holds(its[k], n)
               THEN IF ItemOf(its, n).kind = "param" THEN At(s, ItemOf(its, n).off, ItemOf(its, n).size)
                    ELSE At(s, ItemOf(its, n).off + (CHOOSE r \in ItemOf(its, n).inner : r.n = n).delta, p[n].size)
               ELSE p[n]
    BY <1>1 DEF Pointed
  <2>2. CASE ~ Before(its, n, limit)
    BY <2>1, <2>2 DEF Before
  <2>3. CASE Before(its, n, limit)
    <3>1. Holder(its, n) /\ p[n] \in Tensor
      BY <1>2, <2>3
    <3>2. p[n].size \in Nat
      BY <3>1, Tensors
    <3>3. ItemOf(its, n).off \in Nat
      <4>1. PICK i \in 1 .. Len(its) : ItemOf(its, n) = its[i]
        BY <3>1, Chosen
      <4>2. its[i] \in Item
        BY <1>1
      <4> QED BY <4>1, <4>2, ItemFields
    <3>4. q[n] = PlaceOf(its, n, s, p[n].size)
      <4>1. CASE ItemOf(its, n).kind = "param"
        <5>1. ItemOf(its, n).off + 0 = ItemOf(its, n).off
          BY <3>3
        <5> QED BY <2>1, <2>3, <4>1, <5>1 DEF PlaceOf, Delta, Before
      <4>2. CASE ItemOf(its, n).kind # "param"
        BY <2>1, <2>3, <4>2 DEF PlaceOf, Delta, Before
      <4> QED BY <4>1, <4>2
    <3>5. PlaceOf(its, n, s, p[n].size) \in Tensor
      BY <3>1, <3>2, PlaceIs
    <3> QED BY <2>3, <3>4, <3>5
  <2> QED BY <2>2, <2>3
<1>4. ASSUME limit > EndOf(its), NEW n \in Names, Holder(its, n) PROVE Before(its, n, limit)
  <2>1. PICK k \in 1 .. Len(its) : Holds(its[k], n)
    BY <1>4 DEF Holder
  <2>2. its[k].off + its[k].size <= EndOf(its) /\ EndOf(its) \in Nat
    BY <1>1, Apart DEF Fitted
  <2>3. its[k].off \in Nat /\ its[k].size \in Nat
    <3>1. its[k] \in Item
      BY <1>1
    <3> QED BY <3>1, ItemFields
  <2>4. its[k].off < limit
    BY <1>4, <2>2, <2>3
  <2> QED BY <2>1, <2>4 DEF Before
<1>5. q \in [Names -> Tensor]
  <2>1. q = [n \in Names |-> q[n]]
    BY DEF Pointed
  <2> QED BY <1>3, <2>1
<1> QED BY <1>2, <1>3, <1>4, <1>5

-----------------------------------------------------------------------------
(* Memory *)

\* A stretch of memory: a sequence of whatever it holds.
Stretch(m) == m \in Seq(ToSet(m))

\* A sequence is a stretch, and so is what is listed unit by unit.
LEMMA StretchIs ==
  /\ \A m : Stretch(m) => Len(m) \in Nat /\ DOMAIN m = 1 .. Len(m)
  /\ \A T : \A m \in Seq(T) : Stretch(m)
  /\ \A n \in Nat : \A m : m = [k \in 1 .. n |-> m[k]] => Stretch(m) /\ Len(m) = n
<1>1. \A m : Stretch(m) => Len(m) \in Nat /\ DOMAIN m = 1 .. Len(m)
  BY DEF Stretch
<1>2. ASSUME NEW T, NEW m \in Seq(T) PROVE Stretch(m)
  <2>1. DOMAIN m = 1 .. Len(m) /\ Len(m) \in Nat
    OBVIOUS
  <2>2. \A k \in 1 .. Len(m) : m[k] \in ToSet(m)
    BY <2>1 DEF ToSet
  <2>3. m \in [1 .. Len(m) -> ToSet(m)]
    BY <2>1, <2>2
  <2> QED BY <2>1, <2>3 DEF Stretch
<1>3. ASSUME NEW n \in Nat, NEW m, m = [k \in 1 .. n |-> m[k]] PROVE Stretch(m) /\ Len(m) = n
  <2>1. DOMAIN m = 1 .. n
    BY <1>3
  <2>2. \A k \in 1 .. n : m[k] \in ToSet(m)
    BY <2>1 DEF ToSet
  <2> DEFINE V == ToSet(m)
  <2> HIDE DEF V
  <2>3. m \in [1 .. n -> V]
    BY <1>3, <2>2 DEF V
  <2>4. m \in Seq(V) /\ Len(m) = n
    BY <2>3
  <2> QED BY <2>4 DEF Stretch, V
<1> QED BY <1>1, <1>2, <1>3

\* A stretch with another over its beginning.
Overlaid(r, a, m) == Stretch(r) /\ Len(r) = Len(m) /\ \A k \in 1 .. Len(a) : r[k] = a[k]

\* A stretch put over the beginning of a longer one.
LEMMA PutOver ==
  ASSUME NEW a, Stretch(a), NEW m, Stretch(m), Len(a) <= Len(m),
         NEW r, r = a \o SubSeq(m, Len(a) + 1, Len(m))
  PROVE  Overlaid(r, a, m)
<1>1. PICK V : V = ToSet(a) \cup ToSet(m)
  OBVIOUS
<1>2. a \in Seq(V) /\ m \in Seq(V)
  <2>1. ASSUME NEW T, NEW x \in Seq(T), T \subseteq V PROVE x \in Seq(V)
    BY <2>1
  <2> QED BY <1>1, <2>1 DEF Stretch
<1>3. PICK i \in Nat, j \in Nat : i = Len(a) /\ j = Len(m)
  BY <1>2
<1>4. PICK b : b = SubSeq(m, i + 1, j)
  OBVIOUS
<1>5. b \in Seq(V) /\ Len(b) = j - i
  BY <1>2, <1>3, <1>4
<1>6. r = a \o b
  BY <1>3, <1>4
<1>7. r \in Seq(V) /\ Len(r) = Len(a) + Len(b) /\ \A k \in 1 .. Len(a) : r[k] = a[k]
  <2>1. \A x, y \in Seq(V) : x \o y \in Seq(V) /\ Len(x \o y) = Len(x) + Len(y)
    OBVIOUS
  <2>2. \A x, y \in Seq(V) : \A k \in 1 .. Len(x) : (x \o y)[k] = x[k]
    OBVIOUS
  <2>3. r \in Seq(V) /\ Len(r) = Len(a) + Len(b)
    BY <1>2, <1>5, <1>6, <2>1
  <2>4. \A k \in 1 .. Len(a) : r[k] = a[k]
    BY <1>2, <1>5, <1>6, <2>2
  <2> QED BY <2>3, <2>4
<1>8. Len(r) = Len(m)
  BY <1>3, <1>5, <1>7
<1> QED BY <1>7, <1>8, StretchIs DEF Overlaid

\* A part of a stretch, z units from the one behind i.
PartOf(r, m, i, z) ==
  Stretch(r) /\ Len(r) = z /\ r = [k \in 1 .. z |-> m[i + k]] /\ \A k \in 1 .. z : r[k] = m[i + k]

\* SubSeq takes such a part.
LEMMA Part ==
  ASSUME NEW m, Stretch(m), NEW i \in Nat, NEW z \in Nat, i + z <= Len(m),
         NEW r, r = SubSeq(m, i + 1, i + z)
  PROVE  PartOf(r, m, i, z)
<1>1. PICK V : m \in Seq(V)
  BY DEF Stretch
<1>2. Len(m) \in Nat
  BY <1>1
<1>3. r \in Seq(V) /\ Len(r) = z
  BY <1>1, <1>2
<1>4. ASSUME NEW k \in 1 .. z PROVE r[k] = m[i + k]
  <2>1. r[k] = m[(i + 1) + k - 1] /\ (i + 1) + k - 1 = i + k
    BY <1>1, <1>2, <1>3
  <2> QED BY <2>1
<1>5. r = [k \in 1 .. z |-> m[i + k]]
  <2>2. DOMAIN r = 1 .. z
    BY <1>3
  <2>3. \A T : \A x \in Seq(T) : x = [k \in DOMAIN x |-> x[k]]
    OBVIOUS
  <2>1. r = [k \in 1 .. z |-> r[k]]
    BY <1>3, <2>2, <2>3
  <2> QED BY <1>4, <2>1
<1>6. Stretch(r)
  BY <1>3, StretchIs
<1> QED BY <1>3, <1>4, <1>5, <1>6 DEF PartOf

\* What is copied item by item lies at the item's place.
LEMMA GatheredIs ==
  ASSUME NEW its \in Seq(Item), Tiled(its), NEW g, g = Gathered(its)
  PROVE  /\ Stretch(g) /\ Len(g) = EndOf(its)
         /\ \A i \in 1 .. Len(its) : \A j \in 1 .. its[i].size :
              its[i].off + j \in 1 .. EndOf(its) /\ g[its[i].off + j] = Unit(Source(its[i]), j)
<1>1. EndOf(its) \in Nat
  BY Apart
<1>2. g = [u \in 1 .. EndOf(its) |-> Unit(Source(Covering(its, u)), u - Covering(its, u).off)]
  BY DEF Gathered
<1>3. Stretch(g) /\ Len(g) = EndOf(its)
  <2>1. g = [u \in 1 .. EndOf(its) |-> g[u]]
    BY <1>2
  <2> QED BY <1>1, <2>1, StretchIs
<1>4. ASSUME NEW i \in 1 .. Len(its), NEW j \in 1 .. its[i].size
      PROVE  its[i].off + j \in 1 .. EndOf(its) /\ g[its[i].off + j] = Unit(Source(its[i]), j)
  <2>1. its[i].off + j \in 1 .. EndOf(its) /\ Covering(its, its[i].off + j) = its[i]
    BY Covers
  <2>2. its[i].off \in Nat /\ its[i].size \in Nat
    <3>1. its[i] \in Item
      OBVIOUS
    <3> QED BY <3>1, ItemFields
  <2>3. (its[i].off + j) - its[i].off = j
    BY <2>2
  <2> QED BY <1>2, <2>1, <2>3
<1> QED BY <1>3, <1>4

-----------------------------------------------------------------------------
(* The layout's invariant: what lies where, once the layer is pointed home *)

\* The parameters, the fused tensor and the memory as they are with every tensor in
\* a slot back in its span; after the load the mirror stands for the span.
HomeStorages == {"span", "owner"} \cup Names
Home(t) == IF t.in = "slot" THEN At("span", t.off, t.size) ELSE t
HomeParam == [n \in Names |-> Home(param[n])]
HomeOwner == Home(owner)
HomeMem == [s \in HomeStorages |-> IF s = "span" /\ phase \in {"decode", "prefill"} THEN mirror ELSE mem[s]]

\* The parameters that begin in the fused tensor.
LiesIn(t, o) == t # Nowhere /\ t.in = o.in /\ o.off <= t.off /\ t.off < o.off + o.size
InnerOf(p, o) == {n \in Names : o # Nowhere /\ LiesIn(p[n], o)}

\* A name's tensor has one of the name's sizes, lies in a storage of its own, the
\* span or the owner's, and holds what the loading last left.
Reads(t, n, m, v) ==
  /\ t.in \in {n, "span", "owner"} /\ t.size \in {Built[n], Repacked[n]} \ {0}
  /\ \A j \in 1 .. t.size : t.off + j \in 1 .. Len(m[t.in]) /\ m[t.in][t.off + j] = <<n, v[n], j>>

\* The fused tensor: none points to it before it is there; it fills its own storage
\* or has been taken into the span, where it is large and still holds parameters.
OwnerKept(p, o, m) ==
  IF o = Nowhere THEN \A n \in Names : p[n].in # "owner"
  ELSE /\ o.off = 0
       /\ \/ o.in = "owner" /\ o.size = Len(m["owner"])
          \/ o.in = "span" /\ o.size <= Len(m["span"]) /\ o.size >= MinUnits /\ InnerOf(p, o) # {}

\* Of a large fused tensor that is not lent no parameter is, and none is large.
OwnerApart(p, o, its) ==
  o.size >= MinUnits /\ (\A n \in InnerOf(p, o) : ~ Holder(its, n)) =>
    \A n \in InnerOf(p, o) : p[n].size < MinUnits \/ n \in SkipNames

Kept(p, o, m, v, its) ==
  /\ p \in [Names -> Tensor] /\ o \in Tensor /\ v \in [Names -> Nat] /\ Fitted(its)
  /\ \A s \in HomeStorages : Stretch(m[s])
  /\ \A n \in Names : p[n] # Nowhere => Reads(p[n], n, m, v)
  /\ \A n \in Names : p[n].in = "span" => Holder(its, n)
  /\ OwnerKept(p, o, m) /\ OwnerApart(p, o, its)
  /\ \A n \in InnerOf(p, o) : p[n].off + p[n].size <= o.size

\* Every large parameter lies in the layout.
LargeHeld(p, its) ==
  \A n \in Names : p[n] # Nowhere /\ p[n].size >= MinUnits /\ n \notin SkipNames => Holder(its, n)

\* Everything lies where the layout says, the idle parameters behind the others and
\* behind the owner.
Laid(p, o, its, act) ==
  /\ act \in 0 .. EndOf(its)
  /\ \A n \in Names : Holder(its, n) =>
       /\ p[n] = PlaceOf(its, n, "span", p[n].size)
       /\ ItemOf(its, n).kind = "owner" => Delta(ItemOf(its, n), n) + p[n].size <= ItemOf(its, n).size
  /\ \A n \in Names : ~ Holder(its, n) => p[n].in # "span"
  /\ IF its # <<>> /\ its[1].kind = "owner"
     THEN /\ its[1].size > 0 /\ its[1].size <= act /\ o = At("span", 0, its[1].size)
          /\ \A r \in its[1].inner : \A k \in 1 .. Len(its) : ~ (its[k].kind = "param" /\ its[k].n = r.n)
     ELSE o.in # "span"
  /\ \A k \in 1 .. Len(its) : its[k].kind = "param" =>
       /\ its[k].size > 0
       /\ IF its[k].n \in IdleNames THEN its[k].off >= act ELSE its[k].off + its[k].size <= act

\* A window: the slot has the mirror's active part, and is what lies before the idle.
Windowed ==
  /\ span = EndOf(items) /\ Len(mirror) = span /\ Stretch(mirror) /\ span <= slotSize
  /\ phase = "decode" => \A u \in 1 .. span : u \in 1 .. Len(mem["span"]) /\ mem["span"][u] = mirror[u]
  /\ phase = "prefill" => Len(mem["slot"]) = slotSize
  /\ entered => \A u \in 1 .. active : mem["slot"][u] = mirror[u]
  /\ \A n \in Names : param[n].in = "slot" <=> entered /\ Before(items, n, active)
  /\ owner.in = "slot" <=> entered /\ items # <<>> /\ items[1].kind = "owner"

LayoutTypes ==
  /\ phase \in {"off", "load", "decode", "prefill"}
  /\ param \in [Names -> Tensor] /\ owner \in Tensor
  /\ DOMAIN mem = Storages /\ \A s \in Storages : Stretch(mem[s])
  /\ span \in Nat /\ active \in 0 .. span /\ slotSize \in Nat
  /\ processed \in BOOLEAN /\ entered \in BOOLEAN /\ changes \in 0 .. MaxChanges

LayoutInv ==
  /\ LayoutTypes
  /\ Kept(HomeParam, HomeOwner, HomeMem, version, items)
  /\ phase \in {"off", "load"} /\ ~ processed => LargeHeld(HomeParam, items)
  /\ phase \in {"off", "load"} =>
       ~ entered /\ owner.in # "slot" /\ \A n \in Names : param[n].in # "slot"
  /\ phase \in {"decode", "prefill"} => Laid(HomeParam, HomeOwner, items, active) /\ Windowed
  /\ entered => phase = "prefill"

\* Every fused parameter lies in the fused tensor.
FusedIn(p, o) == o # Nowhere => \A k \in 1 .. Len(Fused) : Fused[k] \in InnerOf(p, o)

-----------------------------------------------------------------------------
(* A new layout *)

\* The names of Order that are in S.
LEMMA OnlyNames ==
  ASSUME NEW S
  PROVE  Only(Order, S) \in Seq(Names) /\ \A n : n \in ToSet(Only(Order, S)) <=> n \in S /\ n \in Names
<1>1. Order \in Seq(Names) /\ \A n : n \in ToSet(Order) <=> n \in Names
  BY LayoutAssumption DEF ToSet, Names
<1> QED BY <1>1, OnlyIs

\* _lent_names: the names some item holds.
LEMMA LentIs ==
  ASSUME Fitted(items)
  PROVE  /\ LentNames \in Seq(Names)
         /\ \A n \in Names : n \in ToSet(LentNames) <=> Holder(items, n)
         /\ \A n \in Names : InLayout(n) <=> Holder(items, n)
<1> DEFINE ss == [k \in DOMAIN items |->
                    IF items[k].kind = "param" THEN <<items[k].n>> ELSE InnerNames(items[k])]
<1>1. items \in Seq(Item) /\ DOMAIN items = 1 .. Len(items) /\ Len(items) \in Nat
  BY Elements DEF Fitted
<1>2. ASSUME NEW k \in 1 .. Len(items)
      PROVE  ss[k] \in Seq(Names) /\ \A n \in Names : n \in ToSet(ss[k]) <=> Holds(items[k], n)
  <2>1. CASE items[k].kind = "param" /\ items[k].n \in Names /\ items[k].inner = {}
    <3>1. ss[k] = <<items[k].n>>
      BY <1>1, <2>1
    <3>2. PICK m \in Names : m = items[k].n
      BY <2>1
    <3>3. <<m>> \in Seq(Names) /\ Len(<<m>>) = 1 /\ <<m>>[1] = m
      OBVIOUS
    <3>4. \A n : n \in ToSet(<<m>>) <=> \E i \in 1 .. 1 : <<m>>[i] = n
      BY <3>3, Elements
    <3>5. \A n : n \in ToSet(<<m>>) <=> n = m
      BY <3>3, <3>4
    <3> QED BY <2>1, <3>1, <3>2, <3>3, <3>5 DEF Holds
  <2>2. CASE k = 1 /\ items[k].kind = "owner" /\ items[k].n = "owner"
    <3>1. PICK S : S = {r.n : r \in items[k].inner}
      OBVIOUS
    <3>2. ss[k] = Only(Order, S)
      BY <1>1, <2>2, <3>1 DEF InnerNames
    <3>3. \A n \in Names : n \in S <=> Holds(items[k], n)
      BY <2>2, <3>1, LayoutAssumption DEF Holds
    <3>4. Only(Order, S) \in Seq(Names) /\ \A n : n \in ToSet(Only(Order, S)) <=> n \in S /\ n \in Names
      BY OnlyNames
    <3>5. ss[k] \in Seq(Names)
      BY <3>2, <3>4
    <3>6. ASSUME NEW n \in Names PROVE n \in ToSet(ss[k]) <=> Holds(items[k], n)
      BY <3>2, <3>3, <3>4, Zenon
    <3> QED BY <3>5, <3>6
  <2> QED BY <2>1, <2>2 DEF Fitted
<1>3. LentNames = FlattenSeq(ss)
  BY DEF LentNames
<1>4. DOMAIN ss = 1 .. Len(items)
  BY <1>1
<1> HIDE DEF ss
<1>5. ss \in Seq(Seq(Names))
  <2>1. ss = [k \in 1 .. Len(items) |-> ss[k]]
    BY <1>1 DEF ss
  <2>2. PICK Q : Q = Seq(Names)
    OBVIOUS
  <2>3. ss \in [1 .. Len(items) -> Q]
    BY <1>2, <2>1, <2>2
  <2>4. ss \in Seq(Q)
    BY <1>1, <2>3
  <2> QED BY <2>2, <2>4
<1>6. /\ LentNames \in Seq(Names)
      /\ \A x : x \in ToSet(LentNames) <=> \E k \in 1 .. Len(items) : x \in ToSet(ss[k])
  BY <1>3, <1>4, <1>5, Flattened
<1>7. ASSUME NEW n \in Names PROVE n \in ToSet(LentNames) <=> Holder(items, n)
  BY <1>2, <1>6 DEF Holder
<1>8. \A n \in Names : InLayout(n) <=> n \in ToSet(LentNames)
  BY DEF InLayout, ToSet
<1> QED BY <1>6, <1>7, <1>8

\* What a new layout places in the span: the fused tensor with its parameters when
\* it is found, and the other lent or large parameters that are there.
Taken(n) == \/ Found /\ n \in Inner
            \/ /\ n \in Placed
               /\ Holder(items, n) \/ (param[n].size >= MinUnits /\ n \notin SkipNames)

\* The names in the order of the new layout, the idle ones last.
LEMMA NamesIs ==
  ASSUME Fitted(items), param \in [Names -> Tensor]
  PROVE  /\ Live \in Seq(Names) /\ Idle \in Seq(Names)
         /\ \A k \in 1 .. Len(Live) : Live[k] \in Placed /\ Live[k] \notin IdleNames
         /\ \A k \in 1 .. Len(Idle) : Idle[k] \in Placed /\ Idle[k] \in IdleNames
         /\ \A n \in Placed : n \in ToSet(Live) \cup ToSet(Idle)
                              <=> Holder(items, n) \/ (param[n].size >= MinUnits /\ n \notin SkipNames)
<1>1. /\ LentNames \in Seq(Names)
      /\ \A n \in Names : n \in ToSet(LentNames) <=> Holder(items, n)
      /\ \A n \in Names : InLayout(n) <=> Holder(items, n)
  BY LentIs
<1>2. Anew \in Seq(Names)
      /\ \A n : n \in ToSet(Anew) <=> /\ n \in Names /\ ~ InLayout(n) /\ param[n] # Nowhere
                                      /\ param[n].size >= MinUnits /\ n \notin SkipNames
  <2>1. PICK S : S = {n \in Names : ~InLayout(n) /\ param[n] # Nowhere
                                  /\ param[n].size >= MinUnits /\ n \notin SkipNames}
    OBVIOUS
  <2>2. Anew = Only(Order, S)
    BY <2>1 DEF Anew
  <2> QED BY <2>1, <2>2, OnlyNames
<1>3. PICK all : all = LentNames \o Anew
  OBVIOUS
<1>4. all \in Seq(Names) /\ \A n : n \in ToSet(all) <=> n \in ToSet(LentNames) \/ n \in ToSet(Anew)
  BY <1>1, <1>2, <1>3, Joined
<1>5. /\ Live \in Seq(Names) /\ \A n : n \in ToSet(Live) <=> n \in Placed \ IdleNames /\ n \in ToSet(all)
      /\ Idle \in Seq(Names) /\ \A n : n \in ToSet(Idle) <=> n \in Placed \cap IdleNames /\ n \in ToSet(all)
  BY <1>3, <1>4, OnlyIs DEF Live, Idle
<1>6. ASSUME NEW k \in 1 .. Len(Live) PROVE Live[k] \in Placed /\ Live[k] \notin IdleNames
  BY <1>5, Elements
<1>7. ASSUME NEW k \in 1 .. Len(Idle) PROVE Idle[k] \in Placed /\ Idle[k] \in IdleNames
  BY <1>5, Elements
<1>8. ASSUME NEW n \in Placed
      PROVE  n \in ToSet(Live) \cup ToSet(Idle)
             <=> Holder(items, n) \/ (param[n].size >= MinUnits /\ n \notin SkipNames)
  <2>1. n \in Names /\ param[n] # Nowhere
    BY DEF Placed
  <2> QED BY <1>1, <1>2, <1>4, <1>5, <2>1
<1> QED BY <1>5, <1>6, <1>7, <1>8

\* The owner's item, when it is found.
InnerRecords == {[n |-> n, delta |-> param[n].off - owner.off] : n \in Inner}

\* OwnerItems is that item or nothing.
LEMMA HeadIs ==
  ASSUME param \in [Names -> Tensor], owner \in Tensor
  PROVE  /\ OwnerItems \in Seq(Item) /\ Len(OwnerItems) <= 1
         /\ Len(OwnerItems) = IF Found THEN 1 ELSE 0
         /\ \A k \in 1 .. Len(OwnerItems) :
              /\ OwnerItems[k].kind = "owner" /\ OwnerItems[k].n = "owner" /\ OwnerItems[k].off = 0
              /\ OwnerItems[k].size = owner.size /\ OwnerItems[k].inner = InnerRecords
<1>1. owner.size \in Nat /\ owner.off \in Nat
  BY Tensors
<1>2. InnerRecords \in SUBSET [n : Names, delta : Nat]
  <2>1. ASSUME NEW n \in Inner PROVE [n |-> n, delta |-> param[n].off - owner.off] \in [n : Names, delta : Nat]
    <3>1. n \in Names /\ owner.off <= param[n].off
      BY DEF Inner, IsIn
    <3>2. param[n].off \in Nat
      BY <3>1, Tensors
    <3>3. param[n].off - owner.off \in Nat
      BY <1>1, <3>1, <3>2
    <3> QED BY <3>1, <3>3
  <2> QED BY <2>1 DEF InnerRecords
<1>3. PICK item : item = OwnerItem(owner.size, InnerRecords)
  OBVIOUS
<1>4. /\ item \in Item /\ item.kind = "owner" /\ item.n = "owner" /\ item.off = 0
      /\ item.size = owner.size /\ item.inner = InnerRecords
  BY <1>1, <1>2, <1>3 DEF OwnerItem, Item
<1>5. OwnerItems = IF Found THEN <<item>> ELSE <<>>
  BY <1>3 DEF OwnerItems, InnerRecords
<1>6. CASE Found
  <2>1. <<item>> \in Seq(Item) /\ Len(<<item>>) = 1 /\ <<item>>[1] = item
    BY <1>4
  <2>2. \A k \in 1 .. Len(OwnerItems) : OwnerItems[k] = item
    BY <1>5, <1>6, <2>1
  <2> QED BY <1>4, <1>5, <1>6, <2>1, <2>2
<1>7. CASE ~ Found
  <2>1. OwnerItems = <<>> /\ <<>> \in Seq(Item) /\ Len(<<>>) = 0
    BY <1>5, <1>7
  <2> QED BY <1>7, <2>1
<1> QED BY <1>6, <1>7

\* The new layout: what it places, where the idle part begins.
LEMMA NewItemsIs ==
  ASSUME Fitted(items), param \in [Names -> Tensor], owner \in Tensor, NEW its, its = NewItems
  PROVE  /\ Fitted(its)
         /\ \A k \in 1 .. Len(its) : its[k].kind = "owner" =>
              Found /\ its[k].size = owner.size /\ its[k].inner = InnerRecords
         /\ Found => its # <<>> /\ its[1].kind = "owner" /\ 1 \in 1 .. Len(its)
         /\ \A k \in 1 .. Len(its) : its[k].kind = "param" =>
              its[k].n \in Placed /\ its[k].size = param[its[k].n].size
         /\ NewActive \in 0 .. EndOf(its)
         /\ \A k \in 1 .. Len(its) : its[k].kind = "param" =>
              IF its[k].n \in IdleNames THEN its[k].off >= NewActive
              ELSE its[k].off + its[k].size <= NewActive
         /\ Found => its[1].off + its[1].size <= NewActive
         /\ \A n \in Names : Holder(its, n) <=> Taken(n)
<1>1. /\ OwnerItems \in Seq(Item) /\ Len(OwnerItems) <= 1
      /\ Len(OwnerItems) = IF Found THEN 1 ELSE 0
      /\ \A k \in 1 .. Len(OwnerItems) :
           /\ OwnerItems[k].kind = "owner" /\ OwnerItems[k].n = "owner" /\ OwnerItems[k].off = 0
           /\ OwnerItems[k].size = owner.size /\ OwnerItems[k].inner = InnerRecords
  BY HeadIs
<1>2. /\ Live \in Seq(Names) /\ Idle \in Seq(Names)
      /\ \A k \in 1 .. Len(Live) : Live[k] \in Placed /\ Live[k] \notin IdleNames
      /\ \A k \in 1 .. Len(Idle) : Idle[k] \in Placed /\ Idle[k] \in IdleNames
      /\ \A n \in Placed : n \in ToSet(Live) \cup ToSet(Idle)
                           <=> Holder(items, n) \/ (param[n].size >= MinUnits /\ n \notin SkipNames)
  BY NamesIs
<1>3. PICK names : names = Live \o Idle
  OBVIOUS
<1>4. PICK h \in Nat, l \in Nat, i \in Nat : h = Len(OwnerItems) /\ l = Len(Live) /\ i = Len(Idle)
  <2>1. Len(OwnerItems) \in Nat
    BY <1>1, Elements
  <2>2. Len(Live) \in Nat /\ Len(Idle) \in Nat
    BY <1>2, Elements
  <2> QED BY <2>1, <2>2
<1>5. /\ names \in Seq(Names) /\ Len(names) = l + i
      /\ \A k \in 1 .. l : names[k] = Live[k]
      /\ \A k \in 1 .. i : names[l + k] = Idle[k]
  BY <1>2, <1>3, <1>4
<1>6. Sizes \in [Names -> Nat] /\ \A n \in Names : Sizes[n] = param[n].size
  BY Tensors DEF Sizes
<1>7. its = OwnerItems \o Lay(names, Sizes, EndOf(OwnerItems))
  BY <1>3 DEF NewItems
<1>8. /\ Fitted(its) /\ Len(its) = h + (l + i)
      /\ \A k \in 1 .. h : its[k] = OwnerItems[k]
      /\ \A k \in 1 .. l + i :
              LET item == its[h + k]
              IN item.kind = "param" /\ item.n = names[k] /\ item.inner = {} /\ item.size = Sizes[names[k]]
  <2>1. PICK head, sizes : head = OwnerItems /\ sizes = Sizes
    OBVIOUS
  <2>2. /\ head \in Seq(Item) /\ Len(head) <= 1
        /\ \A k \in 1 .. Len(head) : head[k].kind = "owner" /\ head[k].n = "owner" /\ head[k].off = 0
        /\ sizes \in [Names -> Nat] /\ its = head \o Lay(names, sizes, EndOf(head))
    BY <1>1, <1>6, <1>7, <2>1
  <2>3. /\ Fitted(its) /\ Len(its) = Len(head) + Len(names)
        /\ \A k \in 1 .. Len(head) : its[k] = head[k]
        /\ \A k \in 1 .. Len(names) :
              LET item == its[Len(head) + k]
              IN item.kind = "param" /\ item.n = names[k] /\ item.inner = {} /\ item.size = sizes[names[k]]
    <3>1. Headed(its, head, names, sizes)
      BY <1>5, <2>2, LaidOut
    <3> QED BY <3>1 DEF Headed
  <2> QED BY <1>4, <1>5, <2>1, <2>3
<1>9. \A k \in 1 .. h + (l + i) : k \in 1 .. h \/ \E j \in 1 .. l + i : k = h + j
  <2> SUFFICES ASSUME NEW k \in 1 .. h + (l + i), k \notin 1 .. h PROVE \E j \in 1 .. l + i : k = h + j
    OBVIOUS
  <2>1. k - h \in 1 .. l + i /\ k = h + (k - h)
    OBVIOUS
  <2> QED BY <2>1
<1>10. \A k \in 1 .. l + i : k \in 1 .. l \/ \E j \in 1 .. i : k = l + j
  <2> SUFFICES ASSUME NEW k \in 1 .. l + i, k \notin 1 .. l PROVE \E j \in 1 .. i : k = l + j
    OBVIOUS
  <2>1. k - l \in 1 .. i /\ k = l + (k - l)
    OBVIOUS
  <2> QED BY <2>1
<1>11. ASSUME NEW k \in 1 .. Len(its), its[k].kind = "owner"
       PROVE  k \in 1 .. h /\ Found /\ its[k].size = owner.size /\ its[k].inner = InnerRecords
  <2>1. k \in 1 .. h
    BY <1>8, <1>9, <1>11
  <2>2. Found
    BY <1>1, <1>4, <2>1
  <2> QED BY <1>1, <1>4, <1>8, <2>1, <2>2
<1>12. Found => its # <<>> /\ its[1].kind = "owner" /\ 1 \in 1 .. Len(its)
  <2> SUFFICES ASSUME Found PROVE its # <<>> /\ its[1].kind = "owner" /\ 1 \in 1 .. Len(its)
    OBVIOUS
  <2>1. h = 1
    BY <1>1, <1>4
  <2>2. its[1].kind = "owner" /\ 1 \in 1 .. Len(its)
    BY <1>1, <1>4, <1>8, <2>1
  <2>3. Len(<<>>) = 0
    OBVIOUS
  <2> QED BY <2>2, <2>3
<1>13. \A k \in 1 .. l + i : names[k] \in Placed
  BY <1>2, <1>4, <1>5, <1>10
<1>14. ASSUME NEW k \in 1 .. Len(its), its[k].kind = "param"
       PROVE  /\ \E j \in 1 .. l + i : k = h + j /\ its[k].n = names[j]
              /\ its[k].n \in Placed /\ its[k].size = param[its[k].n].size
  <2>1. k \notin 1 .. h
    BY <1>1, <1>4, <1>8, <1>14
  <2>2. PICK j \in 1 .. l + i : k = h + j
    BY <1>8, <1>9, <2>1
  <2>3. its[k].n = names[j] /\ its[k].size = Sizes[names[j]]
    BY <1>8, <2>2
  <2>4. names[j] \in Placed /\ names[j] \in Names
    BY <1>13 DEF Placed
  <2> QED BY <1>6, <2>2, <2>3, <2>4
<1>15. /\ EndOf(its) \in Nat
       /\ \A k, j \in 1 .. Len(its) : k < j => its[k].off + its[k].size <= its[j].off
       /\ \A k \in 1 .. Len(its) : its[k].off + its[k].size <= EndOf(its)
  BY <1>8, Apart DEF Fitted
<1>16. \A k \in 1 .. Len(its) : its[k].off \in Nat /\ its[k].size \in Nat
  BY <1>8, ItemFields DEF Fitted
<1>17. NewActive = IF Idle = <<>> THEN EndOf(its) ELSE its[Len(its) - Len(Idle) + 1].off
  BY DEF NewActive
<1>18. (Idle = <<>>) <=> i = 0
  BY <1>2, <1>4, Empty
<1> DEFINE first == h + l + 1
<1>19. i # 0 => first \in 1 .. Len(its) /\ NewActive = its[first].off
  <2>1. Len(its) - Len(Idle) + 1 = first
    BY <1>4, <1>8
  <2>2. i # 0 => first \in 1 .. Len(its)
    BY <1>8
  <2> QED BY <1>17, <1>18, <2>1, <2>2
<1>20. i = 0 => NewActive = EndOf(its)
  BY <1>17, <1>18
<1>21. NewActive \in 0 .. EndOf(its)
  <2>1. CASE i = 0
    BY <1>15, <1>20, <2>1
  <2>2. CASE i # 0
    <3>1. PICK a \in Nat, b \in Nat : a = its[first].off /\ b = its[first].size
      BY <1>16, <1>19, <2>2
    <3>2. a + b <= EndOf(its)
      BY <1>15, <1>19, <2>2, <3>1
    <3> QED BY <1>15, <1>19, <2>2, <3>1, <3>2
  <2> QED BY <2>1, <2>2
<1>22. ASSUME NEW k \in 1 .. h + l, k \in 1 .. Len(its)
       PROVE  its[k].off + its[k].size <= NewActive
  <2>1. CASE i = 0
    BY <1>15, <1>20, <1>22, <2>1
  <2>2. CASE i # 0
    <3>1. k < first
      OBVIOUS
    <3> QED BY <1>15, <1>19, <1>22, <2>2, <3>1
  <2> QED BY <2>1, <2>2
<1>23. ASSUME NEW j \in 1 .. i, NEW k \in 1 .. Len(its), k = h + (l + j)
       PROVE  its[k].off >= NewActive
  <2>1. i # 0 /\ (k = first \/ first < k)
    BY <1>23
  <2>2. PICK a \in Nat, b \in Nat, c \in Nat : a = its[first].off /\ b = its[first].size /\ c = its[k].off
    BY <1>16, <1>19, <2>1
  <2>3. CASE k = first
    BY <1>19, <2>1, <2>2, <2>3
  <2>4. CASE first < k
    <3>1. a + b <= c
      BY <1>15, <1>19, <2>1, <2>2, <2>4
    <3> QED BY <1>19, <2>1, <2>2, <3>1
  <2> QED BY <2>1, <2>3, <2>4
<1>24. ASSUME NEW k \in 1 .. Len(its), its[k].kind = "param"
       PROVE  IF its[k].n \in IdleNames THEN its[k].off >= NewActive
              ELSE its[k].off + its[k].size <= NewActive
  <2>1. PICK j \in 1 .. l + i : k = h + j /\ its[k].n = names[j]
    BY <1>14, <1>24
  <2>2. CASE j \in 1 .. l
    <3>1. its[k].n \notin IdleNames
      BY <1>2, <1>4, <1>5, <2>1, <2>2
    <3>2. k \in 1 .. h + l
      BY <2>1, <2>2
    <3> QED BY <1>22, <3>1, <3>2
  <2>3. CASE \E q \in 1 .. i : j = l + q
    <3>1. PICK q \in 1 .. i : j = l + q
      BY <2>3
    <3>2. its[k].n \in IdleNames
      BY <1>2, <1>4, <1>5, <2>1, <3>1
    <3> QED BY <1>23, <2>1, <3>1, <3>2
  <2> QED BY <1>10, <2>2, <2>3
<1>25. Found => its[1].off + its[1].size <= NewActive
  <2>1. Found => 1 \in 1 .. h + l /\ 1 \in 1 .. Len(its)
    BY <1>1, <1>4, <1>12
  <2> QED BY <1>22, <2>1
<1>26. ASSUME NEW n \in Names, Holder(its, n) PROVE Taken(n)
  <2>1. PICK k \in 1 .. Len(its) : Holds(its[k], n)
    BY <1>26 DEF Holder
  <2>2. CASE k \in 1 .. h
    <3>1. its[k].n = "owner" /\ its[k].inner = InnerRecords /\ Found
      BY <1>1, <1>4, <1>8, <2>2
    <3>2. \E r \in InnerRecords : r.n = n
      BY <2>1, <3>1, LayoutAssumption DEF Holds
    <3>3. n \in Inner
      BY <3>2 DEF InnerRecords
    <3> QED BY <3>1, <3>3 DEF Taken
  <2>3. CASE \E j \in 1 .. l + i : k = h + j
    <3>1. PICK j \in 1 .. l + i : k = h + j
      BY <2>3
    <3>2. its[k].n = names[j] /\ its[k].inner = {}
      BY <1>8, <3>1
    <3>3. names[j] = n /\ n \in Placed
      BY <1>13, <2>1, <3>2 DEF Holds
    <3>4. n \in ToSet(Live) \cup ToSet(Idle)
      <4>1. CASE j \in 1 .. l
        BY <1>2, <1>4, <1>5, <3>3, <4>1, Elements
      <4>2. CASE \E q \in 1 .. i : j = l + q
        BY <1>2, <1>4, <1>5, <3>3, <4>2, Elements
      <4> QED BY <1>10, <4>1, <4>2
    <3> QED BY <1>2, <3>3, <3>4 DEF Taken
  <2> QED BY <1>8, <1>9, <2>2, <2>3
<1>27. ASSUME NEW n \in Names, Taken(n) PROVE Holder(its, n)
  <2>1. CASE Found /\ n \in Inner
    <3>1. its[1].inner = InnerRecords /\ 1 \in 1 .. Len(its)
      BY <1>11, <1>12, <2>1
    <3>2. \E r \in InnerRecords : r.n = n
      <4>1. PICK r : r = [n |-> n, delta |-> param[n].off - owner.off]
        OBVIOUS
      <4>2. r \in InnerRecords /\ r.n = n
        BY <2>1, <4>1 DEF InnerRecords
      <4> QED BY <4>2
    <3> QED BY <3>1, <3>2 DEF Holder, Holds
  <2>2. CASE n \in Placed /\ (Holder(items, n) \/ (param[n].size >= MinUnits /\ n \notin SkipNames))
    <3>1. n \in ToSet(Live) \/ n \in ToSet(Idle)
      BY <1>2, <2>2
    <3>2. \E j \in 1 .. l + i : names[j] = n
      <4>1. CASE n \in ToSet(Live)
        <5>1. PICK j \in 1 .. l : Live[j] = n
          BY <1>2, <1>4, <4>1, Elements
        <5>2. j \in 1 .. l + i
          OBVIOUS
        <5> QED BY <1>5, <5>1, <5>2
      <4>2. CASE n \in ToSet(Idle)
        <5>1. PICK j \in 1 .. i : Idle[j] = n
          BY <1>2, <1>4, <4>2, Elements
        <5>2. l + j \in 1 .. l + i
          OBVIOUS
        <5> QED BY <1>5, <5>1, <5>2
      <4> QED BY <3>1, <4>1, <4>2
    <3>3. PICK j \in 1 .. l + i : names[j] = n
      BY <3>2
    <3>4. h + j \in 1 .. Len(its) /\ its[h + j].n = n
      BY <1>8, <3>3
    <3> QED BY <3>4 DEF Holder, Holds
  <2> QED BY <1>27, <2>1, <2>2 DEF Taken
<1> QED BY <1>8, <1>11, <1>12, <1>14, <1>21, <1>24, <1>25, <1>26, <1>27

\* Where a new layout leaves what it holds and what it does not.
Moved(p, o, its) ==
  /\ \A n \in Names : Holder(its, n) =>
       \/ \E i \in 1 .. Len(its) :
            /\ its[i].kind = "param" /\ its[i].n = n /\ its[i].size = param[n].size
            /\ n \in Placed /\ ItemOf(its, n) = its[i]
            /\ p[n] = At("span", its[i].off, its[i].size)
       \/ /\ Found /\ n \in Inner /\ its[1].kind = "owner" /\ ItemOf(its, n) = its[1]
          /\ Delta(its[1], n) = param[n].off
          /\ p[n] = At("span", param[n].off, param[n].size)
  /\ \A n \in Names : ~ Holder(its, n) => p[n] = param[n] /\ param[n].in # "span"
  /\ Found => o = At("span", 0, owner.size)
  /\ ~ Found => o = owner /\ owner.in # "span"

\* Pointing everything to the new layout leaves it so.
LEMMA MovedIs ==
  ASSUME NEW m, Kept(param, owner, m, version, items),
         NEW its, its = NewItems,
         NEW p, p = Pointed(param, its, "span", EndOf(its) + 1),
         NEW o, o = IF \E k \in DOMAIN its : its[k].kind = "owner" /\ its[k].off < EndOf(its) + 1
                    THEN At("span", 0, its[1].size) ELSE owner
  PROVE  /\ p \in [Names -> Tensor] /\ o \in Tensor
         /\ Moved(p, o, its)
<1>1. /\ param \in [Names -> Tensor] /\ owner \in Tensor /\ Fitted(items)
      /\ \A n \in Names : param[n].in = "span" => Holder(items, n)
      /\ OwnerKept(param, owner, m)
  BY DEF Kept
<1>2. /\ Fitted(its)
      /\ \A k \in 1 .. Len(its) : its[k].kind = "owner" =>
           Found /\ its[k].size = owner.size /\ its[k].inner = InnerRecords
      /\ Found => its # <<>> /\ its[1].kind = "owner" /\ 1 \in 1 .. Len(its)
      /\ \A k \in 1 .. Len(its) : its[k].kind = "param" =>
           its[k].n \in Placed /\ its[k].size = param[its[k].n].size
      /\ \A n \in Names : Holder(its, n) <=> Taken(n)
  BY <1>1, NewItemsIs
<1>3. its \in Seq(Item) /\ Tiled(its) /\ DOMAIN its = 1 .. Len(its)
  BY <1>2 DEF Fitted
<1>4. EndOf(its) \in Nat /\ \A i \in 1 .. Len(its) : its[i].off + its[i].size <= EndOf(its)
  BY <1>3, Apart
<1>5. \A i \in 1 .. Len(its) : its[i].off \in Nat /\ its[i].size \in Nat
  BY <1>3, ItemFields
<1>6. /\ p \in [Names -> Tensor]
      /\ \A n \in Names : p[n] = IF Holder(its, n) THEN PlaceOf(its, n, "span", param[n].size) ELSE param[n]
  <2>1. PICK limit \in Nat : limit = EndOf(its) + 1
    BY <1>4
  <2>2. "span" \in Storages
    BY Tensors
  <2>3. /\ p \in [Names -> Tensor]
        /\ \A n \in Names : p[n] = IF Before(its, n, limit) THEN PlaceOf(its, n, "span", param[n].size) ELSE param[n]
        /\ limit > EndOf(its) => \A n \in Names : Before(its, n, limit) <=> Holder(its, n)
    BY <1>1, <1>2, <2>1, <2>2, PointedIs
  <2>4. limit > EndOf(its)
    BY <1>4, <2>1
  <2> QED BY <2>3, <2>4
<1>7. \A n \in Inner : owner # Nowhere /\ owner.off = 0 /\ param[n] # Nowhere /\ param[n].in = owner.in
  BY <1>1 DEF Inner, IsIn, OwnerKept
<1>8. ASSUME NEW n \in Names, Holder(its, n)
      PROVE  \/ \E i \in 1 .. Len(its) :
                  /\ its[i].kind = "param" /\ its[i].n = n /\ its[i].size = param[n].size
                  /\ n \in Placed /\ ItemOf(its, n) = its[i]
                  /\ p[n] = At("span", its[i].off, its[i].size)
             \/ /\ Found /\ n \in Inner /\ its[1].kind = "owner" /\ ItemOf(its, n) = its[1]
                /\ Delta(its[1], n) = param[n].off
                /\ p[n] = At("span", param[n].off, param[n].size)
  <2>1. param[n].size \in Nat /\ "span" \in Storages /\ param[n].off \in Nat
    BY <1>1, Tensors
  <2>2. PICK i \in 1 .. Len(its) :
           /\ ItemOf(its, n) = its[i] /\ its[i].off \in Nat /\ its[i].size \in Nat
           /\ \/ /\ its[i].kind = "param" /\ its[i].n = n /\ Delta(its[i], n) = 0
                 /\ PlaceOf(its, n, "span", param[n].size) = At("span", its[i].off, its[i].size)
              \/ /\ i = 1 /\ its[i].kind = "owner" /\ its[i].off = 0
                 /\ \E r \in its[i].inner :
                      /\ r.n = n /\ r.delta \in Nat /\ Delta(its[i], n) = r.delta
                      /\ PlaceOf(its, n, "span", param[n].size) = At("span", r.delta, param[n].size)
    <3>1. PlacedIn(its, n, "span", param[n].size)
      BY <1>2, <1>8, <2>1, PlaceIs
    <3> QED BY <3>1 DEF PlacedIn
  <2>3. CASE its[i].kind = "param" /\ its[i].n = n
             /\ PlaceOf(its, n, "span", param[n].size) = At("span", its[i].off, its[i].size)
    BY <1>2, <1>6, <1>8, <2>2, <2>3
  <2>4. CASE /\ i = 1 /\ its[i].kind = "owner"
             /\ \E r \in its[i].inner :
                      /\ r.n = n /\ r.delta \in Nat /\ Delta(its[i], n) = r.delta
                      /\ PlaceOf(its, n, "span", param[n].size) = At("span", r.delta, param[n].size)
    <3>1. PICK r \in its[i].inner :
                      /\ r.n = n /\ r.delta \in Nat /\ Delta(its[i], n) = r.delta
                      /\ PlaceOf(its, n, "span", param[n].size) = At("span", r.delta, param[n].size)
      BY <2>4
    <3>2. Found /\ r \in InnerRecords
      BY <1>2, <2>4, <3>1
    <3>3. n \in Inner /\ r.delta = param[n].off - owner.off
      BY <3>1, <3>2 DEF InnerRecords
    <3>4. r.delta = param[n].off
      BY <1>7, <2>1, <3>3
    <3> QED BY <1>6, <1>8, <2>2, <2>4, <3>1, <3>2, <3>3, <3>4
  <2> QED BY <2>2, <2>3, <2>4
<1>9. ASSUME NEW n \in Names, ~ Holder(its, n) PROVE p[n] = param[n] /\ param[n].in # "span"
  <2>1. p[n] = param[n] /\ ~ Taken(n)
    BY <1>2, <1>6, <1>9
  <2>2. param[n].in = "span" => param[n] # Nowhere /\ Holder(items, n)
    BY <1>1, Tensors
  <2> QED BY <2>1, <2>2 DEF Taken, Placed
<1>10. CASE Found
  <2>1. /\ its[1].kind = "owner" /\ 1 \in 1 .. Len(its) /\ its[1].size = owner.size
    BY <1>2, <1>10
  <2>2. its[1].off < EndOf(its) + 1
    <3>1. PICK a \in Nat, b \in Nat, e \in Nat : a = its[1].off /\ b = its[1].size /\ e = EndOf(its)
      BY <1>4, <1>5, <2>1
    <3>2. a + b <= e
      BY <1>4, <2>1, <3>1
    <3> QED BY <3>1, <3>2
  <2>3. o = At("span", 0, owner.size)
    BY <1>3, <2>1, <2>2
  <2>4. o \in Tensor
    BY <1>1, <2>3, Tensors
  <2> QED BY <1>6, <1>8, <1>9, <1>10, <2>3, <2>4 DEF Moved
<1>11. CASE ~ Found
  <2>1. o = owner
    BY <1>2, <1>3, <1>11
  <2>2. owner.in # "span"
    <3> SUFFICES ASSUME owner.in = "span" PROVE FALSE
      OBVIOUS
    <3>1. owner # Nowhere
      BY Tensors
    <3>2. owner.size >= MinUnits /\ InnerOf(param, owner) # {}
      BY <1>1, <3>1 DEF OwnerKept
    <3>3. PICK n \in InnerOf(param, owner) : TRUE
      BY <3>2
    <3>4. n \in Inner /\ n \in Names /\ param[n].in = "span"
      BY <3>1, <3>3 DEF InnerOf, LiesIn, Inner, IsIn
    <3>5. Holder(items, n)
      BY <1>1, <3>4
    <3>6. InLayout(n)
      BY <1>1, <3>4, <3>5, LentIs
    <3> QED BY <1>11, <3>2, <3>4, <3>6 DEF Found
  <2> QED BY <1>1, <1>6, <1>8, <1>9, <1>11, <2>1, <2>2 DEF Moved
<1> QED BY <1>10, <1>11

\* The names that are in the owner.
LEMMA InnerIs ==
  Inner = InnerOf(param, owner)
BY Zenon DEF Inner, IsIn, InnerOf, LiesIn

\* What is known of a tensor that is kept under a name.
OwnReads(t, n, m, v) ==
  /\ t \in Tensor /\ t.off \in Nat /\ t.size \in Nat /\ t.size # 0
  /\ t.in \in {n, "span", "owner"} /\ t.in \in HomeStorages
  /\ t.size \in {Built[n], Repacked[n]} \ {0}
  /\ \A j \in 1 .. t.size : t.off + j \in 1 .. Len(m[t.in])
  /\ \A j \in 1 .. t.size : m[t.in][t.off + j] = <<n, v[n], j>>
\* A tensor of a kept layer, unit by unit.
LEMMA KeptReads ==
  ASSUME NEW p, NEW o, NEW m, NEW v, NEW its, Kept(p, o, m, v, its), NEW n \in Names, p[n] # Nowhere
  PROVE  OwnReads(p[n], n, m, v)
<1>1. p[n] \in Tensor /\ Reads(p[n], n, m, v)
  BY DEF Kept
<1>2. p[n].off \in Nat /\ p[n].size \in Nat
  BY <1>1, Tensors
<1>3. /\ p[n].in \in {n, "span", "owner"}
      /\ p[n].size \in {Built[n], Repacked[n]} \ {0}
      /\ \A j \in 1 .. p[n].size : p[n].off + j \in 1 .. Len(m[p[n].in]) /\ m[p[n].in][p[n].off + j] = <<n, v[n], j>>
  BY <1>1 DEF Reads
<1>4. p[n].in \in HomeStorages
  BY <1>3 DEF HomeStorages
<1> QED BY <1>1, <1>2, <1>3, <1>4 DEF OwnReads

\* The span as a new layout leaves it, and what is in the other storages.
Copied(m, its) ==
  /\ \A s \in HomeStorages : Stretch(m[s])
  /\ \A s \in HomeStorages \ {"span"} : m[s] = mem[s]
  /\ EndOf(its) <= Len(m["span"])
  /\ \A u \in 1 .. EndOf(its) : m["span"][u] = Gathered(its)[u]

\* A new layout reads what the old one read.
LEMMA MovedReads ==
  ASSUME NEW h, Kept(param, owner, h, version, items), \A s \in HomeStorages : h[s] = mem[s],
         NEW its, its = NewItems,
         NEW p, NEW o, Moved(p, o, its), NEW m, Copied(m, its),
         NEW n \in Names, p[n] # Nowhere
  PROVE  Reads(p[n], n, m, version) /\ param[n] # Nowhere /\ p[n].size = param[n].size
<1>1. /\ param \in [Names -> Tensor] /\ owner \in Tensor /\ Fitted(items) /\ OwnerKept(param, owner, h)
      /\ \A q \in InnerOf(param, owner) : param[q].off + param[q].size <= owner.size
  BY DEF Kept
<1>2. Fitted(its) /\ \A k \in 1 .. Len(its) : its[k].kind = "owner" => its[k].size = owner.size
  BY <1>1, NewItemsIs
<1>3. its \in Seq(Item) /\ Tiled(its)
  BY <1>2 DEF Fitted
<1>4. \A i \in 1 .. Len(its) : its[i].off \in Nat /\ its[i].size \in Nat
  BY <1>3, ItemFields
<1>5. PICK g : g = Gathered(its)
  OBVIOUS
<1>6. \A i \in 1 .. Len(its) : \A j \in 1 .. its[i].size :
        its[i].off + j \in 1 .. EndOf(its) /\ g[its[i].off + j] = Unit(Source(its[i]), j)
  BY <1>3, <1>5, GatheredIs
<1>7. \A i \in 1 .. Len(its) : \A j \in 1 .. its[i].size :
        its[i].off + j \in 1 .. EndOf(its) /\ m["span"][its[i].off + j] = Unit(Source(its[i]), j)
  BY <1>5, <1>6 DEF Copied
<1>8. EndOf(its) \in Nat /\ Len(m["span"]) \in Nat /\ EndOf(its) <= Len(m["span"])
  <2>1. Stretch(m["span"]) /\ EndOf(its) <= Len(m["span"])
    BY DEF Copied, HomeStorages
  <2> QED BY <1>3, <2>1, Apart, StretchIs
<1>9. CASE ~ Holder(its, n)
  <2>1. p[n] = param[n] /\ param[n].in # "span"
    BY <1>9 DEF Moved
  <2>2. Reads(param[n], n, h, version) /\ param[n].in \in HomeStorages
    <3>1. OwnReads(param[n], n, h, version)
      BY <1>9, <2>1, KeptReads
    <3> QED BY <2>1, <3>1 DEF OwnReads, Kept
  <2>3. m[param[n].in] = h[param[n].in]
    BY <2>1, <2>2 DEF Copied
  <2> QED BY <2>1, <2>2, <2>3 DEF Reads
<1>10. CASE Holder(its, n)
  <2>1. CASE \E i \in 1 .. Len(its) :
            /\ its[i].kind = "param" /\ its[i].n = n /\ its[i].size = param[n].size
            /\ n \in Placed /\ ItemOf(its, n) = its[i]
            /\ p[n] = At("span", its[i].off, its[i].size)
    <3>1. PICK i \in 1 .. Len(its) :
            /\ its[i].kind = "param" /\ its[i].n = n /\ its[i].size = param[n].size
            /\ n \in Placed /\ ItemOf(its, n) = its[i]
            /\ p[n] = At("span", its[i].off, its[i].size)
      BY <2>1
    <3>2. param[n] # Nowhere
      BY <3>1 DEF Placed
    <3>3. /\ param[n].size \in {Built[n], Repacked[n]} \ {0} /\ param[n].in \in HomeStorages
          /\ \A j \in 1 .. param[n].size : h[param[n].in][param[n].off + j] = <<n, version[n], j>>
      <4>1. OwnReads(param[n], n, h, version)
        BY <3>2, KeptReads
      <4> QED BY <4>1 DEF OwnReads
    <3>4. p[n].in = "span" /\ p[n].off = its[i].off /\ p[n].size = its[i].size
      BY <3>1 DEF At
    <3>5. ASSUME NEW j \in 1 .. p[n].size
          PROVE  p[n].off + j \in 1 .. Len(m["span"]) /\ m["span"][p[n].off + j] = <<n, version[n], j>>
      <4>1. its[i].off + j \in 1 .. EndOf(its) /\ m["span"][its[i].off + j] = Unit(Source(its[i]), j)
        BY <1>7, <3>4
      <4>2. Unit(Source(its[i]), j) = h[param[n].in][param[n].off + j]
        BY <3>1, <3>3 DEF Unit, Source
      <4>3. its[i].off + j \in 1 .. Len(m["span"])
        BY <1>8, <4>1
      <4>4. p[n].off + j = its[i].off + j /\ p[n].size = param[n].size
        BY <3>1, <3>4
      <4>5. h[param[n].in][param[n].off + j] = <<n, version[n], j>>
        BY <3>3, <4>4
      <4>6. m["span"][p[n].off + j] = <<n, version[n], j>>
        BY <4>1, <4>2, <4>4, <4>5, Zenon
      <4> QED BY <4>3, <4>4, <4>6, Zenon
    <3>6. p[n].size = param[n].size
      BY <3>1, <3>4
    <3>7. Reads(p[n], n, m, version)
      BY <3>3, <3>4, <3>5, <3>6 DEF Reads
    <3> QED BY <3>2, <3>6, <3>7
  <2>2. CASE /\ Found /\ n \in Inner /\ its[1].kind = "owner" /\ ItemOf(its, n) = its[1]
             /\ Delta(its[1], n) = param[n].off
             /\ p[n] = At("span", param[n].off, param[n].size)
    <3>1. /\ param[n] # Nowhere /\ owner # Nowhere /\ param[n].in = owner.in
          /\ n \in InnerOf(param, owner)
      BY <2>2, InnerIs DEF InnerOf, LiesIn
    <3>2. /\ param[n].size \in {Built[n], Repacked[n]} \ {0} /\ param[n].in \in HomeStorages
          /\ param[n].off \in Nat /\ param[n].size \in Nat
          /\ \A j \in 1 .. param[n].size : h[param[n].in][param[n].off + j] = <<n, version[n], j>>
      <4>1. OwnReads(param[n], n, h, version)
        BY <3>1, KeptReads
      <4> QED BY <4>1 DEF OwnReads
    <3>3. p[n].in = "span" /\ p[n].off = param[n].off /\ p[n].size = param[n].size
      BY <2>2 DEF At
    <3>4. owner.off = 0 /\ owner.size \in Nat /\ param[n].off + param[n].size <= owner.size
      BY <1>1, <3>1, Tensors DEF OwnerKept
    <3>5. 1 \in 1 .. Len(its) /\ its[1].off = 0 /\ its[1].size = owner.size
      <4>1. 1 \in 1 .. Len(its) /\ its # <<>>
        BY <1>1, <2>2, NewItemsIs
      <4> QED BY <1>2, <1>3, <2>2, <4>1 DEF Tiled
    <3>6. ASSUME NEW j \in 1 .. p[n].size
          PROVE  p[n].off + j \in 1 .. Len(m["span"]) /\ m["span"][p[n].off + j] = <<n, version[n], j>>
      <4>1. PICK u : u = param[n].off + j
        OBVIOUS
      <4>2. u \in 1 .. its[1].size /\ its[1].off + u = u /\ owner.off + u = u
        <5>1. PICK a \in Nat, b \in Nat, c \in Nat : a = param[n].off /\ b = param[n].size /\ c = owner.size
          BY <3>2, <3>4
        <5>2. u = a + j /\ j \in 1 .. b /\ a + b <= c
          BY <3>3, <3>4, <4>1, <5>1
        <5>3. u \in 1 .. c /\ 0 + u = u
          BY <5>2
        <5> QED BY <3>4, <3>5, <5>1, <5>3
      <4>3. u \in 1 .. EndOf(its) /\ m["span"][u] = Unit(Source(its[1]), u)
        BY <1>7, <3>5, <4>2
      <4>4. Unit(Source(its[1]), u) = h[param[n].in][param[n].off + j]
        BY <2>2, <3>1, <3>2, <4>1, <4>2 DEF Unit, Source
      <4>5. u \in 1 .. Len(m["span"])
        BY <1>8, <4>3
      <4> QED BY <3>2, <3>3, <4>1, <4>3, <4>4, <4>5
    <3> QED BY <3>1, <3>2, <3>3, <3>6 DEF Reads
  <2> QED BY <1>10, <2>1, <2>2 DEF Moved
<1> QED BY <1>9, <1>10

\* What a new layout leaves: a layer that reads what it did, with everything large
\* in the span, where the layout says; a large fused tensor keeps its parameters.
NewlyLaid(p, o, m, its) ==
  /\ Kept(p, o, m, version, its) /\ LargeHeld(p, its) /\ Laid(p, o, its, NewActive)
  /\ owner.size >= MinUnits /\ FusedIn(param, owner) => FusedIn(p, o)
  /\ o.size = owner.size /\ (o = Nowhere <=> owner = Nowhere)

\* _relayout leaves a kept layer so.
LEMMA Laying ==
  ASSUME NEW h, Kept(param, owner, h, version, items), \A s \in HomeStorages : h[s] = mem[s],
         NEW its, its = NewItems,
         NEW p, p \in [Names -> Tensor], NEW o, o \in Tensor, Moved(p, o, its),
         NEW m, Copied(m, its)
  PROVE  NewlyLaid(p, o, m, its)
<1>1. /\ param \in [Names -> Tensor] /\ owner \in Tensor /\ Fitted(items)
      /\ OwnerKept(param, owner, h) /\ OwnerApart(param, owner, items)
      /\ \A q \in InnerOf(param, owner) : param[q].off + param[q].size <= owner.size
      /\ \A n \in Names : param[n] # Nowhere => Reads(param[n], n, h, version)
      /\ version \in [Names -> Nat]
  BY DEF Kept
<1>2. /\ Fitted(its)
      /\ \A k \in 1 .. Len(its) : its[k].kind = "owner" =>
           Found /\ its[k].size = owner.size /\ its[k].inner = InnerRecords
      /\ Found => its # <<>> /\ its[1].kind = "owner" /\ 1 \in 1 .. Len(its)
      /\ \A k \in 1 .. Len(its) : its[k].kind = "param" =>
           its[k].n \in Placed /\ its[k].size = param[its[k].n].size
      /\ NewActive \in 0 .. EndOf(its)
      /\ \A k \in 1 .. Len(its) : its[k].kind = "param" =>
           IF its[k].n \in IdleNames THEN its[k].off >= NewActive
           ELSE its[k].off + its[k].size <= NewActive
      /\ Found => its[1].off + its[1].size <= NewActive
      /\ \A n \in Names : Holder(its, n) <=> Taken(n)
  BY <1>1, NewItemsIs
<1>3. its \in Seq(Item) /\ Tiled(its) /\ (its # <<>> => 1 \in 1 .. Len(its) /\ its[1].off = 0)
  BY <1>2, Empty DEF Fitted, Tiled
<1>4. \A i \in 1 .. Len(its) : its[i].off \in Nat /\ its[i].size \in Nat
  BY <1>3, ItemFields
<1>5. /\ EndOf(its) \in Nat
      /\ \A i, j \in 1 .. Len(its) : i < j => its[i].off + its[i].size <= its[j].off
      /\ \A i \in 1 .. Len(its) : its[i].off + its[i].size <= EndOf(its)
  BY <1>3, Apart
<1>6. \A n \in Names : p[n] # Nowhere => Reads(p[n], n, m, version) /\ param[n] # Nowhere /\ p[n].size = param[n].size
  BY MovedReads
<1>7. owner.size \in Nat /\ owner.off \in Nat /\ MinUnits \in Nat \ {0}
      /\ \A n \in Names : param[n].off \in Nat /\ param[n].size \in Nat
  BY <1>1, Tensors, LayoutAssumption
<1>8. \A n \in Names : ~ Holder(its, n) => p[n] = param[n] /\ param[n].in # "span"
  BY DEF Moved
<1>9. ASSUME NEW n \in Names, Holder(its, n)
      PROVE  /\ p[n].in = "span" /\ p[n].size = param[n].size
             /\ p[n] = PlaceOf(its, n, "span", p[n].size)
             /\ Found /\ n \in Inner => p[n].off = param[n].off
             /\ ItemOf(its, n).kind = "owner" =>
                  Found /\ n \in Inner /\ ItemOf(its, n) = its[1] /\ Delta(its[1], n) = param[n].off
             /\ Found => (n \in Inner \/ p[n].off >= owner.size)
  <2>1. "span" \in Storages
    BY Tensors
  <2>2. PICK q : q = PlaceOf(its, n, "span", param[n].size)
    OBVIOUS
  <2>3. CASE \E i \in 1 .. Len(its) :
            /\ its[i].kind = "param" /\ its[i].n = n /\ its[i].size = param[n].size
            /\ n \in Placed /\ ItemOf(its, n) = its[i]
            /\ p[n] = At("span", its[i].off, its[i].size)
    <3>1. PICK i \in 1 .. Len(its) :
            /\ its[i].kind = "param" /\ its[i].n = n /\ its[i].size = param[n].size
            /\ n \in Placed /\ ItemOf(its, n) = its[i]
            /\ p[n] = At("span", its[i].off, its[i].size)
      BY <2>3
    <3>2. p[n].in = "span" /\ p[n].size = param[n].size /\ p[n].off = its[i].off
      BY <3>1 DEF At
    <3>3. p[n] = PlaceOf(its, n, "span", p[n].size)
      <4>1. its[i].off + 0 = its[i].off
        BY <1>4
      <4> QED BY <3>1, <4>1 DEF PlaceOf, Delta
    <3>4. ~ (Found /\ n \in Inner)
      BY <3>1 DEF Placed
    <3>5. ASSUME Found PROVE p[n].off >= owner.size
      <4>1. its[1].kind = "owner" /\ 1 \in 1 .. Len(its) /\ its[1].size = owner.size /\ its[1].off = 0
        BY <1>2, <1>3, <3>5
      <4>2. 1 < i
        BY <3>1, <4>1
      <4>3. its[1].off + its[1].size <= its[i].off
        BY <1>5, <4>1, <4>2
      <4> QED BY <1>4, <1>7, <3>2, <4>1, <4>3
    <3> QED BY <3>1, <3>2, <3>3, <3>4, <3>5
  <2>4. CASE /\ Found /\ n \in Inner /\ its[1].kind = "owner" /\ ItemOf(its, n) = its[1]
             /\ Delta(its[1], n) = param[n].off
             /\ p[n] = At("span", param[n].off, param[n].size)
    <3>1. p[n].in = "span" /\ p[n].size = param[n].size /\ p[n].off = param[n].off
      BY <2>4 DEF At
    <3>2. 0 + param[n].off = param[n].off /\ its[1].off = 0
      BY <1>2, <1>3, <1>7, <2>4
    <3>3. p[n] = PlaceOf(its, n, "span", p[n].size)
      BY <2>4, <3>1, <3>2 DEF PlaceOf
    <3> QED BY <2>4, <3>1, <3>3
  <2> QED BY <1>9, <2>3, <2>4 DEF Moved
<1>10. \A n \in Inner : n \in Names /\ param[n] # Nowhere /\ owner # Nowhere /\ param[n].in = owner.in
                        /\ owner.off <= param[n].off /\ param[n].off < owner.off + owner.size
  BY DEF Inner, IsIn
<1>11. owner # Nowhere => owner.off = 0
  BY <1>1 DEF OwnerKept
<1>12. Found => Inner # {} /\ owner.size >= MinUnits /\ owner # Nowhere
  BY <1>7, <1>10 DEF Found
<1>13. ASSUME Found
       PROVE  /\ o = At("span", 0, owner.size) /\ o # Nowhere /\ o.in = "span" /\ o.off = 0 /\ o.size = owner.size
              /\ Inner = InnerOf(p, o)
              /\ \A n \in Inner : Holder(its, n)
  <2>1. o = At("span", 0, owner.size) /\ o.in = "span" /\ o.off = 0 /\ o.size = owner.size
    BY <1>13 DEF Moved, At
  <2>2. o # Nowhere
    BY <2>1, Tensors
  <2>3. \A n \in Inner : Holder(its, n)
    BY <1>2, <1>10, <1>13 DEF Taken
  <2>4. ASSUME NEW n \in Inner PROVE n \in InnerOf(p, o)
    <3>1. n \in Names /\ Holder(its, n) /\ param[n].off < owner.size /\ 0 <= param[n].off
      BY <1>7, <1>10, <1>11, <2>3
    <3>2. p[n].in = "span" /\ p[n].off = param[n].off
      BY <1>9, <1>13, <3>1
    <3>3. p[n] # Nowhere /\ o.off + o.size = owner.size
      BY <1>7, <2>1, <3>2, Tensors
    <3> QED BY <2>1, <2>2, <3>1, <3>2, <3>3 DEF InnerOf, LiesIn
  <2>5. ASSUME NEW n \in InnerOf(p, o) PROVE n \in Inner
    <3>1. n \in Names /\ p[n].in = "span" /\ p[n].off < 0 + owner.size
      BY <2>1 DEF InnerOf, LiesIn
    <3>2. Holder(its, n)
      BY <1>8, <3>1
    <3>3. p[n].off \in Nat
      BY <3>1, Tensors
    <3> QED BY <1>7, <1>9, <1>13, <3>1, <3>2, <3>3
  <2> QED BY <2>1, <2>2, <2>3, <2>4, <2>5
<1>14. ASSUME ~ Found
       PROVE  /\ o = owner /\ owner.in # "span"
              /\ \A n \in InnerOf(p, o) : n \in Inner /\ n \in Names /\ ~ Holder(its, n) /\ p[n] = param[n]
              /\ \A n \in Inner : ~ Holder(its, n) => n \in InnerOf(p, o)
  <2>1. o = owner /\ owner.in # "span"
    BY <1>14 DEF Moved
  <2>2. ASSUME NEW n \in InnerOf(p, o) PROVE n \in Inner /\ n \in Names /\ ~ Holder(its, n) /\ p[n] = param[n]
    <3>1. n \in Names /\ p[n].in = owner.in
      BY <2>1 DEF InnerOf, LiesIn
    <3>2. ~ Holder(its, n)
      BY <1>9, <2>1, <3>1
    <3>3. p[n] = param[n]
      BY <1>8, <3>1, <3>2
    <3> QED BY <2>1, <3>1, <3>2, <3>3 DEF InnerOf, LiesIn, Inner, IsIn
  <2>3. ASSUME NEW n \in Inner, ~ Holder(its, n) PROVE n \in InnerOf(p, o)
    <3>1. p[n] = param[n]
      BY <1>8, <1>10, <2>3
    <3> QED BY <1>10, <2>1, <3>1 DEF InnerOf, LiesIn
  <2> QED BY <2>1, <2>2, <2>3
<1>15. LargeHeld(p, its)
  <2> SUFFICES ASSUME NEW n \in Names, p[n] # Nowhere, p[n].size >= MinUnits, n \notin SkipNames, ~ Holder(its, n)
               PROVE  FALSE
    BY DEF LargeHeld
  <2>1. p[n] = param[n] /\ ~ Taken(n)
    BY <1>2, <1>8
  <2> QED BY <2>1 DEF Taken, Placed
<1>16. OwnerKept(p, o, m)
  <2>1. CASE Found
    <3>1. o.size <= Len(m["span"])
      <4>1. 1 \in 1 .. Len(its) /\ its[1].off = 0 /\ its[1].size = owner.size
        BY <1>2, <1>3, <2>1
      <4>2. 0 + owner.size <= EndOf(its)
        BY <1>5, <4>1
      <4>3. EndOf(its) <= Len(m["span"]) /\ Len(m["span"]) \in Nat
        BY StretchIs DEF Copied, HomeStorages
      <4> QED BY <1>5, <1>7, <1>13, <2>1, <4>2, <4>3
    <3> QED BY <1>12, <1>13, <2>1, <3>1 DEF OwnerKept
  <2>2. CASE ~ Found /\ owner = Nowhere
    <3>1. o = Nowhere /\ \A n \in Names : param[n].in # "owner"
      BY <1>1, <1>14, <2>2 DEF OwnerKept
    <3>2. ASSUME NEW n \in Names PROVE p[n].in # "owner"
      BY <1>8, <1>9, <3>1
    <3> QED BY <3>1, <3>2 DEF OwnerKept
  <2>3. CASE ~ Found /\ owner # Nowhere
    <3>1. o = owner /\ owner.in = "owner" /\ owner.size = Len(h["owner"]) /\ owner.off = 0
      BY <1>1, <1>14, <2>3 DEF OwnerKept
    <3>2. m["owner"] = h["owner"]
      BY DEF Copied, HomeStorages
    <3> QED BY <2>3, <3>1, <3>2 DEF OwnerKept
  <2> QED BY <2>1, <2>2, <2>3
<1>17. OwnerApart(p, o, its)
  <2> SUFFICES ASSUME \A n \in InnerOf(p, o) : ~ Holder(its, n), NEW n \in InnerOf(p, o)
               PROVE  p[n].size < MinUnits \/ n \in SkipNames
    BY DEF OwnerApart
  <2>1. ~ Found
    BY <1>13
  <2>2. n \in Inner /\ n \in Names /\ ~ Holder(its, n) /\ p[n] = param[n]
    BY <1>14, <2>1
  <2>3. param[n] # Nowhere /\ ~ Taken(n)
    BY <1>2, <1>10, <2>2
  <2> QED BY <1>7, <2>1, <2>2, <2>3 DEF Taken, Placed
<1>18. \A n \in InnerOf(p, o) : p[n].off + p[n].size <= o.size
  <2> SUFFICES ASSUME NEW n \in InnerOf(p, o) PROVE p[n].off + p[n].size <= o.size
    OBVIOUS
  <2>1. CASE Found
    <3>1. n \in Inner /\ n \in Names /\ Holder(its, n) /\ n \in InnerOf(param, owner)
      BY <1>10, <1>13, <2>1, InnerIs
    <3>2. p[n].off = param[n].off /\ p[n].size = param[n].size /\ o.size = owner.size
      BY <1>9, <1>13, <2>1, <3>1
    <3> QED BY <1>1, <3>1, <3>2
  <2>2. CASE ~ Found
    BY <1>1, <1>14, <2>2, InnerIs
  <2> QED BY <2>1, <2>2
<1>19. \A n \in Names : p[n].in = "span" => Holder(its, n)
  BY <1>8
<1>20. Kept(p, o, m, version, its)
  BY <1>1, <1>2, <1>6, <1>16, <1>17, <1>18, <1>19 DEF Kept, Copied
<1>21. Laid(p, o, its, NewActive)
  <2>1. ASSUME NEW n \in Names, Holder(its, n), ItemOf(its, n).kind = "owner"
        PROVE  Delta(ItemOf(its, n), n) + p[n].size <= ItemOf(its, n).size
    <3>1. /\ Found /\ n \in Inner /\ ItemOf(its, n) = its[1] /\ Delta(its[1], n) = param[n].off
          /\ p[n].size = param[n].size /\ its[1].kind = "owner"
      BY <1>9, <2>1
    <3>2. its[1].size = owner.size /\ n \in InnerOf(param, owner)
      BY <1>2, <3>1, InnerIs
    <3> QED BY <1>1, <3>1, <3>2
  <2>2. IF its # <<>> /\ its[1].kind = "owner"
        THEN /\ its[1].size > 0 /\ its[1].size <= NewActive /\ o = At("span", 0, its[1].size)
             /\ \A r \in its[1].inner : \A k \in 1 .. Len(its) : ~ (its[k].kind = "param" /\ its[k].n = r.n)
        ELSE o.in # "span"
    <3>1. CASE its # <<>> /\ its[1].kind = "owner"
      <4>1. 1 \in 1 .. Len(its) /\ its[1].off = 0 /\ its[1].size \in Nat
        BY <1>3, <1>4, <3>1
      <4>2. Found /\ its[1].size = owner.size /\ its[1].inner = InnerRecords
        BY <1>2, <3>1, <4>1
      <4>3. owner.size > 0
        BY <1>7, <1>12, <4>2
      <4>4. its[1].off + its[1].size = its[1].size
        BY <4>1
      <4>5. its[1].size <= NewActive
        BY <1>2, <4>2, <4>4
      <4>6. ASSUME NEW r \in its[1].inner, NEW k \in 1 .. Len(its), its[k].kind = "param", its[k].n = r.n PROVE FALSE
        <5>1. r.n \in Inner
          BY <4>2 DEF InnerRecords
        <5>2. r.n \in Placed
          BY <1>2, <4>6
        <5> QED BY <4>2, <5>1, <5>2 DEF Placed
      <4> QED BY <1>13, <3>1, <4>2, <4>3, <4>5, <4>6
    <3>2. CASE ~ (its # <<>> /\ its[1].kind = "owner")
      <4>1. ~ Found
        BY <1>2, <3>2
      <4> QED BY <1>14, <3>2, <4>1
    <3> QED BY <3>1, <3>2
  <2>3. ASSUME NEW k \in 1 .. Len(its), its[k].kind = "param" PROVE its[k].size > 0
    <3>1. its[k].n \in Placed /\ its[k].size = param[its[k].n].size
      BY <1>2, <2>3
    <3>2. PICK n \in Names : n = its[k].n /\ param[n] # Nowhere
      BY <3>1 DEF Placed
    <3>3. param[n].size # 0
      BY <1>1, <3>2 DEF Reads
    <3> QED BY <1>7, <3>1, <3>2, <3>3
  <2>4. \A n \in Names : Holder(its, n) => p[n] = PlaceOf(its, n, "span", p[n].size)
    BY <1>9
  <2>5. \A n \in Names : ~ Holder(its, n) => p[n].in # "span"
    BY <1>8
  <2>6. ASSUME NEW k \in 1 .. Len(its), its[k].kind = "param"
        PROVE  /\ its[k].size > 0
               /\ IF its[k].n \in IdleNames THEN its[k].off >= NewActive ELSE its[k].off + its[k].size <= NewActive
    BY <1>2, <2>3, <2>6
  <2>7. NewActive \in 0 .. EndOf(its)
    BY <1>2
  <2> QED BY <2>1, <2>2, <2>4, <2>5, <2>6, <2>7 DEF Laid
<1>22. ASSUME owner.size >= MinUnits, FusedIn(param, owner) PROVE FusedIn(p, o)
  <2> SUFFICES ASSUME o # Nowhere, NEW k \in 1 .. Len(Fused) PROVE Fused[k] \in InnerOf(p, o)
    BY DEF FusedIn
  <2>1. CASE Found
    <3>1. Fused[k] \in InnerOf(param, owner)
      BY <1>12, <1>22, <2>1 DEF FusedIn
    <3> QED BY <1>13, <2>1, <3>1, InnerIs
  <2>2. CASE ~ Found
    <3>1. owner # Nowhere
      BY <1>14, <2>2
    <3>2. Fused[k] \in Inner /\ Fused[k] \in InnerOf(param, owner)
      BY <1>22, <3>1, InnerIs DEF FusedIn
    <3>3. PICK n \in Names : n = Fused[k]
      BY <1>10, <3>2
    <3>4. \A q \in Inner : ~ Holder(items, q)
      BY <1>1, <1>10, <1>22, <2>2, LentIs DEF Found
    <3>5. param[n].size < MinUnits \/ n \in SkipNames
      BY <1>1, <1>22, <3>2, <3>3, <3>4, InnerIs DEF OwnerApart
    <3>6. ~ Taken(n)
      BY <1>7, <2>2, <3>2, <3>3, <3>4, <3>5 DEF Taken
    <3>7. ~ Holder(its, n)
      BY <1>2, <3>6
    <3> QED BY <1>14, <2>2, <3>2, <3>3, <3>7
  <2> QED BY <2>1, <2>2
<1>23. o.size = owner.size /\ (o = Nowhere <=> owner = Nowhere)
  <2>1. CASE Found
    BY <1>12, <1>13, <2>1
  <2>2. CASE ~ Found
    BY <1>14, <2>2
  <2> QED BY <2>1, <2>2
<1> QED BY <1>15, <1>20, <1>21, <1>22, <1>23 DEF NewlyLaid

-----------------------------------------------------------------------------
(* Loading *)

\* What is not in a slot is at home.
LEMMA AtHome ==
  /\ \A t \in Tensor : Home(t) \in Tensor /\ Home(t).off = t.off /\ Home(t).size = t.size /\ Home(t).in # "slot"
  /\ \A t \in Tensor : t.in # "slot" => Home(t) = t
  /\ \A t \in Tensor : t.in = "slot" => Home(t).in = "span"
  /\ \A t \in Tensor : Home(t) = Nowhere <=> t = Nowhere
  /\ \A p \in [Names -> Tensor] : (\A n \in Names : p[n].in # "slot") => [n \in Names |-> Home(p[n])] = p
<1>1. ASSUME NEW t \in Tensor
      PROVE  /\ Home(t) \in Tensor /\ Home(t).off = t.off /\ Home(t).size = t.size /\ Home(t).in # "slot"
             /\ t.in # "slot" => Home(t) = t
             /\ t.in = "slot" => Home(t).in = "span"
             /\ Home(t) = Nowhere <=> t = Nowhere
  <2>1. CASE t.in # "slot"
    BY <2>1, Tensors DEF Home
  <2>2. CASE t.in = "slot"
    <3>1. t.off \in Nat /\ t.size \in Nat /\ Home(t) = At("span", t.off, t.size)
      BY <2>2, Tensors DEF Home
    <3>2. Home(t) \in Tensor /\ Home(t).in = "span" /\ Home(t).off = t.off /\ Home(t).size = t.size
      BY <3>1, Tensors
    <3>3. Home(t) # Nowhere /\ t # Nowhere
      BY <2>2, <3>2, Tensors
    <3> QED BY <2>2, <3>2, <3>3
  <2> QED BY <2>1, <2>2
<1>2. ASSUME NEW p \in [Names -> Tensor], \A n \in Names : p[n].in # "slot"
      PROVE  [n \in Names |-> Home(p[n])] = p
  <2>1. \A n \in Names : Home(p[n]) = p[n]
    BY <1>1, <1>2
  <2> QED BY <2>1
<1> QED BY <1>1, <1>2

\* While a server loads everything is at home, and reads what is in memory.
LEMMA Loads ==
  ASSUME LayoutInv, phase \in {"off", "load"}
  PROVE  /\ HomeParam = param /\ HomeOwner = owner
         /\ HomeMem = [s \in HomeStorages |-> mem[s]]
         /\ Kept(param, owner, HomeMem, version, items)
<1>1. /\ param \in [Names -> Tensor] /\ owner \in Tensor
      /\ owner.in # "slot" /\ \A n \in Names : param[n].in # "slot"
      /\ Kept(HomeParam, HomeOwner, HomeMem, version, items)
  BY DEF LayoutInv, LayoutTypes
<1>2. HomeParam = param /\ HomeOwner = owner
  BY <1>1, AtHome DEF HomeParam, HomeOwner
<1>3. HomeMem = [s \in HomeStorages |-> mem[s]]
  BY DEF HomeMem
<1> QED BY <1>1, <1>2, <1>3

\* ... and what is kept that way is the invariant.
LEMMA LoadsInv ==
  ASSUME LayoutTypes, phase \in {"off", "load"}, entered = FALSE,
         owner.in # "slot", \A n \in Names : param[n].in # "slot",
         Kept(param, owner, [s \in HomeStorages |-> mem[s]], version, items),
         ~ processed => LargeHeld(param, items)
  PROVE  LayoutInv
<1>1. param \in [Names -> Tensor] /\ owner \in Tensor
  BY DEF LayoutTypes
<1>2. HomeParam = param /\ HomeOwner = owner
  BY <1>1, AtHome DEF HomeParam, HomeOwner
<1>3. HomeMem = [s \in HomeStorages |-> mem[s]]
  BY DEF HomeMem
<1> QED BY <1>2, <1>3 DEF LayoutInv

\* The same after a step.
LEMMA LoadsInvNext ==
  ASSUME LayoutTypes', phase' \in {"off", "load"}, entered' = FALSE,
         owner'.in # "slot", \A n \in Names : param'[n].in # "slot",
         Kept(param', owner', [s \in HomeStorages |-> mem'[s]], version', items'),
         ~ processed' => LargeHeld(param', items')
  PROVE  LayoutInv'
<1>1. PICK p, o : p = param' /\ o = owner'
  OBVIOUS
<1>2. p \in [Names -> Tensor] /\ o \in Tensor
  BY <1>1 DEF LayoutTypes
<1>3. [n \in Names |-> Home(p[n])] = p /\ Home(o) = o
  BY <1>1, <1>2, AtHome
<1>4. HomeParam' = param' /\ HomeOwner' = owner'
  BY <1>1, <1>3 DEF HomeParam, HomeOwner
<1>5. HomeMem' = [s \in HomeStorages |-> mem'[s]]
  BY DEF HomeMem
<1> QED BY <1>4, <1>5 DEF LayoutInv

\* A new layout of a layer that loads; m2 is any memory that has the span's items.
LEMMA Relaid ==
  ASSUME LayoutInv, phase = "load", Relayout
  PROVE  /\ items' = NewItems /\ EndOf(NewItems) \in Nat /\ NewActive \in 0 .. EndOf(NewItems)
         /\ span' = EndOf(NewItems) /\ active' = NewActive
         /\ param' \in [Names -> Tensor] /\ owner' \in Tensor
         /\ owner'.in # "slot" /\ \A n \in Names : param'[n].in # "slot"
         /\ DOMAIN mem' = Storages /\ \A s \in Storages : Stretch(mem'[s])
         /\ Copied([s \in HomeStorages |-> mem'[s]], NewItems)
         /\ \A m2 : Copied(m2, NewItems) => NewlyLaid(param', owner', m2, NewItems)
<1>1. /\ HomeMem = [s \in HomeStorages |-> mem[s]]
      /\ Kept(param, owner, HomeMem, version, items)
      /\ param \in [Names -> Tensor] /\ owner \in Tensor /\ Fitted(items)
      /\ owner.in # "slot" /\ \A n \in Names : param[n].in # "slot"
      /\ DOMAIN mem = Storages /\ \A s \in Storages : Stretch(mem[s])
  BY Loads DEF LayoutInv, LayoutTypes, Kept
<1>2. PICK its, p, o, h : its = NewItems /\ p = param' /\ o = owner' /\ h = HomeMem
  OBVIOUS
<1>3. /\ p = Pointed(param, its, "span", EndOf(its) + 1)
      /\ o = IF \E k \in DOMAIN its : its[k].kind = "owner" /\ its[k].off < EndOf(its) + 1
             THEN At("span", 0, its[1].size) ELSE owner
      /\ items' = its /\ span' = EndOf(its) /\ active' = NewActive
      /\ mem' = [mem EXCEPT !["span"] = IF EndOf(its) <= Len(mem["span"])
                    THEN Gathered(its) \o SubSeq(@, EndOf(its) + 1, Len(mem["span"])) ELSE Gathered(its)]
  BY <1>2 DEF Relayout, Point
<1>4. p \in [Names -> Tensor] /\ o \in Tensor /\ Moved(p, o, its)
  <2>1. Kept(param, owner, h, version, items)
    BY <1>1, <1>2
  <2> QED BY <1>2, <1>3, <2>1, MovedIs
<1>5. Fitted(its) /\ NewActive \in 0 .. EndOf(its)
  BY <1>1, <1>2, NewItemsIs
<1>6. its \in Seq(Item) /\ Tiled(its)
  BY <1>5 DEF Fitted
<1>7. PICK g : g = Gathered(its)
  OBVIOUS
<1>8. EndOf(its) \in Nat /\ Stretch(g) /\ Len(g) = EndOf(its)
  BY <1>6, <1>7, Apart, GatheredIs
<1>9. /\ Stretch(mem'["span"]) /\ EndOf(its) <= Len(mem'["span"])
      /\ \A u \in 1 .. EndOf(its) : mem'["span"][u] = g[u]
  <2>1. PICK r, m : r = mem'["span"] /\ m = mem["span"]
    OBVIOUS
  <2>2. Stretch(m) /\ Len(m) \in Nat
    BY <1>1, <2>1, StretchIs, Tensors
  <2>3. r = IF EndOf(its) <= Len(m) THEN g \o SubSeq(m, Len(g) + 1, Len(m)) ELSE g
    BY <1>1, <1>3, <1>7, <1>8, <2>1, Tensors
  <2>4. CASE EndOf(its) <= Len(m)
    <3>2. Overlaid(r, g, m)
      BY <1>8, <2>2, <2>3, <2>4, PutOver
    <3>1. Stretch(r) /\ Len(r) = Len(m) /\ \A k \in 1 .. Len(g) : r[k] = g[k]
      BY <3>2 DEF Overlaid
    <3> QED BY <1>8, <2>1, <2>4, <3>1
  <2>5. CASE ~ (EndOf(its) <= Len(m))
    BY <1>8, <2>1, <2>3, <2>5
  <2> QED BY <2>4, <2>5
<1>10. DOMAIN mem' = Storages /\ \A s \in Storages : Stretch(mem'[s]) /\ (s # "span" => mem'[s] = mem[s])
  <2>1. DOMAIN mem' = Storages /\ \A s \in Storages \ {"span"} : mem'[s] = mem[s]
    BY <1>1, <1>3
  <2> QED BY <1>1, <1>9, <2>1
<1>11. HomeStorages \subseteq Storages /\ "span" \in HomeStorages
  BY DEF HomeStorages, Storages
<1>12. Copied([s \in HomeStorages |-> mem'[s]], its)
  BY <1>7, <1>9, <1>10, <1>11 DEF Copied
<1>13. p = param' /\ o = owner'
  BY <1>2
<1>14. ASSUME NEW m2, Copied(m2, its) PROVE NewlyLaid(p, o, m2, its)
  <2>1. Kept(param, owner, h, version, items) /\ \A s \in HomeStorages : h[s] = mem[s]
    BY <1>1, <1>2
  <2> QED BY <1>2, <1>4, <1>14, <2>1, Laying
<1>15. o.in # "slot"
  <2>1. CASE Found
    BY <1>4, <2>1 DEF Moved, At
  <2>2. CASE ~ Found
    BY <1>1, <1>4, <2>2 DEF Moved
  <2> QED BY <2>1, <2>2
<1>16. ASSUME NEW n \in Names PROVE p[n].in # "slot"
  <2>1. CASE Holder(its, n)
    BY <1>4, <2>1 DEF Moved, At
  <2>2. CASE ~ Holder(its, n)
    BY <1>1, <1>4, <2>2 DEF Moved
  <2> QED BY <2>1, <2>2
<1> QED BY <1>2, <1>3, <1>4, <1>5, <1>8, <1>10, <1>12, <1>14, <1>15, <1>16

\* A change of the tensors of some names, none in the owner, each into a storage of
\* its own or to nothing.
Rebinds(p, o, h, v, C, p2, h2, v2) ==
  /\ C \in SUBSET Names /\ \A n \in C : n \notin InnerOf(p, o)
  /\ p2 \in [Names -> Tensor] /\ v2 \in [Names -> Nat]
  /\ \A n \in Names \ C : p2[n] = p[n] /\ v2[n] = v[n] /\ h2[n] = h[n]
  /\ h2["span"] = h["span"] /\ h2["owner"] = h["owner"]
  /\ \A n \in C : Stretch(h2[n])
  /\ \A n \in C : p2[n] = Nowhere \/ (p2[n].in = n /\ Reads(p2[n], n, h2, v2))

\* Such a change keeps the layer, and what the owner holds.
LEMMA Rebound ==
  ASSUME NEW p, NEW o, NEW h, NEW v, NEW its, Kept(p, o, h, v, its),
         NEW C, NEW p2, NEW h2, NEW v2, Rebinds(p, o, h, v, C, p2, h2, v2)
  PROVE  Kept(p2, o, h2, v2, its) /\ InnerOf(p2, o) = InnerOf(p, o)
<1> USE DEF Rebinds
<1>1. /\ p \in [Names -> Tensor] /\ o \in Tensor /\ v \in [Names -> Nat] /\ Fitted(its)
      /\ \A s \in HomeStorages : Stretch(h[s])
      /\ \A n \in Names : p[n] # Nowhere => Reads(p[n], n, h, v)
      /\ \A n \in Names : p[n].in = "span" => Holder(its, n)
      /\ OwnerKept(p, o, h) /\ OwnerApart(p, o, its)
      /\ \A n \in InnerOf(p, o) : p[n].off + p[n].size <= o.size
  BY DEF Kept
<1>2. ASSUME NEW n \in C PROVE p2[n].in \in {n, "nowhere"} /\ p2[n].in \notin {"span", "owner"}
  <2>1. n \in Names
    OBVIOUS
  <2> QED BY <2>1, Tensors
<1>3. \A n \in Names : p2[n] # Nowhere => Reads(p2[n], n, h2, v2)
  <2> SUFFICES ASSUME NEW n \in Names, p2[n] # Nowhere, n \notin C PROVE Reads(p2[n], n, h2, v2)
    OBVIOUS
  <2>1. p2[n] = p[n] /\ v2[n] = v[n] /\ h2[n] = h[n] /\ Reads(p[n], n, h, v)
    BY <1>1
  <2>2. p[n].in \in {n, "span", "owner"} /\ h2[p[n].in] = h[p[n].in]
    BY <2>1 DEF Reads
  <2>3. PICK t, x, y : t = p[n] /\ x = v[n] /\ y = h[t.in]
    OBVIOUS
  <2>4. /\ t.in \in {n, "span", "owner"} /\ t.size \in {Built[n], Repacked[n]} \ {0}
        /\ \A j \in 1 .. t.size : t.off + j \in 1 .. Len(y) /\ y[t.off + j] = <<n, x, j>>
    BY <2>1, <2>3 DEF Reads
  <2>5. p2[n] = t /\ v2[n] = x /\ h2[t.in] = y
    BY <2>1, <2>2, <2>3
  <2> QED BY <2>4, <2>5 DEF Reads
<1>4. o # Nowhere => o.in \in {"span", "owner"}
  BY <1>1 DEF OwnerKept
<1>5. ASSUME NEW n \in Names PROVE n \in InnerOf(p2, o) <=> n \in InnerOf(p, o)
  <2>1. CASE n \in C
    <3>1. n \notin InnerOf(p2, o)
      BY <1>2, <1>4, <2>1 DEF InnerOf, LiesIn
    <3> QED BY <2>1, <3>1
  <2>2. CASE n \notin C
    BY <2>2 DEF InnerOf
  <2> QED BY <2>1, <2>2
<1>6. InnerOf(p2, o) = InnerOf(p, o)
  <2>1. InnerOf(p2, o) \subseteq Names /\ InnerOf(p, o) \subseteq Names
    BY DEF InnerOf
  <2> QED BY <1>5, <2>1
<1>7. \A n \in InnerOf(p, o) : p2[n] = p[n]
  BY DEF InnerOf
<1>8. OwnerKept(p2, o, h2)
  <2>1. CASE o = Nowhere
    <3>1. \A n \in Names : p[n].in # "owner"
      BY <1>1, <2>1 DEF OwnerKept
    <3>2. \A n \in Names : p2[n].in # "owner"
      BY <1>2, <3>1
    <3> QED BY <2>1, <3>2 DEF OwnerKept
  <2>2. CASE o # Nowhere
    BY <1>1, <1>6, <2>2 DEF OwnerKept
  <2> QED BY <2>1, <2>2
<1>9. OwnerApart(p2, o, its)
  BY <1>1, <1>6, <1>7 DEF OwnerApart
<1>10. \A n \in InnerOf(p2, o) : p2[n].off + p2[n].size <= o.size
  BY <1>1, <1>6, <1>7
<1>11. \A n \in Names : p2[n].in = "span" => Holder(its, n)
  BY <1>1, <1>2
<1>12. \A s \in HomeStorages : Stretch(h2[s])
  <2> SUFFICES ASSUME NEW s \in HomeStorages PROVE Stretch(h2[s])
    OBVIOUS
  <2>1. CASE s \in {"span", "owner"}
    BY <1>1, <2>1
  <2>2. CASE s \in Names
    BY <1>1, <2>2
  <2> QED BY <2>1, <2>2 DEF HomeStorages
<1> QED BY <1>1, <1>3, <1>6, <1>8, <1>9, <1>10, <1>11, <1>12 DEF Kept

\* The bookkeeping of a change.
LEMMA Processes ==
  ASSUME LayoutInv, Processing, param' \in [Names -> Tensor], owner' \in Tensor,
         DOMAIN mem' = Storages, \A s \in Storages : Stretch(mem'[s]),
         owner'.in # "slot", \A n \in Names : param'[n].in # "slot",
         Kept(param', owner', [s \in HomeStorages |-> mem'[s]], version', items)
  PROVE  LayoutInv'
<1>1. /\ phase' = "load" /\ processed' = TRUE /\ changes' = changes + 1 /\ changes < MaxChanges
      /\ items' = items /\ active' = active /\ span' = span /\ slotSize' = slotSize /\ entered' = entered
  BY DEF Processing
<1>2. entered' = FALSE /\ changes' \in 0 .. MaxChanges
  BY <1>1, LayoutAssumption DEF LayoutInv, LayoutTypes, Processing
<1>3. LayoutTypes'
  BY <1>1, <1>2 DEF LayoutInv, LayoutTypes
<1>4. Kept(param', owner', [s \in HomeStorages |-> mem'[s]], version', items')
  BY <1>1
<1> QED BY <1>1, <1>2, <1>3, <1>4, LoadsInvNext

\* A tensor of a storage of its own, as a repack makes it.
LEMMA Fresh ==
  ASSUME NEW n \in Names, Repacked[n] > 0, NEW v2 \in [Names -> Nat], NEW h2,
         NEW m, m = [k \in 1 .. Repacked[n] |-> <<n, v2[n], k>>], h2[n] = m
  PROVE  /\ At(n, 0, Repacked[n]) \in Tensor /\ At(n, 0, Repacked[n]).in = n
         /\ Reads(At(n, 0, Repacked[n]), n, h2, v2) /\ Stretch(m)
<1>1. PICK z \in Nat : z = Repacked[n] /\ z > 0
  BY LayoutAssumption
<1>2. PICK t : t = At(n, 0, z)
  OBVIOUS
<1>3. t \in Tensor /\ t.in = n /\ t.off = 0 /\ t.size = z
  BY <1>2, Tensors
<1>4. m = [k \in 1 .. z |-> m[k]] /\ \A k \in 1 .. z : m[k] = <<n, v2[n], k>>
  BY <1>1
<1>5. Stretch(m) /\ Len(m) = z
  BY <1>4, StretchIs
<1>6. \A j \in 1 .. z : 0 + j = j
  OBVIOUS
<1>7. Reads(t, n, h2, v2)
  BY <1>1, <1>3, <1>4, <1>5, <1>6 DEF Reads
<1> QED BY <1>1, <1>2, <1>3, <1>5, <1>7

\* A repack keeps the layer.
LEMMA RepackInv ==
  ASSUME LayoutInv, NEW n \in Names, Repack(n)
  PROVE  /\ LayoutInv'
         /\ InnerOf(HomeParam', HomeOwner') = InnerOf(HomeParam, HomeOwner) /\ owner' = owner
<1>1. /\ Processing /\ phase = "load"
      /\ param[n] # Nowhere /\ n \notin Inner /\ Repacked[n] > 0
      /\ version' = [version EXCEPT ![n] = @ + 1]
      /\ param' = [param EXCEPT ![n] = At(n, 0, Repacked[n])]
      /\ mem' = [mem EXCEPT ![n] = [k \in 1 .. Repacked[n] |-> <<n, version[n] + 1, k>>]]
      /\ owner' = owner
  BY DEF Repack, Processing
<1>2. /\ Kept(param, owner, HomeMem, version, items)
      /\ HomeMem = [s \in HomeStorages |-> mem[s]] /\ HomeParam = param /\ HomeOwner = owner
      /\ param \in [Names -> Tensor] /\ version \in [Names -> Nat]
      /\ owner \in Tensor /\ owner.in # "slot" /\ \A q \in Names : param[q].in # "slot"
      /\ DOMAIN mem = Storages /\ \A s \in Storages : Stretch(mem[s])
  BY <1>1, Loads DEF LayoutInv, LayoutTypes, Kept
<1>3. PICK h, h2, p2, v2, m :
        /\ h = HomeMem /\ h2 = [s \in HomeStorages |-> mem'[s]] /\ p2 = param' /\ v2 = version'
        /\ m = [k \in 1 .. Repacked[n] |-> <<n, version[n] + 1, k>>]
  OBVIOUS
<1>4. /\ n \in HomeStorages /\ "span" \in HomeStorages /\ "owner" \in HomeStorages
      /\ HomeStorages \subseteq Storages /\ Names \subseteq HomeStorages
      /\ n \notin {"span", "owner", "slot"}
  BY Tensors DEF HomeStorages, Storages
<1>5. v2 \in [Names -> Nat] /\ v2[n] = version[n] + 1 /\ \A q \in Names \ {n} : v2[q] = version[q]
  BY <1>1, <1>2, <1>3
<1>6. mem'[n] = m /\ \A s \in Storages \ {n} : mem'[s] = mem[s]
  BY <1>1, <1>2, <1>3, <1>4
<1>7. h2[n] = m /\ \A s \in HomeStorages \ {n} : h2[s] = h[s]
  BY <1>2, <1>3, <1>4, <1>6
<1>8. /\ At(n, 0, Repacked[n]) \in Tensor /\ At(n, 0, Repacked[n]).in = n
      /\ Reads(At(n, 0, Repacked[n]), n, h2, v2) /\ Stretch(m)
  <2>1. m = [k \in 1 .. Repacked[n] |-> <<n, v2[n], k>>]
    BY <1>3, <1>5
  <2>2. Repacked[n] > 0 /\ v2 \in [Names -> Nat] /\ h2[n] = m
    BY <1>1, <1>5, <1>7
  <2> QED BY <2>1, <2>2, Fresh
<1>9. p2 \in [Names -> Tensor] /\ p2[n] = At(n, 0, Repacked[n]) /\ \A q \in Names \ {n} : p2[q] = param[q]
  BY <1>1, <1>2, <1>3, <1>8
<1>10. Kept(p2, owner, h2, v2, items) /\ InnerOf(p2, owner) = InnerOf(param, owner)
  <2>1. PICK C : C = {n}
    OBVIOUS
  <2>2. C \in SUBSET Names /\ \A q \in C : q \notin InnerOf(param, owner)
    BY <1>1, <2>1, InnerIs
  <2>3. \A q \in Names \ C : p2[q] = param[q] /\ v2[q] = version[q] /\ h2[q] = h[q]
    BY <1>4, <1>5, <1>7, <1>9, <2>1
  <2>4. h2["span"] = h["span"] /\ h2["owner"] = h["owner"]
    BY <1>4, <1>7
  <2>5. \A q \in C : Stretch(h2[q])
    BY <1>7, <1>8, <2>1
  <2>7. \A q \in C : p2[q] = Nowhere \/ (p2[q].in = q /\ Reads(p2[q], q, h2, v2))
    BY <1>8, <1>9, <2>1
  <2>6. Kept(param, owner, h, version, items)
    BY <1>2, <1>3
  <2>8. Rebinds(param, owner, h, version, C, p2, h2, v2)
    BY <1>5, <1>9, <2>2, <2>3, <2>4, <2>5, <2>7 DEF Rebinds
  <2> QED BY <2>6, <2>8, Rebound
<1>11. DOMAIN mem' = Storages /\ \A s \in Storages : Stretch(mem'[s])
  BY <1>1, <1>2, <1>6, <1>8
<1>12. \A q \in Names : param'[q].in # "slot"
  BY <1>2, <1>3, <1>4, <1>8, <1>9
<1>13. LayoutInv'
  BY <1>1, <1>2, <1>3, <1>9, <1>10, <1>11, <1>12, Processes
<1>14. HomeParam' = param' /\ HomeOwner' = owner'
  BY <1>2, <1>3, <1>9, <1>12, <1>1, AtHome DEF HomeParam, HomeOwner
<1> QED BY <1>1, <1>2, <1>3, <1>10, <1>13, <1>14

\* A repack under another name keeps the layer.
LEMMA RenameInv ==
  ASSUME LayoutInv, NEW n \in Names, NEW new \in Names \ {n}, Rename(n, new)
  PROVE  /\ LayoutInv'
         /\ InnerOf(HomeParam', HomeOwner') = InnerOf(HomeParam, HomeOwner) /\ owner' = owner
<1>1. /\ Processing /\ phase = "load"
      /\ param[n] # Nowhere /\ n \notin Inner /\ Repacked[new] > 0 /\ param[new] = Nowhere
      /\ version' = [version EXCEPT ![n] = 0, ![new] = 1]
      /\ param' = [param EXCEPT ![n] = Nowhere, ![new] = At(new, 0, Repacked[new])]
      /\ mem' = [mem EXCEPT ![n] = <<>>, ![new] = [k \in 1 .. Repacked[new] |-> <<new, 1, k>>]]
      /\ owner' = owner
  BY DEF Rename, Processing
<1>2. /\ Kept(param, owner, HomeMem, version, items)
      /\ HomeMem = [s \in HomeStorages |-> mem[s]] /\ HomeParam = param /\ HomeOwner = owner
      /\ param \in [Names -> Tensor] /\ version \in [Names -> Nat]
      /\ owner \in Tensor /\ owner.in # "slot" /\ \A q \in Names : param[q].in # "slot"
      /\ DOMAIN mem = Storages /\ \A s \in Storages : Stretch(mem[s])
  BY <1>1, Loads DEF LayoutInv, LayoutTypes, Kept
<1>3. PICK h, h2, p2, v2, m :
        /\ h = HomeMem /\ h2 = [s \in HomeStorages |-> mem'[s]] /\ p2 = param' /\ v2 = version'
        /\ m = [k \in 1 .. Repacked[new] |-> <<new, 1, k>>]
  OBVIOUS
<1>4. /\ n \in HomeStorages /\ new \in HomeStorages /\ "span" \in HomeStorages /\ "owner" \in HomeStorages
      /\ HomeStorages \subseteq Storages /\ Names \subseteq HomeStorages /\ new # n
      /\ n \notin {"span", "owner", "slot"} /\ new \notin {"span", "owner", "slot"}
  BY Tensors DEF HomeStorages, Storages
<1>5. /\ v2 \in [Names -> Nat] /\ v2[n] = 0 /\ v2[new] = 1
      /\ \A q \in Names \ {n, new} : v2[q] = version[q]
  BY <1>1, <1>2, <1>3
<1>6. mem'[n] = <<>> /\ mem'[new] = m /\ \A s \in Storages \ {n, new} : mem'[s] = mem[s]
  BY <1>1, <1>2, <1>3, <1>4
<1>7. h2[n] = <<>> /\ h2[new] = m /\ \A s \in HomeStorages \ {n, new} : h2[s] = h[s]
  BY <1>2, <1>3, <1>4, <1>6
<1>8. /\ At(new, 0, Repacked[new]) \in Tensor /\ At(new, 0, Repacked[new]).in = new
      /\ Reads(At(new, 0, Repacked[new]), new, h2, v2) /\ Stretch(m)
  <2>1. m = [k \in 1 .. Repacked[new] |-> <<new, v2[new], k>>]
    BY <1>3, <1>5
  <2> QED BY <1>1, <1>5, <1>7, <2>1, Fresh
<1>9. /\ p2 \in [Names -> Tensor] /\ p2[n] = Nowhere /\ p2[new] = At(new, 0, Repacked[new])
      /\ \A q \in Names \ {n, new} : p2[q] = param[q]
  <2>1. PICK t \in Tensor : t = At(new, 0, Repacked[new])
    BY <1>8
  <2>2. Nowhere \in Tensor
    BY Tensors
  <2>3. p2 = [param EXCEPT ![n] = Nowhere, ![new] = t]
    BY <1>1, <1>3, <2>1
  <2> QED BY <1>2, <1>4, <2>1, <2>2, <2>3
<1>15. Stretch(<<>>)
  <2>1. <<>> \in Seq(Nat)
    OBVIOUS
  <2> QED BY <2>1, StretchIs
<1>10. Kept(p2, owner, h2, v2, items) /\ InnerOf(p2, owner) = InnerOf(param, owner)
  <2>1. PICK C : C = {n, new}
    OBVIOUS
  <2>2. C \in SUBSET Names /\ \A q \in C : q \notin InnerOf(param, owner)
    <3>1. new \notin Inner
      BY <1>1 DEF Inner, IsIn
    <3> QED BY <1>1, <2>1, <3>1, InnerIs
  <2>3. \A q \in Names \ C : p2[q] = param[q] /\ v2[q] = version[q] /\ h2[q] = h[q]
    BY <1>4, <1>5, <1>7, <1>9, <2>1
  <2>4. h2["span"] = h["span"] /\ h2["owner"] = h["owner"]
    BY <1>4, <1>7
  <2>5. \A q \in C : Stretch(h2[q])
    BY <1>7, <1>8, <1>15, <2>1
  <2>6. Kept(param, owner, h, version, items)
    BY <1>2, <1>3
  <2>7. \A q \in C : p2[q] = Nowhere \/ (p2[q].in = q /\ Reads(p2[q], q, h2, v2))
    BY <1>8, <1>9, <2>1
  <2>8. Rebinds(param, owner, h, version, C, p2, h2, v2)
    BY <1>5, <1>9, <2>2, <2>3, <2>4, <2>5, <2>7 DEF Rebinds
  <2> QED BY <2>6, <2>8, Rebound
<1>11. DOMAIN mem' = Storages /\ \A s \in Storages : Stretch(mem'[s])
  BY <1>1, <1>2, <1>6, <1>8, <1>15
<1>12. \A q \in Names : param'[q].in # "slot"
  <2>1. Nowhere.in # "slot"
    BY Tensors
  <2>2. p2[n].in # "slot" /\ p2[new].in # "slot"
    BY <1>4, <1>8, <1>9, <2>1
  <2> QED BY <1>2, <1>3, <1>9, <2>2
<1>13. LayoutInv'
  BY <1>1, <1>2, <1>3, <1>9, <1>10, <1>11, <1>12, Processes
<1>14. HomeParam' = param' /\ HomeOwner' = owner'
  BY <1>1, <1>2, <1>3, <1>9, <1>12, AtHome DEF HomeParam, HomeOwner
<1> QED BY <1>1, <1>2, <1>3, <1>10, <1>13, <1>14

\* Items that are only parameters, from the first unit on.
LEMMA ListedIs ==
  ASSUME NEW names \in Seq(Names), NEW sizes \in [Names -> Nat], NEW its, its = Lay(names, sizes, 0)
  PROVE  /\ Fitted(its) /\ Len(its) = Len(names)
         /\ \A k \in 1 .. Len(its) : /\ its[k].kind = "param" /\ its[k].n = names[k] /\ its[k].inner = {}
                                     /\ its[k].size = sizes[names[k]]
         /\ \A n \in Names : Holder(its, n) <=> \E k \in 1 .. Len(names) : names[k] = n
         /\ EndOf(its) = Upto(sizes, names)[Len(names)]
<1>1. LaidFrom(its, names, sizes, 0)
  BY LayIs
<1>2. /\ its \in Seq(Item) /\ Len(its) = Len(names) /\ Len(its) \in Nat
      /\ \A k \in 1 .. Len(its) : /\ its[k].kind = "param" /\ its[k].n = names[k] /\ its[k].inner = {}
                                  /\ its[k].size = sizes[names[k]]
      /\ its # <<>> => its[1].off = 0
      /\ \A k \in 1 .. Len(its) - 1 : its[k + 1].off = its[k].off + its[k].size
  <2>1. its \in Seq(Item)
    BY <1>1 DEF LaidFrom
  <2> QED BY <1>1, <2>1, Elements DEF LaidFrom
<1>3. \A k \in 1 .. Len(its) : names[k] \in Names
  BY <1>2
<1>4. Fitted(its)
  BY <1>2, <1>3 DEF Fitted, Tiled
<1>5. ASSUME NEW n \in Names PROVE Holder(its, n) <=> \E k \in 1 .. Len(names) : names[k] = n
  <2>1. ASSUME NEW k \in 1 .. Len(its) PROVE Holds(its[k], n) <=> names[k] = n
    BY <1>2 DEF Holds
  <2> QED BY <1>2, <2>1 DEF Holder
<1>6. /\ Upto(sizes, names)[0] = 0
      /\ \A k \in 1 .. Len(names) : Upto(sizes, names)[k] = Upto(sizes, names)[k - 1] + sizes[names[k]]
      /\ \A k \in 0 .. Len(names) : Upto(sizes, names)[k] \in Nat
  BY UptoIs
<1>7. EndOf(its) = Upto(sizes, names)[Len(names)]
  <2>1. CASE Len(its) = 0
    <3>1. its = <<>>
      BY <1>2, <2>1, Empty
    <3> QED BY <1>2, <1>6, <2>1, <3>1 DEF EndOf
  <2>2. CASE Len(its) # 0
    <3>1. its # <<>> /\ Len(its) \in 1 .. Len(its)
      BY <1>2, <2>2, Empty
    <3>2. PICK N \in Nat : N = Len(its) /\ N \in DOMAIN names /\ N \in 1 .. N
      BY <1>2, <3>1
    <3>3. its[N].off = 0 + Upto(sizes, names)[N - 1]
      BY <3>2 DEF Lay, ParamItem
    <3>4. its[N].size = sizes[names[N]] /\ Upto(sizes, names)[N] = Upto(sizes, names)[N - 1] + sizes[names[N]]
      BY <1>2, <1>6, <3>2
    <3>5. Upto(sizes, names)[N - 1] \in Nat /\ sizes[names[N]] \in Nat
      BY <1>2, <1>3, <1>6, <3>2
    <3>6. EndOf(its) = its[N].off + its[N].size
      BY <3>1, <3>2 DEF EndOf
    <3> QED BY <1>2, <3>2, <3>3, <3>4, <3>5, <3>6
  <2> QED BY <2>1, <2>2
<1> QED BY <1>2, <1>4, <1>5, <1>7

\* A module that stacks parameters keeps the layer: they lie in the fused tensor.
LEMMA FuseInv ==
  ASSUME LayoutInv, Fuse
  PROVE  /\ LayoutInv' /\ FusedIn(HomeParam', HomeOwner')
         /\ HomeOwner'.size = Upto(Sizes, Fused)[Len(Fused)]
<1>1. PICK its : its = Lay(Fused, Sizes, 0)
  OBVIOUS
<1>2. /\ Processing /\ phase = "load" /\ ~ processed /\ owner = Nowhere
      /\ \A k \in DOMAIN Fused : param[Fused[k]] # Nowhere
      /\ owner' = At("owner", 0, EndOf(its))
      /\ param' = Pointed(param, its, "owner", EndOf(its) + 1)
      /\ mem' = [mem EXCEPT !["owner"] = Gathered(its)]
      /\ version' = version
  BY <1>1 DEF Fuse, Processing
<1>3. /\ Kept(param, owner, HomeMem, version, items) /\ LargeHeld(param, items)
      /\ HomeMem = [s \in HomeStorages |-> mem[s]] /\ HomeParam = param /\ HomeOwner = owner
      /\ \A q \in Names : param[q].in # "slot"
      /\ DOMAIN mem = Storages /\ \A s \in Storages : Stretch(mem[s])
  BY <1>2, Loads DEF LayoutInv, LayoutTypes
<1>4. /\ param \in [Names -> Tensor] /\ version \in [Names -> Nat] /\ Fitted(items)
      /\ \A n \in Names : param[n] # Nowhere => Reads(param[n], n, HomeMem, version)
      /\ \A n \in Names : param[n].in = "span" => Holder(items, n)
      /\ \A n \in Names : param[n].in # "owner"
  BY <1>2, <1>3 DEF Kept, OwnerKept
<1>5. PICK h, m2, p, o, g, e :
        /\ h = HomeMem /\ m2 = [s \in HomeStorages |-> mem'[s]] /\ p = param' /\ o = owner' /\ g = Gathered(its)
        /\ e = EndOf(its)
  OBVIOUS
<1>6. Fused \in Seq(Names) /\ Sizes \in [Names -> Nat] /\ (\A n \in Names : Sizes[n] = param[n].size)
      /\ DOMAIN Fused = 1 .. Len(Fused)
  BY <1>4, LayoutAssumption, Tensors DEF Sizes
<1>7. /\ Fitted(its) /\ Len(its) = Len(Fused)
      /\ \A k \in 1 .. Len(its) : /\ its[k].kind = "param" /\ its[k].n = Fused[k] /\ its[k].inner = {}
                                  /\ its[k].size = Sizes[Fused[k]]
      /\ \A n \in Names : Holder(its, n) <=> \E k \in 1 .. Len(Fused) : Fused[k] = n
      /\ e = Upto(Sizes, Fused)[Len(Fused)]
  <2>1. PICK sizes : sizes = Sizes
    OBVIOUS
  <2>2. sizes \in [Names -> Nat] /\ its = Lay(Fused, sizes, 0)
    BY <1>1, <1>6, <2>1
  <2> QED BY <1>5, <1>6, <2>1, <2>2, ListedIs
<1>8. its \in Seq(Item) /\ Tiled(its)
  BY <1>7 DEF Fitted
<1>9. /\ e \in Nat
      /\ \A i \in 1 .. Len(its) : its[i].off \in Nat /\ its[i].size \in Nat
      /\ \A i \in 1 .. Len(its) : its[i].off + its[i].size <= e
  BY <1>5, <1>8, Apart, ItemFields
<1>10. /\ Stretch(g) /\ Len(g) = e
       /\ \A i \in 1 .. Len(its) : \A j \in 1 .. its[i].size :
            its[i].off + j \in 1 .. e /\ g[its[i].off + j] = Unit(Source(its[i]), j)
  BY <1>5, <1>8, GatheredIs
<1>11. /\ p \in [Names -> Tensor]
       /\ \A n \in Names : p[n] = IF Holder(its, n) THEN PlaceOf(its, n, "owner", param[n].size) ELSE param[n]
  <2>1. PICK limit \in Nat : limit = e + 1 /\ limit > e
    BY <1>9
  <2>2. "owner" \in Storages
    BY Tensors
  <2>3. p = Pointed(param, its, "owner", limit)
    BY <1>2, <1>5, <2>1
  <2>4. /\ p \in [Names -> Tensor]
        /\ \A n \in Names : p[n] = IF Before(its, n, limit) THEN PlaceOf(its, n, "owner", param[n].size) ELSE param[n]
        /\ limit > EndOf(its) => \A n \in Names : Before(its, n, limit) <=> Holder(its, n)
    BY <1>4, <1>7, <2>2, <2>3, PointedIs
  <2> QED BY <1>5, <2>1, <2>4
<1>12. ASSUME NEW n \in Names, Holder(its, n)
       PROVE  \E i \in 1 .. Len(its) :
                /\ its[i].n = n /\ its[i].kind = "param" /\ its[i].size = param[n].size
                /\ p[n].in = "owner" /\ p[n].off = its[i].off /\ p[n].size = its[i].size
                /\ param[n] # Nowhere
  <2>1. param[n].size \in Nat /\ "owner" \in Storages
    BY <1>4, Tensors
  <2>2. PlacedIn(its, n, "owner", param[n].size)
    BY <1>7, <1>12, <2>1, PlaceIs
  <2>3. PICK i \in 1 .. Len(its) :
          /\ its[i].kind = "param" /\ its[i].n = n
          /\ PlaceOf(its, n, "owner", param[n].size) = At("owner", its[i].off, its[i].size)
    BY <1>7, <2>2 DEF PlacedIn
  <2>4. p[n] = At("owner", its[i].off, its[i].size)
    BY <1>11, <1>12, <2>3
  <2>5. its[i].size = param[n].size /\ param[n] # Nowhere
    BY <1>2, <1>6, <1>7, <2>3
  <2> QED BY <2>3, <2>4, <2>5 DEF At
<1>13. o = At("owner", 0, e) /\ o \in Tensor /\ o.in = "owner" /\ o.off = 0 /\ o.size = e /\ o # Nowhere
  BY <1>2, <1>5, <1>9, Tensors
<1>14. /\ "owner" \in HomeStorages /\ "span" \in HomeStorages /\ HomeStorages \subseteq Storages
       /\ Names \subseteq HomeStorages /\ "owner" \notin Names
  BY Tensors DEF HomeStorages, Storages
<1>15. m2["owner"] = g /\ \A s \in HomeStorages \ {"owner"} : m2[s] = h[s]
  BY <1>2, <1>3, <1>5, <1>14
<1>16. ASSUME NEW n \in Names, p[n] # Nowhere PROVE Reads(p[n], n, m2, version)
  <2>1. CASE ~ Holder(its, n)
    <3>1. p[n] = param[n] /\ Reads(param[n], n, h, version) /\ param[n].in # "owner"
      BY <1>4, <1>5, <1>11, <1>16, <2>1
    <3>2. m2[param[n].in] = h[param[n].in]
      BY <1>14, <1>15, <3>1 DEF Reads
    <3> QED BY <3>1, <3>2 DEF Reads
  <2>2. CASE Holder(its, n)
    <3>1. PICK i \in 1 .. Len(its) :
            /\ its[i].n = n /\ its[i].kind = "param" /\ its[i].size = param[n].size
            /\ p[n].in = "owner" /\ p[n].off = its[i].off /\ p[n].size = its[i].size
            /\ param[n] # Nowhere
      BY <1>12, <2>2
    <3>2. /\ param[n].size \in {Built[n], Repacked[n]} \ {0} /\ param[n].in \in HomeStorages
          /\ \A j \in 1 .. param[n].size : h[param[n].in][param[n].off + j] = <<n, version[n], j>>
      <4>1. OwnReads(param[n], n, HomeMem, version)
        BY <1>3, <3>1, KeptReads
      <4> QED BY <1>5, <4>1 DEF OwnReads
    <3>3. ASSUME NEW j \in 1 .. p[n].size
          PROVE  p[n].off + j \in 1 .. Len(m2["owner"]) /\ m2["owner"][p[n].off + j] = <<n, version[n], j>>
      <4>1. its[i].off + j \in 1 .. e /\ g[its[i].off + j] = Unit(Source(its[i]), j)
        BY <1>10, <3>1, <3>3
      <4>2. Unit(Source(its[i]), j) = h[param[n].in][param[n].off + j]
        BY <1>3, <1>5, <3>1, <3>2 DEF Unit, Source
      <4> QED BY <1>10, <1>15, <3>1, <3>2, <3>3, <4>1, <4>2
    <3> QED BY <3>1, <3>2, <3>3 DEF Reads
  <2> QED BY <2>1, <2>2
<1>17. \A n \in Names : p[n].in = "span" => Holder(items, n)
  BY <1>4, <1>11, <1>12
<1>18. OwnerKept(p, o, m2)
  BY <1>10, <1>13, <1>15 DEF OwnerKept
<1>19. ASSUME NEW n \in InnerOf(p, o) PROVE n \in Names /\ Holder(its, n)
  <2>1. n \in Names /\ p[n].in = "owner"
    BY <1>13 DEF InnerOf, LiesIn
  <2> QED BY <1>4, <1>11, <2>1
<1>20. OwnerApart(p, o, items)
  <2> SUFFICES ASSUME NEW n \in InnerOf(p, o), ~ Holder(items, n) PROVE p[n].size < MinUnits \/ n \in SkipNames
    BY DEF OwnerApart
  <2>1. n \in Names /\ p[n].size = param[n].size /\ param[n] # Nowhere /\ param[n].size \in Nat /\ MinUnits \in Nat
    BY <1>4, <1>12, <1>19, Tensors, LayoutAssumption
  <2> QED BY <1>3, <2>1 DEF LargeHeld
<1>21. ASSUME NEW n \in InnerOf(p, o) PROVE p[n].off + p[n].size <= o.size
  <2>1. PICK i \in 1 .. Len(its) : p[n].off = its[i].off /\ p[n].size = its[i].size
    BY <1>12, <1>19
  <2> QED BY <1>9, <1>13, <2>1
<1>22. \A s \in HomeStorages : Stretch(m2[s])
  BY <1>3, <1>5, <1>10, <1>14, <1>15
<1>23. Kept(p, o, m2, version, items)
  BY <1>4, <1>11, <1>13, <1>16, <1>17, <1>18, <1>20, <1>21, <1>22 DEF Kept
<1>24. DOMAIN mem' = Storages /\ \A s \in Storages : Stretch(mem'[s])
  BY <1>2, <1>3, <1>5, <1>10
<1>25. \A n \in Names : p[n].in # "slot"
  BY <1>3, <1>11, <1>12
<1>26. LayoutInv'
  BY <1>2, <1>3, <1>5, <1>11, <1>13, <1>23, <1>24, <1>25, Processes
<1>27. HomeParam' = p /\ HomeOwner' = o
  BY <1>5, <1>11, <1>13, <1>25, AtHome DEF HomeParam, HomeOwner
<1>28. FusedIn(p, o)
  <2> SUFFICES ASSUME NEW k \in 1 .. Len(Fused) PROVE Fused[k] \in InnerOf(p, o)
    BY DEF FusedIn
  <2>1. PICK n \in Names : n = Fused[k] /\ Holder(its, n)
    BY <1>6, <1>7
  <2>2. PICK i \in 1 .. Len(its) :
          p[n].in = "owner" /\ p[n].off = its[i].off /\ p[n].size = its[i].size /\ its[i].size = param[n].size
          /\ param[n] # Nowhere
    BY <1>12, <2>1
  <2>3. param[n].size # 0
    BY <1>4, <2>2 DEF Reads
  <2>4. PICK a \in Nat, b \in Nat : a = its[i].off /\ b = its[i].size /\ a + b <= e /\ b # 0
    BY <1>9, <2>2, <2>3
  <2>5. 0 <= a /\ a < 0 + e
    BY <1>9, <2>4
  <2>6. p[n] # Nowhere
    BY <2>2, Tensors
  <2> QED BY <1>13, <2>1, <2>2, <2>4, <2>5, <2>6 DEF InnerOf, LiesIn
<1> QED BY <1>7, <1>13, <1>26, <1>27, <1>28

\* What a step leaves of the fused tensor's parameters.
FusedStays == /\ (HomeOwner' = Nowhere <=> HomeOwner = Nowhere) /\ HomeOwner'.size = HomeOwner.size
              /\ HomeOwner.size >= MinUnits /\ FusedIn(HomeParam, HomeOwner) => FusedIn(HomeParam', HomeOwner')

\* When a module is done everything large lies in the span.
LEMMA AfterInv ==
  ASSUME LayoutInv, AfterModule
  PROVE  LayoutInv' /\ FusedStays
<1>1. /\ phase = "load" /\ phase' = "load" /\ processed' = FALSE /\ entered' = entered
      /\ slotSize' = slotSize /\ mirror' = mirror /\ version' = version /\ changes' = changes
      /\ IF NoneOutside THEN UNCHANGED <<param, owner, items, active, span, mem>> ELSE Relayout
  BY DEF AfterModule
<1>2. /\ LayoutTypes /\ ~ entered /\ owner.in # "slot" /\ \A n \in Names : param[n].in # "slot"
      /\ Kept(param, owner, HomeMem, version, items) /\ HomeParam = param /\ HomeOwner = owner
      /\ HomeMem = [s \in HomeStorages |-> mem[s]]
  BY <1>1, Loads DEF LayoutInv
<1>3. CASE NoneOutside
  <2>1. UNCHANGED <<param, owner, items, active, span, mem>>
    BY <1>1, <1>3
  <2>2. LargeHeld(param, items)
    BY <1>2, <1>3 DEF LargeHeld, NoneOutside, InSpan, Kept
  <2>3. LayoutTypes'
    BY <1>1, <1>2, <2>1 DEF LayoutTypes
  <2>4. LayoutInv'
    BY <1>1, <1>2, <2>1, <2>2, <2>3, LoadsInvNext DEF LayoutTypes
  <2>5. HomeParam' = HomeParam /\ HomeOwner' = HomeOwner
    BY <2>1 DEF HomeParam, HomeOwner
  <2> QED BY <2>4, <2>5 DEF FusedStays
<1>4. CASE ~ NoneOutside
  <2>1. Relayout
    BY <1>1, <1>4
  <2>2. /\ items' = NewItems /\ EndOf(NewItems) \in Nat /\ NewActive \in 0 .. EndOf(NewItems)
        /\ span' = EndOf(NewItems) /\ active' = NewActive
        /\ param' \in [Names -> Tensor] /\ owner' \in Tensor
        /\ owner'.in # "slot" /\ \A n \in Names : param'[n].in # "slot"
        /\ DOMAIN mem' = Storages /\ \A s \in Storages : Stretch(mem'[s])
        /\ Copied([s \in HomeStorages |-> mem'[s]], NewItems)
        /\ \A m2 : Copied(m2, NewItems) => NewlyLaid(param', owner', m2, NewItems)
    BY <1>1, <2>1, Relaid
  <2>3. NewlyLaid(param', owner', [s \in HomeStorages |-> mem'[s]], items')
    BY <2>2
  <2>4. /\ Kept(param', owner', [s \in HomeStorages |-> mem'[s]], version', items') /\ LargeHeld(param', items')
        /\ owner.size >= MinUnits /\ FusedIn(param, owner) => FusedIn(param', owner')
        /\ owner'.size = owner.size /\ (owner' = Nowhere <=> owner = Nowhere)
    BY <1>1, <2>3 DEF NewlyLaid
  <2>5. LayoutTypes'
    BY <1>1, <1>2, <2>2 DEF LayoutTypes
  <2>6. LayoutInv'
    BY <1>1, <1>2, <2>2, <2>4, <2>5, LoadsInvNext DEF LayoutTypes
  <2>7. HomeParam' = param' /\ HomeOwner' = owner'
    BY <2>2, AtHome DEF HomeParam, HomeOwner
  <2> QED BY <1>2, <2>4, <2>6, <2>7 DEF FusedStays
<1> QED BY <1>3, <1>4

\* The loaded layer lies as its layout says, and the mirror has it.
LEMMA DoneInv ==
  ASSUME LayoutInv, LayoutDone
  PROVE  LayoutInv' /\ FusedStays
<1>1. PICK its, e : its = NewItems /\ e = EndOf(its)
  OBVIOUS
<1>2. /\ phase = "load" /\ phase' = "decode" /\ processed' = processed /\ ~ processed /\ entered' = entered
      /\ mirror' = SubSeq(mem'["span"], 1, e)
      /\ slotSize' = (IF slotSize < e THEN e ELSE slotSize)
      /\ version' = version /\ changes' = changes
      /\ Relayout
  BY <1>1 DEF LayoutDone
<1>3. /\ LayoutTypes /\ ~ entered /\ owner.in # "slot" /\ \A n \in Names : param[n].in # "slot"
      /\ Kept(param, owner, HomeMem, version, items) /\ HomeParam = param /\ HomeOwner = owner
      /\ HomeMem = [s \in HomeStorages |-> mem[s]]
  BY <1>2, Loads DEF LayoutInv
<1>4. /\ items' = its /\ e \in Nat /\ NewActive \in 0 .. e
      /\ span' = e /\ active' = NewActive
      /\ param' \in [Names -> Tensor] /\ owner' \in Tensor
      /\ owner'.in # "slot" /\ \A n \in Names : param'[n].in # "slot"
      /\ DOMAIN mem' = Storages /\ \A s \in Storages : Stretch(mem'[s])
      /\ Copied([s \in HomeStorages |-> mem'[s]], its)
      /\ \A m2 : Copied(m2, its) => NewlyLaid(param', owner', m2, its)
  BY <1>1, <1>2, Relaid
<1>5. "span" \in HomeStorages /\ HomeStorages \subseteq Storages
  BY DEF HomeStorages, Storages
<1>6. PICK r, m, m3 : r = mirror' /\ m = mem'["span"] /\ m3 = [s \in HomeStorages |-> mem'[s]]
  OBVIOUS
<1>7. Stretch(m) /\ e <= Len(m) /\ Len(m) \in Nat
  <2>1. Stretch(m) /\ m = m3["span"]
    BY <1>4, <1>5, <1>6
  <2>2. e <= Len(m)
    BY <1>1, <1>4, <1>6, <2>1 DEF Copied
  <2> QED BY <2>1, <2>2, StretchIs
<1>8. Stretch(r) /\ Len(r) = e /\ \A u \in 1 .. e : r[u] = m[u] /\ u \in 1 .. Len(m)
  <2>1. 0 + e = e /\ 0 + 1 = 1 /\ 0 \in Nat /\ \A u \in 1 .. e : 0 + u = u
    BY <1>4
  <2>2. r = SubSeq(m, 0 + 1, 0 + e) /\ 0 + e <= Len(m)
    BY <1>2, <1>6, <1>7, <2>1
  <2>3. Stretch(r) /\ Len(r) = e /\ \A k \in 1 .. e : r[k] = m[0 + k]
    <3>1. PICK i \in Nat : i = 0
      BY <2>1
    <3>2. r = SubSeq(m, i + 1, i + e) /\ i + e <= Len(m)
      BY <2>2, <3>1
    <3>3. Stretch(r) /\ Len(r) = e /\ \A k \in 1 .. e : r[k] = m[i + k]
      <4>1. e \in Nat /\ Stretch(m)
        BY <1>4, <1>7
      <4>2. PartOf(r, m, i, e)
        BY <3>2, <4>1, Part
      <4> QED BY <4>2 DEF PartOf
    <3> QED BY <3>1, <3>3
  <2>4. \A u \in 1 .. e : u \in 1 .. Len(m)
    BY <1>4, <1>7
  <2> QED BY <2>1, <2>3, <2>4
<1>9. PICK h2 : h2 = [s \in HomeStorages |-> IF s = "span" THEN mirror' ELSE mem'[s]]
  OBVIOUS
<1>10. Copied(h2, its)
  <2>1. \A s \in HomeStorages : Stretch(h2[s]) /\ (s # "span" => h2[s] = m3[s])
    BY <1>4, <1>5, <1>6, <1>8, <1>9
  <2>2. \A s \in HomeStorages \ {"span"} : h2[s] = mem[s]
    BY <1>4, <1>6, <2>1 DEF Copied
  <2>3. h2["span"] = r
    BY <1>5, <1>6, <1>9
  <2>4. \A u \in 1 .. e : m[u] = Gathered(its)[u]
    BY <1>1, <1>4, <1>5, <1>6 DEF Copied
  <2>5. e <= Len(r) /\ \A u \in 1 .. e : r[u] = Gathered(its)[u]
    BY <1>4, <1>8, <2>4
  <2> QED BY <1>1, <2>1, <2>2, <2>3, <2>5 DEF Copied
<1>11. NewlyLaid(param', owner', h2, items')
  BY <1>4, <1>10
<1>12. /\ Kept(param', owner', h2, version', items')
       /\ Laid(param', owner', items', active')
       /\ owner.size >= MinUnits /\ FusedIn(param, owner) => FusedIn(param', owner')
       /\ owner'.size = owner.size /\ (owner' = Nowhere <=> owner = Nowhere)
  BY <1>2, <1>4, <1>11 DEF NewlyLaid
<1>13. HomeParam' = param' /\ HomeOwner' = owner'
  BY <1>4, AtHome DEF HomeParam, HomeOwner
<1>14. HomeMem' = h2
  BY <1>2, <1>9 DEF HomeMem
<1>15. slotSize \in Nat /\ slotSize' \in Nat /\ e <= slotSize'
  BY <1>2, <1>3, <1>4 DEF LayoutTypes
<1>16. LayoutTypes'
  BY <1>2, <1>3, <1>4, <1>15 DEF LayoutTypes
<1>17. entered' = FALSE
  BY <1>2, <1>3 DEF LayoutTypes
<1>18. Windowed'
  <2>1. span' = EndOf(items') /\ Len(mirror') = span' /\ Stretch(mirror') /\ span' <= slotSize'
    BY <1>1, <1>4, <1>6, <1>8, <1>15
  <2>2. \A u \in 1 .. span' : u \in 1 .. Len(mem'["span"]) /\ mem'["span"][u] = mirror'[u]
    BY <1>4, <1>6, <1>8
  <2> QED BY <1>2, <1>4, <1>17, <2>1, <2>2 DEF Windowed
<1>19. LayoutInv'
  BY <1>2, <1>12, <1>13, <1>14, <1>16, <1>17, <1>18 DEF LayoutInv
<1> QED BY <1>3, <1>12, <1>13, <1>19 DEF FusedStays

\* A server starts to load.
LEMMA BindInv ==
  ASSUME LayoutInv, BindModel
  PROVE  LayoutInv' /\ FusedStays
<1>1. /\ phase = "off" /\ phase' = "load"
      /\ UNCHANGED <<param, owner, items, active, span, slotSize, mem, mirror, version, processed, entered, changes>>
  BY DEF BindModel
<1>2. /\ LayoutTypes /\ ~ entered /\ owner.in # "slot" /\ \A n \in Names : param[n].in # "slot"
      /\ Kept(param, owner, HomeMem, version, items) /\ HomeParam = param /\ HomeOwner = owner
      /\ HomeMem = [s \in HomeStorages |-> mem[s]]
      /\ ~ processed => LargeHeld(param, items)
  BY <1>1, Loads DEF LayoutInv
<1>3. LayoutTypes'
  BY <1>1, <1>2 DEF LayoutTypes
<1>4. LayoutInv'
  BY <1>1, <1>2, <1>3, LoadsInvNext DEF LayoutTypes
<1>5. HomeParam' = HomeParam /\ HomeOwner' = HomeOwner
  BY <1>1 DEF HomeParam, HomeOwner
<1> QED BY <1>4, <1>5 DEF FusedStays

-----------------------------------------------------------------------------
(* A lend window *)

\* Before a window opens, and between its layers, everything is at home; what lies
\* where in a window.
LEMMA Decodes ==
  ASSUME LayoutInv, phase \in {"decode", "prefill"}
  PROVE  /\ LayoutTypes /\ Windowed /\ Fitted(items)
         /\ Kept(HomeParam, HomeOwner, HomeMem, version, items)
         /\ Laid(HomeParam, HomeOwner, items, active)
         /\ HomeParam \in [Names -> Tensor] /\ HomeOwner \in Tensor
         /\ \A n \in Names : /\ HomeParam[n] = Home(param[n]) /\ HomeParam[n].size = param[n].size
                             /\ HomeParam[n].off = param[n].off /\ HomeParam[n].in # "slot"
                             /\ param[n].in # "slot" => HomeParam[n] = param[n]
         /\ EndOf(items) \in Nat /\ span = EndOf(items) /\ active \in 0 .. span /\ active \in Nat
         /\ Len(mirror) = span /\ slotSize \in Nat /\ span <= slotSize
         /\ ~ entered => owner.in # "slot" /\ \A n \in Names : param[n].in # "slot"
<1>1. /\ LayoutTypes /\ Windowed
      /\ Kept(HomeParam, HomeOwner, HomeMem, version, items)
      /\ Laid(HomeParam, HomeOwner, items, active)
  BY DEF LayoutInv
<1>2. Fitted(items) /\ HomeParam \in [Names -> Tensor] /\ HomeOwner \in Tensor
  BY <1>1 DEF Kept
<1>3. ASSUME NEW n \in Names
      PROVE  /\ HomeParam[n] = Home(param[n]) /\ HomeParam[n].size = param[n].size
             /\ HomeParam[n].off = param[n].off /\ HomeParam[n].in # "slot"
             /\ param[n].in # "slot" => HomeParam[n] = param[n]
  <2>1. param[n] \in Tensor /\ HomeParam[n] = Home(param[n])
    BY <1>1 DEF LayoutTypes, HomeParam
  <2> QED BY <2>1, AtHome
<1>4. EndOf(items) \in Nat
  BY <1>2, Apart DEF Fitted
<1>5. /\ span = EndOf(items) /\ active \in 0 .. span /\ Len(mirror) = span
      /\ slotSize \in Nat /\ span <= slotSize
  BY <1>1 DEF Windowed, LayoutTypes
<1>6. ~ entered => owner.in # "slot" /\ \A n \in Names : param[n].in # "slot"
  BY <1>1 DEF Windowed
<1> QED BY <1>1, <1>2, <1>3, <1>4, <1>5, <1>6

\* before_forward keeps the layer: it is on the host.
LEMMA OpenInv ==
  ASSUME LayoutInv, OpenLayout
  PROVE  LayoutInv' /\ FusedStays
<1>1. /\ phase = "decode" /\ phase' = "prefill"
      /\ mem' = [mem EXCEPT !["span"] = <<>>, !["slot"] = Fill(slotSize)]
      /\ UNCHANGED <<param, owner, items, active, span, slotSize, mirror, version, processed, entered, changes>>
  BY DEF OpenLayout
<1>2. /\ LayoutTypes /\ Windowed /\ ~ entered /\ slotSize \in Nat
      /\ Kept(HomeParam, HomeOwner, HomeMem, version, items)
      /\ Laid(HomeParam, HomeOwner, items, active)
      /\ DOMAIN mem = Storages /\ \A s \in Storages : Stretch(mem[s])
  BY <1>1, Decodes DEF LayoutInv, LayoutTypes
<1>3. PICK f : f = Fill(slotSize)
  OBVIOUS
<1>4. Stretch(f) /\ Len(f) = slotSize /\ Stretch(<<>>)
  <2>1. f = [k \in 1 .. slotSize |-> f[k]]
    BY <1>3 DEF Fill
  <2>2. <<>> \in Seq(Nat)
    OBVIOUS
  <2> QED BY <1>2, <2>1, <2>2, StretchIs
<1>5. /\ DOMAIN mem' = Storages /\ mem'["span"] = <<>> /\ mem'["slot"] = f
      /\ \A s \in Storages \ {"span", "slot"} : mem'[s] = mem[s]
  <2>1. "span" \in Storages /\ "slot" \in Storages /\ "span" # "slot"
    BY Tensors
  <2> QED BY <1>1, <1>2, <1>3, <2>1
<1>6. \A s \in Storages : Stretch(mem'[s])
  BY <1>2, <1>4, <1>5
<1>7. HomeParam' = HomeParam /\ HomeOwner' = HomeOwner
  BY <1>1 DEF HomeParam, HomeOwner
<1>8. HomeMem' = HomeMem
  <2>1. \A s \in HomeStorages : s # "span" => mem'[s] = mem[s]
    <3>1. HomeStorages \subseteq Storages /\ "slot" \notin HomeStorages
      BY Tensors DEF HomeStorages, Storages
    <3> QED BY <1>5, <3>1
  <2> QED BY <1>1, <2>1 DEF HomeMem
<1>9. LayoutTypes'
  BY <1>1, <1>2, <1>5, <1>6 DEF LayoutTypes
<1>10. Windowed'
  BY <1>1, <1>2, <1>4, <1>5 DEF Windowed
<1>11. LayoutInv'
  BY <1>1, <1>2, <1>7, <1>8, <1>9, <1>10 DEF LayoutInv
<1> QED BY <1>7, <1>11 DEF FusedStays

\* The owner's item, if there is one, is the first, and before any limit that the
\* active part reaches.
LEMMA OwnerFirst ==
  ASSUME Fitted(items), NEW limit \in Nat,
         items # <<>> /\ items[1].kind = "owner" => items[1].off < limit
  PROVE  (\E k \in DOMAIN items : items[k].kind = "owner" /\ items[k].off < limit)
         <=> items # <<>> /\ items[1].kind = "owner"
<1>1. items \in Seq(Item) /\ DOMAIN items = 1 .. Len(items) /\ (items # <<>> => 1 \in 1 .. Len(items))
  BY Empty, Elements DEF Fitted
<1>2. \A k \in 1 .. Len(items) : items[k].kind = "owner" => k = 1
  BY DEF Fitted
<1>3. Len(<<>>) = 0
  OBVIOUS
<1> QED BY <1>1, <1>2, <1>3

\* An entered layer has its active part in the slot.
LEMMA EnterInv ==
  ASSUME LayoutInv, EnterSlot
  PROVE  LayoutInv' /\ FusedStays
<1>1. /\ phase = "prefill" /\ ~ entered /\ entered' = TRUE
      /\ mem' = [mem EXCEPT !["slot"] = SubSeq(mirror, 1, active) \o SubSeq(@, active + 1, slotSize)]
      /\ param' = Pointed(param, items, "slot", active)
      /\ owner' = IF \E k \in DOMAIN items : items[k].kind = "owner" /\ items[k].off < active
                  THEN At("slot", 0, items[1].size) ELSE owner
      /\ UNCHANGED <<phase, items, active, span, slotSize, mirror, version, processed, changes>>
  BY DEF EnterSlot, Point
<1>2. /\ LayoutTypes /\ Windowed /\ Fitted(items)
      /\ Kept(HomeParam, HomeOwner, HomeMem, version, items)
      /\ Laid(HomeParam, HomeOwner, items, active)
      /\ HomeParam \in [Names -> Tensor] /\ HomeOwner \in Tensor
      /\ span = EndOf(items) /\ active \in 0 .. span /\ active \in Nat /\ EndOf(items) \in Nat
      /\ Len(mirror) = span /\ slotSize \in Nat /\ span <= slotSize
      /\ owner.in # "slot" /\ \A n \in Names : param[n].in # "slot" /\ HomeParam[n] = param[n]
  BY <1>1, Decodes
<1>3. /\ param \in [Names -> Tensor] /\ owner \in Tensor
      /\ DOMAIN mem = Storages /\ \A s \in Storages : Stretch(mem[s])
  BY <1>2 DEF LayoutTypes
<1>4. PICK a, m, r, p, o : /\ a = SubSeq(mirror, 1, active) /\ m = mem["slot"] /\ r = mem'["slot"]
                           /\ p = param' /\ o = owner'
  OBVIOUS
<1>5. "slot" \in Storages /\ "span" \in Storages
  BY Tensors
<1>6. Stretch(a) /\ Len(a) = active /\ \A u \in 1 .. active : a[u] = mirror[u]
  <2>1. PICK i \in Nat : i = 0
    OBVIOUS
  <2>2. a = SubSeq(mirror, i + 1, i + active) /\ i + active <= Len(mirror)
    BY <1>2, <1>4, <2>1
  <2>3. Stretch(mirror)
    BY <1>2 DEF Windowed
  <2>4. PartOf(a, mirror, i, active)
    BY <1>2, <2>2, <2>3, Part
  <2> QED BY <1>2, <2>1, <2>4 DEF PartOf
<1>7. Stretch(r) /\ Len(r) = slotSize /\ \A u \in 1 .. active : r[u] = mirror[u]
  <2>1. Stretch(m) /\ Len(m) = slotSize
    BY <1>1, <1>2, <1>3, <1>4, <1>5 DEF Windowed
  <2>2. r = a \o SubSeq(m, Len(a) + 1, Len(m)) /\ Len(a) <= Len(m)
    <3>1. mem'["slot"] = a \o SubSeq(m, active + 1, slotSize)
      BY <1>1, <1>3, <1>4, <1>5
    <3>2. Len(a) + 1 = active + 1 /\ Len(a) <= Len(m)
      BY <1>2, <1>6, <2>1
    <3> QED BY <1>4, <2>1, <3>1, <3>2
  <2>4. Stretch(a)
    BY <1>6
  <2>5. Stretch(m)
    BY <2>1
  <2>6. Len(a) <= Len(m)
    BY <2>2
  <2>7. r = a \o SubSeq(m, Len(a) + 1, Len(m))
    BY <2>2
  <2>8. Overlaid(r, a, m)
    BY <2>4, <2>5, <2>6, <2>7, PutOver
  <2>3. Stretch(r) /\ Len(r) = Len(m) /\ \A k \in 1 .. Len(a) : r[k] = a[k]
    BY <2>8 DEF Overlaid
  <2> QED BY <1>6, <2>1, <2>3
<1>8. DOMAIN mem' = Storages /\ \A s \in Storages \ {"slot"} : mem'[s] = mem[s]
  BY <1>1, <1>3, <1>5
<1>9. /\ p \in [Names -> Tensor]
      /\ \A n \in Names : p[n] = IF Before(items, n, active) THEN PlaceOf(items, n, "slot", param[n].size) ELSE param[n]
      /\ \A n \in Names : Before(items, n, active) => Holder(items, n)
  <2>1. p = Pointed(param, items, "slot", active)
    BY <1>1, <1>4
  <2>2. Fitted(items) /\ active \in Nat /\ "slot" \in Storages /\ param \in [Names -> Tensor]
    BY <1>2, <1>3, <1>5
  <2> QED BY <2>1, <2>2, PointedIs
<1>10. ASSUME NEW n \in Names
       PROVE  /\ Home(p[n]) = HomeParam[n]
              /\ p[n].in = "slot" <=> Before(items, n, active)
  <2>1. CASE ~ Before(items, n, active)
    BY <1>2, <1>3, <1>9, <2>1, AtHome
  <2>2. CASE Before(items, n, active)
    <3>1. Holder(items, n) /\ param[n].size \in Nat
      BY <1>3, <1>9, <2>2, Tensors
    <3>2. HomeParam[n] = PlaceOf(items, n, "span", param[n].size)
      BY <1>2, <3>1 DEF Laid
    <3>3. p[n] = PlaceOf(items, n, "slot", param[n].size)
      BY <1>9, <2>2
    <3>4. p[n].in = "slot" /\ p[n] \in Tensor
      BY <1>2, <1>5, <3>1, <3>3, PlaceIs
    <3>5. Home(p[n]) = At("span", p[n].off, p[n].size)
      BY <3>4 DEF Home
    <3>6. Home(p[n]) = HomeParam[n]
      BY <3>2, <3>3, <3>5 DEF PlaceOf, At
    <3> QED BY <2>2, <3>4, <3>6
  <2> QED BY <2>1, <2>2
<1>11. /\ o \in Tensor /\ Home(o) = HomeOwner
       /\ o.in = "slot" <=> items # <<>> /\ items[1].kind = "owner"
  <2>1. items # <<>> /\ items[1].kind = "owner" =>
          /\ items[1].off = 0 /\ items[1].size > 0 /\ items[1].size <= active
          /\ HomeOwner = At("span", 0, items[1].size) /\ items[1].size \in Nat /\ items[1].off < active
    <3> SUFFICES ASSUME items # <<>> /\ items[1].kind = "owner"
                 PROVE  /\ items[1].off = 0 /\ items[1].size > 0 /\ items[1].size <= active
                        /\ HomeOwner = At("span", 0, items[1].size) /\ items[1].size \in Nat /\ items[1].off < active
      OBVIOUS
    <3>1. items \in Seq(Item) /\ 1 \in 1 .. Len(items) /\ items[1].off = 0
      BY <1>2, Empty, Elements DEF Fitted, Tiled
    <3>2. items[1].size \in Nat
      BY <3>1, ItemFields
    <3>3. items[1].size > 0 /\ items[1].size <= active /\ HomeOwner = At("span", 0, items[1].size)
      BY <1>2 DEF Laid
    <3> QED BY <1>2, <3>1, <3>2, <3>3
  <2>2. (\E k \in DOMAIN items : items[k].kind = "owner" /\ items[k].off < active)
         <=> items # <<>> /\ items[1].kind = "owner"
    BY <1>2, <2>1, OwnerFirst
  <2>3. CASE items # <<>> /\ items[1].kind = "owner"
    <3>1. o = At("slot", 0, items[1].size)
      BY <1>1, <1>4, <2>2, <2>3
    <3>2. o \in Tensor /\ o.in = "slot" /\ o.off = 0 /\ o.size = items[1].size
      BY <1>5, <2>1, <2>3, <3>1, Tensors
    <3> QED BY <2>1, <2>3, <3>2 DEF Home
  <2>4. CASE ~ (items # <<>> /\ items[1].kind = "owner")
    <3>1. o = owner
      BY <1>1, <1>4, <2>2, <2>4
    <3> QED BY <1>2, <1>3, <2>4, <3>1 DEF HomeOwner
  <2> QED BY <2>3, <2>4
<1>12. HomeParam' = HomeParam /\ HomeOwner' = HomeOwner
  <2>1. HomeParam' = [n \in Names |-> Home(p[n])]
    BY <1>4 DEF HomeParam
  <2>2. HomeParam = [n \in Names |-> HomeParam[n]]
    BY DEF HomeParam
  <2>3. HomeParam' = HomeParam
    BY <1>10, <2>1, <2>2
  <2> QED BY <1>4, <1>11, <2>3 DEF HomeOwner
<1>13. HomeMem' = HomeMem
  <2>1. \A s \in HomeStorages : mem'[s] = mem[s]
    <3>1. HomeStorages \subseteq Storages /\ "slot" \notin HomeStorages
      BY Tensors DEF HomeStorages, Storages
    <3> QED BY <1>8, <3>1
  <2> QED BY <1>1, <2>1 DEF HomeMem
<1>14. LayoutTypes'
  BY <1>1, <1>2, <1>3, <1>4, <1>7, <1>8, <1>9, <1>11 DEF LayoutTypes
<1>15. Windowed'
  BY <1>1, <1>2, <1>4, <1>7, <1>10, <1>11 DEF Windowed
<1>16. LayoutInv'
  BY <1>1, <1>2, <1>12, <1>13, <1>14, <1>15 DEF LayoutInv
<1> QED BY <1>12, <1>16 DEF FusedStays

\* end_window brings the layer home, from the mirror.
LEMMA CloseInv ==
  ASSUME LayoutInv, CloseLayout
  PROVE  LayoutInv' /\ FusedStays
<1>1. /\ phase = "prefill" /\ phase' = "decode" /\ entered' = FALSE
      /\ mem' = [mem EXCEPT !["slot"] = <<>>, !["span"] = mirror]
      /\ entered =>
           /\ param' = Pointed(param, items, "span", span + 1)
           /\ owner' = IF \E k \in DOMAIN items : items[k].kind = "owner" /\ items[k].off < span + 1
                       THEN At("span", 0, items[1].size) ELSE owner
      /\ ~ entered => param' = param /\ owner' = owner
      /\ UNCHANGED <<items, active, span, slotSize, mirror, version, processed, changes>>
  BY DEF CloseLayout, Point
<1>2. /\ LayoutTypes /\ Windowed /\ Fitted(items)
      /\ Kept(HomeParam, HomeOwner, HomeMem, version, items)
      /\ Laid(HomeParam, HomeOwner, items, active)
      /\ HomeParam \in [Names -> Tensor] /\ HomeOwner \in Tensor
      /\ \A n \in Names : /\ HomeParam[n] = Home(param[n]) /\ HomeParam[n].size = param[n].size
                          /\ HomeParam[n].in # "slot"
                          /\ param[n].in # "slot" => HomeParam[n] = param[n]
      /\ EndOf(items) \in Nat /\ span = EndOf(items) /\ active \in Nat
      /\ Len(mirror) = span
      /\ ~ entered => owner.in # "slot" /\ \A n \in Names : param[n].in # "slot"
  BY <1>1, Decodes
<1>3. /\ param \in [Names -> Tensor] /\ owner \in Tensor
      /\ DOMAIN mem = Storages /\ \A s \in Storages : Stretch(mem[s])
  BY <1>2 DEF LayoutTypes
<1>4. PICK p, o : p = param' /\ o = owner'
  OBVIOUS
<1>5. "slot" \in Storages /\ "span" \in Storages /\ "span" # "slot"
  BY Tensors
<1>6. p = HomeParam
  <2>1. CASE ~ entered
    <3>1. [n \in Names |-> Home(param[n])] = param
      BY <1>2, <1>3, <2>1, AtHome
    <3> QED BY <1>1, <1>4, <2>1, <3>1 DEF HomeParam
  <2>2. CASE entered
    <3>1. PICK limit \in Nat : limit = span + 1 /\ limit > EndOf(items)
      BY <1>2
    <3>2. p = Pointed(param, items, "span", limit)
      BY <1>1, <1>4, <2>2, <3>1
    <3>3. /\ p \in [Names -> Tensor]
          /\ \A n \in Names : p[n] = IF Before(items, n, limit) THEN PlaceOf(items, n, "span", param[n].size) ELSE param[n]
          /\ limit > EndOf(items) => \A n \in Names : Before(items, n, limit) <=> Holder(items, n)
      BY <1>2, <1>3, <1>5, <3>2, PointedIs
    <3>4. ASSUME NEW n \in Names PROVE p[n] = HomeParam[n]
      <4>1. CASE Holder(items, n)
        <5>1. p[n] = PlaceOf(items, n, "span", param[n].size)
          BY <3>1, <3>3, <4>1
        <5> QED BY <1>2, <4>1, <5>1 DEF Laid
      <4>2. CASE ~ Holder(items, n)
        <5>1. p[n] = param[n]
          BY <3>1, <3>3, <4>2
        <5>2. param[n].in # "slot"
          <6>1. ~ Before(items, n, active)
            BY <4>2 DEF Before, Holder
          <6> QED BY <1>2, <6>1 DEF Windowed
        <5> QED BY <1>2, <5>1, <5>2
      <4> QED BY <4>1, <4>2
    <3> QED BY <1>2, <3>3, <3>4
  <2> QED BY <2>1, <2>2
<1>7. o = HomeOwner
  <2>1. CASE ~ entered
    BY <1>1, <1>2, <1>3, <1>4, <2>1, AtHome DEF HomeOwner
  <2>2. CASE entered
    <3>1. PICK limit \in Nat : limit = span + 1
      BY <1>2
    <3>2. items # <<>> /\ items[1].kind = "owner" => items[1].off < limit
      <4>1. items # <<>> => items[1].off = 0
        BY <1>2 DEF Fitted, Tiled
      <4> QED BY <1>2, <3>1, <4>1
    <3>3. (\E k \in DOMAIN items : items[k].kind = "owner" /\ items[k].off < limit)
          <=> items # <<>> /\ items[1].kind = "owner"
      BY <1>2, <3>2, OwnerFirst
    <3>4. o = IF items # <<>> /\ items[1].kind = "owner" THEN At("span", 0, items[1].size) ELSE owner
      BY <1>1, <1>4, <2>2, <3>1, <3>3
    <3>5. CASE items # <<>> /\ items[1].kind = "owner"
      BY <1>2, <3>4, <3>5 DEF Laid
    <3>6. CASE ~ (items # <<>> /\ items[1].kind = "owner")
      <4>1. owner.in # "slot"
        BY <1>2, <3>6 DEF Windowed
      <4> QED BY <1>3, <3>4, <3>6, <4>1, AtHome DEF HomeOwner
    <3> QED BY <3>5, <3>6
  <2> QED BY <2>1, <2>2
<1>8. /\ DOMAIN mem' = Storages /\ mem'["slot"] = <<>> /\ mem'["span"] = mirror
      /\ \A s \in Storages \ {"span", "slot"} : mem'[s] = mem[s]
  BY <1>1, <1>3, <1>5
<1>9. Stretch(mirror) /\ Stretch(<<>>)
  <2>1. <<>> \in Seq(Nat)
    OBVIOUS
  <2> QED BY <1>2, <2>1, StretchIs DEF Windowed
<1>10. \A s \in Storages : Stretch(mem'[s])
  BY <1>3, <1>8, <1>9
<1>11. HomeParam' = HomeParam /\ HomeOwner' = HomeOwner
  <2>1. [n \in Names |-> Home(p[n])] = p
    BY <1>2, <1>6, AtHome
  <2>2. Home(o) = o
    <3>1. Home(owner) \in Tensor /\ Home(owner).in # "slot"
      BY <1>3, AtHome
    <3> QED BY <1>7, <3>1, AtHome DEF HomeOwner
  <2> QED BY <1>4, <1>6, <1>7, <2>1, <2>2 DEF HomeParam, HomeOwner
<1>12. HomeMem' = HomeMem
  <2>1. \A s \in HomeStorages : s # "span" => mem'[s] = mem[s]
    <3>1. HomeStorages \subseteq Storages /\ "slot" \notin HomeStorages
      BY Tensors DEF HomeStorages, Storages
    <3> QED BY <1>8, <3>1
  <2> QED BY <1>1, <2>1 DEF HomeMem
<1>13. LayoutTypes'
  <2>1. param' \in [Names -> Tensor] /\ owner' \in Tensor
    BY <1>2, <1>4, <1>6, <1>7
  <2>2. /\ phase' \in {"off", "load", "decode", "prefill"}
        /\ span' \in Nat /\ active' \in 0 .. span' /\ slotSize' \in Nat
        /\ processed' \in BOOLEAN /\ entered' \in BOOLEAN /\ changes' \in 0 .. MaxChanges
    BY <1>1, <1>2 DEF LayoutTypes
  <2> QED BY <1>8, <1>10, <2>1, <2>2 DEF LayoutTypes
<1>14. \A n \in Names : param'[n].in # "slot"
  BY <1>2, <1>4, <1>6
<1>15. owner'.in # "slot"
  BY <1>3, <1>4, <1>7, AtHome DEF HomeOwner
<1>16. Windowed'
  <2>1. \A u \in 1 .. span : u \in 1 .. Len(mirror)
    BY <1>2
  <2> QED BY <1>1, <1>2, <1>8, <1>14, <1>15, <2>1 DEF Windowed
<1>17. LayoutInv'
  BY <1>1, <1>2, <1>11, <1>12, <1>13, <1>16 DEF LayoutInv
<1> QED BY <1>11, <1>17 DEF FusedStays

\* A layer of a server that is not there, and none of the loading's changes.
AsBuilt ==
  /\ phase = "off"
  /\ items = BuiltItems /\ param = BuiltParam /\ owner = Nowhere
  /\ span = SpanAtBind /\ active = SpanAtBind /\ slotSize = SpanAtBind
  /\ mem = BuiltMem /\ mirror = <<>>
  /\ version = BuiltVersion /\ processed = FALSE /\ entered = FALSE /\ changes \in 0 .. MaxChanges

\* bind_model's layout: the lent parameters, in order, and the slack behind them.
LEMMA BoundIs ==
  /\ Built \in [Names -> Nat] /\ Fitted(BuiltItems) /\ SpanAtBind \in Nat
  /\ \A n \in Names : Holder(BuiltItems, n) <=> Lent(n)
  /\ \A k \in 1 .. Len(BuiltItems) : BuiltItems[k].kind = "param" /\ BuiltItems[k].size = Built[BuiltItems[k].n]
  /\ EndOf(BuiltItems) \in Nat /\ EndOf(BuiltItems) <= SpanAtBind
<1>1. Built \in [Names -> Nat] /\ Order \in Seq(Names)
  BY LayoutAssumption
<1>2. Bound \in Seq(Names) /\ \A n : n \in ToSet(Bound) <=> n \in Names /\ Lent(n)
  <2>1. PICK S : S = {n \in Names : Lent(n)}
    OBVIOUS
  <2>2. Bound = Only(Order, S)
    BY <2>1 DEF Bound
  <2> QED BY <2>1, <2>2, OnlyNames
<1>3. PICK its : its = BuiltItems
  OBVIOUS
<1>4. /\ Fitted(its) /\ Len(its) = Len(Bound)
      /\ \A k \in 1 .. Len(its) : /\ its[k].kind = "param" /\ its[k].n = Bound[k] /\ its[k].inner = {}
                                  /\ its[k].size = Built[Bound[k]]
      /\ \A n \in Names : Holder(its, n) <=> \E k \in 1 .. Len(Bound) : Bound[k] = n
      /\ EndOf(its) = Upto(Built, Bound)[Len(Bound)]
  BY <1>1, <1>2, <1>3, ListedIs DEF BuiltItems
<1>5. \A n \in Names : Holder(its, n) <=> Lent(n)
  <2>1. \A n : n \in ToSet(Bound) <=> \E k \in 1 .. Len(Bound) : Bound[k] = n
    BY <1>2, Elements
  <2> QED BY <1>2, <1>4, <2>1
<1>6. PICK slack : slack = [n \in Names |-> Slack(n)]
  OBVIOUS
<1>7. slack \in [Names -> Nat]
  <2>1. \A n \in Names : Slack(n) \in Nat
    BY <1>1 DEF Slack
  <2> QED BY <1>6, <2>1
<1>8. Upto(slack, Order)[Len(Order)] \in Nat
  <2>1. Len(Order) \in 0 .. Len(Order)
    BY <1>1, Elements
  <2> QED BY <1>1, <1>7, <2>1, UptoIs
<1>9. EndOf(its) \in Nat
  BY <1>4, Apart DEF Fitted
<1>10. SpanAtBind = EndOf(its) + Upto(slack, Order)[Len(Order)]
  BY <1>4, <1>6 DEF SpanAtBind
<1>11. SpanAtBind \in Nat /\ EndOf(its) <= SpanAtBind
  BY <1>8, <1>9, <1>10
<1>12. \A k \in 1 .. Len(its) : its[k].kind = "param" /\ its[k].size = Built[its[k].n]
  BY <1>4
<1> QED BY <1>1, <1>3, <1>4, <1>5, <1>9, <1>11, <1>12

-----------------------------------------------------------------------------
(* No server *)

\* A layer as it is built is kept.
LEMMA BuiltInv ==
  ASSUME AsBuilt
  PROVE  LayoutInv
<1>1. /\ phase = "off"
      /\ items = BuiltItems /\ param = BuiltParam /\ owner = Nowhere
      /\ span = SpanAtBind /\ active = SpanAtBind /\ slotSize = SpanAtBind
      /\ mem = BuiltMem /\ mirror = <<>>
      /\ version = BuiltVersion /\ processed = FALSE /\ entered = FALSE /\ changes \in 0 .. MaxChanges
  BY DEF AsBuilt
<1>2. PICK its, e, N, m, p : its = BuiltItems /\ e = EndOf(BuiltItems) /\ N = SpanAtBind
                             /\ m = BuiltMem /\ p = BuiltParam
  OBVIOUS
<1>3. /\ Built \in [Names -> Nat] /\ Fitted(its) /\ N \in Nat
      /\ \A n \in Names : Holder(its, n) <=> Lent(n)
      /\ \A k \in 1 .. Len(its) : its[k].kind = "param" /\ its[k].size = Built[its[k].n]
      /\ e \in Nat /\ e <= N
  BY <1>2, BoundIs
<1>4. its \in Seq(Item) /\ Tiled(its) /\ MinUnits \in Nat \ {0}
  BY <1>3, LayoutAssumption DEF Fitted
<1>5. PICK p0 : p0 = [n \in Names |-> IF Built[n] = 0 THEN Nowhere ELSE At(n, 0, Built[n])]
  OBVIOUS
<1>6. p0 \in [Names -> Tensor]
  <2>1. \A n \in Names : p0[n] \in Tensor
    BY <1>3, <1>5, Tensors
  <2> QED BY <1>5, <2>1
<1>7. /\ p \in [Names -> Tensor]
      /\ \A n \in Names : p[n] = IF Holder(its, n) THEN PlaceOf(its, n, "span", p0[n].size) ELSE p0[n]
  <2>1. PICK limit \in Nat : limit = N + 1 /\ limit > EndOf(its)
    BY <1>2, <1>3
  <2>2. p = Pointed(p0, its, "span", limit) /\ "span" \in Storages
    BY <1>2, <1>5, <2>1, Tensors DEF BuiltParam
  <2>3. /\ p \in [Names -> Tensor]
        /\ \A n \in Names : p[n] = IF Before(its, n, limit) THEN PlaceOf(its, n, "span", p0[n].size) ELSE p0[n]
        /\ limit > EndOf(its) => \A n \in Names : Before(its, n, limit) <=> Holder(its, n)
    BY <1>3, <1>6, <2>2, PointedIs
  <2> QED BY <2>1, <2>3
<1>8. ASSUME NEW n \in Names, Lent(n)
      PROVE  \E i \in 1 .. Len(its) :
               its[i].kind = "param" /\ its[i].n = n /\ its[i].size = Built[n] /\ p[n] = At("span", its[i].off, its[i].size)
  <2>1. Holder(its, n) /\ "span" \in Storages /\ p0[n].size \in Nat
    BY <1>3, <1>6, <1>8, Tensors
  <2>2. PlacedIn(its, n, "span", p0[n].size)
    BY <1>3, <2>1, PlaceIs
  <2>3. PICK i \in 1 .. Len(its) :
          its[i].n = n /\ PlaceOf(its, n, "span", p0[n].size) = At("span", its[i].off, its[i].size)
    BY <1>3, <2>2 DEF PlacedIn
  <2> QED BY <1>3, <1>7, <2>1, <2>3
<1>9. ASSUME NEW n \in Names, ~ Lent(n)
      PROVE  /\ p[n] = IF Built[n] = 0 THEN Nowhere ELSE At(n, 0, Built[n])
             /\ p[n].in \in {n, "nowhere"} /\ p[n].size = Built[n]
  <2>1. p[n] = IF Built[n] = 0 THEN Nowhere ELSE At(n, 0, Built[n])
    BY <1>3, <1>5, <1>7, <1>9
  <2> QED BY <1>3, <2>1, Tensors
<1>10. \A n \in Names : Stretch(FirstUnits(n)) /\ Len(FirstUnits(n)) = Built[n]
                        /\ \A j \in 1 .. Built[n] : FirstUnits(n)[j] = <<n, 1, j>>
  <2> SUFFICES ASSUME NEW n \in Names
               PROVE  Stretch(FirstUnits(n)) /\ Len(FirstUnits(n)) = Built[n]
                      /\ \A j \in 1 .. Built[n] : FirstUnits(n)[j] = <<n, 1, j>>
    OBVIOUS
  <2>4. PICK z \in Nat : z = Built[n]
    BY <1>3
  <2>1. PICK f : f = FirstUnits(n) /\ z = Built[n]
    BY <2>4
  <2>2. f = [k \in 1 .. z |-> f[k]] /\ \A j \in 1 .. z : f[j] = <<n, 1, j>>
    BY <2>1 DEF FirstUnits
  <2>3. Stretch(f) /\ Len(f) = z
    BY <2>2, StretchIs
  <2> QED BY <2>1, <2>2, <2>3
<1>11. /\ DOMAIN m = Storages
       /\ \A u \in 1 .. e : m["span"][u] = LET item == Covering(its, u) IN FirstUnits(item.n)[u - item.off]
       /\ Stretch(m["span"]) /\ Len(m["span"]) = N
       /\ \A n \in Names : m[n] = IF Lent(n) THEN <<>> ELSE FirstUnits(n)
       /\ m["owner"] = <<>> /\ m["slot"] = <<>>
  <2>1. m = [s \in Storages |->
     CASE s = "span" -> [u \in 1 .. N |->
                           IF u > e THEN Junk
                           ELSE LET item == Covering(its, u) IN FirstUnits(item.n)[u - item.off]]
       [] s \in Names -> IF Lent(s) THEN <<>> ELSE FirstUnits(s)
       [] OTHER -> <<>>]
    BY <1>2 DEF BuiltMem
  <2>2. m["span"] = [u \in 1 .. N |->
                           IF u > e THEN Junk
                           ELSE LET item == Covering(its, u) IN FirstUnits(item.n)[u - item.off]]
    BY <2>1, Tensors
  <2>3. PICK s : s = m["span"]
    OBVIOUS
  <2>4. s = [u \in 1 .. N |-> s[u]]
    BY <2>2, <2>3
  <2>5. Stretch(s) /\ Len(s) = N
    BY <1>3, <2>4, StretchIs
  <2>6. ASSUME NEW u \in 1 .. e PROVE m["span"][u] = LET item == Covering(its, u) IN FirstUnits(item.n)[u - item.off]
    <3>1. u \in 1 .. N /\ ~ (u > e)
      BY <1>3
    <3> QED BY <2>2, <3>1
  <2>7. ASSUME NEW n \in Names PROVE m[n] = IF Lent(n) THEN <<>> ELSE FirstUnits(n)
    <3>1. n # "span" /\ n \in Storages
      BY Tensors
    <3> QED BY <2>1, <3>1
  <2>8. m["owner"] = <<>> /\ m["slot"] = <<>>
    <3>1. "owner" \notin Names /\ "slot" \notin Names
      BY Tensors
    <3> QED BY <2>1, <3>1, Tensors
  <2>9. DOMAIN m = Storages
    BY <2>1
  <2> QED BY <2>3, <2>5, <2>6, <2>7, <2>8, <2>9
<1>12. \A s \in Storages : Stretch(m[s])
  <2>1. <<>> \in Seq(Nat)
    OBVIOUS
  <2>2. Stretch(<<>>)
    BY <2>1, StretchIs
  <2> SUFFICES ASSUME NEW s \in Storages PROVE Stretch(m[s])
    OBVIOUS
  <2>3. CASE s \in Names
    BY <1>10, <1>11, <2>2, <2>3
  <2>4. CASE s \in {"span", "slot", "owner"}
    BY <1>11, <2>2, <2>4
  <2> QED BY <2>3, <2>4 DEF Storages
<1>13. PICK h : h = [s \in HomeStorages |-> m[s]]
  OBVIOUS
<1>14. "span" \in HomeStorages /\ "owner" \in HomeStorages /\ Names \subseteq HomeStorages /\ HomeStorages \subseteq Storages
  BY DEF HomeStorages, Storages
<1>15. \A s \in HomeStorages : h[s] = m[s]
  BY <1>13
<1>16. BuiltVersion \in [Names -> Nat] /\ \A n \in Names : Built[n] > 0 => BuiltVersion[n] = 1
  BY DEF BuiltVersion
<1>17. ASSUME NEW n \in Names, p[n] # Nowhere PROVE Reads(p[n], n, h, BuiltVersion)
  <2>1. CASE Lent(n)
    <3>1. PICK i \in 1 .. Len(its) :
            its[i].kind = "param" /\ its[i].n = n /\ its[i].size = Built[n] /\ p[n] = At("span", its[i].off, its[i].size)
      BY <1>8, <2>1
    <3>2. p[n].in = "span" /\ p[n].off = its[i].off /\ p[n].size = Built[n]
      BY <3>1 DEF At
    <3>3. Built[n] \in Nat /\ Built[n] # 0 /\ BuiltVersion[n] = 1
      BY <1>3, <1>4, <1>16, <2>1 DEF Lent
    <3>4. its[i].off \in Nat
      BY <1>4, ItemFields
    <3>5. ASSUME NEW j \in 1 .. p[n].size
          PROVE  p[n].off + j \in 1 .. Len(h["span"]) /\ h["span"][p[n].off + j] = <<n, BuiltVersion[n], j>>
      <4>1. j \in 1 .. its[i].size
        BY <3>1, <3>2
      <4>2. its[i].off + j \in 1 .. EndOf(its) /\ Covering(its, its[i].off + j) = its[i]
        BY <1>4, <4>1, Covers
      <4>3. PICK u : u = its[i].off + j
        OBVIOUS
      <4>4. u \in 1 .. e /\ u - its[i].off = j
        BY <1>2, <3>4, <4>2, <4>3
      <4>5. m["span"][u] = FirstUnits(n)[j]
        BY <1>11, <3>1, <4>2, <4>3, <4>4
      <4>6. u \in 1 .. Len(m["span"])
        BY <1>3, <1>11, <4>4
      <4>7. h["span"] = m["span"] /\ p[n].off + j = u
        BY <1>14, <1>15, <3>2, <4>3
      <4>8. FirstUnits(n)[j] = <<n, 1, j>>
        BY <1>10, <3>1, <3>3, <4>1
      <4>9. h["span"][p[n].off + j] = <<n, BuiltVersion[n], j>>
        BY <3>3, <4>5, <4>7, <4>8
      <4> QED BY <4>6, <4>7, <4>9
    <3> QED BY <3>2, <3>3, <3>5 DEF Reads
  <2>2. CASE ~ Lent(n)
    <3>1. Built[n] # 0 /\ p[n] = At(n, 0, Built[n])
      BY <1>9, <1>17, <2>2
    <3>2. p[n].in = n /\ p[n].off = 0 /\ p[n].size = Built[n]
      BY <3>1 DEF At
    <3>3. h[n] = FirstUnits(n)
      BY <1>11, <1>14, <1>15, <2>2
    <3>4. BuiltVersion[n] = 1 /\ \A j \in 1 .. Built[n] : 0 + j = j
      BY <1>3, <1>16, <3>1
    <3> QED BY <1>3, <1>10, <3>1, <3>2, <3>3, <3>4 DEF Reads
  <2> QED BY <2>1, <2>2
<1>18. ASSUME NEW n \in Names
       PROVE  /\ p[n].in \notin {"owner", "slot"} /\ (p[n].in = "span" => Lent(n))
  <2>1. CASE Lent(n)
    <3>1. PICK i \in 1 .. Len(its) : p[n] = At("span", its[i].off, its[i].size)
      BY <1>8, <2>1
    <3> QED BY <2>1, <3>1 DEF At
  <2>2. CASE ~ Lent(n)
    BY <1>9, <2>2, Tensors
  <2> QED BY <2>1, <2>2
<1>19. InnerOf(p, Nowhere) = {}
  BY DEF InnerOf
<1>20. Kept(p, Nowhere, h, BuiltVersion, its)
  <2>1. OwnerKept(p, Nowhere, h)
    BY <1>18 DEF OwnerKept
  <2>2. OwnerApart(p, Nowhere, its)
    BY <1>19 DEF OwnerApart
  <2>3. \A n \in Names : p[n].in = "span" => Holder(its, n)
    BY <1>3, <1>18
  <2>4. \A s \in HomeStorages : Stretch(h[s])
    BY <1>12, <1>14, <1>15
  <2> QED BY <1>3, <1>7, <1>16, <1>17, <1>19, <2>1, <2>2, <2>3, <2>4, Tensors DEF Kept
<1>21. LargeHeld(p, its)
  <2> SUFFICES ASSUME NEW n \in Names, p[n].size >= MinUnits, n \notin SkipNames PROVE Holder(its, n)
    BY DEF LargeHeld
  <2>1. CASE Lent(n)
    BY <1>3, <2>1
  <2>2. CASE ~ Lent(n)
    BY <1>9, <2>2 DEF Lent
  <2> QED BY <2>1, <2>2
<1>22. LayoutTypes
  <2>1. span \in Nat /\ active \in 0 .. span /\ slotSize \in Nat
    BY <1>1, <1>2, <1>3
  <2>2. DOMAIN mem = Storages /\ \A s \in Storages : Stretch(mem[s])
    BY <1>1, <1>2, <1>11, <1>12
  <2>3. param \in [Names -> Tensor] /\ owner \in Tensor
    BY <1>1, <1>2, <1>7, Tensors
  <2> QED BY <1>1, <2>1, <2>2, <2>3 DEF LayoutTypes
<1>23. owner.in # "slot" /\ \A n \in Names : param[n].in # "slot"
  BY <1>1, <1>2, <1>18, Tensors
<1>24. Kept(param, owner, [s \in HomeStorages |-> mem[s]], version, items) /\ LargeHeld(param, items)
  BY <1>1, <1>2, <1>13, <1>20, <1>21
<1> QED BY <1>1, <1>22, <1>23, <1>24, LoadsInv

\* ServerGone leaves such a layer.
LEMMA GoneInv ==
  ASSUME LayoutInv, ServerGone
  PROVE  LayoutInv' /\ HomeOwner' = Nowhere
<1>1. AsBuilt'
  BY DEF ServerGone, AsBuilt, LayoutInv, LayoutTypes
<1>2. LayoutInv'
  BY <1>1, BuiltInv, PTL
<1>3. HomeOwner' = Nowhere
  <2>1. Home(Nowhere) = Nowhere
    BY AtHome, Tensors
  <2> QED BY <2>1 DEF ServerGone, HomeOwner
<1> QED BY <1>2, <1>3

-----------------------------------------------------------------------------
(* The invariant of a layer is kept *)

\* A fused tensor that is large holds the parameters it was made of.
FusedInv ==
  HomeOwner # Nowhere => Fused = <<>> \/ (HomeOwner.size >= MinUnits /\ FusedIn(HomeParam, HomeOwner))

\* What a step of the launches does to the layer.
LayoutNext ==
  \/ BindModel \/ ServerGone \/ Loading \/ LayoutDone
  \/ OpenLayout \/ EnterSlot \/ CloseLayout \/ UNCHANGED layoutVars

\* Every step of the launches does one of these to the layer.
LEMMA LayoutSteps == [Next]_vars => LayoutNext
<1> SUFFICES ASSUME [Next]_vars PROVE LayoutNext
  OBVIOUS
<1>1. ASSUME NEW c, Starts(c) PROVE LayoutNext
  BY <1>1 DEF Starts, LayoutNext
<1>2. ASSUME NEW c, Serve(c) \/ Calibration(c) PROVE LayoutNext
  BY <1>1, <1>2 DEF Serve, Calibration
<1>3. CASE \E c \in UserChunks : LaunchGiven(c)
  BY <1>1, <1>3 DEF LaunchGiven
<1>4. CASE Launch
  BY <1>2, <1>4 DEF Launch
<1>5. CASE AfterCalibration
  BY <1>2, <1>5 DEF AfterCalibration
<1>6. CASE EndCalibration \/ LaunchFails \/ StopServer \/ RunsOut
  BY <1>6 DEF EndCalibration, LaunchFails, StopServer, RunsOut, LayoutNext
<1>7. CASE Load \/ AfterLoad \/ EnterLayer \/ UNCHANGED vars
  BY <1>7 DEF Load, AfterLoad, EnterLayer, vars, LayoutNext
<1>8. ASSUME NEW a, NEW b, NEW t, OpenWindow(a, b, t) \/ ExtendWindow(a, b) PROVE LayoutNext
  BY <1>8 DEF OpenWindow, ExtendWindow, LayoutNext, layoutVars
<1>9. ASSUME NEW r \in Ranks, EndWindow(r) PROVE LayoutNext
  BY <1>9 DEF EndWindow, LayoutNext
<1>10. CASE Window
  BY <1>6, <1>7, <1>8, <1>9, <1>10 DEF Window
<1> QED BY <1>3, <1>4, <1>5, <1>6, <1>7, <1>10 DEF Next

\* Every step of a layer keeps it.
LEMMA LayoutStep ==
  ASSUME LayoutInv, LayoutNext
  PROVE  LayoutInv' /\ (FusedIsLarge /\ FusedInv => FusedInv')
<1>1. CASE BindModel
  BY <1>1, BindInv DEF FusedStays, FusedInv
<1>2. CASE ServerGone
  BY <1>2, GoneInv DEF FusedInv
<1>3. ASSUME InnerOf(HomeParam', HomeOwner') = InnerOf(HomeParam, HomeOwner), HomeOwner' = HomeOwner, FusedInv
      PROVE  FusedInv'
  BY <1>3 DEF FusedInv, FusedIn
<1>4. ASSUME NEW n \in Names, Repack(n) PROVE LayoutInv' /\ (FusedInv => FusedInv')
  <2>1. LayoutInv' /\ InnerOf(HomeParam', HomeOwner') = InnerOf(HomeParam, HomeOwner) /\ owner' = owner
    BY <1>4, RepackInv
  <2>2. HomeOwner' = HomeOwner
    BY <2>1 DEF HomeOwner
  <2> QED BY <1>3, <2>1, <2>2
<1>5. ASSUME NEW n \in Names, NEW new \in Names \ {n}, Rename(n, new) PROVE LayoutInv' /\ (FusedInv => FusedInv')
  <2>1. LayoutInv' /\ InnerOf(HomeParam', HomeOwner') = InnerOf(HomeParam, HomeOwner) /\ owner' = owner
    BY <1>5, RenameInv
  <2>2. HomeOwner' = HomeOwner
    BY <2>1 DEF HomeOwner
  <2> QED BY <1>3, <2>1, <2>2
<1>6. ASSUME Fuse PROVE LayoutInv' /\ (FusedIsLarge => FusedInv')
  <2>1. LayoutInv' /\ FusedIn(HomeParam', HomeOwner') /\ HomeOwner'.size = Upto(Sizes, Fused)[Len(Fused)]
    BY <1>6, FuseInv
  <2>2. ASSUME FusedIsLarge, Fused # <<>> PROVE HomeOwner'.size >= MinUnits
    <3>1. PICK sizes : sizes = Sizes
      OBVIOUS
    <3>2. /\ Kept(param, owner, HomeMem, version, items) /\ DOMAIN Fused = 1 .. Len(Fused)
          /\ \A k \in DOMAIN Fused : Fused[k] \in Names /\ param[Fused[k]] # Nowhere
      <4>1. Fused \in Seq(Names)
        BY LayoutAssumption
      <4> QED BY <1>6, <4>1, Loads DEF Fuse, Processing
    <3>3. ASSUME NEW n \in Names, param[n] # Nowhere PROVE sizes[n] \in {Built[n], Repacked[n]} \ {0}
      <4>1. OwnReads(param[n], n, HomeMem, version)
        BY <3>2, <3>3, KeptReads
      <4> QED BY <3>1, <4>1 DEF OwnReads, Sizes
    <3>4. sizes \in [Names -> {0} \cup {Built[n] : n \in Names} \cup {Repacked[n] : n \in Names}]
      <4>1. ASSUME NEW n \in Names
            PROVE  sizes[n] \in {0} \cup {Built[q] : q \in Names} \cup {Repacked[q] : q \in Names}
        <5>1. param[n] = Nowhere => sizes[n] = 0
          BY <3>1, Tensors DEF Sizes
        <5> QED BY <3>3, <5>1
      <4>2. sizes = [n \in Names |-> sizes[n]]
        BY <3>1 DEF Sizes
      <4> QED BY <4>1, <4>2
    <3>5. \A k \in DOMAIN Fused : sizes[Fused[k]] \in {Built[Fused[k]], Repacked[Fused[k]]} \ {0}
      BY <3>2, <3>3
    <3>6. Upto(sizes, Fused)[Len(Fused)] >= MinUnits
      BY <2>2, <3>4, <3>5 DEF FusedIsLarge
    <3> QED BY <2>1, <3>1, <3>6
  <2> QED BY <2>1, <2>2 DEF FusedInv
<1>7. ASSUME FusedStays, FusedInv PROVE FusedInv'
  BY <1>7 DEF FusedStays, FusedInv
<1>8. CASE AfterModule \/ LayoutDone \/ OpenLayout \/ EnterSlot \/ CloseLayout
  BY <1>7, <1>8, AfterInv, DoneInv, OpenInv, EnterInv, CloseInv
<1>9. CASE UNCHANGED layoutVars
  <2>1. HomeParam' = HomeParam /\ HomeOwner' = HomeOwner /\ HomeMem' = HomeMem
    BY <1>9 DEF layoutVars, HomeParam, HomeOwner, HomeMem
  <2>2. LayoutTypes' /\ Windowed' = Windowed
    BY <1>9 DEF layoutVars, LayoutInv, LayoutTypes, Windowed
  <2>3. LayoutInv'
    BY <1>9, <2>1, <2>2 DEF layoutVars, LayoutInv
  <2> QED BY <2>1, <2>3 DEF FusedInv
<1>10. CASE Loading
  BY <1>4, <1>5, <1>6, <1>8, <1>10 DEF Loading
<1> QED BY <1>1, <1>2, <1>7, <1>8, <1>9, <1>10 DEF LayoutNext

-----------------------------------------------------------------------------
(* What holds of a layer *)

\* The layer's invariant, for any names, sizes and changes of the loading.
THEOREM LayoutInvariance == Spec => []LayoutInv
<1>1. Init => LayoutInv
  <2>1. LayoutInit => AsBuilt
    BY LayoutAssumption DEF LayoutInit, AsBuilt
  <2> QED BY <2>1, BuiltInv DEF Init
<1>2. LayoutInv /\ [Next]_vars => LayoutInv'
  BY LayoutSteps, LayoutStep
<1> QED BY <1>1, <1>2, PTL DEF Spec

\* A layer whose fused tensor is large keeps its parameters in it.
LEMMA FusedInvariance ==
  ASSUME FusedIsLarge
  PROVE  Spec => []FusedInv
<1>1. Init => FusedInv
  <2>1. Home(Nowhere) = Nowhere
    BY AtHome, Tensors
  <2> QED BY <2>1 DEF Init, LayoutInit, FusedInv, HomeOwner
<1>2. LayoutInv /\ FusedInv /\ [Next]_vars => FusedInv'
  BY LayoutSteps, LayoutStep
<1> QED BY <1>1, <1>2, LayoutInvariance, PTL DEF Spec

\* The variables of the launches and of the layer have their types; the idle part
\* lies behind the active one, and a slot holds any layer (LayoutDone grows it).
THEOREM TypeCorrect == Spec => []TypeOK
<1>1. LayoutInv => LayoutTypeOK
  <2> SUFFICES ASSUME LayoutInv PROVE LayoutTypeOK
    OBVIOUS
  <2>1. LayoutTypes /\ version \in [Names -> Nat]
    BY DEF LayoutInv, Kept
  <2>2. phase \in {"decode", "prefill"} => span <= slotSize /\ Len(mirror) = span
    BY DEF LayoutInv, Windowed
  <2> QED BY <2>1, <2>2 DEF LayoutTypes, LayoutTypeOK
<1>2. IInv /\ LayoutTypeOK => TypeOK
  <2> SUFFICES ASSUME IInv, LayoutTypeOK PROVE TypeOK
    OBVIOUS
  <2>1. LaunchTypes /\ BelowMin
    BY DEF IInv
  <2>2. \A r \in Ranks : files[r] = None \/ files[r].chunk \in Lowest .. Highest
    BY <2>1, NoneNoFile DEF LaunchTypes, Chunks
  <2>3. \A r \in Ranks : hintMin[r] = NoChunk \/ files[r].chunk <= hintMin[r]
    BY <2>1 DEF BelowMin
  <2>4. side.cutAt = NoChunk \/ side.cutAt \in Lowest + 1 .. Highest
    BY <2>1 DEF LaunchTypes
  <2> QED BY <2>1, <2>2, <2>3, <2>4 DEF LaunchTypes, TypeOK, Chunks
<1> QED BY <1>1, <1>2, Invariance, LayoutInvariance, PTL

-----------------------------------------------------------------------------
(* What a layer reads *)

\* A tensor that has a name's units one after the other is seen whole.
LEMMA Viewed ==
  ASSUME NEW n \in Names, NEW t \in Tensor, t.size # 0, Stretch(mem[t.in]),
         \A j \in 1 .. t.size : t.off + j \in 1 .. Len(mem[t.in]),
         \A j \in 1 .. t.size : mem[t.in][t.off + j] = <<n, version[n], j>>
  PROVE  View(t) = Whole(n, t.size)
<1>1. PICK m, v : m = mem[t.in] /\ v = View(t)
  OBVIOUS
<1>2. PICK o, z \in Nat : o = t.off /\ z = t.size
  BY Tensors
<1>3. Stretch(m) /\ v = SubSeq(m, o + 1, o + z)
  BY <1>1, <1>2 DEF View
<1>4. o + z <= Len(m)
  <2>1. z \in 1 .. z
    BY <1>2
  <2>2. o + z \in 1 .. Len(m)
    BY <1>1, <1>2, <2>1
  <2>3. Len(m) \in Nat
    BY <1>3, StretchIs
  <2> QED BY <2>2, <2>3
<1>5. PartOf(v, m, o, z)
  BY <1>2, <1>3, <1>4, Part
<1>6. v = [k \in 1 .. z |-> m[o + k]]
  BY <1>5 DEF PartOf
<1>7. \A k \in 1 .. z : m[o + k] = <<n, version[n], k>>
  BY <1>1, <1>2
<1>8. v = [k \in 1 .. z |-> <<n, version[n], k>>]
  BY <1>6, <1>7
<1> QED BY <1>1, <1>2, <1>8 DEF Whole

\* Items with a name of the idle ones begin behind the active part, the others end
\* before it; so whatever is pointed to the slot is all in it.
LEMMA InSlot ==
  ASSUME LayoutInv, phase = "prefill", NEW n \in Names, param[n].in = "slot"
  PROVE  param[n].off + param[n].size <= active
<1>1. /\ Windowed /\ Fitted(items) /\ Laid(HomeParam, HomeOwner, items, active)
      /\ HomeParam[n].size = param[n].size /\ HomeParam[n].off = param[n].off
      /\ active \in Nat
  BY Decodes
<1>2. param[n] \in Tensor /\ param[n].size \in Nat
  BY Tensors DEF LayoutInv, LayoutTypes
<1>3. PICK k \in 1 .. Len(items) : items[k].off < active /\ Holds(items[k], n)
  BY <1>1 DEF Windowed, Before
<1>4. Holder(items, n)
  BY <1>3 DEF Holder
<1>5. /\ HomeParam[n] = PlaceOf(items, n, "span", param[n].size)
      /\ ItemOf(items, n).kind = "owner" => Delta(ItemOf(items, n), n) + param[n].size <= ItemOf(items, n).size
  BY <1>1, <1>4 DEF Laid
<1>6. PlacedIn(items, n, "span", param[n].size)
  BY <1>1, <1>2, <1>4, PlaceIs, Tensors
<1>7. PICK i \in 1 .. Len(items) :
        /\ ItemOf(items, n) = items[i] /\ items[i].off \in Nat /\ items[i].size \in Nat
        /\ \/ /\ items[i].kind = "param" /\ items[i].n = n
              /\ HomeParam[n] = At("span", items[i].off, items[i].size)
           \/ /\ i = 1 /\ items[i].kind = "owner"
              /\ \E r \in items[i].inner :
                   r.n = n /\ r.delta \in Nat /\ Delta(items[i], n) = r.delta
                   /\ HomeParam[n] = At("span", r.delta, param[n].size)
  BY <1>5, <1>6 DEF PlacedIn
<1>8. CASE items[i].kind = "param" /\ items[i].n = n /\ HomeParam[n] = At("span", items[i].off, items[i].size)
  <2>1. items[k].kind = "param" /\ items[k].n = n
    <3>1. items[k].kind = "owner" => FALSE
      <4> SUFFICES ASSUME items[k].kind = "owner" PROVE FALSE
        OBVIOUS
      <4>1. k = 1 /\ items[1].n = "owner" /\ items # <<>> /\ n # "owner"
        BY <1>1, <1>3, Tensors DEF Fitted
      <4>2. \E r \in items[1].inner : r.n = n
        BY <1>3, <4>1 DEF Holds
      <4>3. items[1].kind = "owner"
        BY <4>1
      <4> QED BY <1>1, <1>8, <4>1, <4>2, <4>3 DEF Laid
    <3>2. items[k].kind = "param" /\ items[k].inner = {}
      BY <1>1, <3>1 DEF Fitted
    <3> QED BY <1>3, <3>2 DEF Holds
  <2>2. items[k].off \in Nat
    <3>1. items[k] \in Item
      BY <1>1 DEF Fitted
    <3> QED BY <3>1, ItemFields
  <2>3. n \notin IdleNames
    <3>1. n \in IdleNames => items[k].off >= active
      BY <1>1, <2>1 DEF Laid
    <3> QED BY <1>1, <1>3, <2>2, <3>1
  <2>4. items[i].off + items[i].size <= active
    BY <1>1, <1>8, <2>3 DEF Laid
  <2>5. HomeParam[n].off = items[i].off /\ HomeParam[n].size = items[i].size
    BY <1>8 DEF At
  <2> QED BY <1>1, <2>4, <2>5
<1>9. CASE i = 1 /\ items[i].kind = "owner"
  <2>1. PICK r \in items[i].inner :
          r.n = n /\ r.delta \in Nat /\ Delta(items[i], n) = r.delta
          /\ HomeParam[n] = At("span", r.delta, param[n].size)
    BY <1>7, <1>9
  <2>2. r.delta + param[n].size <= items[1].size
    BY <1>5, <1>7, <1>9, <2>1
  <2>3. items # <<>>
    BY <1>9
  <2>4. items[1].size <= active
    BY <1>1, <1>9, <2>3 DEF Laid
  <2>5. param[n].off = r.delta
    BY <1>1, <2>1 DEF At
  <2> QED BY <1>1, <1>2, <1>7, <1>9, <2>1, <2>2, <2>4, <2>5
<1> QED BY <1>7, <1>8, <1>9

\* Once a layer is entered, what is not in the slot and not idle is not in the span.
LEMMA NotInSpan ==
  ASSUME LayoutInv, entered, NEW n \in Names, param[n].in # "slot", n \notin IdleNames
  PROVE  HomeParam[n].in # "span"
<1>1. phase = "prefill"
  BY DEF LayoutInv
<1>2. /\ Windowed /\ Fitted(items) /\ Laid(HomeParam, HomeOwner, items, active)
      /\ active \in Nat
  BY <1>1, Decodes
<1>3. ~ Before(items, n, active)
  BY <1>2 DEF Windowed
<1>4. SUFFICES ASSUME HomeParam[n].in = "span" PROVE FALSE
  OBVIOUS
<1>5. Holder(items, n)
  BY <1>2, <1>4 DEF Laid
<1>6. PICK k \in 1 .. Len(items) : Holds(items[k], n)
  BY <1>5 DEF Holder
<1>7. items[k] \in Item /\ items[k].off \in Nat /\ items[k].size \in Nat
  <2>1. items[k] \in Item
    BY <1>2 DEF Fitted
  <2> QED BY <2>1, ItemFields
<1>8. CASE items[k].kind = "param"
  <2>1. items[k].n = n
    BY <1>2, <1>6, <1>8 DEF Fitted, Holds
  <2>2. items[k].size > 0 /\ items[k].off + items[k].size <= active
    BY <1>2, <1>8, <2>1 DEF Laid
  <2>3. items[k].off < active
    BY <1>2, <1>7, <2>2
  <2> QED BY <1>3, <1>6, <2>3 DEF Before
<1>9. CASE items[k].kind # "param"
  <2>1. k = 1 /\ items[1].kind = "owner" /\ items # <<>>
    BY <1>2, <1>9 DEF Fitted
  <2>2. items[1].off = 0 /\ items[1].size > 0 /\ items[1].size <= active
    BY <1>2, <2>1 DEF Laid, Fitted, Tiled
  <2>3. items[k].off < active
    BY <1>2, <1>7, <2>1, <2>2
  <2> QED BY <1>3, <1>6, <2>3 DEF Before
<1> QED BY <1>8, <1>9

\* Where a forward may look, a name reads what the loading last left under it.
LEMMA WholeReads == LayoutInv => ReadsWhole
<1> SUFFICES ASSUME LayoutInv, NEW n \in Names, Readable(n)
             PROVE  View(param[n]) = Whole(n, param[n].size)
  BY DEF ReadsWhole
<1>1. /\ LayoutTypes /\ Kept(HomeParam, HomeOwner, HomeMem, version, items)
      /\ param[n] # Nowhere /\ param[n] \in Tensor /\ phase # "off"
      /\ phase = "prefill" => entered /\ (n \notin IdleNames \/ param[n].in = "slot")
      /\ phase \in {"off", "load", "decode", "prefill"}
      /\ \A s \in Storages : Stretch(mem[s])
  BY DEF LayoutInv, LayoutTypes, Readable
<1>2. HomeParam[n] = Home(param[n]) /\ HomeParam[n] # Nowhere
  BY <1>1, AtHome DEF HomeParam
<1>3. OwnReads(HomeParam[n], n, HomeMem, version)
  BY <1>1, <1>2, KeptReads
<1>4. PICK t \in Tensor : t = HomeParam[n]
  BY <1>3 DEF OwnReads
<1>5. /\ t.size # 0 /\ t.in \in HomeStorages
      /\ \A j \in 1 .. t.size : t.off + j \in 1 .. Len(HomeMem[t.in])
      /\ \A j \in 1 .. t.size : HomeMem[t.in][t.off + j] = <<n, version[n], j>>
      /\ t.off = param[n].off /\ t.size = param[n].size
  BY <1>1, <1>2, <1>3, <1>4, AtHome DEF OwnReads
<1>6. HomeStorages \subseteq Storages /\ "span" \in HomeStorages
  BY DEF HomeStorages, Storages
<1>7. Stretch(mem[t.in]) /\ Stretch(mem[param[n].in])
  <2>1. param[n].in \in Storages
    <3>1. param[n].in = "nowhere" => FALSE
      <4> SUFFICES ASSUME param[n].in = "nowhere" PROVE FALSE
        OBVIOUS
      <4>1. HomeParam[n].in = "nowhere"
        BY <1>1, <1>2, AtHome
      <4> QED BY <1>4, <1>5, <1>6, <4>1, Tensors DEF HomeStorages
    <3> QED BY <1>1, <3>1, Tensors
  <2> QED BY <1>1, <1>5, <1>6, <2>1
<1>8. ASSUME t = param[n], HomeMem[t.in] = mem[t.in] PROVE View(param[n]) = Whole(n, param[n].size)
  BY <1>5, <1>7, <1>8, Viewed
<1>9. CASE phase = "load"
  <2>1. HomeParam = param /\ HomeMem = [s \in HomeStorages |-> mem[s]]
    BY <1>9, Loads
  <2> QED BY <1>4, <1>5, <1>8, <2>1
<1>10. ASSUME t.in # "span" PROVE HomeMem[t.in] = mem[t.in]
  BY <1>5, <1>10 DEF HomeMem
<1>11. CASE phase = "decode"
  <2>1. /\ param[n].in # "slot" /\ Windowed
    BY <1>11, Decodes DEF LayoutInv
  <2>2. t = param[n]
    BY <1>1, <1>2, <1>4, <2>1, AtHome
  <2>3. CASE t.in # "span"
    BY <1>8, <1>10, <2>2, <2>3
  <2>4. CASE t.in = "span"
    <3>1. HomeMem["span"] = mirror
      BY <1>6, <1>11 DEF HomeMem
    <3>2. Len(mirror) = span /\ \A u \in 1 .. span : u \in 1 .. Len(mem["span"]) /\ mem["span"][u] = mirror[u]
      BY <1>11, <2>1 DEF Windowed
    <3>3. \A j \in 1 .. t.size : t.off + j \in 1 .. span /\ mirror[t.off + j] = <<n, version[n], j>>
      BY <1>5, <2>4, <3>1, <3>2
    <3>4. /\ \A j \in 1 .. t.size : t.off + j \in 1 .. Len(mem[t.in])
          /\ \A j \in 1 .. t.size : mem[t.in][t.off + j] = <<n, version[n], j>>
      BY <2>4, <3>2, <3>3
    <3>5. View(t) = Whole(n, t.size)
      BY <1>5, <1>7, <3>4, Viewed
    <3> QED BY <2>2, <3>5
  <2> QED BY <2>3, <2>4
<1>12. CASE phase = "prefill" /\ param[n].in # "slot"
  <2>1. t = param[n]
    BY <1>1, <1>2, <1>4, <1>12, AtHome
  <2>2. t.in # "span"
    BY <1>1, <1>4, <1>12, NotInSpan
  <2> QED BY <1>8, <1>10, <2>1, <2>2
<1>13. CASE phase = "prefill" /\ param[n].in = "slot"
  <2>1. param[n].off + param[n].size <= active
    BY <1>13, InSlot
  <2>2. /\ Windowed /\ active \in Nat /\ slotSize \in Nat /\ active <= slotSize /\ Len(mirror) = span
    <3>1. active \in 0 .. span /\ span <= slotSize /\ slotSize \in Nat /\ span \in Nat
      BY <1>1, <1>13, Decodes DEF LayoutTypes
    <3> QED BY <1>13, <3>1, Decodes
  <2>3. Len(mem["slot"]) = slotSize /\ \A u \in 1 .. active : mem["slot"][u] = mirror[u]
    BY <1>1, <1>13, <2>2 DEF Windowed
  <2>4. t.in = "span" /\ HomeMem["span"] = mirror
    BY <1>1, <1>2, <1>4, <1>6, <1>13, AtHome DEF HomeMem
  <2>5. PICK o, z \in Nat : o = param[n].off /\ z = param[n].size
    BY <1>1, Tensors
  <2>6. ASSUME NEW j \in 1 .. z PROVE o + j \in 1 .. slotSize /\ mem["slot"][o + j] = <<n, version[n], j>>
    <3>1. o + j \in 1 .. active /\ o + j \in 1 .. slotSize
      <4>1. PICK a, b \in Nat : a = active /\ b = slotSize
        BY <2>2
      <4>2. o + z <= a /\ a <= b
        BY <2>1, <2>2, <2>5, <4>1
      <4>3. o + j \in 1 .. a /\ o + j \in 1 .. b
        BY <2>5, <4>1, <4>2
      <4> QED BY <4>1, <4>3
    <3>2. mirror[o + j] = <<n, version[n], j>>
      BY <1>5, <2>4, <2>5
    <3> QED BY <2>3, <3>1, <3>2
  <2>7. /\ \A j \in 1 .. param[n].size : param[n].off + j \in 1 .. Len(mem[param[n].in])
        /\ \A j \in 1 .. param[n].size : mem[param[n].in][param[n].off + j] = <<n, version[n], j>>
    BY <1>13, <2>3, <2>5, <2>6
  <2> QED BY <1>1, <1>5, <1>7, <2>7, Viewed
<1> QED BY <1>1, <1>9, <1>11, <1>12, <1>13

\* In the slot as in the span the fused tensor and its parameters lie together.
LEMMA InnerTogether ==
  ASSUME LayoutInv, NEW n \in InnerOf(HomeParam, HomeOwner)
  PROVE  n \in Inner
<1>1. /\ LayoutTypes /\ n \in Names /\ HomeOwner # Nowhere /\ HomeParam[n] # Nowhere
      /\ HomeParam[n].in = HomeOwner.in /\ HomeOwner.off <= HomeParam[n].off
      /\ HomeParam[n].off < HomeOwner.off + HomeOwner.size
  BY DEF LayoutInv, InnerOf, LiesIn
<1>2. param[n] \in Tensor /\ owner \in Tensor
  BY <1>1 DEF LayoutTypes
<1>3. HomeParam[n] = Home(param[n]) /\ HomeOwner = Home(owner)
  BY <1>1 DEF HomeParam, HomeOwner
<1>4. /\ owner # Nowhere /\ param[n] # Nowhere
      /\ HomeParam[n].off = param[n].off /\ HomeOwner.off = owner.off /\ HomeOwner.size = owner.size
  BY <1>1, <1>2, <1>3, AtHome
<1>5. SUFFICES param[n].in = owner.in
  BY <1>1, <1>4, <1>5, InnerIs DEF InnerOf, LiesIn
<1>6. CASE param[n].in # "slot" /\ owner.in # "slot"
  BY <1>1, <1>2, <1>3, <1>6, AtHome
<1>7. CASE param[n].in = "slot" \/ owner.in = "slot"
  <2>1. phase \in {"decode", "prefill"}
    <3>1. phase \in {"off", "load"} => FALSE
      BY <1>1, <1>7 DEF LayoutInv
    <3> QED BY <1>1, <3>1 DEF LayoutTypes
  <2>2. /\ Windowed /\ Fitted(items) /\ Laid(HomeParam, HomeOwner, items, active)
        /\ active \in Nat /\ entered
    BY <1>1, <1>7, <2>1, Decodes
  <2>3. HomeParam[n].in = "span" /\ HomeOwner.in = "span"
    BY <1>1, <1>2, <1>3, <1>7, AtHome
  <2>4. items # <<>> /\ items[1].kind = "owner"
    BY <2>2, <2>3 DEF Laid
  <2>5. /\ items[1].size > 0 /\ items[1].size <= active /\ HomeOwner = At("span", 0, items[1].size)
        /\ items[1].off = 0
    BY <2>2, <2>4 DEF Laid, Fitted, Tiled
  <2>6. owner.in = "slot"
    BY <2>2, <2>4 DEF Windowed
  <2>7. Holder(items, n)
    BY <1>1, <2>2, <2>3 DEF Laid
  <2>8. items \in Seq(Item) /\ Tiled(items) /\ 1 \in 1 .. Len(items)
    BY <2>2, <2>4, Empty, Elements DEF Fitted
  <2>9. PICK z \in Nat : z = items[1].size
    BY <2>8, ItemFields
  <2>10. HomeParam[n].off < z
    <3>1. HomeOwner.off = 0 /\ HomeOwner.size = z
      BY <2>5, <2>9 DEF At
    <3> QED BY <1>1, <2>9, <3>1
  <2>11. Before(items, n, active)
    <3>1. HomeParam[n] = PlaceOf(items, n, "span", param[n].size) /\ param[n].size \in Nat
      <4>1. HomeParam[n] = PlaceOf(items, n, "span", HomeParam[n].size)
        BY <1>1, <2>2, <2>7 DEF Laid
      <4>2. HomeParam[n].size = param[n].size /\ param[n].size \in Nat
        BY <1>2, <1>3, AtHome, Tensors
      <4> QED BY <4>1, <4>2
    <3>2. PlacedIn(items, n, "span", param[n].size)
      BY <1>1, <2>2, <2>7, <3>1, PlaceIs, Tensors
    <3>3. PICK i \in 1 .. Len(items) :
            /\ items[i].off \in Nat /\ items[i].size \in Nat
            /\ \/ items[i].kind = "param" /\ HomeParam[n] = At("span", items[i].off, items[i].size)
               \/ i = 1 /\ \E r \in items[i].inner : r.n = n
      BY <3>1, <3>2 DEF PlacedIn
    <3>4. CASE items[i].kind = "param" /\ HomeParam[n] = At("span", items[i].off, items[i].size)
      <4>1. HomeParam[n].off = items[i].off
        BY <3>4 DEF At
      <4>2. i # 1
        BY <2>4, <3>4
      <4>3. items[1].off + items[1].size <= items[i].off
        <5>1. 1 < i
          BY <4>2
        <5> QED BY <2>8, <5>1, Apart
      <4>4. z <= items[i].off
        BY <2>5, <2>9, <3>3, <4>3
      <4> QED BY <2>9, <2>10, <3>3, <4>1, <4>4
    <3>5. CASE i = 1 /\ \E r \in items[i].inner : r.n = n
      <4>1. items[1].off < active
        BY <2>2, <2>5, <2>9
      <4> QED BY <2>8, <3>5, <4>1 DEF Before, Holds
    <3> QED BY <3>3, <3>4, <3>5
  <2>12. param[n].in = "slot"
    BY <1>1, <2>2, <2>11 DEF Windowed
  <2> QED BY <2>6, <2>12
<1> QED BY <1>6, <1>7

\* Of a fused tensor that is large, each parameter it was made of lies in it.
LEMMA SharesMemory == LayoutInv /\ FusedInv => FusedShares
<1> SUFFICES ASSUME LayoutInv, FusedInv, owner # Nowhere, NEW k \in DOMAIN Fused
             PROVE  Fused[k] \in Inner
  BY DEF FusedShares
<1>1. HomeOwner # Nowhere
  <2>1. owner \in Tensor /\ HomeOwner = Home(owner)
    BY DEF LayoutInv, LayoutTypes, HomeOwner
  <2> QED BY <2>1, AtHome
<1>2. DOMAIN Fused = 1 .. Len(Fused) /\ Fused # <<>>
  <2>1. Fused \in Seq(Names)
    BY LayoutAssumption
  <2>2. DOMAIN Fused = 1 .. Len(Fused)
    BY <2>1
  <2>3. Len(Fused) # 0
    BY <2>2
  <2> QED BY <2>1, <2>2, <2>3, Empty
<1>3. FusedIn(HomeParam, HomeOwner)
  BY <1>1, <1>2 DEF FusedInv
<1>4. Fused[k] \in InnerOf(HomeParam, HomeOwner)
  BY <1>1, <1>2, <1>3 DEF FusedIn
<1> QED BY <1>4, InnerTogether

\* However the loading rebinds, renames and fuses parameters of any sizes, and
\* however often the layer is laid out again, a forward reads under each name what
\* the loading last left there: no unit is lost, stale or another's, in the span, in
\* a slot or outside (_relayout, _point, after_load, end_window).
THEOREM LayerReads == Spec => []ReadsWhole
BY LayoutInvariance, WholeReads, PTL

\* ... and a fused tensor that is large whatever its parameters' sizes remains one
\* memory with them, when both are moved into the span and to a slot and back
\* (_owners_after_load).
THEOREM LayerKeepsWeights ==
  ASSUME FusedIsLarge
  PROVE  Spec => []KeepsWeights
<1>1. ReadsWhole /\ FusedShares => KeepsWeights
  BY DEF KeepsWeights
<1>2. Spec => []FusedInv
  BY FusedInvariance
<1> QED BY <1>1, <1>2, LayoutInvariance, WholeReads, SharesMemory, PTL
=============================================================================
