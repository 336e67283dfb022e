--------------------------- MODULE EngramStaging ---------------------------
(***************************************************************************)
(* tools/engram-adapter/engram_backend.py, _owned_rows: the staging sets   *)
(* of a table's lookups (pinned ids, weights and scales, and the device    *)
(* rows they are copied to) and the Work structs that the host callbacks   *)
(* read. A callback is queued with the address of a Work and runs when     *)
(* the stream reaches it, which may be many forwards of the host later;    *)
(* by then its Work and its pinned buffers must still be there.            *)
(*                                                                         *)
(* A set has a number and the address of its pinned ids; addresses freed   *)
(* by the host allocator come back, numbers in use do not. Lookups are in  *)
(* units of rows; the device of a set is left out, a rank has one.         *)
(***************************************************************************)
EXTENDS PrefillStream, FiniteSets

CONSTANTS
  EagerRows,    \* EAGER_ROWS
  WorksLimit,   \* works kept before the prefill-sized ones are dropped
  Addresses,    \* addresses of pinned ids
  Graphed       \* rows the decode graph was captured with

ASSUME EagerAssumption == EagerRows \in Nat \ {0} /\ WorksLimit \in Nat \ {0}
ASSUME AddressAssumption == Addresses \subseteq Nat /\ Cardinality(Addresses) > 3
ASSUME GraphedAssumption == Graphed \in 1 .. EagerRows - 1

VARIABLES
  staging,   \* _staging: key -> the set
  works      \* _works: <<address of ids, count>> -> the Work

engramVars == <<staging, works>>

\* 1 << (count - 1).bit_length(): the least power of two that is not less.
Pow2[k \in Nat] == IF k = 0 THEN 1 ELSE 2 * Pow2[k - 1]
Capacity(count) == CHOOSE c \in {Pow2[k] : k \in 0 .. count} :
                     c >= count /\ \A k \in 0 .. count : Pow2[k] >= count => c <= Pow2[k]

NewSet(n, ids, cap, place) == [id |-> n, ids |-> ids, cap |-> cap, place |-> place]
Lookup(set, work) ==
  [op |-> "lookup", set |-> set.id, place |-> set.place, work |-> work.id,
   into |-> work.set, after |-> 0]

\* The lookup in the decode graph, warmed and captured before the first
\* forward: its set and its Work are the first ones.
FirstSet == NewSet(0, CHOOSE a \in Addresses : TRUE, Capacity(Graphed), "resident")
FirstWork == [id |-> 0, set |-> 0]
CapturedLookup == Lookup(FirstSet, FirstWork)

EngramInit ==
  /\ staging = [k \in {<<"own", Capacity(Graphed)>>} |-> FirstSet]
  /\ works = [wk \in {<<FirstSet.ids, Graphed>>} |-> FirstWork]

Lookups == {op \in Pending : op.op = "lookup"} \cup {CapturedLookup}

Fresh(used) == CHOOSE n \in 0 .. Cardinality(used) :
                 n \notin used /\ \A m \in 0 .. n - 1 : m \in used

LiveSets == {staging[k] : k \in DOMAIN staging}

\* Prefill-sized lookups share one set, another one inside the lend window;
\* each smaller capacity has its own.
Eager(count) == Capacity(count) >= EagerRows
\* Mutant: one eager key, in the window and out.
Key_one(count) ==
  IF ~Eager(count) THEN <<"own", Capacity(count)>> ELSE <<"eager", 0>>
Key(count) ==
  IF ~Eager(count) THEN <<"own", Capacity(count)>>
  ELSE <<IF window THEN "eager-lend" ELSE "eager", 0>>

\* Only an eager set may be too small for its key.
Missing(key, count) ==
  key \notin DOMAIN staging \/ (Eager(count) /\ staging[key].cap < Capacity(count))

Region(count) == IF Eager(count) /\ window THEN "scratch" ELSE "resident"

\* Works left when the set at key is replaced, and the wait before that.
WorksAfter(key, count) ==
  IF Missing(key, count) /\ key \in DOMAIN staging
  THEN {wk \in DOMAIN works : wk[1] # staging[key].ids}
  ELSE DOMAIN works

\* Mutant: the old set is dropped with its callbacks still queued.
MayReplace_now(key, count) == TRUE
MayReplace(key, count) == Missing(key, count) /\ key \in DOMAIN staging => Idle

\* Works left when a new one is about to make too many, and the wait.
TooMany(wk, left) == wk \notin left /\ Cardinality(left) >= WorksLimit
Trimmed(wk, left) ==
  IF TooMany(wk, left) THEN {k \in left : k[2] < EagerRows} ELSE left
MayTrim(wk, left) == TooMany(wk, left) => Idle

\* The pinned ids of a new set: any address no set left has.
FreeFor(key, ids) ==
  \A k \in DOMAIN staging \ {key} : staging[k].ids # ids

SetFor(key, count, ids) ==
  IF Missing(key, count)
  THEN NewSet(Fresh({s.id : s \in LiveSets} \cup {op.set : op \in Lookups}
                    \cup {works[wk].set : wk \in DOMAIN works}),
              ids, Capacity(count), Region(count))
  ELSE staging[key]

\* owned(): the set and the Work of this count, made or remade if need be,
\* and the callback queued behind the copy of its ids.
OwnedRows(count) ==
  LET key == Key(count)
      left == WorksAfter(key, count)
  IN /\ MayReplace(key, count)
     /\ \E ids \in IF Missing(key, count) THEN {a \in Addresses : FreeFor(key, a)}
                   ELSE {staging[key].ids} :
          LET set == SetFor(key, count, ids)
              wk == <<ids, count>>
              kept == Trimmed(wk, left)
              new == [id |-> Fresh({works[k].id : k \in kept} \cup {op.work : op \in Lookups}),
                      set |-> set.id]
              work == IF wk \in kept THEN works[wk] ELSE new
          IN /\ MayTrim(wk, left)
             /\ staging' = [k \in DOMAIN staging \cup {key} |->
                              IF k = key THEN set ELSE staging[k]]
             /\ works' = [k \in kept \cup {wk} |-> IF k = wk THEN work ELSE works[k]]
             /\ cur' = Append(cur, Lookup(set, work))

\* Every lookup queued, and the one in the decode graph, points at a Work
\* that is still there, which names the pinned buffers of the set whose rows
\* are copied behind it, and that set is still there.
LookupsAlive ==
  \A op \in Lookups :
    /\ \E wk \in DOMAIN works : works[wk].id = op.work
    /\ op.into = op.set
    /\ \E s \in LiveSets : s.id = op.set
=============================================================================
