----------------------------- MODULE LendLayout -----------------------------
(***************************************************************************)
(* How patches/kt_lend.py lays one decoder layer's weights out in its span *)
(* while the model loads, and what a lend window does with them. The       *)
(* loading rebinds parameters (a repack), makes them anew under another    *)
(* name, or stacks several into one fused tensor of which they become      *)
(* views; after each module the layer is laid out again if that left a     *)
(* large tensor outside the span, and once more when everything is loaded. *)
(* Then the span is mirrored, and a window runs the layer from a slot that *)
(* holds only the part before the idle weights.                            *)
(*                                                                         *)
(* Memory is counted in units; a unit holds <<name, version, index>>, so   *)
(* that a stale, moved or overwritten tensor shows. A tensor outside the   *)
(* span has a storage of its own, named for it.                            *)
(***************************************************************************)
EXTENDS Integers, FiniteSets, SequencesExt

CONSTANTS
  Order,      \* the layer's parameter names, as named_parameters lists them
  Built,      \* [names -> units a parameter has when the model is built; 0: none]
  Repacked,   \* [names -> units it may have after a repack]
  MinUnits,   \* KT_PREFILL_LEND_MIN_BYTES
  IdleNames,  \* names matching KT_PREFILL_LEND_IDLE
  SkipNames,  \* names matching KT_PREFILL_LEND_SKIP
  Fused,      \* the names a module stacks into one owner, in that order
  MaxChanges  \* bound on the loading's changes

Names == {Order[k] : k \in DOMAIN Order}

ASSUME LayoutAssumption ==
  /\ Order \in Seq(Names) /\ Fused \in Seq(Names)
  /\ Names \cap {"span", "slot", "owner", "nowhere"} = {}
  /\ Built \in [Names -> Nat] /\ Repacked \in [Names -> Nat]
  /\ MinUnits \in Nat \ {0} /\ MaxChanges \in Nat
  /\ IdleNames \subseteq Names /\ SkipNames \subseteq Names

VARIABLES
  phase,    \* STATE["phase"], "off" when no server runs
  param,    \* [Names -> where the parameter is, or Nowhere]
  owner,    \* where the fused tensor is, or Nowhere
  items,    \* STATE["layouts"]: what lies in the span, in order
  active,   \* STATE["active"]: the length of the part that is not idle
  span,     \* STATE["spans"]
  slotSize, \* units of a slot
  mem,      \* [storages -> units]; what is unmapped has none
  mirror,   \* STATE["host"]
  version,  \* [Names -> what the loading last left under the name; 0: none]
  processed,\* a module was processed; after_module is due
  entered,  \* the layer runs from the slot
  changes   \* changes the loading has made

layoutVars == <<phase, param, owner, items, active, span, slotSize, mem, mirror,
                version, processed, entered, changes>>

Storages == {"span", "slot", "owner"} \cup Names
Nowhere == [in |-> "nowhere", off |-> 0, size |-> 0]
At(s, off, size) == [in |-> s, off |-> off, size |-> size]
Junk == <<"junk", 0, 0>>
Fill(n) == [k \in 1 .. n |-> Junk]

\* A unit of a tensor, all of them, and what the loading left for a name.
Unit(t, j) == mem[t.in][t.off + j]
View(t) == SubSeq(mem[t.in], t.off + 1, t.off + t.size)
Whole(n, size) == [k \in 1 .. size |-> <<n, version[n], k>>]

\* The sum of f[s[1]] .. f[s[k]].
Upto(f, s) ==
  LET sum[k \in 0 .. Len(s)] == IF k = 0 THEN 0 ELSE sum[k - 1] + f[s[k]] IN sum

\* The elements of s that are in S.
Only(s, S) == FlattenSeq([k \in DOMAIN s |-> IF s[k] \in S THEN <<s[k]>> ELSE <<>>])

Sizes == [n \in Names |-> param[n].size]
IsIn(n, t) == param[n] # Nowhere /\ param[n].in = t.in
              /\ t.off <= param[n].off /\ param[n].off < t.off + t.size

-----------------------------------------------------------------------------
(* Layouts: an item is a parameter of its own or an owner with its inner   *)
(* parameters, [n |-> name, delta |-> its place in the owner].             *)

ParamItem(n, off, size) == [kind |-> "param", n |-> n, off |-> off, size |-> size, inner |-> {}]
OwnerItem(size, inner) == [kind |-> "owner", n |-> "owner", off |-> 0, size |-> size, inner |-> inner]

\* One item after the other, from unit `from`.
Lay(names, sizes, from) ==
  [k \in DOMAIN names |-> ParamItem(names[k], from + Upto(sizes, names)[k - 1], sizes[names[k]])]

EndOf(its) == IF its = <<>> THEN 0 ELSE its[Len(its)].off + its[Len(its)].size

\* What holds a name, and what covers a unit.
Holds(item, n) == item.n = n \/ \E r \in item.inner : r.n = n
ItemOf(its, n) == CHOOSE item \in {its[k] : k \in DOMAIN its} : Holds(item, n)
Covering(its, u) ==
  CHOOSE item \in {its[k] : k \in DOMAIN its} : item.off < u /\ u <= item.off + item.size

\* bind_model: every large parameter gets a place; the small ones get slack.
Lent(n) == Built[n] >= MinUnits /\ n \notin SkipNames
Bound == Only(Order, {n \in Names : Lent(n)})
Slack(n) == IF Built[n] < MinUnits /\ n \notin SkipNames THEN Built[n] ELSE 0
SpanAtBind == Upto(Built, Bound)[Len(Bound)]
              + Upto([n \in Names |-> Slack(n)], Order)[Len(Order)]

\* Mutant of LentNames: what an owner holds is not among the lent names.
LentNames_no_owner ==
  FlattenSeq([k \in DOMAIN items |-> IF items[k].kind = "param" THEN <<items[k].n>> ELSE <<>>])

\* _lent_names, in the layout's order (an owner's by their place in it).
InnerNames(item) == Only(Order, {r.n : r \in item.inner})
LentNames ==
  FlattenSeq([k \in DOMAIN items |->
                IF items[k].kind = "param" THEN <<items[k].n>> ELSE InnerNames(items[k])])

InLayout(n) == \E k \in DOMAIN LentNames : LentNames[k] = n

\* _owners_after_load: the fused tensor, with every parameter that points into
\* it, if it is large and one of them is lent.
Inner == {n \in Names : owner # Nowhere /\ IsIn(n, owner)}
Found == owner.size >= MinUnits /\ \E n \in Inner : InLayout(n)

\* What a new layout places: the names lent so far, then what the loading made
\* anew and large; the idle ones last.
Anew == Only(Order, {n \in Names : ~InLayout(n) /\ param[n] # Nowhere
                                  /\ param[n].size >= MinUnits /\ n \notin SkipNames})
Placed == {n \in Names : param[n] # Nowhere /\ ~(Found /\ n \in Inner)}
Live == Only(LentNames \o Anew, Placed \ IdleNames)
Idle == Only(LentNames \o Anew, Placed \cap IdleNames)

OwnerItems ==
  IF Found THEN <<OwnerItem(owner.size, {[n |-> n, delta |-> param[n].off - owner.off] : n \in Inner})>>
  ELSE <<>>
NewItems == OwnerItems \o Lay(Live \o Idle, Sizes, EndOf(OwnerItems))

\* The units before the first idle item; everything when there is none.
NewActive == IF Idle = <<>> THEN EndOf(NewItems) ELSE NewItems[Len(NewItems) - Len(Idle) + 1].off

\* _point: what its lends becomes views of storage s; with a limit, only what is
\* placed before it.
Pointed(p, its, s, limit) ==
  [n \in Names |->
     IF \E k \in DOMAIN its : its[k].off < limit /\ Holds(its[k], n)
     THEN LET item == ItemOf(its, n)
          IN IF item.kind = "param" THEN At(s, item.off, item.size)
             ELSE At(s, item.off + (CHOOSE r \in item.inner : r.n = n).delta, p[n].size)
     ELSE p[n]]
Point(its, s, limit) ==
  /\ param' = Pointed(param, its, s, limit)
  /\ owner' = IF \E k \in DOMAIN its : its[k].kind = "owner" /\ its[k].off < limit
              THEN At(s, 0, its[1].size) ELSE owner

\* Every item copied to its place in one stretch of memory.
Source(item) == IF item.kind = "owner" THEN owner ELSE param[item.n]
Gathered(its) ==
  [u \in 1 .. EndOf(its) |-> LET item == Covering(its, u) IN Unit(Source(item), u - item.off)]

\* _relayout: through host memory, into the same span when it fits, else into a
\* new one of just the size needed. Tensors moved in leave their own storages.
Relayout ==
  LET its == NewItems
      host == Gathered(its)
      full == Len(mem["span"])
  IN
  /\ items' = its /\ span' = EndOf(its) /\ active' = NewActive
  /\ mem' = [mem EXCEPT !["span"] = IF EndOf(its) <= full
                                    THEN host \o SubSeq(@, EndOf(its) + 1, full) ELSE host]
  /\ Point(its, "span", EndOf(its) + 1)

-----------------------------------------------------------------------------
(* Loading *)

BuiltItems == Lay(Bound, Built, 0)
BuiltVersion == [n \in Names |-> IF Built[n] > 0 THEN 1 ELSE 0]
FirstUnits(n) == [k \in 1 .. Built[n] |-> <<n, 1, k>>]
BuiltParam ==
  Pointed([n \in Names |-> IF Built[n] = 0 THEN Nowhere ELSE At(n, 0, Built[n])],
          BuiltItems, "span", SpanAtBind + 1)
BuiltMem ==
  [s \in Storages |->
     CASE s = "span" -> [u \in 1 .. SpanAtBind |->
                           IF u > EndOf(BuiltItems) THEN Junk
                           ELSE LET item == Covering(BuiltItems, u) IN FirstUnits(item.n)[u - item.off]]
       [] s \in Names -> IF Lent(s) THEN <<>> ELSE FirstUnits(s)
       [] OTHER -> <<>>]

\* bind_model: a server starts to load (a layer is built as it was the last time).
BindModel ==
  /\ phase = "off" /\ phase' = "load"
  /\ UNCHANGED <<param, owner, items, active, span, slotSize, mem, mirror,
                 version, processed, entered, changes>>

\* No server runs: what the layer has once it does.
LayoutInit ==
  /\ phase = "off"
  /\ items = BuiltItems /\ param = BuiltParam /\ owner = Nowhere
  /\ span = SpanAtBind /\ active = SpanAtBind /\ slotSize = SpanAtBind
  /\ mem = BuiltMem /\ mirror = <<>>
  /\ version = BuiltVersion /\ processed = FALSE /\ entered = FALSE /\ changes = 0

\* The server is gone.
ServerGone ==
  /\ phase' = "off"
  /\ items' = BuiltItems /\ param' = BuiltParam /\ owner' = Nowhere
  /\ span' = SpanAtBind /\ active' = SpanAtBind /\ slotSize' = SpanAtBind
  /\ mem' = BuiltMem /\ mirror' = <<>>
  /\ version' = BuiltVersion /\ processed' = FALSE /\ entered' = FALSE
  /\ UNCHANGED changes

\* A module's weight processing starts: what every change below has in common.
Processing ==
  /\ phase = "load" /\ ~processed /\ changes < MaxChanges
  /\ processed' = TRUE /\ changes' = changes + 1
  /\ UNCHANGED <<phase, items, active, span, slotSize, mirror, entered>>

\* A repack: a new tensor of another size under the same name.
Repack(n) ==
  /\ Processing
  /\ param[n] # Nowhere /\ n \notin Inner /\ Repacked[n] > 0
  /\ version' = [version EXCEPT ![n] = @ + 1]
  /\ param' = [param EXCEPT ![n] = At(n, 0, Repacked[n])]
  /\ mem' = [mem EXCEPT ![n] = [k \in 1 .. Repacked[n] |-> <<n, version[n] + 1, k>>]]
  /\ UNCHANGED owner

\* A repack under another name: the old parameter is gone.
Rename(n, new) ==
  /\ Processing
  /\ param[n] # Nowhere /\ n \notin Inner /\ Repacked[new] > 0 /\ Built[new] = 0 /\ param[new] = Nowhere
  /\ version' = [version EXCEPT ![n] = 0, ![new] = 1]
  /\ param' = [param EXCEPT ![n] = Nowhere, ![new] = At(new, 0, Repacked[new])]
  /\ mem' = [mem EXCEPT ![n] = <<>>, ![new] = [k \in 1 .. Repacked[new] |-> <<new, 1, k>>]]
  /\ UNCHANGED owner

\* A module stacks parameters into one tensor and makes them views of it.
Fuse ==
  /\ Processing
  /\ owner = Nowhere /\ \A k \in DOMAIN Fused : param[Fused[k]] # Nowhere
  /\ LET its == Lay(Fused, Sizes, 0) IN
     /\ owner' = At("owner", 0, EndOf(its))
     /\ param' = Pointed(param, its, "owner", EndOf(its) + 1)
     /\ mem' = [mem EXCEPT !["owner"] = Gathered(its)]
  /\ UNCHANGED version

\* after_module's test: no large tensor of the layer lies outside its span.
InSpan(n) == param[n].in = "span"
NoneOutside ==
  \A n \in Names : param[n] # Nowhere /\ param[n].size >= MinUnits /\ n \notin SkipNames => InSpan(n)

\* after_module
AfterModule ==
  /\ phase = "load" /\ processed
  /\ processed' = FALSE
  /\ IF NoneOutside THEN UNCHANGED <<param, owner, items, active, span, mem>> ELSE Relayout
  /\ UNCHANGED <<phase, slotSize, mirror, version, entered, changes>>

\* after_load, of this layer: laid out, mirrored, the slots made to hold it, the
\* scratch released.
LayoutDone_old_slots ==
  /\ phase = "load" /\ ~processed
  /\ phase' = "decode"
  /\ Relayout
  /\ mirror' = SubSeq(mem'["span"], 1, EndOf(NewItems))
  /\ UNCHANGED <<slotSize, version, processed, entered, changes>>
LayoutDone ==
  /\ phase = "load" /\ ~processed
  /\ phase' = "decode"
  /\ Relayout
  /\ mirror' = SubSeq(mem'["span"], 1, EndOf(NewItems))
  /\ slotSize' = IF slotSize < EndOf(NewItems) THEN EndOf(NewItems) ELSE slotSize
  /\ UNCHANGED <<version, processed, entered, changes>>

Loading ==
  \/ \E n \in Names : Repack(n) \/ \E new \in Names \ {n} : Rename(n, new)
  \/ Fuse \/ AfterModule

-----------------------------------------------------------------------------
(* A lend window *)

\* before_forward, to prefill: the weights' memory goes, the scratch comes.
OpenLayout ==
  /\ phase = "decode"
  /\ phase' = "prefill"
  /\ mem' = [mem EXCEPT !["span"] = <<>>, !["slot"] = Fill(slotSize)]
  /\ UNCHANGED <<param, owner, items, active, span, slotSize, mirror, version, processed, entered, changes>>

\* _prefetch and _enter of this layer: the part that is not idle.
EnterSlot ==
  /\ phase = "prefill" /\ ~entered
  /\ entered' = TRUE
  /\ mem' = [mem EXCEPT !["slot"] = SubSeq(mirror, 1, active) \o SubSeq(@, active + 1, slotSize)]
  /\ Point(items, "slot", active)
  /\ UNCHANGED <<phase, items, active, span, slotSize, mirror, version, processed, changes>>

\* end_window: _leave points the layer home, the scratch goes, the weights come
\* back from the mirror.
CloseLayout ==
  /\ phase = "prefill"
  /\ phase' = "decode" /\ entered' = FALSE
  /\ mem' = [mem EXCEPT !["slot"] = <<>>, !["span"] = mirror]
  /\ IF entered THEN Point(items, "span", span + 1) ELSE UNCHANGED <<param, owner>>
  /\ UNCHANGED <<items, active, span, slotSize, mirror, version, processed, changes>>

-----------------------------------------------------------------------------
Tensor == [in : Storages \cup {"nowhere"}, off : Nat, size : Nat]

\* The variables have their types, the idle part lies behind the active one, and
\* a slot holds any layer.
LayoutTypeOK ==
  /\ phase \in {"off", "load", "decode", "prefill"}
  /\ param \in [Names -> Tensor] /\ owner \in Tensor
  /\ span \in Nat /\ active \in 0 .. span
  /\ phase \in {"decode", "prefill"} => span <= slotSize /\ Len(mirror) = span
  /\ version \in [Names -> Nat] /\ processed \in BOOLEAN /\ entered \in BOOLEAN
  /\ changes \in 0 .. MaxChanges

\* Where a forward may look: everything while loading and decoding, and in a
\* window, once the layer is entered, all but the idle weights.
Readable(n) ==
  /\ param[n] # Nowhere
  /\ phase = "prefill" => entered /\ (n \notin IdleNames \/ param[n].in = "slot")
  /\ phase # "off"

\* What can be read of a name is what the loading last left under it.
ReadsWhole == \A n \in Names : Readable(n) => View(param[n]) = Whole(n, param[n].size)

\* A fused tensor and its parameters are the same memory.
FusedShares == owner # Nowhere /\ phase # "off" => \A k \in DOMAIN Fused : Fused[k] \in Inner

\* However the loading rebinds, renames and fuses a layer's parameters, and
\* however often it is laid out again, a layer reads what the loading last left
\* under each name, in every phase; a fused tensor and its parameters stay the
\* same memory.
KeepsWeights == ReadsWhole /\ FusedShares

\* The latter is meant for large ones: whatever sizes the fused parameters come in,
\* their tensor is no smaller than what is lent. (The lent parameters of a smaller
\* one get places of their own, away from it.)
FusedIsLarge ==
  \A sizes \in [Names -> {0} \cup {Built[n] : n \in Names} \cup {Repacked[n] : n \in Names}] :
    /\ Fused # <<>>
    /\ \A k \in DOMAIN Fused : sizes[Fused[k]] \in {Built[Fused[k]], Repacked[Fused[k]]} \ {0}
    => Upto(sizes, Fused)[Len(Fused)] >= MinUnits
=============================================================================
