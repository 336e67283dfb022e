--------------------------- MODULE MCLoadPrefetch ---------------------------
(***************************************************************************)
(* LoadPrefetch for TLC. Loading ends: Loaded keeps the end from being     *)
(* taken for a deadlock.                                                   *)
(***************************************************************************)
EXTENDS LoadPrefetch

Loaded == layer = NumLayers /\ UNCHANGED vars

MCSpec == Init /\ [][Next \/ Loaded]_vars /\ Fairness
=============================================================================
