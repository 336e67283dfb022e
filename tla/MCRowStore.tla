----------------------------- MODULE MCRowStore -----------------------------
(***************************************************************************)
(* RowStore for TLC: rows 0 and 2 share a slot, 3 is the other rank's and  *)
(* 4 is no row. A caller stops after MaxCalls calls.                       *)
(***************************************************************************)
EXTENDS RowStore

MCRequests == {<<0, 1>>, <<2, 1, 0>>, <<0, 3, 4>>}
=============================================================================
