-------------------------- MODULE MCIndexerSlices --------------------------
(***************************************************************************)
(* Chunks of one to three requests: with and without a prefix, without     *)
(* rows, too short for a position, one position, a tail block, more blocks *)
(* than are kept; two chunks one after the other.                          *)
(***************************************************************************)
EXTENDS IndexerSlices

MCBatches ==
  {<<[prefix |-> 0, rows |-> 7]>>,
   <<[prefix |-> 13, rows |-> 5]>>,
   <<[prefix |-> 0, rows |-> 1], [prefix |-> 6, rows |-> 5]>>,
   <<[prefix |-> 9, rows |-> 3], [prefix |-> 4, rows |-> 0], [prefix |-> 0, rows |-> 6]>>,
   <<[prefix |-> 1, rows |-> 1], [prefix |-> 0, rows |-> 3], [prefix |-> 20, rows |-> 4]>>,
   <<[prefix |-> 0, rows |-> 1]>>}

MCRoles == <<"plain", "source", "uses", "uses">>
MCScore(l, r, p) == (31 * l + 17 * r + 41 * p + 13 * l * r) % 101
=============================================================================
