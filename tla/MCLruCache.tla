----------------------------- MODULE MCLruCache -----------------------------
(***************************************************************************)
(* Instances of LruCache for TLC: two keys, room for two items of cost one *)
(* or one of cost two, items that expire after a tick or never.            *)
(***************************************************************************)
EXTENDS LruCache, TLC

CONSTANTS k1, k2, v1, v2, g1, g2, e1, e2, e3, e4, e5

Symmetry ==
  Permutations({k1, k2}) \cup Permutations({v1, v2}) \cup Permutations({g1, g2})
=============================================================================
