------------------------------ MODULE MCPosts ------------------------------
(***************************************************************************)
(* Instances of Posts for TLC.  The clock has few ticks; Retention is one  *)
(* of them, so that a post can be marked, expire and be purged.            *)
(***************************************************************************)
EXTENDS Posts, TLC

CONSTANTS p1, p2, c1, c2

MCTimes == 1 .. MaxTime
ClientSymmetry == Permutations({c1, c2})
PathSymmetry == Permutations({p1, p2})
=============================================================================
