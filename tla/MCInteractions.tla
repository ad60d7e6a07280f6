-------------------------- MODULE MCInteractions ---------------------------
(***************************************************************************)
(* Instances of Interactions for TLC: a page p1 that may move to p2, one   *)
(* note and two requests at a time.                                        *)
(***************************************************************************)
EXTENDS Interactions

CONSTANTS p1, p2, r1, r2, n1

MCMovedTo == [page \in Pages |-> p2]
=============================================================================
