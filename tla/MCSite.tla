------------------------------- MODULE MCSite -------------------------------
(***************************************************************************)
(* Site with two blogs, one of them under a subpath, two sections, and two  *)
(* tabs, one of which may lose its connection and come back.               *)
(***************************************************************************)
EXTENDS Site, TLC

ASSUME NamesAssumption == NamesAreFree /\ LinksAreFree

Subpaths == [main |-> <<>>, en |-> <<"en">>]
Plain == Words \ Odd
Symmetry == Permutations(Handlers) \cup Permutations(Tabs) \cup Permutations(Plain)
=============================================================================
