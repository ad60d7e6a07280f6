------------------------------ MODULE MCMedia ------------------------------
(***************************************************************************)
(* Instance of Media for TLC: two images a and b with the same picture and *)
(* a variant v in common, of which a smaller one, w, can be made.          *)
(***************************************************************************)
EXTENDS Media, TLC

CONSTANTS a, b, v, w, p1, t1, c1, c2, migrator

MCVariantOf == [name \in Names |-> [type \in Types |-> IF name \in Images THEN v ELSE w]]
MCPictureOf == [name \in Names |-> 0]
ImageSymmetry == Permutations({a, b}) \cup Permutations({c1, c2})
=============================================================================
