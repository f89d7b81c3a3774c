-------------------------- MODULE MCAccountErasure --------------------------
(***************************************************************************)
(* One reader and two instances, or two readers and one.                   *)
(***************************************************************************)
EXTENDS AccountErasure, TLC

CONSTANTS u1, u2, i1, i2

Symmetry == Permutations({i1, i2})
=============================================================================
