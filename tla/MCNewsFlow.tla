----------------------------- MODULE MCNewsFlow -----------------------------
(***************************************************************************)
(* One source with the few articles the configurations name.               *)
(***************************************************************************)
EXTENDS NewsFlow

CONSTANT x
=============================================================================
