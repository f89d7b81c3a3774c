-------------------------- MODULE MCReaderErasure --------------------------
(***************************************************************************)
(* A small comment table for TLC.  Ids and accounts are interchangeable.   *)
(***************************************************************************)
EXTENDS ReaderErasure, TLC

Symmetry == Permutations(Comment) \cup Permutations(Reader)
=============================================================================
