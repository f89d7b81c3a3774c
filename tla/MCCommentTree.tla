--------------------------- MODULE MCCommentTree ---------------------------
(***************************************************************************)
(* A small comment table for TLC.  Ids and accounts are interchangeable.   *)
(***************************************************************************)
EXTENDS CommentTree, TLC

Symmetry == Permutations(Comment) \cup Permutations(Reader)
=============================================================================
