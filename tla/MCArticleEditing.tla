-------------------------- MODULE MCArticleEditing --------------------------
(***************************************************************************)
(* The author with two tabs open, and a chief editor with one.             *)
(***************************************************************************)
EXTENDS ArticleEditing, TLC

CONSTANTS t1, t2, t3, ann, eve

StaffAtTabs == [t \in Tab |-> IF t = t3 THEN eve ELSE ann]
Symmetry == Permutations({t1, t2})
=============================================================================
