---------------------------- MODULE MCReactions ----------------------------
(***************************************************************************)
(* Two comments of one author and two readers who react, under the         *)
(* transactions that lock first; or one comment and one reader, with every *)
(* transaction that reads before it locks.                                 *)
(***************************************************************************)
EXTENDS Reactions

CONSTANTS ann, ben, cyd, like, dislike

VARIABLE part

TwoComments == {1, 2}
ByAnn == [c \in Comment |-> ann]

\* Comment 2 and cyd stay out of it
OneComment ==
    /\ <<rows[2], resolving[2], erasing[2]>>' = <<rows[2], resolving[2], erasing[2]>>
    /\ 2 \notin down' /\ cyd \notin banned'
    /\ rows'[1][cyd] = None /\ clearing'[cyd] = Rest
    /\ \A r \in Reader : clearing'[r].stage = "no" \/ clearing'[r].seen[2] = NotRead

MCInit == Init /\ part \in {"locked", "early"}
MCNext ==
    /\ UNCHANGED part
    /\ \/ part = "locked" /\ LockedNext
       \/ part = "early" /\ Next /\ OneComment
MCSpec == MCInit /\ [][MCNext]_<<vars, part>>

\* Bounds: a total grows when a comment comes down, and no comment is put back up; MostCount
\* bounds the counts, which a stale copy can leave ahead of the rows and later ones further.
=============================================================================
