------------------------- MODULE DiscussionPromise -------------------------
(***************************************************************************)
(* What a discussion shows those who read it, with nothing of how the      *)
(* service keeps it: a comment that stands is on the page, under           *)
(* everything it answers, and a comment that came down stays only as the   *)
(* place of what still stands under it.  The number beside a comment is    *)
(* the number of comments one would count directly under it.  CommentTree  *)
(* implements it.                                                          *)
(***************************************************************************)
EXTENDS FiniteSets

CONSTANT Comment

VARIABLES
    standing,   \* the comments that can be read and answered
    above,      \* for each comment on the page, itself and all it hangs under
    replies     \* the number beside each comment on the page

page == <<standing, above, replies>>

\* The comments under which, or as which, something of `up' is to be seen
Held(up, chain) == UNION {chain[s] : s \in up}

DirectlyUnder(n, chain) == {c \in DOMAIN chain : chain[c] \ {c} = chain[n]}

\* The page that shows `up', and what it hangs under, and no more than that
Shows(up, chain) ==
    /\ standing' = up
    /\ above' = [n \in Held(up, chain) |-> chain[n]]
    /\ replies' = [n \in DOMAIN above' |-> Cardinality(DirectlyUnder(n, above'))]

Under(c, places) ==
    [n \in DOMAIN above \cup {c} |-> IF n = c THEN places \cup {c} ELSE above[n]]

-----------------------------------------------------------------------------
Init == standing = {} /\ above = [n \in {} |-> {}] /\ replies = [n \in {} |-> 0]

Post(c) == c \notin DOMAIN above /\ Shows(standing \cup {c}, Under(c, {}))

Reply(c, p) ==
    /\ c \notin DOMAIN above /\ p \in standing
    /\ Shows(standing \cup {c}, Under(c, above[p]))

TakeDown(some) == some \subseteq standing /\ Shows(standing \ some, above)

Writing == \E c \in Comment : Post(c) \/ \E p \in standing : Reply(c, p)

Next == Writing \/ \E c \in standing : TakeDown({c})

Spec == Init /\ [][Next]_page

\* An account that goes, or is banned, takes down what it wrote in one step
SweepingNext == Writing \/ \E some \in SUBSET standing : TakeDown(some)

SweepingSpec == Init /\ [][SweepingNext]_page
=============================================================================
