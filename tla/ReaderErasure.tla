--------------------------- MODULE ReaderErasure ---------------------------
(***************************************************************************)
(* Two operations that take down many comments of one account at once: the *)
(* erasure of a departed reader, which user-service asks for, and the      *)
(* sweep of a ban.  Both hand the whole set to the collapse of CommentTree *)
(* in one call, so the set can hold a comment together with its replies,   *)
(* and comments that nobody was shown any more.                            *)
(*                                                                         *)
(* An erasure is a run of batches, each its own transaction.  Nothing is   *)
(* kept between them, and a call that failed half way is simply repeated,  *)
(* so any sequence of batches stands for some sequence of calls.           *)
(***************************************************************************)
EXTENDS CommentTree

CONSTANT BatchSize   \* ReaderErasure.BATCH_SIZE
ASSUME BatchesTakeSome == BatchSize \in Nat \ {0}

CommentsOf(r) == {c \in comments : author[c] = r}

\* Mutant: everything handed in is taken off the counts, shown or not
EraseBatchAsIfShown(r, batch) ==
    /\ batch # {} /\ Cardinality(batch) <= BatchSize
    /\ Collapse(batch, batch,
                [c \in Comment |-> IF c \in batch THEN NoAuthor ELSE author[c]],
                deleted \cup batch,
                hidden)

\* ErasedReaderWriter.erase: text and author go from all of them, then what holds nothing goes
EraseBatch(r, batch) ==
    /\ batch # {} /\ Cardinality(batch) <= BatchSize
    /\ Collapse(batch,
                {c \in batch : ~OutOfView(c)},
                [c \in Comment |-> IF c \in batch THEN NoAuthor ELSE author[c]],
                deleted \cup batch,
                hidden)

\* CommentService.hideAllBy: what the account has standing.  The ids are listed before the
\* trees are locked, so a comment posted in between escapes the sweep, and only such a one:
\* an older comment of his above a swept one is swept with it.
Sweep(r, swept) ==
    /\ swept # {} /\ swept \cap deleted = {}
    /\ \A c \in swept : path[c] \cap CommentsOf(r) \subseteq swept \cup deleted
    /\ Collapse(swept, swept, author, deleted \cup swept, hidden \cup swept)

ErasureNext ==
    \/ Next
    \/ \E r \in Reader : \E batch \in SUBSET CommentsOf(r) : EraseBatch(r, batch)
    \/ \E r \in Reader : \E swept \in SUBSET CommentsOf(r) : Sweep(r, swept)

ErasureSpec == Init /\ [][ErasureNext]_vars

-----------------------------------------------------------------------------
\* Only a comment that is down can be without an author: replies read the author of a
\* standing parent to ask whether he blocked the writer, and never find nobody there.
AuthorlessIsDown == \A c \in comments \ deleted : author[c] # NoAuthor

\* Whatever the collapse reaches on its way up, one step takes down comments of one account
\* only: nobody's comment leaves the page because somebody else's account went.
OnlyOnesOwnComeDown ==
    [][\E r \in Reader \cup {NoAuthor} :
        comments \ deleted \subseteq (comments' \ deleted') \cup CommentsOf(r)]_vars

\* What is recorded about an author stays under his name unless it is his own account that
\* is being erased: the collapse climbs through rows of others and leaves the pinned ones.
RecordsOfOthersStay ==
    [][\E r \in Reader \cup {NoAuthor} :
        \A c \in hidden \cup counted \cup reported :
            author[c] \in {r, NoAuthor} \/ (c \in comments' /\ author'[c] = author[c])]_vars

\* No comment taken holds another one up, and everything above them is still shown
Plain(taken) ==
    \A c \in taken : \A n \in path[c] \ {c} : n \notin taken /\ ~OutOfView(n)

Sound == ReplyCountIsShown /\ StandingIsReachable /\ NoEmptyPlaceholder

\* What the tree alone does, and takedowns of many that are plain
PlainNext ==
    \/ Next
    \/ \E r \in Reader : \E taken \in SUBSET CommentsOf(r) :
        Plain(taken) /\ (EraseBatch(r, taken) \/ Sweep(r, taken))

PlainSpec == Init /\ [][PlainNext]_vars

\* Taking down many comments keeps the counts, the page and the table as sound as taking
\* them down one by one does, and shows the readers what DiscussionPromise allows, as long as
\* none of them hangs off another and none hangs under something already out of view.  The
\* runs on parts of `Sound' show what happens otherwise.
PlainTakedownsAreSound ==
    [][Sound /\ PlainNext => Sound' /\ [Promise!SweepingNext]_(Promise!page)]_vars
=============================================================================
