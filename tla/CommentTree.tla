---------------------------- MODULE CommentTree ----------------------------
(***************************************************************************)
(* The comment table of discussion-service as the tree it holds: what a    *)
(* reader, a moderator and the classifier may do to one comment, and the   *)
(* collapse that follows when a comment comes down.                        *)
(*                                                                         *)
(* Every action is one whole transaction.  The service earns that by       *)
(* holding TreeLock from the first read to the commit.  Who may post at    *)
(* all, texts, open cards of reports and edits are left out.  What remains *)
(* here is what the shape of the tree depends on: parents, the reply       *)
(* counts the service stores, how a comment came down, and what pins a     *)
(* row.                                                                    *)
(***************************************************************************)
EXTENDS Integers, FiniteSets

CONSTANTS
    Comment,    \* ids a row can have; a finite supply, that of a removed row comes free
    Reader,     \* accounts that write comments
    NoParent,   \* in_reply_to_id IS NULL
    NoAuthor    \* author_id IS NULL, once an account is erased

ASSUME IdsAreFinite == IsFiniteSet(Comment)
ASSUME NullsAreApart == NoParent \notin Comment /\ NoAuthor \notin Reader

VARIABLES
    comments,    \* ids of the rows in the table
    parent,      \* in_reply_to_id
    path,        \* the ltree path: the ids from the thread root down to the comment
    author,      \* author_id
    replyCount,  \* reply_count, the number the service maintains
    deleted,     \* ids with deleted_at set, whoever took the comment down
    hidden,      \* ids with hidden_at set: taken down by moderation
    counted,     \* ids with counted_at set: a violation counted by hand
    reported     \* ids with a row in report, open or decided

vars == <<comments, parent, path, author, replyCount, deleted, hidden, counted, reported>>

-----------------------------------------------------------------------------
ChildrenOf(n) == {c \in comments : parent[c] = n}

\* What the tally query counts as still shown, given which rows are marked down
CountsAsShown(c, del) == c \notin del \/ replyCount[c] > 0

ShownChildrenOf(n, del) == {c \in ChildrenOf(n) : CountsAsShown(c, del)}

\* CommentTree.hidden in the source, for a row: nobody is shown it
OutOfView(c) == c \in deleted /\ replyCount[c] = 0

\* Mutant: the walk looks one level up and no further
OneLevelUp(taken) == taken \cup ({parent[c] : c \in taken} \ {NoParent})

\* The comments a walk looks at: the ones taken down and everything above them
WithAncestors(taken) == UNION {path[c] : c \in taken}

\* Mutant: a handed-in child is taken off its parent's tally a second time
LeavesViewCountedTwice(n, taken, del, gone) ==
    /\ n \in del
    /\ Cardinality(ShownChildrenOf(n, del)) <= Cardinality({c \in gone : parent[c] = n})

(***************************************************************************)
(* The walk goes deepest first, so a comment is judged by what it still    *)
(* shows after every child that could go already has.  That makes the      *)
(* outcome the one set for which the judgement of each member agrees with  *)
(* the set itself.  A child that was handed in is not taken off its        *)
(* parent's tally: the tally was read after the caller marked it.          *)
(***************************************************************************)
LeavesView(n, taken, del, gone) ==
    /\ n \in del
    /\ Cardinality(ShownChildrenOf(n, del))
         <= Cardinality({c \in gone \ taken : parent[c] = n})

GoFromView(gone, taken, del) ==
    gone = {n \in WithAncestors(taken) : LeavesView(n, taken, del, gone)}

\* Mutant: an author's own deletion takes the queue card with it
RowMayGoUnderACard(n, auth, hid, doomed) ==
    /\ Cardinality(ChildrenOf(n)) <= Cardinality({c \in doomed : parent[c] = n})
    /\ auth[n] = NoAuthor \/ n \notin hid \cup counted

\* The row may go too: no row left under it, and nothing recorded about its author
RowMayGo(n, auth, hid, doomed) ==
    /\ Cardinality(ChildrenOf(n)) <= Cardinality({c \in doomed : parent[c] = n})
    /\ auth[n] = NoAuthor \/ n \notin hid \cup counted \cup reported

RowsGo(doomed, gone, auth, hid) ==
    doomed = {n \in gone : RowMayGo(n, auth, hid, doomed)}

\* Mutant: a parent is not told of the replies the caller itself took down
LostByWalkOnly(n, gone, taken, wereShown) ==
    Cardinality({c \in gone \ taken : parent[c] = n})

\* Replies a parent stops counting: all that left view, but for those out of view before
LostBy(n, gone, taken, wereShown) ==
    Cardinality({c \in gone : parent[c] = n /\ (c \notin taken \/ c \in wereShown)})

\* Mutant: the guard of the decrement is off by one
DecrementedWhileMore(n, by) == IF replyCount[n] > by THEN replyCount[n] - by ELSE replyCount[n]

\* decrementReplyCount's own guard: never below zero, or not at all
Decremented(n, by) == IF replyCount[n] >= by THEN replyCount[n] - by ELSE replyCount[n]

\* What the walk writes once it has decided
TakeAway(gone, doomed, taken, wereShown, auth, del, hid) ==
    /\ comments' = comments \ doomed
    /\ parent' = [c \in Comment |-> IF c \in doomed THEN NoParent ELSE parent[c]]
    /\ path' = [c \in Comment |-> IF c \in doomed THEN {} ELSE path[c]]
    /\ author' = [c \in Comment |-> IF c \in doomed THEN NoAuthor ELSE auth[c]]
    /\ replyCount' = [c \in Comment |->
            IF c \in doomed THEN 0
            ELSE Decremented(c, LostBy(c, gone, taken, wereShown))]
    /\ deleted' = del \ doomed
    /\ hidden' = hid \ doomed
    /\ counted' = counted \ doomed
    /\ reported' = reported \ doomed

(***************************************************************************)
(* CommentCollapse.of, after a caller has marked `taken': auth, del and    *)
(* hid are the columns as the caller has just flushed them.                *)
(***************************************************************************)
Collapse(taken, wereShown, auth, del, hid) ==
    \E gone \in SUBSET WithAncestors(taken) :
    \E doomed \in SUBSET gone :
        /\ GoFromView(gone, taken, del)
        /\ RowsGo(doomed, gone, auth, hid)
        /\ TakeAway(gone, doomed, taken, wereShown, auth, del, hid)

-----------------------------------------------------------------------------
Init ==
    /\ comments = {}
    /\ parent = [c \in Comment |-> NoParent]
    /\ path = [c \in Comment |-> {}]
    /\ author = [c \in Comment |-> NoAuthor]
    /\ replyCount = [c \in Comment |-> 0]
    /\ deleted = {}
    /\ hidden = {}
    /\ counted = {}
    /\ reported = {}

\* POST /comments: a thread root
Create(c, a) ==
    /\ c \notin comments
    /\ comments' = comments \cup {c}
    /\ path' = [path EXCEPT ![c] = {c}]
    /\ author' = [author EXCEPT ![c] = a]
    /\ UNCHANGED <<parent, replyCount, deleted, hidden, counted, reported>>

\* POST /comments/{id}/replies: refused under a comment that is down
Reply(c, a, p) ==
    /\ c \notin comments
    /\ p \in comments \ deleted
    /\ comments' = comments \cup {c}
    /\ parent' = [parent EXCEPT ![c] = p]
    /\ path' = [path EXCEPT ![c] = path[p] \cup {c}]
    /\ author' = [author EXCEPT ![c] = a]
    /\ replyCount' = [replyCount EXCEPT ![p] = @ + 1]
    /\ UNCHANGED <<deleted, hidden, counted, reported>>

\* DELETE /comments/{id} by its author; a second one answers without doing anything
DeleteOwn(c, a) ==
    /\ c \in comments \ deleted
    /\ author[c] = a
    /\ Collapse({c}, {c}, author, deleted \cup {c}, hidden)

\* A removal by moderation, from the comment endpoint or by resolving a card
Hide(c) ==
    /\ c \in comments \ deleted
    /\ Collapse({c}, {c}, author, deleted \cup {c}, hidden \cup {c})

\* A report, a reader's or the classifier's: refused once moderation removed the
\* comment or its text is gone with its author
FileReport(c) ==
    /\ c \in comments \ hidden
    /\ author[c] # NoAuthor
    /\ reported' = reported \cup {c}
    /\ UNCHANGED <<comments, parent, path, author, replyCount, deleted, hidden, counted>>

\* Resolving a card as `counted': only on what its author deleted, while there is a text
CountViolation(c) ==
    /\ c \in (deleted \cap reported) \ hidden
    /\ author[c] # NoAuthor
    /\ counted' = counted \cup {c}
    /\ UNCHANGED <<comments, parent, path, author, replyCount, deleted, hidden, reported>>

Next ==
    \E c \in Comment :
        \/ \E a \in Reader : Create(c, a) \/ DeleteOwn(c, a)
        \/ \E a \in Reader, p \in Comment : Reply(c, a, p)
        \/ Hide(c)
        \/ FileReport(c)
        \/ CountViolation(c)

Spec == Init /\ [][Next]_vars

-----------------------------------------------------------------------------
(***************************************************************************)
(* Every column has a value of its type, and an id without a row carries   *)
(* nothing.                                                                *)
(***************************************************************************)
TypeOK ==
    /\ comments \subseteq Comment
    /\ parent \in [Comment -> Comment \cup {NoParent}]
    /\ path \in [Comment -> SUBSET Comment]
    /\ author \in [Comment -> Reader \cup {NoAuthor}]
    /\ replyCount \in [Comment -> Nat]
    /\ deleted \subseteq comments
    /\ hidden \subseteq deleted
    /\ counted \subseteq deleted
    /\ reported \subseteq comments

\* in_reply_to_id points at a row, and the path is the parent's with the comment added
PathsFollowParents ==
    \A c \in comments :
        IF parent[c] = NoParent
        THEN path[c] = {c}
        ELSE /\ parent[c] \in comments
             /\ c \notin path[parent[c]]
             /\ path[c] = path[parent[c]] \cup {c}

\* reply_count is the number of direct replies somebody is still shown.  The service
\* never recounts it: it goes up with a reply and comes down only through a collapse.
ReplyCountIsShown ==
    \A n \in comments : replyCount[n] = Cardinality(ShownChildrenOf(n, deleted))

\* A comment that stands is reached from the listing: nothing above it is pruned from
\* the tree as out of view, which would take the reply with it.
StandingIsReachable ==
    \A c \in comments \ deleted : \A n \in path[c] : ~OutOfView(n)

\* A row that is down and has no row under it is there for the record only.  What the
\* collapse should have taken has been taken.
NoEmptyPlaceholder ==
    \A c \in deleted :
        ChildrenOf(c) = {} => author[c] # NoAuthor /\ c \in hidden \cup counted \cup reported

\* However far up the chain a collapse walks, the one comment a person took down is the
\* only one that stood before the step and does not stand after it.
OneComesDownAtATime ==
    [][\E d \in Comment : comments \ deleted \subseteq (comments' \ deleted') \cup {d}]_vars

\* What is recorded about an author outlives his own deletions: the row of a comment that
\* was removed, counted or reported is not collapsed away, and it keeps saying whose it was.
RecordsStay ==
    [][\A c \in hidden \cup counted \cup reported :
            c \in comments' /\ author'[c] = author[c]]_vars

\* The comments on the page: all but those nobody is shown
OnPage == {n \in comments : ~OutOfView(n)}

Promise == INSTANCE DiscussionPromise WITH
    standing <- comments \ deleted,
    above <- [n \in OnPage |-> path[n]],
    replies <- [n \in OnPage |-> replyCount[n]]

\* Counting by hand and collapsing row by row shows the readers what DiscussionPromise says:
\* with every step the comments that stand, under all they answer, the places that still hold
\* one up and no other, and beside each the number one would count.
KeepsThePage == Promise!Spec
=============================================================================
