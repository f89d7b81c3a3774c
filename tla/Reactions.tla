----------------------------- MODULE Reactions -----------------------------
(***************************************************************************)
(* Reactions on comments, and the three numbers kept about them: a row per *)
(* reader and comment, counts on the comment, and the total of an author,  *)
(* into which a removal moves the counts before the rows go.               *)
(*                                                                         *)
(* The counter lock (lockCounters, a row lock on the comment) serialises   *)
(* whatever moves the counts.  A transaction that takes it before it reads *)
(* anything is one atomic step here.  Four transactions read first, and    *)
(* each of those is as many steps as it has moments where another one can  *)
(* get in between: a removal from the moderation queue, the erasure of an  *)
(* author's comment, the clearing of all a reader's reactions, and that    *)
(* clearing when a sweep of his comments in the same transaction has left  *)
(* other people's comments in the persistence context.                     *)
(*                                                                         *)
(* One slot is modelled, the vote; the emoji slot is a second copy of it.  *)
(* A ban read before the row is written, and the write, are one step.      *)
(* Each comment is in a tree of its own.  Ignored authors are left out:    *)
(* they only take actions away.                                            *)
(***************************************************************************)
EXTENDS Integers, FiniteSets

CONSTANTS
    Comment,    \* ids, numbers: clearAllBy takes the locks in their order
    Reader,
    Value,      \* what a vote can be
    AuthorOf,   \* who wrote which comment
    None,       \* no reaction
    NotRead,    \* a comment that is not in the persistence context
    MostCount   \* bound: a count that has gone wrong is followed no higher than this

ASSUME CommentsAreOrdered == Comment \subseteq Nat
ASSUME ReadersAreFinite == IsFiniteSet(Reader)
ASSUME AuthorsAreReaders == AuthorOf \in [Comment -> Reader]
ASSUME NoneIsNoValue == None \notin Value
ASSUME CountsAreBounded == MostCount \in Nat

VARIABLES
    down,       \* comments with deleted_at set
    erased,     \* those whose author_id went with his account
    banned,     \* readers under an active restriction
    cleared,    \* those whose ban was issued with everything they put taken back
    rows,       \* comment_reaction: what each reader has on each comment
    counts,     \* like_count and dislike_count of each comment
    totals,     \* author_reaction_total
    collected,  \* history: the rows removals have taken off each author's comments
    resolving,  \* a removal from the queue: the counts as resolve read them
    erasing,    \* an erasure of one comment: how far, the counts as it read them, and whose
                \* rows it has deleted; others still see those, and wait if they touch them
    clearing    \* a clearing of all a reader has: what it read, and the locks it holds

vars == <<down, erased, banned, cleared, rows, counts, totals, collected,
          resolving, erasing, clearing>>

Zero == [v \in Value |-> 0]
Untouched == [stage |-> "no", seen |-> Zero, taken |-> {}]
Rest == [stage |-> "no", mine |-> [c \in Comment |-> None],
         seen |-> [c \in Comment |-> NotRead], locked |-> {}, ban |-> FALSE, lost |-> FALSE]

-----------------------------------------------------------------------------
Holders(c, v) == {r \in Reader : rows[c][r] = v}
WithRow(c) == {r \in Reader : rows[c][r] # None}

\* The counter lock of a comment is held across steps only by a clearing
Held(c) == \E r \in Reader : c \in clearing[r].locked

\* The tree lock of a comment, held from the first read of a removal to its end
TreeHeld(c) == resolving[c] # NotRead \/ erasing[c].stage # "no"

\* Mutant of Plus: a count may go below nothing
PlusUnclamped(count, v, n) == [count EXCEPT ![v] = @ + n]

Plus(count, v, n) == [count EXCEPT ![v] = IF @ + n > 0 THEN @ + n ELSE 0]

\* What moves from a comment to its author, given the counts a removal has in hand.  Only
\* columns it changes are written back: one read as zero stays as the table has it.
Absorbed(c, seen) ==
    [totals EXCEPT ![AuthorOf[c]] = [v \in Value |-> @[v] + seen[v]]]

\* Mutant of LeftOn: the counts are added up and stay on the comment
LeftOnInPlace(c, seen) == counts[c]

LeftOn(c, seen) == [v \in Value |-> IF seen[v] # 0 THEN 0 ELSE counts[c][v]]

Swept(c, who) ==
    [collected EXCEPT ![AuthorOf[c]] =
        [v \in Value |-> @[v] + Cardinality(Holders(c, v) \cap who)]]

WithoutRows(c, who) == [r \in Reader |-> IF r \in who THEN None ELSE rows[c][r]]

\* A clearing deletes the rows it read by id and fails if one of them is no longer there
RowsLost(c, who) ==
    [r \in Reader |-> [clearing[r] EXCEPT
        !.lost = @ \/ (r \in who /\ clearing[r].mine[c] # None)]]

-----------------------------------------------------------------------------
Init ==
    /\ down = {} /\ erased = {} /\ banned = {} /\ cleared = {}
    /\ rows = [c \in Comment |-> [r \in Reader |-> None]]
    /\ counts = [c \in Comment |-> Zero]
    /\ totals = [r \in Reader |-> Zero]
    /\ collected = [r \in Reader |-> Zero]
    /\ resolving = [c \in Comment |-> NotRead]
    /\ erasing = [c \in Comment |-> Untouched]
    /\ clearing = [r \in Reader |-> Rest]

\* PUT of a vote: put or replaced, one per reader; the same value again changes nothing
Set(r, c, v) ==
    /\ ~Held(c) /\ r \notin erasing[c].taken
    /\ c \notin down /\ r # AuthorOf[c] /\ r \notin banned
    /\ counts[c][v] < MostCount
    /\ rows' = [rows EXCEPT ![c][r] = v]
    /\ counts' = [counts EXCEPT ![c] =
            IF rows[c][r] = v THEN @
            ELSE IF rows[c][r] = None THEN Plus(@, v, 1)
            ELSE Plus(Plus(@, rows[c][r], -1), v, 1)]
    /\ UNCHANGED <<down, erased, banned, cleared, totals, collected, resolving, erasing, clearing>>

\* DELETE of a vote, a banned reader's too
Clear(r, c) ==
    /\ ~Held(c) /\ r \notin erasing[c].taken
    /\ rows[c][r] # None
    /\ rows' = [rows EXCEPT ![c][r] = None]
    /\ counts' = [counts EXCEPT ![c] = Plus(@, rows[c][r], -1)]
    /\ clearing' = RowsLost(c, {r})
    /\ UNCHANGED <<down, erased, banned, cleared, totals, collected, resolving, erasing>>

\* What a removal does once it has decided, with the counts it holds
TakeDown(c, seen) ==
    /\ down' = down \cup {c}
    /\ totals' = Absorbed(c, seen)
    /\ counts' = [counts EXCEPT ![c] = LeftOn(c, seen)]
    /\ collected' = Swept(c, Reader)
    /\ rows' = [rows EXCEPT ![c] = WithoutRows(c, Reader)]
    /\ clearing' = RowsLost(c, Reader)

\* deleteOwn, hideByModerator, a sweep: both locks first, the row after
Remove(c) ==
    /\ ~Held(c) /\ ~TreeHeld(c)
    /\ c \notin down
    /\ TakeDown(c, counts[c])
    /\ UNCHANGED <<erased, banned, cleared, resolving, erasing>>

\* A ban that clears nothing, and the end of any
RestrictCommenting(r) ==
    /\ banned' = banned \cup {r}
    /\ UNCHANGED <<down, erased, cleared, rows, counts, totals, collected,
                   resolving, erasing, clearing>>

Lift(r) ==
    /\ banned' = banned \ {r} /\ cleared' = cleared \ {r}
    /\ UNCHANGED <<down, erased, rows, counts, totals, collected,
                   resolving, erasing, clearing>>

-----------------------------------------------------------------------------
\* resolve reads the comment under the tree lock alone ...
ResolveRead(c) ==
    /\ ~TreeHeld(c) /\ c \notin down
    /\ resolving' = [resolving EXCEPT ![c] = counts[c]]
    /\ UNCHANGED <<down, erased, banned, cleared, rows, counts, totals, collected,
                   erasing, clearing>>

\* ... and hideByModerator, which locks the counters, is given that same entity back
ResolveHide(c) ==
    /\ resolving[c] # NotRead /\ ~Held(c)
    /\ TakeDown(c, resolving[c])
    /\ resolving' = [resolving EXCEPT ![c] = NotRead]
    /\ UNCHANGED <<erased, banned, cleared, erasing>>

-----------------------------------------------------------------------------
\* The erase reads the comment, deletes the rows it can see, and writes the comment at the
\* flush that anonymize asks for.  Only that write waits for the counter lock.
EraseRead(c) ==
    /\ ~TreeHeld(c) /\ c \notin erased
    /\ erasing' = [erasing EXCEPT ![c] = [stage |-> "read", seen |-> counts[c], taken |-> {}]]
    /\ UNCHANGED <<down, erased, banned, cleared, rows, counts, totals, collected,
                   resolving, clearing>>

EraseRows(c) ==
    /\ erasing[c].stage = "read"
    /\ erasing' = [erasing EXCEPT ![c].stage = "wiped", ![c].taken = WithRow(c)]
    /\ UNCHANGED <<down, erased, banned, cleared, rows, counts, totals, collected,
                   resolving, clearing>>

EraseComment(c) ==
    /\ erasing[c].stage = "wiped" /\ ~Held(c)
    /\ down' = down \cup {c} /\ erased' = erased \cup {c}
    /\ totals' = Absorbed(c, erasing[c].seen)
    /\ counts' = [counts EXCEPT ![c] = LeftOn(c, erasing[c].seen)]
    /\ collected' = Swept(c, erasing[c].taken)
    /\ rows' = [rows EXCEPT ![c] = WithoutRows(c, erasing[c].taken)]
    /\ erasing' = [erasing EXCEPT ![c] = Untouched]
    /\ clearing' = RowsLost(c, erasing[c].taken)
    /\ UNCHANGED <<banned, cleared, resolving>>

\* A clearing holds the counter lock this erase waits for and wants a row it has deleted
Deadlocked(r, c) == c \in clearing[r].locked /\ r \in erasing[c].taken

\* The database ends a deadlock by rolling one of the two back: here the erase
EraseFail(c) ==
    /\ \E r \in Reader : Deadlocked(r, c)
    /\ erasing' = [erasing EXCEPT ![c] = Untouched]
    /\ UNCHANGED <<down, erased, banned, cleared, rows, counts, totals, collected,
                   resolving, clearing>>

-----------------------------------------------------------------------------
\* clearAllBy lists what the reader has.  `loaded' are comments a sweep before it has read
\* on its way up; a ban alone and an erasure have none.
ClearRead(r, ban, loaded) ==
    /\ clearing[r].stage = "no"
    /\ clearing' = [clearing EXCEPT ![r] =
            [stage |-> "locking",
             mine |-> [c \in Comment |-> rows[c][r]],
             seen |-> [c \in Comment |-> IF c \in loaded THEN counts[c] ELSE NotRead],
             locked |-> {}, ban |-> ban, lost |-> FALSE]]
    /\ UNCHANGED <<down, erased, banned, cleared, rows, counts, totals, collected,
                   resolving, erasing>>

ToLock(r) == {c \in Comment \ clearing[r].locked : clearing[r].mine[c] # None}

ClearLock(r) ==
    /\ clearing[r].stage = "locking"
    /\ \E c \in ToLock(r) :
        /\ \A d \in ToLock(r) : c <= d
        /\ ~Held(c)
        /\ clearing' = [clearing EXCEPT ![r].locked = @ \cup {c}]
    /\ UNCHANGED <<down, erased, banned, cleared, rows, counts, totals, collected,
                   resolving, erasing>>

\* The comment as clearAllBy has it: read under the lock, unless it was there before
InHand(r, c) == IF clearing[r].seen[c] = NotRead THEN counts[c] ELSE clearing[r].seen[c]

ClearFinish(r) ==
    /\ clearing[r].stage = "locking" /\ ToLock(r) = {} /\ ~clearing[r].lost
    /\ \A c \in Comment : ~Deadlocked(r, c)
    /\ LET mine == clearing[r].mine
       IN  /\ rows' = [c \in Comment |-> [rows[c] EXCEPT ![r] = IF mine[c] = None THEN @ ELSE None]]
           /\ counts' = [c \in Comment |-> [v \in Value |->
                    IF v = mine[c] /\ InHand(r, c)[v] > 0
                    THEN InHand(r, c)[v] - 1 ELSE counts[c][v]]]
    /\ IF clearing[r].ban
       THEN /\ banned' = banned \cup {r} /\ cleared' = cleared \cup {r}
            /\ UNCHANGED <<totals, collected>>
       ELSE \* the rest of an erasure: what he collected himself goes with him
            /\ totals' = [totals EXCEPT ![r] = Zero]
            /\ collected' = [collected EXCEPT ![r] = Zero]
            /\ UNCHANGED <<banned, cleared>>
    /\ clearing' = [clearing EXCEPT ![r] = Rest]
    /\ UNCHANGED <<down, erased, resolving, erasing>>

\* A row it meant to delete is gone, or it is the one to give way: it rolls back
ClearFail(r) ==
    /\ clearing[r].stage = "locking" /\ ToLock(r) = {}
    /\ clearing[r].lost \/ \E c \in Comment : Deadlocked(r, c)
    /\ clearing' = [clearing EXCEPT ![r] = Rest]
    /\ UNCHANGED <<down, erased, banned, cleared, rows, counts, totals, collected,
                   resolving, erasing>>

-----------------------------------------------------------------------------
LockedNext ==
    \/ \E c \in Comment : Remove(c)
    \/ \E r \in Reader : RestrictCommenting(r) \/ Lift(r)
    \/ \E r \in Reader, c \in Comment : Clear(r, c) \/ \E v \in Value : Set(r, c, v)

ResolveNext == \E c \in Comment : ResolveRead(c) \/ ResolveHide(c)

EraseNext ==
    \E c \in Comment : EraseRead(c) \/ EraseRows(c) \/ EraseComment(c) \/ EraseFail(c)

ClearNext ==
    \E r \in Reader :
        \/ \E ban \in BOOLEAN : ClearRead(r, ban, {})
        \/ \E loaded \in SUBSET {c \in Comment : AuthorOf[c] # r} : ClearRead(r, TRUE, loaded)
        \/ ClearLock(r)
        \/ ClearFinish(r)
        \/ ClearFail(r)

Next == LockedNext \/ ResolveNext \/ EraseNext \/ ClearNext

Spec == Init /\ [][Next]_vars

-----------------------------------------------------------------------------
\* Every number has its type; counts and totals are never negative.
TypeOK ==
    /\ down \subseteq Comment /\ erased \subseteq down
    /\ cleared \subseteq banned /\ banned \subseteq Reader
    /\ rows \in [Comment -> [Reader -> Value \cup {None}]]
    /\ counts \in [Comment -> [Value -> Nat]]
    /\ totals \in [Reader -> [Value -> Nat]]
    /\ collected \in [Reader -> [Value -> Nat]]
    /\ resolving \in [Comment -> [Value -> Nat] \cup {NotRead}]
    /\ \A c \in Comment : erasing[c].seen \in [Value -> Nat] /\ erasing[c].taken \subseteq Reader
    /\ \A r \in Reader : clearing[r].locked \subseteq Comment

\* The counts on a comment are those of its reaction rows.
CountsMatchRows(c) == \A v \in Value : counts[c][v] = Cardinality(Holders(c, v))

\* A comment that came down carries no reactions and no counts.
DownIsBare(c) == c \in down => counts[c] = Zero /\ \A r \in Reader : rows[c][r] = None

\* The total of an author is what removals have taken off his comments: no reaction is
\* lost on the way and none is counted twice.
TotalIsCollected(a) == totals[a] = collected[a]

\* A ban that takes back everything a reader put leaves him nothing anywhere.
ClearedHaveNothing ==
    \A r \in cleared, c \in Comment : rows[c][r] = None

OrderOn(c) == CountsMatchRows(c) /\ DownIsBare(c)

InOrder == (\A c \in Comment : OrderOn(c)) /\ \A a \in Reader : TotalIsCollected(a)

\* A transaction ends on something it read of a comment before it had the lock and that has
\* changed since: a removal on counts, an erasure on counts or rows, a clearing on either.
StaleOn(c) ==
    \/ ResolveHide(c) /\ resolving[c] # counts[c]
    \/ EraseComment(c) /\ (erasing[c].seen # counts[c] \/ erasing[c].taken # WithRow(c))
    \/ \E r \in Reader :
        /\ ClearFinish(r) /\ clearing[r].mine[c] # None
        /\ \/ clearing[r].mine[c] # rows[c][r]
           \/ clearing[r].seen[c] \notin {NotRead, counts[c]}

\* Harm stays where it is done.  The numbers of a comment go wrong only in a step that ends on a
\* stale copy of that comment, whatever has gone wrong elsewhere; and the total of an author only
\* in such a step on a comment of his own, or in one that takes over numbers already wrong there.
OnlyStaleCopiesDoHarm ==
    [][/\ \A c \in Comment : OrderOn(c) /\ ~OrderOn(c)' => StaleOn(c)
       /\ \A a \in Reader : TotalIsCollected(a) /\ ~TotalIsCollected(a)' =>
            \E c \in Comment : AuthorOf[c] = a /\ (StaleOn(c) \/ ~OrderOn(c))]_vars
=============================================================================
