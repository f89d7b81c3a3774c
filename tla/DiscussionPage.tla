---------------------------- MODULE DiscussionPage ----------------------------
(* The comments block of an article page in public-web: what the reader has   *)
(* been shown (lib/discussion/tree.ts), the loaders that feed it              *)
(* (components/discussion/useDiscussion.ts) and what the components offer to  *)
(* press. Every request is asked, served and answered in steps of its own, so *)
(* that an answer may find another page than the one it was asked for.        *)
(* Left out: the text, edits and reactions of a comment, which change no      *)
(* other comment's place (reactions are ReaderVotes).                         *)
EXTENDS Integers, FiniteSets, Sequences, Functions

CONSTANTS
    Old,          \* parents of the comments that stand before the page opens
    MaxComments,  \* bound: the comments there will ever be
    His,          \* the comments whose author the reader may come to ignore
    PageSize,     \* comments in a page of a listing or a branch
    MaxLoads,     \* bound: full loads of the block
    MaxFlight,    \* bound: requests under way at a time
    MaxAsks       \* bound: requests in all

ASSUME BoundsAssumption ==
    /\ MaxComments \in Nat /\ Old \in Seq(Nat) /\ Len(Old) <= MaxComments
    /\ PageSize \in Nat \ {0} /\ {MaxLoads, MaxFlight, MaxAsks} \subseteq Nat

\* What stands at first are threads: a comment is later than the one it answers, three levels deep at most
ASSUME OldAssumption ==
    \A c \in DOMAIN Old : Old[c] < c /\ (Old[c] # 0 /\ Old[Old[c]] # 0 => Old[Old[Old[c]]] = 0)

Top == 0       \* the page itself: what has no parent, and the address without a hash
Ids == 1..MaxComments
Sorts == {"newest", "oldest"}
Modes == {"none", "soft", "gravestone", "subtree_removal"}
NotRead == <<-1>>   \* replies the reader has not asked to see
None == -1
End == [order |-> "none", last |-> None]       \* nothing follows
Prefix == [order |-> "branch", last |-> None]  \* the replies are what a branch handed out

VARIABLES
    app,         \* which client runs: the page in a browser, or the screen of the mobile app
    server,      \* what the service holds: parents of all comments, those taken down, the reader's ignore
    page,        \* the reducer's state
    address,     \* the comment the address names, or Top
    hashPending, \* the address has changed and the event that says so has not run
    generation,  \* the full load asked last
    sort,        \* the order of the listing
    replyingTo,  \* the comment whose reply form is open
    pending,     \* the reader's reply the next rooted view is to light up
    flight,      \* requests under way
    asked        \* how many requests there have been

vars == <<app, server, page, address, hashPending, generation, sort, replyingTo, pending, flight, asked>>
reading == <<server, address, hashPending, generation, sort, replyingTo, pending, app>>

----------------------------------------------------------------------------
(* What the service answers, from what it held when it was asked.           *)

Known(s) == 1..Len(s.parent)
Author(s, c) == IF c \in His THEN "him" ELSE IF c > Len(Old) THEN "me" ELSE "other"
\* A comment and what it hangs under (bound: threads are three levels deep)
Parent(s, c) == IF c = Top THEN Top ELSE s.parent[c]
Chain(s, c) == {c, Parent(s, c), Parent(s, Parent(s, c))} \ {Top}
\* What is there for anyone: a comment taken down is, as long as something under it has not been
\* (what is not is left out of the listings' rows, those moderation keeps for its record included)
Shown(s, c) == \E k \in Known(s) \ s.down : c \in Chain(s, k)
Under(s, p) == {c \in Known(s) : s.parent[c] = p /\ Shown(s, c)}
\* What this reader removes, and what goes with the branches he removes
TakenOut(s, c) == s.mode = "subtree_removal" /\ c \in His
Removed(s, c) == \E a \in Chain(s, c) : TakenOut(s, a)
\* The replies counted for this reader: a place with nothing left in it for him still counts
CountFor(s, c) == Cardinality({k \in Under(s, c) : ~TakenOut(s, k)})
\* What is there for this reader: no place where he is shown nothing under it
Stands(s, c) == Shown(s, c) /\ ~Removed(s, c) /\ (c \in s.down => CountFor(s, c) > 0)
Visibility(s, c) ==
    IF c \in s.down THEN "deleted"
    ELSE IF c \in His /\ s.mode = "soft" THEN "soft_hidden"
    ELSE IF c \in His /\ s.mode = "gravestone" THEN "gravestone" ELSE "visible"
\* What stands for a comment without saying whose it was
Authorless == {"deleted", "gravestone"}

\* The k-th of some numbers, from the least
Nth(set, k) == CHOOSE c \in set : Cardinality({b \in set : b <= c}) = k
\* A row of comments with some of them taken out
Without(seq, cs) ==
    LET left == {i \in DOMAIN seq : seq[i] \notin cs}
    IN [k \in 1..Cardinality(left) |-> seq[Nth(left, k)]]
\* A listing in its order; a cursor names the order it was cut for and the last comment handed out
Ordered(set, order) ==
    LET n == Cardinality(set)
    IN [k \in 1..n |-> Nth(set, IF order = "newest" THEN n + 1 - k ELSE k)]
After(set, order, last) ==
    IF last = None THEN set
    ELSE {c \in set : IF order = "newest" THEN c < last ELSE c > last}
\* A page is cut, and its cursor with it, before what this reader is not shown is left out of it
RowPage(s, p, order, last) ==
    LET all == Ordered(After(Under(s, p), order, last), order)
    IN SubSeq(all, 1, IF Len(all) < PageSize THEN Len(all) ELSE PageSize)
Items(s, p, order, last) == Without(RowPage(s, p, order, last), {c \in Known(s) : ~Stands(s, c)})
NextCursor(s, p, order, last) ==
    LET all == After(Under(s, p), order, last)
        now == RowPage(s, p, order, last)
    IN IF Cardinality(all) > PageSize THEN [order |-> order, last |-> now[Len(now)]] ELSE End

----------------------------------------------------------------------------
(* The reducer.                                                             *)

Leaf(s, c) ==
    [replies |-> NotRead, hasMore |-> FALSE, cursor |-> Prefix, revealed |-> FALSE,
     loading |-> FALSE, failed |-> FALSE,
     count |-> CountFor(s, c), visibility |-> Visibility(s, c)]
Bare(phase) ==
    [phase |-> phase, rooted |-> Top, inHis |-> FALSE, items |-> <<>>, cursor |-> End, more |-> "idle",
     highlight |-> None, node |-> <<>>]
initial == Bare("idle")

IsList(pg) == pg.phase = "ready" /\ pg.rooted = Top
IsRead(pg, c) == pg.node[c].replies # NotRead
RepliesOf(pg, c) == IF IsRead(pg, c) THEN pg.node[c].replies ELSE <<>>
Drawn(pg) == Range(pg.items) \union UNION {Range(RepliesOf(pg, c)) : c \in Range(pg.items)}
\* The nodes of some comments replaced by fresh leaves
WithLeaves(node, s, cs) == [c \in DOMAIN node \union cs |-> IF c \in cs THEN Leaf(s, c) ELSE node[c]]
\* One node changed, if it is drawn
InView(pg, c, new) ==
    IF pg.phase = "ready" /\ c \in Drawn(pg) THEN [pg EXCEPT !.node[c] = new] ELSE pg

Listed(s, order) ==
    LET items == Items(s, Top, order, None)
    IN [Bare("ready") EXCEPT !.items = items, !.cursor = NextCursor(s, Top, order, None),
                             !.node = WithLeaves(<<>>, s, Range(items))]
\* Slip: a page appended as it comes
WithSeen(shown, arriving) == arriving
WithoutSeen(shown, arriving) == Without(arriving, Range(shown))
Extended(pg, s, r, arriving) ==
    IF ~IsList(pg) THEN pg
    ELSE [pg EXCEPT !.items = @ \o arriving, !.cursor = NextCursor(s, Top, r.sort, r.last),
                    !.more = "idle", !.node = WithLeaves(@, s, Range(arriving))]
MoreLoaded(pg, s, r) == Extended(pg, s, r, WithoutSeen(pg.items, Items(s, Top, r.sort, r.last)))
MoreIs(pg, status) == IF IsList(pg) THEN [pg EXCEPT !.more = status] ELSE pg

\* A node drawn with the direct replies a branch carried
WithBranch(pg, s, c) ==
    IF pg.phase # "ready" \/ c \notin Drawn(pg) THEN pg
    ELSE LET items == Items(s, c, "oldest", None)
             fresh == [Leaf(s, c) EXCEPT !.replies = items, !.revealed = pg.node[c].revealed,
                                         !.hasMore = (NextCursor(s, c, "oldest", None) # End /\ Len(items) < CountFor(s, c))]
         IN [pg EXCEPT !.node = [WithLeaves(@, s, Range(items)) EXCEPT ![c] = fresh]]
Rooted(s, c, highlight) ==
    WithBranch([Bare("ready") EXCEPT !.rooted = c, !.items = <<c>>, !.node = WithLeaves(<<>>, s, {c}),
                                     !.inHis = \E a \in Chain(s, c) \cap His : Visibility(s, a) \notin Authorless,
                                     !.highlight = IF highlight = None THEN c ELSE highlight], s, c)
RepliesLoading(pg, c) ==
    IF c \in Drawn(pg) THEN InView(pg, c, [pg.node[c] EXCEPT !.loading = TRUE, !.failed = FALSE]) ELSE pg
RepliesFailed(pg, c) ==
    IF c \in Drawn(pg) THEN InView(pg, c, [pg.node[c] EXCEPT !.loading = FALSE, !.failed = TRUE]) ELSE pg
\* The first page of replies replaces the branch's prefix rather than following it
RepliesLoaded(pg, s, r) ==
    IF pg.phase # "ready" \/ r.id \notin Drawn(pg) THEN pg
    ELSE LET items == Items(s, r.id, "oldest", r.last)
             next == NextCursor(s, r.id, "oldest", r.last)
             kept == IF pg.node[r.id].cursor = Prefix THEN <<>> ELSE RepliesOf(pg, r.id)
             new == [pg.node[r.id] EXCEPT !.replies = kept \o items, !.hasMore = next # End, !.cursor = next,
                                          !.loading = FALSE, !.failed = FALSE]
         IN [pg EXCEPT !.node = [WithLeaves(@, s, Range(items)) EXCEPT ![r.id] = new]]
Reveal(pg, c) == InView(pg, c, [pg.node[c] EXCEPT !.revealed = TRUE])

\* The reader's own comment, just accepted: first, whatever the order
Posted(pg, s, c) ==
    IF ~IsList(pg) THEN pg
    ELSE IF c \in Drawn(pg) THEN [pg EXCEPT !.highlight = c]
    ELSE [pg EXCEPT !.highlight = c, !.items = <<c>> \o @, !.node = WithLeaves(@, s, {c})]
\* The reader's own reply: it goes up alone where the older ones are not on show
Replied(pg, s, p, c) ==
    IF pg.phase # "ready" THEN pg
    ELSE IF c \in Drawn(pg) \/ p \notin Drawn(pg) THEN [pg EXCEPT !.highlight = c]
    ELSE LET old == pg.node[p]
             new == [old EXCEPT !.count = @ + 1,
                                !.replies = IF @ = NotRead THEN <<c>> ELSE Append(@, c),
                                !.hasMore = IF old.replies = NotRead THEN old.count > 0 ELSE @]
         IN [pg EXCEPT !.highlight = c, !.node = [WithLeaves(@, s, {c}) EXCEPT ![p] = new]]

AtLeast0(n) == IF n < 0 THEN 0 ELSE n
WithoutReply(n, c) == [n EXCEPT !.replies = Without(@, {c}), !.count = AtLeast0(@ - 1)]
\* A comment out of the tree; what it hung under is counted down by one
DropFromView(pg, c) ==
    IF pg.rooted = Top /\ c \in Range(pg.items) THEN [pg EXCEPT !.items = Without(@, {c})]
    ELSE [pg EXCEPT !.node = [p \in DOMAIN @ |->
              IF @[p].replies # NotRead /\ c \in Range(@[p].replies) THEN WithoutReply(@[p], c) ELSE @[p]]]
Deleted(pg, c) ==
    IF pg.phase # "ready" \/ c \notin Drawn(pg) THEN pg
    ELSE IF pg.node[c].count > 0 THEN InView(pg, c, [pg.node[c] EXCEPT !.visibility = "deleted"])
    ELSE IF pg.rooted = c THEN Bare("gone")
    ELSE DropFromView(pg, c)
Vanished(pg, c, byBlock) ==
    IF pg.phase # "ready" THEN pg
    ELSE IF pg.rooted = c THEN Bare(IF byBlock THEN "hidden" ELSE "gone")
    ELSE DropFromView(pg, c)

ByHim(node, c) == c \in His /\ node[c].visibility \notin Authorless
IgnoredComment(n, mode) ==
    [n EXCEPT !.visibility = IF mode = "soft" THEN "soft_hidden" ELSE "gravestone", !.revealed = FALSE]
\* What goes from a row of nodes: his comments with all under them, and placeholders left bare
GoesFrom(node, cs, mode) ==
    {c \in cs : (mode = "subtree_removal" /\ ByHim(node, c)) \/ (node[c].visibility = "deleted" /\ node[c].count = 0)}
IgnoreNode(pg, c, mode) ==
    LET n == pg.node[c]
        seen == IF mode # "subtree_removal" /\ ByHim(pg.node, c) THEN IgnoredComment(n, mode) ELSE n
        left == Without(n.replies, GoesFrom(pg.node, Range(n.replies), mode))
    IN IF n.replies = NotRead THEN seen
       ELSE [seen EXCEPT !.replies = left, !.count = AtLeast0(@ - (Len(n.replies) - Len(left)))]
\* The comment the view is rooted on, or one above it, goes with its branch
Ignored(pg, mode) ==
    IF pg.phase # "ready" THEN pg
    ELSE IF mode = "subtree_removal" /\ pg.inHis THEN Bare("hidden")
    ELSE LET kept == [c \in DOMAIN pg.node |-> IF c \in Drawn(pg) THEN IgnoreNode(pg, c, mode) ELSE pg.node[c]]
             items == Without(pg.items, GoesFrom(kept, Range(pg.items), mode))
         IN IF pg.rooted # Top /\ items = <<>> THEN Bare("missing")
            ELSE [pg EXCEPT !.node = kept, !.items = items, !.inHis = @ /\ mode # "gravestone"]
Unignored(pg) ==
    IF pg.phase # "ready" THEN pg
    ELSE [pg EXCEPT !.node = [c \in DOMAIN @ |-> IF c \in His /\ @[c].visibility = "soft_hidden"
                                                 THEN [@[c] EXCEPT !.visibility = "visible", !.revealed = FALSE]
                                                 ELSE @[c]]]

----------------------------------------------------------------------------
(* Requests. Each is sent, served and answered; until it is served it holds *)
(* no answer, and a write that is served may still be answered by nothing.  *)

AtFirst == [parent |-> Old, down |-> {}, mode |-> "none"]
AskBeside(others, kind, id, last) ==
    /\ Cardinality(others) < MaxFlight /\ asked < MaxAsks
    /\ asked' = asked + 1
    /\ flight' = others \union
           {[n |-> asked, kind |-> kind, gen |-> generation', id |-> id, last |-> last,
             cut |-> IF kind = "more" THEN page.cursor.order ELSE sort', sort |-> sort', status |-> "sent", seen |-> AtFirst,
             made |-> None]}
Ask(kind, id, last) == AskBeside(flight, kind, id, last)
\* A full load: an answer to an earlier one is dropped
LoadList(others) ==
    /\ generation < MaxLoads
    /\ generation' = generation + 1
    /\ page' = Bare("loading")
    /\ AskBeside(others, "list", Top, None)
    /\ UNCHANGED pending
LoadRooted(others, c) ==
    /\ generation < MaxLoads
    /\ generation' = generation + 1
    /\ page' = Bare("loading")
    /\ AskBeside(others, "rooted", c, pending)
    /\ pending' = None
LoadBeside(others, c) ==
    /\ replyingTo' = None /\ sort' = sort
    /\ IF c = Top THEN LoadList(others) ELSE LoadRooted(others, c)
Load(c) == LoadBeside(flight, c)

Init ==
    /\ app \in {"web", "mobile"}
    /\ server = AtFirst
    /\ page = initial
    /\ address \in {Top, 1}
    /\ hashPending = FALSE
    /\ generation = 0
    /\ sort \in Sorts
    /\ replyingTo = None /\ pending = None
    /\ flight = {} /\ asked = 0

(* What the components offer to press.                                       *)

OffersRetry == page.phase \in {"idle", "failed"}
OffersAll == page.phase \in {"gone", "missing", "hidden"} \/ (page.phase = "ready" /\ page.rooted # Top)
OffersSort == IsList(page) /\ Len(page.items) > 1
OffersMore == IsList(page) /\ page.cursor # End /\ page.more # "loading"
OffersReplies(c) ==
    /\ page.phase = "ready" /\ c \in Range(page.items)
    /\ page.node[c].count > 0 /\ ~IsRead(page, c) /\ ~page.node[c].loading
OffersMoreReplies(c) ==
    /\ page.phase = "ready" /\ c \in Range(page.items)
    /\ IsRead(page, c) /\ page.node[c].hasMore /\ ~page.node[c].loading
Collapsed(c) ==
    /\ page.phase = "ready" /\ c \in Drawn(page)
    /\ page.node[c].visibility = "soft_hidden" /\ ~page.node[c].revealed
\* A comment that can be read carries the reply button and the menu
Readable(c) ==
    /\ page.phase = "ready" /\ c \in Drawn(page) /\ ~Collapsed(c)
    /\ page.node[c].visibility \notin Authorless

----------------------------------------------------------------------------
(* What the reader does.                                                    *)

\* The block comes near, or the reader asks again after a failure
Open ==
    /\ OffersRetry
    /\ UNCHANGED <<app, server, address, hashPending>>
    /\ Load(address)
\* A link to a comment, the back button or a press on "replies" where they are not drawn: the
\* address changes first
Reroot(c) ==
    /\ c # address /\ ~hashPending
    /\ address' = c /\ hashPending' = TRUE
    /\ UNCHANGED <<app, server, page, generation, sort, replyingTo, pending, flight, asked>>
\* ... and the event that says so loads
HashChange ==
    /\ hashPending
    /\ hashPending' = FALSE
    /\ UNCHANGED <<app, server, address>>
    /\ Load(address)
BackToAll ==
    /\ OffersAll
    /\ address' = Top
    /\ UNCHANGED <<app, server, hashPending>>
    /\ Load(Top)
\* Slip: the order changes over the pages already shown
SetSortInPlace(order) ==
    /\ OffersSort /\ order # sort
    /\ sort' = order
    /\ UNCHANGED <<app, server, page, address, hashPending, generation, replyingTo, pending, flight, asked>>
SetSort(order) ==
    /\ OffersSort /\ order # sort
    /\ sort' = order
    /\ UNCHANGED <<app, server, address, hashPending, replyingTo>>
    /\ LoadList(flight)

LoadMore ==
    /\ OffersMore
    /\ page' = MoreIs(page, "loading")
    /\ UNCHANGED reading
    /\ Ask("more", Top, page.cursor.last)
ShowReplies(c) ==
    /\ OffersReplies(c)
    /\ page' = RepliesLoading(page, c)
    /\ UNCHANGED reading
    /\ Ask("branch", c, None)
MoreReplies(c) ==
    /\ OffersMoreReplies(c)
    /\ page' = RepliesLoading(page, c)
    /\ UNCHANGED reading
    /\ Ask("replies", c, page.node[c].cursor.last)
RevealOne(c) ==
    /\ Collapsed(c)
    /\ page' = Reveal(page, c)
    /\ UNCHANGED <<reading, flight, asked>>

OpenReply(c) ==
    /\ Readable(c) /\ replyingTo # c
    /\ replyingTo' = c
    /\ UNCHANGED <<app, server, page, address, hashPending, generation, sort, pending, flight, asked>>
Writes == {"post", "reply", "deepReply"}
Room == Len(server.parent) + Cardinality({r \in flight : r.kind \in Writes}) < MaxComments
Shallow(c) == c \in Known(server) /\ Parent(server, Parent(server, c)) = Top
Post ==
    /\ IsList(page) /\ Room
    /\ UNCHANGED <<page, reading>>
    /\ Ask("post", Top, None)
\* Where the parent's replies are drawn the reply goes up in place; elsewhere the view re-roots
Reply(c) ==
    /\ replyingTo = c /\ Readable(c) /\ Room
    /\ Shallow(c)
    /\ UNCHANGED <<page, reading>>
    /\ Ask(IF c \in Range(page.items) THEN "reply" ELSE "deepReply", c, None)
DeleteOwn(c) ==
    /\ Readable(c) /\ Author(server, c) = "me"
    /\ UNCHANGED <<page, reading>>
    /\ Ask("remove", c, None)
Ignore(c, mode) ==
    /\ Readable(c) /\ c \in His
    /\ UNCHANGED <<page, reading>>
    /\ Ask(mode, c, None)
Unignore(c) ==
    /\ Readable(c) /\ c \in His /\ page.node[c].visibility = "soft_hidden"
    /\ UNCHANGED <<page, reading>>
    /\ Ask("none", c, None)
Report(c) ==
    /\ Readable(c) /\ Author(server, c) # "me"
    /\ UNCHANGED <<page, reading>>
    /\ Ask("report", c, None)
\* The view hidden by the reader's own ignore offers to lift it
Lift ==
    /\ page.phase = "hidden"
    /\ UNCHANGED <<page, reading>>
    /\ Ask("lift", Top, None)

----------------------------------------------------------------------------
(* The service.                                                             *)

Reads == {"rooted", "branch", "replies"}
\* An ignore hides from the reader, and stops nothing he writes but a report of what he does not see
AnswerTo(r) ==
    IF r.kind \in Reads \union {"remove", "report"} /\ ~Shown(server, r.id) THEN "missing"
    ELSE IF r.kind \in Reads /\ Removed(server, r.id) THEN "hidden"
    ELSE IF r.kind \in {"rooted", "branch"} /\ ~Stands(server, r.id) THEN "missing"
    ELSE IF r.kind \in Writes \ {"post"} /\ r.id \notin Known(server) \ server.down THEN "missing"
    ELSE IF \/ r.kind = "report" /\ r.id \in His /\ server.mode \in {"gravestone", "subtree_removal"}
            \/ r.kind = "more" /\ r.cut # r.sort
         THEN "refused"
    ELSE "done"
Serve(r) ==
    /\ r.status = "sent"
    /\ LET done == AnswerTo(r) = "done"
           written == done /\ r.kind \in Writes
           after == [server EXCEPT
               !.parent = IF written THEN Append(@, r.id) ELSE @,
               !.down = IF done /\ r.kind = "remove" THEN @ \union {r.id} ELSE @,
               !.mode = IF r.kind \in Modes THEN r.kind ELSE IF r.kind = "lift" THEN "none" ELSE @]
       IN /\ server' = after
          /\ flight' = (flight \ {r}) \union
                {[r EXCEPT !.status = AnswerTo(r), !.seen = IF done THEN after ELSE @,
                           !.made = IF written THEN Len(after.parent) ELSE None]}
    /\ UNCHANGED <<app, page, address, hashPending, generation, sort, replyingTo, pending, asked>>
\* Another reader, or a moderator, takes a comment down
TakenDown(c) ==
    /\ c \in Known(server) \ server.down
    /\ server' = [server EXCEPT !.down = @ \union {c}]
    /\ UNCHANGED <<app, page, address, hashPending, generation, sort, replyingTo, pending, flight, asked>>

----------------------------------------------------------------------------
(* Answers.                                                                 *)

Reduce(pg, r) ==
    CASE r.kind = "list" -> Listed(r.seen, r.sort)
      [] r.kind = "rooted" -> Rooted(r.seen, r.id, r.last)
      [] r.kind = "more" -> MoreLoaded(pg, r.seen, r)
      [] r.kind = "branch" -> WithBranch(pg, r.seen, r.id)
      [] r.kind = "replies" -> RepliesLoaded(pg, r.seen, r)
      [] r.kind = "post" -> Posted(pg, r.seen, r.made)
      [] r.kind = "reply" -> Replied(pg, r.seen, r.id, r.made)
      [] r.kind = "remove" -> Deleted(pg, r.id)
      [] r.kind \in Modes \ {"none"} -> Ignored(pg, r.kind)
      [] r.kind = "none" -> Unignored(pg)
      [] OTHER -> pg

Held(r, kinds) == r.kind \in kinds /\ r.status = "done"
Settled(r) == flight' = flight \ {r} /\ UNCHANGED asked
\* An answer that changes nothing but what is drawn
Draw(r, drawn) == Settled(r) /\ page' = drawn /\ UNCHANGED reading

\* Slip: any answer to a full load is drawn
AnyLoadArrives(r, new) ==
    /\ Held(r, {"list", "rooted"})
    /\ Draw(r, new)
\* Slip: a load that fails says nothing
FailsInSilence(r) ==
    Draw(r, CASE r.kind = "more" -> MoreIs(page, "failed")
              [] r.kind \in {"branch", "replies"} -> RepliesFailed(page, r.id)
              [] OTHER -> page)
\* new: the page with the answer in it, as the client's reducer has it
LoadArrives(r, new) ==
    /\ Held(r, {"list", "rooted"})
    /\ Draw(r, IF r.gen = generation THEN new ELSE page)
NotThere(r) ==
    /\ r.kind = "rooted" /\ r.status \in {"missing", "hidden"}
    /\ Draw(r, IF r.gen = generation THEN Bare(r.status) ELSE page)
MoreArrives(r, new) == Held(r, {"more"}) /\ Draw(r, new)
RepliesArrive(r, new) == Held(r, {"branch", "replies"}) /\ Draw(r, new)
\* A 404 while reading replies, or on an action: the comment leaves the tree
VanishedOn(r) ==
    /\ r.kind \in {"branch", "replies", "report"} /\ r.status \in {"missing", "hidden"}
    /\ Draw(r, Vanished(page, r.id, r.status = "hidden"))
PostArrives(r, new) == Held(r, {"post"}) /\ Draw(r, new)
\* The address becomes the parent's where its replies are not drawn; if it was already, no event follows
ReplyArrives(r, new) ==
    /\ Held(r, {"reply", "deepReply"})
    /\ Settled(r)
    /\ replyingTo' = None
    /\ IF r.kind = "reply"
       THEN page' = new /\ UNCHANGED <<pending, address, hashPending>>
       ELSE /\ pending' = r.made
            /\ address' = r.id
            /\ hashPending' = (hashPending \/ address # r.id)
            /\ UNCHANGED page
    /\ UNCHANGED <<app, server, generation, sort>>
\* Gone already is the outcome asked for
RemoveArrives(r, new) ==
    /\ r.kind = "remove" /\ r.status # "sent"
    /\ Settled(r)
    /\ page' = new
    /\ replyingTo' = IF replyingTo = r.id THEN None ELSE replyingTo
    /\ UNCHANGED <<app, server, address, hashPending, generation, sort, pending>>
IgnoreArrives(r, new) == Held(r, Modes) /\ Draw(r, new)
ReportArrives(r) == Held(r, {"report"}) /\ Draw(r, page)
LiftArrives(r) ==
    /\ Held(r, {"lift"})
    /\ UNCHANGED <<app, server, address, hashPending>>
    /\ LoadBeside(flight \ {r}, address)
\* A refusal, or no answer within the time, before the service wrote or after: the request fails
Fails(r) ==
    Draw(r, CASE r.kind \in {"list", "rooted"} -> IF r.gen = generation THEN Bare("failed") ELSE page
              [] r.kind = "more" -> MoreIs(page, "failed")
              [] r.kind \in {"branch", "replies"} -> RepliesFailed(page, r.id)
              [] OTHER -> page)

Arrives(r, new) ==
    \/ LoadArrives(r, new) \/ NotThere(r) \/ MoreArrives(r, new) \/ RepliesArrive(r, new) \/ VanishedOn(r)
    \/ PostArrives(r, new) \/ ReplyArrives(r, new) \/ RemoveArrives(r, new) \/ IgnoreArrives(r, new)
    \/ ReportArrives(r) \/ LiftArrives(r) \/ Fails(r)
Answered(r) == Arrives(r, Reduce(page, r))
Written(c) ==
    \/ Reply(c) \/ DeleteOwn(c) \/ Report(c) \/ Unignore(c)
    \/ \E mode \in Modes \ {"none"} : Ignore(c, mode)
Browsed(c) == Reroot(c) \/ ShowReplies(c) \/ MoreReplies(c) \/ RevealOne(c) \/ OpenReply(c)
Next ==
    \/ Open \/ HashChange \/ BackToAll \/ LoadMore \/ Post \/ Lift
    \/ \E order \in Sorts : SetSort(order)
    \/ \E c \in Ids : Browsed(c) \/ Written(c) \/ TakenDown(c)
    \/ \E r \in flight : Serve(r) \/ Answered(r)

----------------------------------------------------------------------------
(* Properties.                                                              *)

\* What is drawn is what the address asks for, whatever order the answers to full loads come in
\* (the generation counter of useDiscussion.ts).
ViewFollowsAddress == page.phase = "ready" /\ ~hashPending => page.rooted = address

\* The browser's list never shows a comment twice, though the reader's own goes up first whatever the
\* order and comes again with its page (withoutSeen in tree.ts).
NothingTwice == app = "web" /\ IsList(page) => \A i, j \in DOMAIN page.items : page.items[i] = page.items[j] => i = j

\* The cursor under the list resumes the order the reader has chosen; only the answer to a page asked
\* before the last full load can leave another one there, and "more" then fails for good.
OrderFits == IsList(page) /\ page.cursor # End => page.cursor.order = sort
OnlyLatePagesMixOrders ==
    [][OrderFits /\ ~OrderFits' =>
         \E r \in flight \ flight' : r.kind = "more" /\ r.gen < generation]_vars

\* Nothing is left saying it loads with no request to end it: the block, the page after the last, and
\* the replies of every comment drawn.
LoadingIsAsked ==
    /\ page.phase = "loading" => \E r \in flight : r.kind \in {"list", "rooted"} /\ r.gen = generation
    /\ page.more = "loading" => \E r \in flight : r.kind = "more"
    /\ page.phase = "ready" =>
         \A c \in Drawn(page) : page.node[c].loading => \E r \in flight : r.kind \in {"branch", "replies"} /\ r.id = c
=============================================================================
