------------------------------- MODULE EditorDesk -------------------------------
(* The desk of the editorial UI. The feed of news from the sources            *)
(* (SourcesPage.tsx, useFeed.ts) with its deletions that can be undone for a  *)
(* while (useUndoableDelete.ts), and the three lists of work: drafts          *)
(* (WorkList.tsx, DeskPage.tsx), reported comments (ModerationPage.tsx) and   *)
(* new avatars (AvatarQueuePage.tsx). The feed and the lists share no state.  *)
EXTENDS Integers, FiniteSets, SequencesExt

CONSTANTS
    MaxNews,        \* bound: items that arrive
    MaxTurns,       \* bound: changes of the filter, refreshes and visits
    MaxRemovals,    \* bound: items removed by the editor
    Cards,          \* what a list of work holds: drafts, comments, people
    MaxLoads,       \* bound: loads of the list
    MaxDecisions,   \* bound: decisions
    MaxFaces        \* bound: reports of a comment, avatars of a person

ASSUME DeskAssumption ==
    /\ MaxNews \in Nat /\ MaxTurns \in Nat /\ MaxRemovals \in Nat
    /\ MaxLoads \in Nat /\ MaxDecisions \in Nat /\ MaxFaces \in Nat /\ IsFiniteSet(Cards)

\* -- The feed ------------------------------------------------------------------

VARIABLES
    feed,           \* the page: its query, what is shown of it and the item open beside it
    fetches,        \* reads of the feed under way
    news,           \* items that have arrived, the newest last
    goneNews,       \* those deleted at the aggregator
    hiddenNews,     \* those the page leaves out
    pendingNews,    \* the removal that can still be undone
    deletes,        \* deletions under way, and whether the page they were asked on is still there
    turns,          \* changes of filter, refreshes and visits so far
    removals,       \* removals so far
    meant,          \* removals not undone, and not refused by the aggregator
    spared,         \* removals undone
    returned        \* a page was asked of an earlier showing of the very query that is shown
fvars == <<feed, fetches, news, goneNews, hiddenNews, pendingNews, deletes, turns, removals, meant, spared, returned>>

Filters == {"all", "odd"}
NoQuery == <<"none", 0>>
NoRemoval == [n |-> 0, r |-> 0]
NoFeed == [up |-> FALSE, filter |-> "all", reloads |-> 0, key |-> NoQuery, items |-> <<>>, next |-> 0, upto |-> 0,
           showing |-> 0, failed |-> NoQuery, moreBusy |-> FALSE, open |-> 0]
FeedInit ==
    /\ feed = NoFeed /\ fetches = {} /\ news = 1 /\ goneNews = {} /\ hiddenNews = {} /\ pendingNews = NoRemoval /\ deletes = {}
    /\ turns = 0 /\ removals = 0 /\ meant = {} /\ spared = {} /\ returned = FALSE

Key(f) == <<f.filter, f.reloads>>
Matching(n, filter) == filter = "all" \/ n % 2 = 1
Fetch(f, cursor) == [key |-> Key(f), cursor |-> cursor, showing |-> f.showing, served |-> FALSE, items |-> <<>>, next |-> 0, upto |-> 0]
IsTop(a) == a.cursor = 0
\* A new query takes the read of the one before it back; a page further down is not taken back
Requeries(f) ==
    /\ turns < MaxTurns /\ turns' = turns + 1
    /\ feed' = f
    /\ fetches' = {a \in fetches : ~IsTop(a)} \union {Fetch(f, 0)}
OpenSources ==
    /\ ~feed.up /\ \E filter \in Filters : Requeries([NoFeed EXCEPT !.up = TRUE, !.filter = filter])
    /\ UNCHANGED <<news, goneNews, hiddenNews, pendingNews, deletes, removals, meant, spared, returned>>
ChangeFilter ==
    /\ feed.up /\ \E filter \in Filters \ {feed.filter} : Requeries([feed EXCEPT !.filter = filter])
    /\ UNCHANGED <<news, goneNews, hiddenNews, pendingNews, deletes, removals, meant, spared, returned>>
Refresh ==
    /\ feed.up /\ Requeries([feed EXCEPT !.reloads = @ + 1])
    /\ UNCHANGED <<news, goneNews, hiddenNews, pendingNews, deletes, removals, meant, spared, returned>>

\* -- The aggregator: pages of one item, the newest first, behind a cursor --
NewsComes ==
    /\ news < MaxNews /\ news' = news + 1
    /\ UNCHANGED <<feed, fetches, goneNews, hiddenNews, pendingNews, deletes, turns, removals, meant, spared, returned>>
Below(cursor, filter) == {n \in 1..news \ goneNews : Matching(n, filter) /\ (cursor # 0 => n < cursor)}
Newest(set) == CHOOSE n \in set : \A m \in set : m <= n
FetchServed(a) ==
    /\ ~a.served
    /\ LET below == Below(a.cursor, a.key[1])
           page == IF below = {} THEN <<>> ELSE <<Newest(below)>>
       IN fetches' = (fetches \ {a}) \union
              {[a EXCEPT !.served = TRUE, !.items = page, !.next = IF Cardinality(below) > 1 THEN page[1] ELSE 0, !.upto = news]}
    /\ UNCHANGED <<feed, news, goneNews, hiddenNews, pendingNews, deletes, turns, removals, meant, spared, returned>>

\* -- What the page hears --
TopArrives(a) ==
    /\ IsTop(a) /\ a.served /\ fetches' = fetches \ {a}
    /\ feed' = [feed EXCEPT !.key = a.key, !.items = a.items, !.next = a.next, !.upto = a.upto, !.showing = turns]
    /\ UNCHANGED <<news, goneNews, hiddenNews, pendingNews, deletes, turns, removals, meant, spared, returned>>
Shown(f) == f.up /\ f.key = Key(f)
AskMore ==
    /\ Shown(feed) /\ feed.next # 0 /\ ~feed.moreBusy
    /\ feed' = [feed EXCEPT !.moreBusy = TRUE]
    /\ fetches' = fetches \union {Fetch(feed, feed.next)}
    /\ UNCHANGED <<news, goneNews, hiddenNews, pendingNews, deletes, turns, removals, meant, spared, returned>>
\* A page of another query is dropped; what is known already is not shown twice
Unknown(items, page) == IF \E n \in ToSet(page) : Contains(items, n) THEN <<>> ELSE page     \* a page is of one item
Appended(f, a) ==
    IF f.key # a.key THEN f
    ELSE [f EXCEPT !.items = @ \o Unknown(@, a.items), !.next = a.next]
MoreArrives(a) ==
    /\ ~IsTop(a) /\ a.served /\ fetches' = fetches \ {a}
    /\ feed' = [Appended(feed, a) EXCEPT !.moreBusy = FALSE]
    /\ returned' = (returned \/ (a.key = feed.key /\ a.showing # feed.showing))
    /\ UNCHANGED <<news, goneNews, hiddenNews, pendingNews, deletes, turns, removals, meant, spared>>
FetchFails(a) ==
    /\ fetches' = fetches \ {a}
    /\ feed' = [feed EXCEPT !.failed = a.key, !.moreBusy = IF IsTop(a) THEN @ ELSE FALSE]
    /\ UNCHANGED <<news, goneNews, hiddenNews, pendingNews, deletes, turns, removals, meant, spared, returned>>

\* -- Removing, with a while to undo it --
Visible == SelectSeq(feed.items, LAMBDA n : n \notin hiddenNews)
OpenItem ==
    /\ feed.up /\ \E n \in ToSet(Visible) \union {0} : n # feed.open /\ feed' = [feed EXCEPT !.open = n]
    /\ UNCHANGED <<fetches, news, goneNews, hiddenNews, pendingNews, deletes, turns, removals, meant, spared, returned>>
\* The card to show when this one goes: the one below, else the one above
Neighbour(s, n) ==
    IF ~Contains(s, n) THEN 0
    ELSE LET at == CHOOSE i \in DOMAIN s : s[i] = n
         IN IF at < Len(s) THEN s[at + 1] ELSE IF at > 1 THEN s[at - 1] ELSE 0
Flushed == deletes \union (IF pendingNews = NoRemoval THEN {} ELSE {[of |-> pendingNews, here |-> TRUE]})
\* Slip: the one that waits is forgotten for the next
RemoveForgets ==
    /\ feed.up /\ removals < MaxRemovals
    /\ \E n \in (ToSet(Visible) \union {feed.open}) \ {0} :
        /\ feed' = IF n = feed.open THEN [feed EXCEPT !.open = Neighbour(Visible, n)] ELSE feed
        /\ hiddenNews' = hiddenNews \union {n} /\ pendingNews' = [n |-> n, r |-> removals + 1]
    /\ removals' = removals + 1 /\ meant' = meant \union {pendingNews'}
    /\ UNCHANGED <<fetches, news, goneNews, deletes, turns, spared, returned>>
\* One waits at a time: the next sends the one before at once
RemoveNews ==
    /\ feed.up /\ removals < MaxRemovals
    /\ \E n \in (ToSet(Visible) \union {feed.open}) \ {0} :
        /\ feed' = IF n = feed.open THEN [feed EXCEPT !.open = Neighbour(Visible, n)] ELSE feed
        /\ hiddenNews' = hiddenNews \union {n} /\ pendingNews' = [n |-> n, r |-> removals + 1]
    /\ deletes' = Flushed
    /\ removals' = removals + 1 /\ meant' = meant \union {pendingNews'}
    /\ UNCHANGED <<fetches, news, goneNews, turns, spared, returned>>
UndoRemoval ==
    /\ feed.up /\ pendingNews # NoRemoval
    /\ hiddenNews' = hiddenNews \ {pendingNews.n} /\ pendingNews' = NoRemoval
    /\ meant' = meant \ {pendingNews} /\ spared' = spared \union {pendingNews}
    /\ UNCHANGED <<feed, fetches, news, goneNews, deletes, turns, removals, returned>>
UndoIsOver ==
    /\ feed.up /\ pendingNews # NoRemoval
    /\ deletes' = Flushed /\ pendingNews' = NoRemoval
    /\ UNCHANGED <<feed, fetches, news, goneNews, hiddenNews, turns, removals, meant, spared, returned>>
\* Refused, or lost on the way there or back: the card comes back, on the page it was removed from
DeleteAnswered(d) ==
    /\ deletes' = deletes \ {d}
    /\ \/ goneNews' = goneNews \union {d.of.n} /\ UNCHANGED <<hiddenNews, meant>>
       \/ /\ goneNews' \in {goneNews, goneNews \union {d.of.n}}
          /\ hiddenNews' = IF d.here THEN hiddenNews \ {d.of.n} ELSE hiddenNews
          /\ meant' = meant \ {d.of}
    /\ UNCHANGED <<feed, fetches, news, pendingNews, turns, removals, spared, returned>>
LeaveSources ==
    /\ feed.up /\ feed' = NoFeed /\ fetches' = {} /\ hiddenNews' = {} /\ pendingNews' = NoRemoval
    /\ deletes' = {[d EXCEPT !.here = FALSE] : d \in Flushed}
    /\ UNCHANGED <<news, goneNews, turns, removals, meant, spared, returned>>

FeedNext ==
    \/ OpenSources \/ ChangeFilter \/ Refresh \/ NewsComes \/ AskMore \/ OpenItem
    \/ RemoveNews \/ UndoRemoval \/ UndoIsOver \/ LeaveSources
    \/ \E a \in fetches : FetchServed(a) \/ TopArrives(a) \/ MoreArrives(a) \/ FetchFails(a)
    \/ \E d \in deletes : DeleteAnswered(d)

FeedSpec == FeedInit /\ [][FeedNext]_fvars

\* -- The lists of work -----------------------------------------------------------

VARIABLES
    list,           \* the page: which list, how much of it was asked for, what is shown
    loads,          \* loads under way, those overtaken included
    decisions,      \* decisions under way
    queue,          \* what the service has in the list
    face,           \* for each card, which version of it: one decided upon may come back as another
    settled,        \* decided here, and the answer heard
    asksMade,       \* decisions asked for so far
    overlapped      \* an avatar was decided upon while the list was loading
lvars == <<list, loads, decisions, queue, face, settled, asksMade, overlapped>>

Lists == {"drafts", "reports", "avatars"}
Card(c) == [card |-> c, face |-> face[c]]
Load(n, size) == [n |-> n, size |-> size, served |-> FALSE, cards |-> {}, more |-> FALSE]
ListInit ==
    /\ \E kind \in Lists : list = [kind |-> kind, pages |-> 1, asked |-> 1, got |-> 0, cards |-> {}, more |-> FALSE,
                                   waiting |-> TRUE, err |-> FALSE, busy |-> {}]
    /\ loads = {Load(1, 1)} /\ decisions = {} /\ queue = Cards /\ face = [c \in Cards |-> 1] /\ settled = {}
    /\ asksMade = 0 /\ overlapped = FALSE

\* Always from the top, as far as it has been opened; the load before this one no longer counts
Loads(l, wait) ==
    /\ l.asked < MaxLoads
    /\ list' = [l EXCEPT !.asked = @ + 1, !.waiting = wait]
    /\ loads' = loads \union {Load(l.asked + 1, l.pages)}
ShowMore ==
    /\ list.kind # "avatars" /\ list.more /\ ~list.waiting /\ Loads([list EXCEPT !.pages = @ + 1], list.kind = "reports" \/ ~list.err)
    /\ UNCHANGED <<decisions, queue, face, settled, asksMade, overlapped>>
\* Another search among the drafts is not another request to the list: it shows no spinner
SearchDrafts ==
    /\ list.kind = "drafts" /\ Loads(list, list.waiting)
    /\ UNCHANGED <<decisions, queue, face, settled, asksMade, overlapped>>
ReloadAvatars ==
    /\ list.kind = "avatars" /\ ~list.waiting /\ (list.cards # {} \/ list.more) /\ Loads(list, TRUE)
    /\ UNCHANGED <<decisions, queue, face, settled, asksMade, overlapped>>
\* The order is by counts that change: any cards may be the first
LoadServed_(a) ==
    /\ ~a.served
    /\ \E s \in SUBSET queue :
        /\ Cardinality(s) = IF a.size < Cardinality(queue) THEN a.size ELSE Cardinality(queue)
        /\ loads' = (loads \ {a}) \union {[a EXCEPT !.served = TRUE, !.cards = {Card(c) : c \in s}, !.more = s # queue]}
    /\ UNCHANGED <<list, decisions, queue, face, settled, asksMade, overlapped>>
\* Slip: the answer is taken, whatever was asked since
AnyLoadCame(a) ==
    /\ a.served /\ loads' = loads \ {a}
    /\ list' = [list EXCEPT !.got = list.asked, !.cards = a.cards, !.more = a.more, !.waiting = FALSE, !.err = FALSE]
    /\ UNCHANGED <<decisions, queue, face, settled, asksMade, overlapped>>
LoadCame(a) ==
    /\ a.served /\ loads' = loads \ {a}
    /\ list' = IF a.n # list.asked THEN list
               ELSE [list EXCEPT !.got = a.n, !.cards = a.cards, !.more = a.more, !.waiting = FALSE, !.err = FALSE]
    /\ UNCHANGED <<decisions, queue, face, settled, asksMade, overlapped>>
LoadFailed(a) ==
    /\ loads' = loads \ {a}
    /\ list' = IF a.n # list.asked THEN list ELSE [list EXCEPT !.waiting = FALSE, !.err = TRUE]
    /\ UNCHANGED <<decisions, queue, face, settled, asksMade, overlapped>>

\* A decision is about the card as it was drawn. The reports remember one that is under way, the
\* avatars all, the drafts none: there the question whether to delete stands between two clicks
Decide == \E c \in list.cards :
    /\ c.card \notin list.busy /\ asksMade < MaxDecisions /\ asksMade' = asksMade + 1
    /\ decisions' = decisions \union {[n |-> asksMade', card |-> c, answer |-> "none"]}
    /\ list' = [list EXCEPT !.busy = CASE list.kind = "avatars" -> @ \union {c.card}
                                       [] list.kind = "reports" -> {c.card}
                                       [] OTHER -> @]
    /\ UNCHANGED <<loads, queue, face, settled, overlapped>>
\* A comment or a draft is decided by its name, an avatar by the picture that was seen
DecisionServed(d) ==
    /\ d.answer = "none"
    /\ LET c == d.card.card
           stands == c \in queue /\ (list.kind = "avatars" => face[c] = d.card.face)
           other == c \in queue /\ ~stands
       IN /\ queue' = IF stands THEN queue \ {c} ELSE queue
          /\ decisions' = (decisions \ {d}) \union
                 {[d EXCEPT !.answer = IF stands THEN "ok" ELSE IF other THEN "conflict" ELSE "missing", !.card = IF stands THEN Card(c) ELSE @]}
    /\ UNCHANGED <<list, loads, face, settled, asksMade, overlapped>>
Freed(l, d) == [l EXCEPT !.busy = IF l.kind = "avatars" THEN @ \ {d.card.card} ELSE {}]
Dropped(l, d) == [l EXCEPT !.cards = {c \in @ : c.card # d.card.card}]
\* Taken: drafts and reports are read again, an avatar leaves the screen. Moved by someone else: the same,
\* and an avatar that was changed is read again. Anything else is an error, with the list as it is
DecisionHeard(d) ==
    /\ d.answer # "none" /\ decisions' = decisions \ {d}
    /\ settled' = IF d.answer = "ok" THEN settled \union {d.card} ELSE settled
    /\ overlapped' = (overlapped \/ (d.answer = "ok" /\ list.kind = "avatars" /\ list.got # list.asked))
    /\ LET l == Freed(list, d)
           e == [l EXCEPT !.err = TRUE]
       IN CASE list.kind = "avatars" /\ d.answer \in {"ok", "missing"} ->
                   list' = Dropped(IF d.answer = "ok" THEN l ELSE e, d) /\ UNCHANGED loads
            [] list.kind = "avatars" /\ d.answer = "conflict" -> Loads(e, TRUE)
            [] list.kind = "reports" -> Loads(IF d.answer = "ok" THEN l ELSE e, TRUE)
            \* the list of drafts counts as loading by its request alone, and not at all over an error
            [] OTHER -> IF d.answer = "ok" THEN Loads(l, ~l.err) ELSE list' = e /\ UNCHANGED loads
    /\ UNCHANGED <<queue, face, asksMade>>
DecisionLost(d) ==
    /\ decisions' = decisions \ {d} /\ list' = [Freed(list, d) EXCEPT !.err = TRUE]
    /\ UNCHANGED <<loads, queue, face, settled, asksMade, overlapped>>
\* Others decide; a comment is reported again, a person shows another picture
OthersDecide == \E c \in queue :
    /\ asksMade < MaxDecisions /\ asksMade' = asksMade + 1 /\ queue' = queue \ {c}
    /\ UNCHANGED <<list, loads, decisions, face, settled, overlapped>>
ComesAnew == \E c \in Cards :
    /\ list.kind # "drafts" /\ face[c] < MaxFaces
    /\ face' = [face EXCEPT ![c] = @ + 1] /\ queue' = queue \union {c}
    /\ UNCHANGED <<list, loads, decisions, settled, asksMade, overlapped>>

ListNext ==
    \/ ShowMore \/ SearchDrafts \/ ReloadAvatars \/ Decide \/ OthersDecide \/ ComesAnew
    \/ \E a \in loads : LoadServed_(a) \/ LoadCame(a) \/ LoadFailed(a)
    \/ \E d \in decisions : DecisionServed(d) \/ DecisionHeard(d) \/ DecisionLost(d)
ListSpec == ListInit /\ [][ListNext]_lvars

\* -----------------------------------------------------------------------------

\* A feed that counts as loaded shows its own query from the top down, nothing left out: neither a page of
\* another query in it nor a hole between two pages (useFeed.ts:14-15). Left and returned to while a page
\* was on its way, it may have one
FeedHasNoHoles ==
    (Shown(feed) /\ ~returned) =>
        /\ \A n \in ToSet(feed.items) : Matching(n, feed.filter)
        /\ \A n \in 1..feed.upto \ goneNews : Matching(n, feed.filter) =>
               n \in ToSet(feed.items) \/ (feed.next # 0 /\ n < feed.next)
\* What was removed and not undone is deleted, about to be, or waits for its time, whatever else was removed
\* and whichever page was left meanwhile; what was undone is not (useUndoableDelete.ts:11-12)
RemovedIsDeleted ==
    /\ \A m \in meant : m = pendingNews \/ m.n \in goneNews \/ \E d \in deletes : d.of = m
    /\ \A m \in spared : m # pendingNews /\ \A d \in deletes : d.of # m
\* A list that says it loads will hear; one at rest does not show what was decided upon and confirmed
\* (ModerationPage.tsx:52-53, AvatarQueuePage.tsx:24-26). An avatar decided during a load may come back with it
DecidedIsGone ==
    /\ list.waiting => \E a \in loads : a.n = list.asked
    /\ (list.got = list.asked /\ ~overlapped) => list.cards \intersect settled = {}

\* What stands on the desk answers what was asked of it last
DeskIsInOrder == FeedHasNoHoles /\ DecidedIsGone
================================================================================
