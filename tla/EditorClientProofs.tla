------------------------- MODULE EditorClientProofs --------------------------
(* The editors' client: the lists of the desk, the dialogs that wait on jobs,  *)
(* and the buffer an article is typed into.                                    *)
EXTENDS EditorBuffer, EditorDialogs, EditorDesk, FiniteSetTheorems, WellFoundedInduction, TLAPS

----------------------------------------------------------------------------
(* The list of articles (EditorDesk).                                       *)

\* The number of a removal is one of those given out, and not the one that stands for none
Numbered(m) == m.r \in Nat /\ m.r > 0 /\ m.r <= removals

\* Removals are numbered, and the one that waits has not been sent, is meant and was not undone
RemovalsInv ==
    /\ removals \in Nat
    /\ \A d \in deletes : Numbered(d.of)
    /\ \A m \in meant \union spared : Numbered(m)
    /\ pendingNews # NoRemoval => pendingNews \in meant /\ \A d \in deletes : d.of # pendingNews
    /\ RemovedIsDeleted

\* At first nothing has been removed.
LEMMA NothingRemoved == FeedInit => RemovalsInv
  BY DEF FeedInit, RemovalsInv, RemovedIsDeleted

\* A step that leaves removals and deletions alone keeps what is known of them.
LEMMA OthersKeepRemovals ==
  ASSUME RemovalsInv, UNCHANGED <<removals, pendingNews, meant, spared, deletes, goneNews>>
  PROVE  RemovalsInv'
  BY DEF RemovalsInv, RemovedIsDeleted, Numbered

\* What is meant is deleted or on its way once what waits has been sent.
LEMMA FlushedSendsPending ==
  ASSUME RemovalsInv
  PROVE  /\ \A d \in Flushed : Numbered(d.of) /\ d.of \notin spared
         /\ \A m \in meant : m.n \in goneNews \/ \E d \in Flushed : d.of = m
  <1>1. CASE pendingNews = NoRemoval
    <2>1. Flushed = deletes
      BY <1>1 DEF Flushed
    <2>2. \A m \in meant : m # NoRemoval
      BY DEF RemovalsInv, NoRemoval, Numbered
    <2> QED BY <1>1, <2>1, <2>2 DEF RemovalsInv, RemovedIsDeleted
  <1>2. CASE pendingNews # NoRemoval
    <2> DEFINE sent == [of |-> pendingNews, here |-> TRUE]
    <2>1. Flushed = deletes \union {sent} /\ sent.of = pendingNews
      BY <1>2 DEF Flushed
    <2>2. Numbered(pendingNews) /\ pendingNews \notin spared
      BY <1>2 DEF RemovalsInv, RemovedIsDeleted
    <2> HIDE DEF sent
    <2>3. \A d \in Flushed : Numbered(d.of) /\ d.of \notin spared
      BY <2>1, <2>2 DEF RemovalsInv, RemovedIsDeleted
    <2>4. ASSUME NEW m \in meant PROVE m.n \in goneNews \/ \E d \in Flushed : d.of = m
      <3>1. m = pendingNews \/ m.n \in goneNews \/ \E d \in deletes : d.of = m
        BY DEF RemovalsInv, RemovedIsDeleted
      <3> QED BY <2>1, <3>1
    <2> QED BY <2>3, <2>4
  <1> QED BY <1>1, <1>2

\* The next removal sends the one before.
LEMMA RemoveKeepsRemovals ==
  ASSUME RemovalsInv, RemoveNews
  PROVE  RemovalsInv'
  <1>1. PICK n \in (ToSet(Visible) \union {feed.open}) \ {0} : pendingNews' = [n |-> n, r |-> removals + 1]
    BY DEF RemoveNews
  <1>2. /\ deletes' = Flushed /\ removals' = removals + 1 /\ meant' = meant \union {pendingNews'}
        /\ UNCHANGED <<spared, goneNews>>
    BY DEF RemoveNews
  <1>3. removals \in Nat /\ pendingNews'.r = removals + 1
    BY <1>1 DEF RemovalsInv
  <1>4. \A m : Numbered(m) => Numbered(m)' /\ m # pendingNews'
    BY <1>2, <1>3 DEF Numbered
  <1>5. Numbered(pendingNews)'
    BY <1>2, <1>3 DEF Numbered
  <1>6. \A d \in deletes' : Numbered(d.of)' /\ d.of # pendingNews' /\ d.of \notin spared'
    BY <1>2, <1>4, FlushedSendsPending
  <1>7. \A m \in meant' \union spared' : Numbered(m)'
    BY <1>2, <1>4, <1>5 DEF RemovalsInv
  <1>8. RemovedIsDeleted'
    <2>1. \A m \in meant' : m = pendingNews' \/ m.n \in goneNews' \/ \E d \in deletes' : d.of = m
      BY <1>2, FlushedSendsPending
    <2>2. \A m \in spared' : m # pendingNews'
      BY <1>2, <1>4 DEF RemovalsInv
    <2> QED BY <1>6, <2>1, <2>2 DEF RemovedIsDeleted
  <1> QED BY <1>2, <1>3, <1>6, <1>7, <1>8 DEF RemovalsInv

\* A removal undone in time was never sent.
LEMMA UndoKeepsRemovals ==
  ASSUME RemovalsInv, UndoRemoval
  PROVE  RemovalsInv'
  <1>1. /\ pendingNews # NoRemoval /\ pendingNews' = NoRemoval
        /\ meant' = meant \ {pendingNews} /\ spared' = spared \union {pendingNews}
        /\ UNCHANGED <<deletes, goneNews, removals>>
    BY DEF UndoRemoval
  <1>2. pendingNews \in meant /\ \A d \in deletes : d.of # pendingNews
    BY <1>1 DEF RemovalsInv
  <1>3. \A m \in meant' \union spared' : Numbered(m) /\ Numbered(m)' /\ m # NoRemoval
    BY <1>1, <1>2 DEF RemovalsInv, Numbered, NoRemoval
  <1>4. RemovedIsDeleted'
    BY <1>1, <1>2, <1>3 DEF RemovalsInv, RemovedIsDeleted
  <1>5. \A d \in deletes' : Numbered(d.of)'
    BY <1>1 DEF RemovalsInv, Numbered
  <1> QED BY <1>1, <1>3, <1>4, <1>5 DEF RemovalsInv

\* The time to undo is over, or the page is left: what waits is sent, from a page that is there or not.
LEMMA SendKeepsRemovals ==
  ASSUME RemovalsInv, pendingNews' = NoRemoval, UNCHANGED <<goneNews, removals, meant, spared>>,
         \A d \in deletes' : \E e \in Flushed : e.of = d.of,
         \A e \in Flushed : \E d \in deletes' : e.of = d.of
  PROVE  RemovalsInv'
  <1>1. \A d \in deletes' : Numbered(d.of)' /\ d.of \notin spared'
    BY FlushedSendsPending DEF Numbered
  <1>2. \A m \in meant' \union spared' : Numbered(m)' /\ m # NoRemoval
    BY DEF RemovalsInv, Numbered, NoRemoval
  <1>3. \A m \in meant' : m.n \in goneNews' \/ \E d \in deletes' : d.of = m
    <2> TAKE m \in meant'
    <2>1. m.n \in goneNews \/ \E e \in Flushed : e.of = m
      BY FlushedSendsPending
    <2> QED BY <2>1
  <1> QED BY <1>1, <1>2, <1>3 DEF RemovalsInv, RemovedIsDeleted

\* A deletion answered is done, or no longer meant.
LEMMA AnswerKeepsRemovals ==
  ASSUME RemovalsInv, NEW d \in deletes, DeleteAnswered(d)
  PROVE  RemovalsInv'
  <1>1. /\ deletes' = deletes \ {d} /\ goneNews \subseteq goneNews'
        /\ (d.of.n \in goneNews' /\ meant' = meant) \/ meant' = meant \ {d.of}
        /\ UNCHANGED <<pendingNews, removals, spared>>
    BY DEF DeleteAnswered
  <1>2. d.of # pendingNews \/ pendingNews = NoRemoval
    BY DEF RemovalsInv
  <1>3. pendingNews # NoRemoval => pendingNews \in meant' /\ \A e \in deletes' : e.of # pendingNews
    BY <1>1, <1>2 DEF RemovalsInv
  <1>4. \A m \in meant' : m = pendingNews' \/ m.n \in goneNews' \/ \E e \in deletes' : e.of = m
    <2> TAKE m \in meant'
    <2>1. m = pendingNews \/ m.n \in goneNews \/ \E e \in deletes : e.of = m
      BY <1>1 DEF RemovalsInv, RemovedIsDeleted
    <2>2. m = d.of => m.n \in goneNews'
      BY <1>1
    <2> QED BY <1>1, <2>1, <2>2
  <1>5. \A m \in meant' \union spared' : Numbered(m)'
    BY <1>1 DEF RemovalsInv, Numbered
  <1>6. \A e \in deletes' : Numbered(e.of)'
    BY <1>1 DEF RemovalsInv, Numbered
  <1>7. \A m \in spared' : m # pendingNews' /\ \A e \in deletes' : e.of # m
    BY <1>1 DEF RemovalsInv, RemovedIsDeleted
  <1> QED BY <1>1, <1>3, <1>4, <1>5, <1>6, <1>7 DEF RemovalsInv, RemovedIsDeleted

\* Every step of the feed keeps what is known of removals.
LEMMA RemovalsAreKept == RemovalsInv /\ [FeedNext]_fvars => RemovalsInv'
  <1> SUFFICES ASSUME RemovalsInv, [FeedNext]_fvars PROVE RemovalsInv'
    OBVIOUS
  <1>1. CASE OpenSources \/ ChangeFilter \/ Refresh \/ NewsComes \/ AskMore \/ OpenItem
    BY <1>1, OthersKeepRemovals DEF OpenSources, ChangeFilter, Refresh, NewsComes, AskMore, OpenItem
  <1>2. CASE RemoveNews
    BY <1>2, RemoveKeepsRemovals
  <1>3. CASE UndoRemoval
    BY <1>3, UndoKeepsRemovals
  <1>4. CASE UndoIsOver
    BY <1>4, SendKeepsRemovals DEF UndoIsOver
  <1>5. CASE LeaveSources
    <2>1. /\ deletes' = {[d EXCEPT !.here = FALSE] : d \in Flushed}
          /\ pendingNews' = NoRemoval /\ UNCHANGED <<goneNews, removals, meant, spared>>
      BY <1>5 DEF LeaveSources
    <2>2. \A d \in Flushed : [d EXCEPT !.here = FALSE].of = d.of
      OBVIOUS
    <2> QED BY <2>1, <2>2, SendKeepsRemovals
  <1>6. ASSUME NEW a \in fetches, FetchServed(a) \/ TopArrives(a) \/ MoreArrives(a) \/ FetchFails(a)
        PROVE  RemovalsInv'
    BY <1>6, OthersKeepRemovals DEF FetchServed, TopArrives, MoreArrives, FetchFails
  <1>7. ASSUME NEW d \in deletes, DeleteAnswered(d) PROVE RemovalsInv'
    BY <1>7, AnswerKeepsRemovals
  <1>8. CASE UNCHANGED fvars
    BY <1>8, OthersKeepRemovals DEF fvars
  <1> QED BY <1>1, <1>2, <1>3, <1>4, <1>5, <1>6, <1>7, <1>8 DEF FeedNext

\* However many items are removed one after another, undone, refused or left behind with their page: what is
\* meant to go is deleted or on its way, and what was taken back is never sent (useUndoableDelete.ts).
THEOREM RemovalsComeOut == FeedSpec => []RemovedIsDeleted
  <1>1. FeedSpec => []RemovalsInv
    BY NothingRemoved, RemovalsAreKept, PTL DEF FeedSpec
  <1>2. RemovalsInv => RemovedIsDeleted
    BY DEF RemovalsInv
  <1> QED BY <1>1, <1>2, PTL

----------------------------------------------------------------------------
(* The feed and the list, page by page (EditorDesk).                        *)

CardSet == [card : Cards, face : Nat]
ListSet == [kind : Lists, pages : Nat, asked : Nat, got : Nat, cards : SUBSET CardSet, more : BOOLEAN,
            waiting : BOOLEAN, err : BOOLEAN, busy : SUBSET Cards]
LoadSet == [n : Nat, size : Nat, served : BOOLEAN, cards : SUBSET CardSet, more : BOOLEAN]
DecisionSet == [n : Nat, card : CardSet, answer : {"none", "ok", "conflict", "missing"}]

ListTypes ==
    /\ list \in ListSet /\ loads \subseteq LoadSet /\ decisions \subseteq DecisionSet
    /\ queue \subseteq Cards /\ face \in [Cards -> Nat] /\ settled \subseteq CardSet
    /\ asksMade \in Nat /\ overlapped \in BOOLEAN

\* A load is known by its number, the one asked last is the highest, and one heard is not under way
Counted ==
    /\ \A a \in loads : a.n <= list.asked /\ a.n # list.got
    /\ \A a, b \in loads : a.n = b.n => a = b
    /\ list.got <= list.asked

\* What was decided upon is not in the queue, unless it came anew
Out(s) == s.card \in queue => s.face < face[s.card]
Decided ==
    /\ \A s \in settled : s.face <= face[s.card] /\ Out(s)
    /\ \A d \in decisions : d.answer = "ok" => d.card.face <= face[d.card.card] /\ Out(d.card)

\* The load asked last, once served, brings nothing that was decided upon here
BringsNothing ==
    ~overlapped => \A a \in loads : a.n = list.asked /\ a.served => a.cards \intersect settled = {}

ListInv == ListTypes /\ Counted /\ Decided /\ BringsNothing /\ DecidedIsGone

\* -- feed
KeySet == (Filters \union {"none"}) \X Nat
FetchSet == [key : KeySet, cursor : Nat, showing : Nat, served : BOOLEAN, items : Seq(Nat), next : Nat, upto : Nat]
FeedSet(open) == [up : BOOLEAN, filter : Filters, reloads : Nat, key : KeySet, items : Seq(Nat), next : Nat, upto : Nat,
            showing : Nat, failed : KeySet, moreBusy : BOOLEAN, open : {open}]
FeedTypes ==
    /\ feed \in FeedSet(feed.open) /\ fetches \subseteq FetchSet /\ news \in Nat /\ turns \in Nat /\ returned \in BOOLEAN

\* One read from the top at a time, of a query newer than the one shown; one page further down at a time, of one not newer
OneOfEach ==
    /\ \A a, b \in fetches : (IsTop(a) <=> IsTop(b)) => a = b
    /\ \A a \in fetches : IF IsTop(a) THEN feed.showing < turns ELSE feed.moreBusy /\ a.showing <= feed.showing
    /\ feed.showing <= turns

\* A page further down goes on from where the feed ends
GoesOnFrom ==
    \A a \in fetches : ~IsTop(a) /\ a.key = feed.key /\ a.showing = feed.showing /\ ~returned =>
        a.cursor = feed.next /\ (a.served => feed.upto <= a.upto)

\* A page served holds the newest below its cursor, and says whether there is more
Holds(items, next, upto, below, key) ==
    /\ \A n \in ToSet(items) : Matching(n, key[1])
    /\ \A n \in 1..upto \ goneNews : Matching(n, key[1]) /\ (below # 0 => n < below) => n \in ToSet(items) \/ (next # 0 /\ n < next)
PagesHold ==
    \A a \in fetches : a.served => Len(a.items) <= 1 /\ a.upto <= news /\ Holds(a.items, a.next, a.upto, a.cursor, a.key)
FeedHolds == feed.upto <= news /\ (~returned => Holds(feed.items, feed.next, feed.upto, 0, feed.key))

\* A page that is closed waits for nothing
Closed == ~feed.up => fetches = {}

FeedInv == FeedTypes /\ OneOfEach /\ GoesOnFrom /\ PagesHold /\ FeedHolds /\ Closed

\* A list that asks again, from a list with the same questions and no more cards, keeps what is known.
LEMMA LoadsKeeps ==
    ASSUME ListInv, NEW l \in ListSet, NEW wait \in BOOLEAN, Loads(l, wait),
           l.asked = list.asked, l.got = list.got, l.pages \in Nat,
           UNCHANGED <<queue, face, asksMade>>, decisions' \subseteq decisions, overlapped' \in BOOLEAN, overlapped => overlapped',
           settled' \subseteq CardSet, \A s \in settled' : s.face <= face[s.card] /\ Out(s)
    PROVE  ListInv'
<1> DEFINE new == Load(l.asked + 1, l.pages)
<1>0. ListTypes /\ Counted /\ Decided /\ BringsNothing /\ DecidedIsGone
    BY DEF ListInv
<1>1. list' = [l EXCEPT !.asked = l.asked + 1, !.waiting = wait] /\ loads' = loads \union {new}
    BY DEF Loads
<1>2. list' \in ListSet /\ list'.asked = list.asked + 1 /\ list'.got = list.got /\ list'.waiting = wait /\ list'.cards = l.cards
    <2>1. l.asked + 1 \in Nat
        BY DEF ListSet
    <2> QED
        BY <1>1, <2>1 DEF ListSet
<1>3. new \in LoadSet /\ new.n = list.asked + 1 /\ new.served = FALSE
    BY DEF Load, LoadSet, ListSet
<1> HIDE DEF new
<1>4. list.asked \in Nat /\ list.got \in Nat /\ \A a \in loads : a.n \in Nat
    BY <1>0 DEF ListTypes, ListSet, LoadSet
<1>5. ListTypes'
    BY <1>0, <1>1, <1>2, <1>3 DEF ListTypes
<1>6. Counted'
    BY <1>0, <1>1, <1>2, <1>3, <1>4 DEF Counted
<1>7. Decided'
    BY <1>0 DEF Decided, Out
<1>8. BringsNothing'
    BY <1>0, <1>1, <1>2, <1>3, <1>4 DEF BringsNothing, Counted
<1>9. DecidedIsGone'
    BY <1>0, <1>1, <1>2, <1>3, <1>4 DEF DecidedIsGone, Counted
<1> QED
    BY <1>5, <1>6, <1>7, <1>8, <1>9 DEF ListInv

\* A load served brings the cards of the queue, and none that was decided upon.
LEMMA LoadServedKeeps ==
    ASSUME ListInv, NEW a \in loads, LoadServed_(a)
    PROVE  ListInv'
<1>0. ListTypes /\ Counted /\ Decided /\ BringsNothing /\ DecidedIsGone /\ a \in LoadSet
    BY DEF ListInv, ListTypes
<1>1. PICK s \in SUBSET queue :
          loads' = (loads \ {a}) \union {[a EXCEPT !.served = TRUE, !.cards = {Card(c) : c \in s}, !.more = s # queue]}
    BY DEF LoadServed_
<1> DEFINE cards == {Card(c) : c \in s}
           u == [a EXCEPT !.served = TRUE, !.cards = cards, !.more = s # queue]
<1>2. \A x \in cards : x \in CardSet /\ x.card \in queue /\ x.face = face[x.card]
    BY <1>0 DEF Card, ListTypes, CardSet
<1>3. UNCHANGED <<list, decisions, queue, face, settled, asksMade, overlapped>>
    BY DEF LoadServed_
<1>4. cards \subseteq CardSet /\ loads' = (loads \ {a}) \union {u}
    BY <1>1, <1>2
<1>5. cards \intersect settled = {}
    <2> SUFFICES ASSUME NEW x \in cards, x \in settled PROVE FALSE
        OBVIOUS
    <2>1. x.face < face[x.card] /\ x.face \in Nat /\ face[x.card] \in Nat
        BY <1>0, <1>2 DEF Decided, Out, ListTypes, CardSet
    <2> QED
        BY <1>2, <2>1
<1> HIDE DEF cards
<1>6. u \in LoadSet /\ u.n = a.n /\ u.cards = cards /\ u.served = TRUE
    BY <1>0, <1>4 DEF LoadSet
<1> HIDE DEF u
<1>7. ListTypes'
    BY <1>0, <1>3, <1>4, <1>6 DEF ListTypes
<1>8. Counted'
    BY <1>0, <1>3, <1>4, <1>6 DEF Counted
<1>9. Decided'
    BY <1>0, <1>3 DEF Decided, Out
<1>10. BringsNothing'
    BY <1>0, <1>3, <1>4, <1>5, <1>6 DEF BringsNothing
<1>11. DecidedIsGone'
    BY <1>0, <1>3, <1>4, <1>6 DEF DecidedIsGone
<1> QED
    BY <1>7, <1>8, <1>9, <1>10, <1>11 DEF ListInv

\* A load heard is the one asked last, or changes nothing.
LEMMA LoadHeardKeeps ==
    ASSUME ListInv, NEW a \in loads, LoadCame(a) \/ LoadFailed(a)
    PROVE  ListInv'
<1>0. ListTypes /\ Counted /\ Decided /\ BringsNothing /\ DecidedIsGone /\ a \in LoadSet /\ list \in ListSet
    BY DEF ListInv, ListTypes
<1>1. loads' = loads \ {a} /\ UNCHANGED <<decisions, queue, face, settled, asksMade, overlapped>>
    BY DEF LoadCame, LoadFailed
<1>2. Decided'
    BY <1>0, <1>1 DEF Decided, Out
<1>3. CASE a.n # list.asked
    <2>1. list' = list
        BY <1>3 DEF LoadCame, LoadFailed
    <2>2. ListTypes' /\ Counted' /\ BringsNothing' /\ DecidedIsGone'
        BY <1>0, <1>1, <1>3, <2>1 DEF ListTypes, Counted, BringsNothing, DecidedIsGone
    <2> QED
        BY <1>2, <2>2 DEF ListInv
<1>4. CASE a.n = list.asked /\ LoadCame(a)
    <2>1. list' = [list EXCEPT !.got = a.n, !.cards = a.cards, !.more = a.more, !.waiting = FALSE, !.err = FALSE] /\ a.served
        BY <1>4 DEF LoadCame
    <2>2. list' \in ListSet /\ list'.asked = list.asked /\ list'.got = list.asked /\ list'.cards = a.cards /\ list'.waiting = FALSE
        BY <1>0, <1>4, <2>1 DEF ListSet, LoadSet
    <2>3. ListTypes' /\ Counted' /\ BringsNothing'
        BY <1>0, <1>1, <1>4, <2>2 DEF ListTypes, Counted, BringsNothing, ListSet
    <2>4. DecidedIsGone'
        BY <1>0, <1>1, <1>4, <2>1, <2>2 DEF BringsNothing, DecidedIsGone
    <2> QED
        BY <1>2, <2>3, <2>4 DEF ListInv
<1>5. CASE a.n = list.asked /\ LoadFailed(a)
    <2>1. list' = [list EXCEPT !.waiting = FALSE, !.err = TRUE]
        BY <1>5 DEF LoadFailed
    <2>2. list' \in ListSet /\ list'.asked = list.asked /\ list'.got = list.got /\ list'.cards = list.cards /\ list'.waiting = FALSE
        BY <1>0, <2>1 DEF ListSet
    <2>3. ListTypes' /\ Counted' /\ BringsNothing' /\ DecidedIsGone'
        BY <1>0, <1>1, <2>2 DEF ListTypes, Counted, BringsNothing, DecidedIsGone
    <2> QED
        BY <1>2, <2>3 DEF ListInv
<1> QED
    BY <1>3, <1>4, <1>5

\* A list that is the same but for what is loading, drawn in colour or being decided.
LEMMA ListStays ==
    ASSUME ListInv, list' \in ListSet, list'.asked = list.asked, list'.got = list.got, list'.waiting = list.waiting,
           list'.cards \subseteq list.cards, UNCHANGED loads, decisions' \subseteq DecisionSet, queue' \subseteq Cards,
           face' \in [Cards -> Nat], asksMade' \in Nat, overlapped' \in BOOLEAN, overlapped => overlapped',
           settled' \subseteq CardSet, Decided',
           ~overlapped' => settled' = settled \/ (list.got = list.asked /\ list'.cards \intersect settled' = {})
    PROVE  ListInv'
<1>0. ListTypes /\ Counted /\ Decided /\ BringsNothing /\ DecidedIsGone /\ list \in ListSet
    BY DEF ListInv, ListTypes
<1>1. ListTypes'
    BY <1>0 DEF ListTypes
<1>2. Counted'
    BY <1>0 DEF Counted
<1>3. BringsNothing'
    BY <1>0 DEF BringsNothing, Counted
<1>4. DecidedIsGone'
    BY <1>0 DEF DecidedIsGone
<1> QED
    BY <1>1, <1>2, <1>3, <1>4 DEF ListInv

\* A decision goes out under a number of its own, and the row it is about is busy.
LEMMA DecideKeeps ==
    ASSUME ListInv, Decide
    PROVE  ListInv'
<1>0. ListTypes /\ Decided /\ list \in ListSet
    BY DEF ListInv, ListTypes
<1>1. PICK c \in list.cards :
          /\ asksMade' = asksMade + 1
          /\ decisions' = decisions \union {[n |-> asksMade', card |-> c, answer |-> "none"]}
          /\ list' = [list EXCEPT !.busy = CASE list.kind = "avatars" -> list.busy \union {c.card}
                                             [] list.kind = "reports" -> {c.card}
                                             [] OTHER -> list.busy]
    BY DEF Decide
<1>2. c \in CardSet /\ c.card \in Cards
    BY <1>0 DEF ListSet, CardSet
<1>3. \E busy \in SUBSET Cards : list' = [list EXCEPT !.busy = busy]
    <2>1. CASE list.kind = "avatars"
        <3>1. list' = [list EXCEPT !.busy = list.busy \union {c.card}] /\ list.busy \union {c.card} \subseteq Cards
            BY <1>0, <1>1, <1>2, <2>1 DEF ListSet
        <3> QED
            BY <3>1
    <2>2. CASE list.kind = "reports"
        <3>1. list' = [list EXCEPT !.busy = {c.card}]
            BY <1>1, <2>2
        <3> QED
            BY <1>2, <3>1
    <2>3. CASE list.kind # "avatars" /\ list.kind # "reports"
        <3>1. list' = [list EXCEPT !.busy = list.busy] /\ list.busy \subseteq Cards
            BY <1>0, <1>1, <2>3 DEF ListSet
        <3> QED
            BY <3>1
    <2> QED
        BY <2>1, <2>2, <2>3
<1>4. list' \in ListSet /\ list'.asked = list.asked /\ list'.got = list.got /\ list'.waiting = list.waiting /\ list'.cards = list.cards
    BY <1>0, <1>3 DEF ListSet
<1>5. UNCHANGED <<loads, queue, face, settled, overlapped>>
    BY DEF Decide
<1>6. asksMade' \in Nat
    BY <1>0, <1>1 DEF ListTypes
<1>7. decisions' \subseteq DecisionSet /\ \A d \in decisions' : d \in decisions \/ d.answer = "none"
    BY <1>0, <1>1, <1>2, <1>6 DEF ListTypes, DecisionSet
<1>8. Decided'
    BY <1>0, <1>5, <1>7 DEF Decided, Out
<1> QED
    BY <1>0, <1>4, <1>5, <1>6, <1>7, <1>8, ListStays DEF ListTypes

\* The service takes a decision.
LEMMA DecisionServedKeeps ==
    ASSUME ListInv, NEW d \in decisions, DecisionServed(d)
    PROVE  ListInv'
<1>0. ListTypes /\ Decided /\ list \in ListSet /\ d \in DecisionSet
    BY DEF ListInv, ListTypes
<1> DEFINE c == d.card.card
           stands == c \in queue /\ (list.kind = "avatars" => face[c] = d.card.face)
           other == c \in queue /\ ~stands
           u == [d EXCEPT !.answer = IF stands THEN "ok" ELSE IF other THEN "conflict" ELSE "missing", !.card = IF stands THEN Card(c) ELSE d.card]
<1>1. /\ queue' = IF stands THEN queue \ {c} ELSE queue
      /\ decisions' = (decisions \ {d}) \union {u}
      /\ UNCHANGED <<list, loads, face, settled, asksMade, overlapped>>
    BY DEF DecisionServed
<1>2. c \in Cards /\ Card(c) \in CardSet /\ Card(c).card = c /\ Card(c).face = face[c] /\ face[c] \in Nat
    BY <1>0 DEF DecisionSet, CardSet, ListTypes, Card
<1>3. u \in DecisionSet /\ (u.answer = "ok" => stands /\ u.card = Card(c))
    BY <1>0, <1>2 DEF DecisionSet
<1> HIDE DEF u
<1>3a. PICK v \in DecisionSet : decisions' = (decisions \ {d}) \union {v} /\ (v.answer = "ok" => stands /\ v.card.card = c /\ v.card.face = face[c])
    BY <1>1, <1>2, <1>3
<1>4. queue' \subseteq queue /\ (stands => c \notin queue')
    BY <1>1
<1> HIDE DEF stands, c
<1>5. Decided'
    <2>1. \A s \in settled' : s.face <= face'[s.card] /\ Out(s)'
        BY <1>0, <1>1, <1>4 DEF Decided, Out
    <2>2. \A e \in decisions : e.answer = "ok" => e.card.face <= face'[e.card.card] /\ Out(e.card)'
        BY <1>0, <1>1, <1>4 DEF Decided, Out
    <2>3. v.answer = "ok" => v.card.face <= face'[v.card.card] /\ Out(v.card)'
        BY <1>1, <1>2, <1>3a, <1>4 DEF Out
    <2> QED
        BY <1>3a, <2>1, <2>2, <2>3 DEF Decided
<1>6. decisions' \subseteq DecisionSet /\ queue' \subseteq Cards
    BY <1>0, <1>3a, <1>4 DEF ListTypes
<1>7. list'.cards \subseteq list.cards /\ list' = list
    BY <1>1
<1> QED
    BY <1>0, <1>1, <1>5, <1>6, <1>7, ListStays DEF ListTypes

\* A decision heard: drafts and reports are read again, an avatar decided upon leaves the screen.
LEMMA DecisionHeardKeeps ==
    ASSUME ListInv, NEW d \in decisions, DecisionHeard(d)
    PROVE  ListInv'
<1>0. ListTypes /\ Decided /\ DecidedIsGone /\ list \in ListSet /\ d \in DecisionSet /\ d.card \in CardSet
    BY DEF ListInv, ListTypes, DecisionSet
<1> DEFINE l == Freed(list, d)
           e == [l EXCEPT !.err = TRUE]
<1>1. /\ decisions' = decisions \ {d}
      /\ settled' = IF d.answer = "ok" THEN settled \union {d.card} ELSE settled
      /\ overlapped' = (overlapped \/ (d.answer = "ok" /\ list.kind = "avatars" /\ list.got # list.asked))
      /\ UNCHANGED <<queue, face, asksMade>>
    BY DEF DecisionHeard
<1>2. settled' \subseteq CardSet /\ (\A s \in settled' : s.face <= face[s.card] /\ Out(s))
    BY <1>0, <1>1 DEF Decided, ListTypes
<1>3. overlapped' \in BOOLEAN /\ (overlapped => overlapped')
    BY <1>0, <1>1 DEF ListTypes
<1>4. Decided'
    BY <1>0, <1>1, <1>2 DEF Decided, Out
<1>5. l \in ListSet /\ l.asked = list.asked /\ l.got = list.got /\ l.waiting = list.waiting /\ l.cards = list.cards /\ l.pages \in Nat /\ l.err \in BOOLEAN
    BY <1>0 DEF ListSet, Freed
<1>6. e \in ListSet /\ e.asked = list.asked /\ e.got = list.got /\ e.waiting = list.waiting /\ e.cards = list.cards /\ e.pages \in Nat
    BY <1>5 DEF ListSet
<1>7. \/ list.kind = "avatars" /\ d.answer \in {"ok", "missing"} /\ list' = Dropped(IF d.answer = "ok" THEN l ELSE e, d) /\ UNCHANGED loads
      \/ \E wait \in BOOLEAN : Loads(l, wait)
      \/ \E wait \in BOOLEAN : Loads(e, wait)
      \/ d.answer # "ok" /\ list' = e /\ UNCHANGED loads
    <2>1. CASE list.kind = "avatars" /\ d.answer \in {"ok", "missing"}
        BY <2>1 DEF DecisionHeard
    <2>2. CASE list.kind = "avatars" /\ d.answer = "conflict"
        BY <2>2 DEF DecisionHeard
    <2>3. CASE list.kind = "reports"
        <3>1. Loads(IF d.answer = "ok" THEN l ELSE e, TRUE)
            BY <2>3 DEF DecisionHeard
        <3> QED
            BY <3>1
    <2>4. CASE list.kind # "avatars" /\ list.kind # "reports"
        <3>1. IF d.answer = "ok" THEN Loads(l, ~l.err) ELSE list' = e /\ UNCHANGED loads
            BY <2>4 DEF DecisionHeard
        <3>2. (~l.err) \in BOOLEAN
            OBVIOUS
        <3> QED
            BY <3>1, <3>2
    <2> QED
        BY <1>0, <2>1, <2>2, <2>3, <2>4 DEF DecisionHeard, DecisionSet
<1> HIDE DEF l, e
<1>8. CASE list.kind = "avatars" /\ d.answer \in {"ok", "missing"} /\ list' = Dropped(IF d.answer = "ok" THEN l ELSE e, d) /\ UNCHANGED loads
    <2>1. PICK k \in {l, e} : list' = [k EXCEPT !.cards = {x \in k.cards : x.card # d.card.card}]
        BY <1>8 DEF Dropped
    <2>2. k \in ListSet /\ k.asked = list.asked /\ k.got = list.got /\ k.waiting = list.waiting /\ k.cards = list.cards
        BY <1>5, <1>6
    <2>3. list' \in ListSet /\ list'.asked = list.asked /\ list'.got = list.got /\ list'.waiting = list.waiting
          /\ list'.cards = {x \in list.cards : x.card # d.card.card}
        BY <2>1, <2>2 DEF ListSet
    <2>4. ~overlapped' => settled' = settled \/ (list.got = list.asked /\ list'.cards \intersect settled' = {})
        <3> SUFFICES ASSUME ~overlapped', d.answer = "ok"
                     PROVE  list.got = list.asked /\ list'.cards \intersect settled' = {}
            BY <1>1
        <3>1. list.got = list.asked /\ ~overlapped
            BY <1>1, <1>8
        <3>2. list.cards \intersect settled = {}
            BY <1>0, <3>1 DEF DecidedIsGone
        <3> QED
            BY <1>1, <2>3, <3>1, <3>2
    <2> QED
        BY <1>0, <1>1, <1>2, <1>3, <1>4, <1>8, <2>3, <2>4, ListStays DEF ListTypes
<1>9. CASE \E wait \in BOOLEAN : Loads(l, wait)
    BY <1>1, <1>2, <1>3, <1>5, <1>9, LoadsKeeps
<1>10. CASE \E wait \in BOOLEAN : Loads(e, wait)
    BY <1>1, <1>2, <1>3, <1>6, <1>10, LoadsKeeps
<1>11. CASE d.answer # "ok" /\ list' = e /\ UNCHANGED loads
    <2>1. settled' = settled /\ list'.cards \subseteq list.cards
        BY <1>1, <1>6, <1>11
    <2> QED
        BY <1>0, <1>1, <1>3, <1>4, <1>6, <1>11, <2>1, ListStays DEF ListTypes
<1> QED
    BY <1>7, <1>8, <1>9, <1>10, <1>11

\* At first the list is empty and its first page is asked for.
LEMMA ListStart == ListInit => ListInv
<1> SUFFICES ASSUME ListInit PROVE ListInv
    OBVIOUS
<1>1. PICK kind \in Lists : list = [kind |-> kind, pages |-> 1, asked |-> 1, got |-> 0, cards |-> {}, more |-> FALSE,
                                    waiting |-> TRUE, err |-> FALSE, busy |-> {}]
    BY DEF ListInit
<1>2. list \in ListSet /\ list.asked = 1 /\ list.got = 0 /\ list.cards = {}
    BY <1>1 DEF ListSet
<1>3. loads = {Load(1, 1)} /\ Load(1, 1) \in LoadSet /\ Load(1, 1).n = 1 /\ Load(1, 1).served = FALSE
    BY DEF ListInit, Load, LoadSet
<1>4. decisions = {} /\ queue = Cards /\ face \in [Cards -> Nat] /\ settled = {} /\ asksMade = 0 /\ overlapped = FALSE
    BY DEF ListInit
<1>5. ListTypes
    BY <1>2, <1>3, <1>4 DEF ListTypes
<1>6. Counted
    BY <1>2, <1>3 DEF Counted
<1>7. Decided /\ BringsNothing
    BY <1>3, <1>4 DEF Decided, BringsNothing
<1>8. DecidedIsGone
    BY <1>2, <1>3, <1>4 DEF DecidedIsGone
<1> QED
    BY <1>5, <1>6, <1>7, <1>8 DEF ListInv

\* Every step keeps what is known of the list.
LEMMA ListStep == ListInv /\ [ListNext]_lvars => ListInv'
<1> SUFFICES ASSUME ListInv, [ListNext]_lvars PROVE ListInv'
    OBVIOUS
<1>0. ListTypes /\ Decided /\ list \in ListSet /\ list.waiting \in BOOLEAN
    BY DEF ListInv, ListTypes, ListSet
<1>0a. settled \subseteq CardSet /\ (\A s \in settled : s.face <= face[s.card] /\ Out(s)) /\ overlapped \in BOOLEAN /\ list.pages \in Nat
    BY <1>0 DEF ListTypes, Decided, ListSet
<1>1. CASE ShowMore
    <2>1. [list EXCEPT !.pages = list.pages + 1] \in ListSet /\ [list EXCEPT !.pages = list.pages + 1].asked = list.asked
          /\ [list EXCEPT !.pages = list.pages + 1].got = list.got /\ [list EXCEPT !.pages = list.pages + 1].pages \in Nat
        BY <1>0 DEF ListSet
    <2>2. Loads([list EXCEPT !.pages = list.pages + 1], list.kind = "reports" \/ ~list.err)
          /\ UNCHANGED <<decisions, queue, face, settled, asksMade, overlapped>>
        BY <1>1 DEF ShowMore
    <2>3. (list.kind = "reports" \/ ~list.err) \in BOOLEAN
        OBVIOUS
    <2> QED
        BY <1>0a, <2>1, <2>2, <2>3, LoadsKeeps
<1>2. CASE SearchDrafts
    BY <1>0, <1>0a, <1>2, LoadsKeeps DEF SearchDrafts
<1>3. CASE ReloadAvatars
    BY <1>0, <1>0a, <1>3, LoadsKeeps DEF ReloadAvatars
<1>4. CASE Decide
    BY <1>4, DecideKeeps
<1>5. CASE OthersDecide
    <2>1. PICK c \in queue : queue' = queue \ {c} /\ asksMade' = asksMade + 1
                             /\ UNCHANGED <<list, loads, decisions, face, settled, overlapped>>
        BY <1>5 DEF OthersDecide
    <2>2. Decided'
        BY <1>0, <2>1 DEF Decided, Out
    <2>3. queue' \subseteq Cards /\ asksMade' \in Nat /\ list'.cards \subseteq list.cards
        BY <1>0, <2>1 DEF ListTypes
    <2> QED
        BY <1>0, <2>1, <2>2, <2>3, ListStays DEF ListTypes
<1>6. CASE ComesAnew
    <2>1. PICK c \in Cards : face' = [face EXCEPT ![c] = face[c] + 1] /\ queue' = queue \union {c}
                             /\ UNCHANGED <<list, loads, decisions, settled, asksMade, overlapped>>
        BY <1>6 DEF ComesAnew
    <2>2. face' \in [Cards -> Nat] /\ queue' \subseteq Cards /\ list'.cards \subseteq list.cards
        BY <1>0, <2>1 DEF ListTypes
    <2>3. ASSUME NEW s \in CardSet, s.face <= face[s.card], Out(s)
          PROVE  s.face <= face'[s.card] /\ Out(s)'
        <3>1. s.card \in Cards /\ s.face \in Nat /\ face[s.card] \in Nat
            BY <1>0 DEF CardSet, ListTypes
        <3>2. face'[s.card] = IF s.card = c THEN face[s.card] + 1 ELSE face[s.card]
            BY <1>0, <2>1, <3>1 DEF ListTypes
        <3> QED
            BY <2>1, <2>3, <3>1, <3>2 DEF Out
    <2>4. Decided'
        BY <1>0, <2>1, <2>3 DEF Decided, ListTypes, DecisionSet
    <2> QED
        BY <1>0, <2>1, <2>2, <2>4, ListStays DEF ListTypes
<1>7. ASSUME NEW a \in loads, LoadServed_(a) \/ LoadCame(a) \/ LoadFailed(a) PROVE ListInv'
    BY <1>7, LoadServedKeeps, LoadHeardKeeps
<1>8. ASSUME NEW d \in decisions, DecisionServed(d) PROVE ListInv'
    BY <1>8, DecisionServedKeeps
<1>9. ASSUME NEW d \in decisions, DecisionHeard(d) PROVE ListInv'
    BY <1>9, DecisionHeardKeeps
<1>10. ASSUME NEW d \in decisions, DecisionLost(d) PROVE ListInv'
    <2>1. decisions' = decisions \ {d} /\ list' = [Freed(list, d) EXCEPT !.err = TRUE]
          /\ UNCHANGED <<loads, queue, face, settled, asksMade, overlapped>>
        BY <1>10 DEF DecisionLost
    <2>2. list' \in ListSet /\ list'.asked = list.asked /\ list'.got = list.got /\ list'.waiting = list.waiting /\ list'.cards = list.cards
        BY <1>0, <2>1 DEF ListSet, Freed
    <2>3. Decided'
        BY <1>0, <2>1 DEF Decided, Out
    <2> QED
        BY <1>0, <2>1, <2>2, <2>3, ListStays DEF ListTypes
<1>11. CASE UNCHANGED lvars
    BY <1>11 DEF lvars, ListInv, ListTypes, Counted, Decided, Out, BringsNothing, DecidedIsGone
<1> QED
    BY <1>1, <1>2, <1>3, <1>4, <1>5, <1>6, <1>7, <1>8, <1>9, <1>10, <1>11 DEF ListNext

\* A list that says it loads will hear, and one at rest does not show what was decided upon.
THEOREM DecidedGo == ListSpec => []DecidedIsGone
<1>1. ListInv => DecidedIsGone
    BY DEF ListInv
<1> QED
    BY ListStart, ListStep, <1>1, PTL DEF ListSpec

(* The feed. *)

\* A set of news that has any has a newest.
LEMMA NewestIsThere ==
    ASSUME NEW n \in Nat, NEW S \in SUBSET (1..n), S # {}
    PROVE  Newest(S) \in S /\ \A y \in S : y <= Newest(S)
<1> DEFINE T == {n - x : x \in S}
           R == OpToRel(<, Nat)
<1>1. T \subseteq Nat /\ T # {}
    <2>1. \A x \in S : n - x \in Nat
        OBVIOUS
    <2>2. PICK x \in S : TRUE
        OBVIOUS
    <2>3. n - x \in T
        OBVIOUS
    <2> QED
        BY <2>1, <2>3
<1>2. IsWellFoundedOn(R, Nat)
    BY NatLessThanWellFounded
<1>3. \A x, y \in Nat : y < x => <<y, x>> \in R
    BY DEF OpToRel
<1> HIDE DEF R
<1>4. PICK t \in T : \A u \in T : ~(<<u, t>> \in R)
    <2> HIDE DEF T
    <2> QED
        BY <1>1, <1>2, WFMin
<1>5. PICK x \in S : t = n - x
    OBVIOUS
<1>6. ASSUME NEW y \in S PROVE y <= x
    <2>1. n - y \in T /\ n - y \in Nat /\ n - x \in Nat
        OBVIOUS
    <2>2. ~(n - y < n - x)
        BY <1>3, <1>4, <1>5, <2>1
    <2> QED
        BY <2>2
<1> QED
    BY <1>6 DEF Newest

\* What a sequence of one joins to another.
LEMMA JoinedHolds ==
    ASSUME NEW s \in Seq(Nat), NEW t \in Seq(Nat)
    PROVE  s \o t \in Seq(Nat) /\ ToSet(s \o t) = ToSet(s) \union ToSet(t)
<1>1. s \o t \in Seq(Nat) /\ DOMAIN (s \o t) = 1..Len(s \o t)
    OBVIOUS
<1>2. ASSUME NEW x \in ToSet(s \o t) PROVE x \in ToSet(s) \union ToSet(t)
    <2>1. PICK i \in 1..Len(s \o t) : x = (s \o t)[i]
        BY DEF ToSet
    <2> QED
        BY <2>1 DEF ToSet
<1>3. ASSUME NEW x \in ToSet(s) PROVE x \in ToSet(s \o t)
    <2>1. PICK i \in 1..Len(s) : x = s[i]
        BY DEF ToSet
    <2>2. i \in DOMAIN (s \o t) /\ x = (s \o t)[i]
        BY <2>1
    <2> QED
        BY <2>2 DEF ToSet
<1>4. ASSUME NEW x \in ToSet(t) PROVE x \in ToSet(s \o t)
    <2>1. PICK i \in 1..Len(t) : x = t[i]
        BY DEF ToSet
    <2>2. Len(s) + i \in DOMAIN (s \o t) /\ x = (s \o t)[Len(s) + i]
        BY <2>1
    <2> QED
        BY <2>2 DEF ToSet
<1> QED
    BY <1>1, <1>2, <1>3, <1>4

\* A read that ends unheard, and whatever does not touch the feed: what is there stays whole as more comes
\* and more goes at the aggregator.
LEMMA FeedStays ==
    ASSUME FeedInv, feed' \in FeedSet(feed'.open), feed'.up = feed.up, feed'.items = feed.items, feed'.next = feed.next, feed'.upto = feed.upto,
           feed'.key = feed.key, feed'.showing = feed.showing, feed'.moreBusy = feed.moreBusy \/ \A a \in fetches' : IsTop(a),
           fetches' \subseteq fetches, news' \in Nat, news <= news', goneNews \subseteq goneNews', UNCHANGED <<turns, returned>>
    PROVE  FeedInv'
<1>0. FeedTypes /\ OneOfEach /\ GoesOnFrom /\ PagesHold /\ FeedHolds /\ Closed
    BY DEF FeedInv
<1>1. FeedTypes'
    BY <1>0 DEF FeedTypes
<1>2. OneOfEach'
    BY <1>0 DEF OneOfEach, IsTop
<1>3. GoesOnFrom'
    BY <1>0 DEF GoesOnFrom, IsTop
<1>4. \A items, next, upto, below, key : Holds(items, next, upto, below, key) => Holds(items, next, upto, below, key)'
    BY DEF Holds
<1>5. \A a \in fetches : a.upto \in Nat
    BY <1>0 DEF FeedTypes, FetchSet
<1>6. PagesHold'
    <2> SUFFICES ASSUME NEW a \in fetches', a.served
                 PROVE  Len(a.items) <= 1 /\ a.upto <= news' /\ Holds(a.items, a.next, a.upto, a.cursor, a.key)'
        BY DEF PagesHold
    <2>1. Len(a.items) <= 1 /\ a.upto <= news /\ Holds(a.items, a.next, a.upto, a.cursor, a.key)
        BY <1>0 DEF PagesHold
    <2>2. a.upto <= news'
        BY <1>0, <1>5, <2>1 DEF FeedTypes
    <2> QED
        BY <1>4, <2>1, <2>2
<1>7. FeedHolds'
    <2>1. feed.upto <= news' /\ feed'.upto = feed.upto
        <3>1. feed.upto \in Nat
            BY <1>0 DEF FeedTypes, FeedSet
        <3> QED
            BY <1>0, <3>1 DEF FeedHolds, FeedTypes
    <2>2. ASSUME ~returned' PROVE Holds(feed.items, feed.next, feed.upto, 0, feed.key)'
        <3>1. Holds(feed.items, feed.next, feed.upto, 0, feed.key)
            BY <1>0, <2>2 DEF FeedHolds
        <3> QED
            BY <3>1 DEF Holds
    <2> QED
        BY <2>1, <2>2 DEF FeedHolds
<1>8. Closed'
    BY <1>0 DEF Closed
<1> QED
    BY <1>1, <1>2, <1>3, <1>6, <1>7, <1>8 DEF FeedInv

\* A new query takes the read of the one before it back, and leaves what is shown.
LEMMA RequeryKeeps ==
    ASSUME FeedInv, NEW f, f \in FeedSet(f.open), f.up, Requeries(f), UNCHANGED <<news, goneNews, returned>>,
           \/ f.items = feed.items /\ f.next = feed.next /\ f.upto = feed.upto /\ f.key = feed.key /\ f.showing = feed.showing /\ f.moreBusy = feed.moreBusy
           \/ fetches = {} /\ f.items = <<>> /\ f.upto = 0 /\ f.showing = 0
    PROVE  FeedInv'
<1> DEFINE a == Fetch(f, 0)
<1>0. FeedTypes /\ OneOfEach /\ GoesOnFrom /\ PagesHold /\ FeedHolds /\ Closed
    BY DEF FeedInv
<1>1. feed' = f /\ turns' = turns + 1 /\ fetches' = {b \in fetches : ~IsTop(b)} \union {a} /\ turns \in Nat
    BY <1>0 DEF Requeries, FeedTypes
<1>2. a \in FetchSet /\ IsTop(a) /\ a.served = FALSE
    BY DEF Fetch, FetchSet, FeedSet, Key, KeySet, Filters, IsTop
<1>3. f.showing \in Nat /\ feed.showing \in Nat /\ feed.showing <= turns
    BY <1>0 DEF OneOfEach, FeedTypes, FeedSet
<1> HIDE DEF a
<1>4. FeedTypes'
    BY <1>0, <1>1, <1>2 DEF FeedTypes
<1>5. OneOfEach'
    BY <1>0, <1>1, <1>2, <1>3 DEF OneOfEach, IsTop
<1>6. GoesOnFrom'
    BY <1>0, <1>1, <1>2 DEF GoesOnFrom, IsTop
<1>7. PagesHold'
    BY <1>0, <1>1, <1>2 DEF PagesHold, Holds
<1>8. FeedHolds'
    <2>1. CASE f.items = feed.items /\ f.next = feed.next /\ f.upto = feed.upto /\ f.key = feed.key
        BY <1>0, <1>1, <2>1 DEF FeedHolds, Holds
    <2>2. CASE f.items = <<>> /\ f.upto = 0
        <3>1. ToSet(<<>>) = {}
            BY DEF ToSet
        <3> QED
            BY <1>0, <1>1, <2>2, <3>1 DEF FeedHolds, Holds, FeedTypes
    <2> QED
        BY <2>1, <2>2
<1>9. Closed'
    BY <1>1 DEF Closed
<1> QED
    BY <1>4, <1>5, <1>6, <1>7, <1>8, <1>9 DEF FeedInv

\* A page served is the newest below its cursor.
LEMMA ServedHolds ==
    ASSUME FeedTypes, NEW a \in fetches
    PROVE  LET below == Below(a.cursor, a.key[1])
               page == IF below = {} THEN <<>> ELSE <<Newest(below)>>
               next == IF Cardinality(below) > 1 THEN page[1] ELSE 0
           IN  page \in Seq(Nat) /\ Len(page) <= 1 /\ next \in Nat /\ Holds(page, next, news, a.cursor, a.key)
<1> DEFINE below == Below(a.cursor, a.key[1])
           page == IF below = {} THEN <<>> ELSE <<Newest(below)>>
           next == IF Cardinality(below) > 1 THEN page[1] ELSE 0
<1>1. below \subseteq 1..news /\ news \in Nat
    BY DEF Below, FeedTypes
<1>2. \A n \in 1..news \ goneNews : Matching(n, a.key[1]) /\ (a.cursor # 0 => n < a.cursor) => n \in below
    BY DEF Below
<1>3. \A n \in below : Matching(n, a.key[1])
    BY DEF Below
<1>4. CASE below = {}
    <2>1. page = <<>> /\ ToSet(<<>>) = {} /\ Len(<<>>) = 0
        BY <1>4 DEF ToSet
    <2>2. Cardinality(below) = 0
        BY <1>4, FS_EmptySet
    <2>3. next = 0
        BY <2>2
    <2> HIDE DEF below, page, next
    <2>4. Holds(page, next, news, a.cursor, a.key)
        BY <1>2, <1>4, <2>1 DEF Holds
    <2> QED
        BY <2>1, <2>3, <2>4 DEF below, page, next
<1>5. CASE below # {}
    <2> DEFINE m == Newest(below)
    <2> HIDE DEF below
    <2>1. m \in below /\ \A n \in below : n <= m
        BY <1>1, <1>5, NewestIsThere
    <2> HIDE DEF m
    <2>2. m \in Nat /\ m # 0
        BY <1>1, <2>1
    <2>3. page = <<m>> /\ page \in Seq(Nat) /\ Len(page) = 1 /\ page[1] = m
        BY <1>5, <2>2 DEF m
    <2>4. ToSet(<<m>>) = {m}
        BY DEF ToSet
    <2> HIDE DEF page
    <2>5. IsFiniteSet(below) /\ Cardinality(below) \in Nat /\ Cardinality(below) # 0
        <3>1. IsFiniteSet(1..news)
            BY <1>1, FS_Interval
        <3>2. IsFiniteSet(below)
            BY <1>1, <3>1, FS_Subset
        <3> QED
            BY <1>5, <3>2, FS_CardinalityType, FS_EmptySet
    <2>6. (next # 0 /\ next = m) \/ (next = 0 /\ below = {m})
        <3>1. CASE Cardinality(below) > 1
            BY <2>2, <2>3, <3>1
        <3>2. CASE ~(Cardinality(below) > 1)
            <4>1. Cardinality(below) = 1
                BY <2>5, <3>2
            <4>2. \E x : below = {x}
                BY <2>5, <4>1, FS_Singleton
            <4> QED
                BY <2>1, <3>2, <4>2
        <3> QED
            BY <3>1, <3>2
    <2> HIDE DEF next
    <2>7. Holds(page, next, news, a.cursor, a.key)
        <3>1. \A n \in ToSet(page) : Matching(n, a.key[1])
            BY <1>3, <2>1, <2>3, <2>4
        <3>2. ASSUME NEW n \in 1..news \ goneNews, Matching(n, a.key[1]), a.cursor # 0 => n < a.cursor
              PROVE  n \in ToSet(page) \/ (next # 0 /\ n < next)
            <4>1. n \in below /\ n <= m /\ n \in Nat
                BY <1>2, <2>1, <3>2
            <4> QED
                BY <2>2, <2>3, <2>4, <2>6, <4>1
        <3> QED
            BY <3>1, <3>2 DEF Holds
    <2>8. next \in Nat
        BY <2>2, <2>6
    <2> QED
        BY <2>3, <2>7, <2>8 DEF below, page, next
<1> QED
    BY <1>4, <1>5

\* The service answers a page of the feed.
LEMMA FetchServedKeeps ==
    ASSUME FeedInv, NEW a \in fetches, FetchServed(a)
    PROVE  FeedInv'
<1>0. FeedTypes /\ OneOfEach /\ GoesOnFrom /\ PagesHold /\ FeedHolds /\ Closed /\ a \in FetchSet
    BY DEF FeedInv, FeedTypes
<1> DEFINE below == Below(a.cursor, a.key[1])
           page == IF below = {} THEN <<>> ELSE <<Newest(below)>>
           next == IF Cardinality(below) > 1 THEN page[1] ELSE 0
           u == [a EXCEPT !.served = TRUE, !.items = page, !.next = next, !.upto = news]
<1>1. fetches' = (fetches \ {a}) \union {u}
    BY DEF FetchServed
<1>2. UNCHANGED <<feed, news, goneNews, turns, returned>>
    BY DEF FetchServed
<1>3. page \in Seq(Nat) /\ Len(page) <= 1 /\ next \in Nat /\ Holds(page, next, news, a.cursor, a.key)
    BY <1>0, ServedHolds
<1> HIDE DEF below, page, next
<1>4. /\ u \in FetchSet /\ u.served = TRUE /\ u.items = page /\ u.next = next /\ u.upto = news
      /\ u.key = a.key /\ u.cursor = a.cursor /\ u.showing = a.showing
    BY <1>0, <1>3 DEF FetchSet, FeedTypes
<1> HIDE DEF u
<1>5. PICK v \in FetchSet : /\ fetches' = (fetches \ {a}) \union {v}
                            /\ v.served = TRUE /\ v.upto = news /\ v.key = a.key /\ v.cursor = a.cursor /\ v.showing = a.showing
                            /\ Len(v.items) <= 1 /\ Holds(v.items, v.next, v.upto, v.cursor, v.key)
    BY <1>1, <1>3, <1>4
<1>6. FeedTypes'
    BY <1>0, <1>2, <1>5 DEF FeedTypes
<1>7. OneOfEach'
    BY <1>0, <1>2, <1>5 DEF OneOfEach, IsTop
<1>8. GoesOnFrom'
    BY <1>0, <1>2, <1>5 DEF GoesOnFrom, IsTop, FeedHolds
<1>9. PagesHold'
    <2>1. news \in Nat
        BY <1>0 DEF FeedTypes
    <2> QED
        BY <1>0, <1>2, <1>5, <2>1 DEF PagesHold, Holds
<1>10. FeedHolds'
    BY <1>0, <1>2 DEF FeedHolds, Holds
<1>11. Closed'
    BY <1>0, <1>2 DEF Closed
<1> QED
    BY <1>6, <1>7, <1>8, <1>9, <1>10, <1>11 DEF FeedInv

\* The first page arrives.
LEMMA TopArrivesKeeps ==
    ASSUME FeedInv, NEW a \in fetches, TopArrives(a)
    PROVE  FeedInv'
<1>0. FeedTypes /\ OneOfEach /\ GoesOnFrom /\ PagesHold /\ FeedHolds /\ Closed /\ a \in FetchSet /\ feed \in FeedSet(feed.open)
    BY DEF FeedInv, FeedTypes
<1>1. /\ IsTop(a) /\ a.served /\ fetches' = fetches \ {a} /\ UNCHANGED <<news, goneNews, turns, returned>>
      /\ feed' = [feed EXCEPT !.key = a.key, !.items = a.items, !.next = a.next, !.upto = a.upto, !.showing = turns]
    BY DEF TopArrives
<1>2. /\ feed' \in FeedSet(feed'.open) /\ feed'.up = feed.up /\ feed'.items = a.items /\ feed'.next = a.next /\ feed'.upto = a.upto
      /\ feed'.key = a.key /\ feed'.showing = turns /\ feed'.moreBusy = feed.moreBusy
    <2>1. turns \in Nat
        BY <1>0 DEF FeedTypes
    <2> QED
        BY <1>0, <1>1, <2>1 DEF FeedSet, FetchSet
<1>3. \A b \in fetches' : ~IsTop(b) /\ b.showing \in Nat /\ b.showing <= feed.showing /\ feed.showing < turns /\ feed.showing \in Nat /\ turns \in Nat
    BY <1>0, <1>1 DEF OneOfEach, FeedTypes, FetchSet, FeedSet
<1>4. FeedTypes'
    BY <1>0, <1>1, <1>2 DEF FeedTypes
<1>5. OneOfEach'
    BY <1>0, <1>1, <1>2, <1>3 DEF OneOfEach, FeedTypes, IsTop
<1>6. GoesOnFrom'
    BY <1>1, <1>2, <1>3 DEF GoesOnFrom
<1>7. PagesHold'
    BY <1>0, <1>1 DEF PagesHold, Holds
<1>8. FeedHolds'
    <2>1. a.upto <= news /\ Holds(a.items, a.next, a.upto, 0, a.key)
        BY <1>0, <1>1 DEF PagesHold, IsTop
    <2> QED
        BY <1>1, <1>2, <2>1 DEF FeedHolds, Holds
<1>9. Closed'
    BY <1>0, <1>1, <1>2 DEF Closed
<1> QED
    BY <1>4, <1>5, <1>6, <1>7, <1>8, <1>9 DEF FeedInv

\* The next page is asked for.
LEMMA AskMoreKeeps ==
    ASSUME FeedInv, AskMore
    PROVE  FeedInv'
<1> DEFINE a == Fetch(feed, feed.next)
<1>0. FeedTypes /\ OneOfEach /\ GoesOnFrom /\ PagesHold /\ FeedHolds /\ Closed /\ feed \in FeedSet(feed.open)
    BY DEF FeedInv, FeedTypes
<1>1. /\ feed.up /\ feed.key = Key(feed) /\ feed.next # 0 /\ ~feed.moreBusy /\ feed' = [feed EXCEPT !.moreBusy = TRUE]
      /\ fetches' = fetches \union {a} /\ UNCHANGED <<news, goneNews, turns, returned>>
    BY DEF AskMore, Shown
<1>2. /\ feed' \in FeedSet(feed'.open) /\ feed'.up = feed.up /\ feed'.items = feed.items /\ feed'.next = feed.next /\ feed'.upto = feed.upto
      /\ feed'.key = feed.key /\ feed'.showing = feed.showing /\ feed'.moreBusy
    BY <1>0, <1>1 DEF FeedSet
<1>3. a \in FetchSet /\ a.cursor = feed.next /\ a.served = FALSE /\ a.showing = feed.showing /\ ~IsTop(a)
    BY <1>0, <1>1 DEF Fetch, FetchSet, FeedSet, Key, KeySet, IsTop
<1> HIDE DEF a
<1>3a. PICK v \in FetchSet : fetches' = fetches \union {v} /\ v.cursor = feed.next /\ v.served = FALSE /\ v.showing = feed.showing /\ ~IsTop(v)
    BY <1>1, <1>3
<1>4. \A b \in fetches : IsTop(b)
    BY <1>0, <1>1 DEF OneOfEach
<1>5. feed.showing \in Nat
    BY <1>0 DEF FeedSet
<1>6. FeedTypes'
    BY <1>0, <1>1, <1>2, <1>3a DEF FeedTypes
<1>7. OneOfEach'
    <2>1. \A b, c \in fetches' : (IsTop(b) <=> IsTop(c)) => b = c
        BY <1>0, <1>3a, <1>4 DEF OneOfEach
    <2>2. \A b \in fetches' : IF IsTop(b) THEN feed'.showing < turns' ELSE feed'.moreBusy /\ b.showing <= feed'.showing
        BY <1>0, <1>1, <1>2, <1>3a, <1>4, <1>5 DEF OneOfEach
    <2> QED
        BY <1>0, <1>1, <1>2, <2>1, <2>2 DEF OneOfEach, IsTop
<1>8. GoesOnFrom'
    BY <1>2, <1>3a, <1>4 DEF GoesOnFrom
<1>9. PagesHold'
    BY <1>0, <1>1, <1>3a DEF PagesHold, Holds
<1>10. FeedHolds'
    BY <1>0, <1>1, <1>2 DEF FeedHolds, Holds
<1>11. Closed'
    BY <1>1, <1>2 DEF Closed
<1> QED
    BY <1>6, <1>7, <1>8, <1>9, <1>10, <1>11 DEF FeedInv

\* A page further down joins the feed where it ends.
LEMMA MoreArrivesKeeps ==
    ASSUME FeedInv, NEW a \in fetches, MoreArrives(a)
    PROVE  FeedInv'
<1>0. FeedTypes /\ OneOfEach /\ GoesOnFrom /\ PagesHold /\ FeedHolds /\ Closed /\ a \in FetchSet /\ feed \in FeedSet(feed.open)
    BY DEF FeedInv, FeedTypes
<1>1. /\ ~IsTop(a) /\ a.served /\ fetches' = fetches \ {a} /\ UNCHANGED <<news, goneNews, turns>>
      /\ feed' = [Appended(feed, a) EXCEPT !.moreBusy = FALSE]
      /\ returned' = (returned \/ (a.key = feed.key /\ a.showing # feed.showing))
    BY DEF MoreArrives
<1>2. returned' \in BOOLEAN /\ (returned => returned')
    BY <1>0, <1>1 DEF FeedTypes
<1> DEFINE joined == feed.items \o Unknown(feed.items, a.items)
<1>3. feed.items \in Seq(Nat) /\ a.items \in Seq(Nat) /\ Len(a.items) <= 1
    BY <1>0, <1>1 DEF FeedSet, FetchSet, PagesHold
<1>4. joined \in Seq(Nat) /\ ToSet(joined) = ToSet(feed.items) \union ToSet(a.items)
    <2>1. CASE \E n \in ToSet(a.items) : Contains(feed.items, n)
        <3>1. Unknown(feed.items, a.items) = <<>>
            BY <2>1 DEF Unknown
        <3>2. joined = feed.items
            BY <1>3, <3>1
        <3>3. PICK n \in ToSet(a.items) : Contains(feed.items, n)
            BY <2>1
        <3>4. n \in ToSet(feed.items)
            BY <1>3, <3>3 DEF Contains, ToSet
        <3>5. \A m \in ToSet(a.items) : m = n
            BY <1>3, <3>3 DEF ToSet
        <3> QED
            BY <1>3, <3>2, <3>4, <3>5
    <2>2. CASE ~ \E n \in ToSet(a.items) : Contains(feed.items, n)
        <3>1. joined = feed.items \o a.items
            BY <2>2 DEF Unknown
        <3> QED
            BY <1>3, <3>1, JoinedHolds
    <2> QED
        BY <2>1, <2>2
<1> HIDE DEF joined
<1>5. /\ feed' \in FeedSet(feed'.open) /\ feed'.up = feed.up /\ feed'.upto = feed.upto
      /\ feed'.key = feed.key /\ feed'.showing = feed.showing /\ feed'.moreBusy = FALSE
      /\ feed.key # a.key => feed'.items = feed.items /\ feed'.next = feed.next
      /\ feed.key = a.key => feed'.items = joined /\ feed'.next = a.next
    <2>1. CASE feed.key # a.key
        <3>1. feed' = [feed EXCEPT !.moreBusy = FALSE]
            BY <1>1, <2>1 DEF Appended
        <3> QED
            BY <1>0, <2>1, <3>1 DEF FeedSet
    <2>2. CASE feed.key = a.key
        <3>1. feed' = [[feed EXCEPT !.items = joined, !.next = a.next] EXCEPT !.moreBusy = FALSE]
            BY <1>1, <2>2 DEF Appended, joined
        <3> QED
            BY <1>0, <1>4, <2>2, <3>1 DEF FeedSet, FetchSet
    <2> QED
        BY <2>1, <2>2
<1>6. \A b \in fetches' : IsTop(b)
    BY <1>0, <1>1 DEF OneOfEach
<1>7. FeedTypes'
    BY <1>0, <1>1, <1>2, <1>5 DEF FeedTypes
<1>8. OneOfEach'
    BY <1>0, <1>1, <1>5, <1>6 DEF OneOfEach, IsTop
<1>9. GoesOnFrom'
    BY <1>6 DEF GoesOnFrom, IsTop
<1>10. PagesHold'
    BY <1>0, <1>1 DEF PagesHold, Holds
<1>11. FeedHolds'
    <2>1. feed'.upto <= news'
        BY <1>0, <1>1, <1>5 DEF FeedHolds
    <2>2. ASSUME ~returned' PROVE Holds(feed.items, feed.next, feed.upto, 0, feed.key)'
        <3>1. ~returned /\ Holds(feed.items, feed.next, feed.upto, 0, feed.key)
            BY <1>0, <1>2, <2>2 DEF FeedHolds
        <3>2. CASE feed.key # a.key
            BY <1>1, <1>5, <3>1, <3>2 DEF Holds
        <3>3. CASE feed.key = a.key
            <4>1. a.showing = feed.showing
                BY <1>1, <2>2, <3>3
            <4>2. a.cursor = feed.next /\ feed.upto <= a.upto /\ a.cursor # 0
                BY <1>0, <1>1, <3>1, <3>3, <4>1 DEF GoesOnFrom, IsTop
            <4>3. Holds(a.items, a.next, a.upto, a.cursor, a.key)
                BY <1>0, <1>1 DEF PagesHold
            <4>4. \A n \in ToSet(joined) : Matching(n, feed.key[1])
                BY <1>4, <3>1, <3>3, <4>3 DEF Holds
            <4>5. ASSUME NEW n \in 1..feed.upto \ goneNews, Matching(n, feed.key[1])
                  PROVE  n \in ToSet(joined) \/ (a.next # 0 /\ n < a.next)
                <5>1. n \in ToSet(feed.items) \/ n < feed.next
                    BY <3>1, <4>5 DEF Holds
                <5>2. CASE n \in ToSet(feed.items)
                    BY <1>4, <5>2
                <5>3. CASE n < feed.next
                    <6>1. n \in 1..a.upto \ goneNews
                        <7>1. a.upto \in Nat /\ feed.upto \in Nat
                            BY <1>0 DEF FetchSet, FeedSet
                        <7> QED
                            BY <4>2, <4>5, <7>1
                    <6>2. n \in ToSet(a.items) \/ (a.next # 0 /\ n < a.next)
                        BY <3>3, <4>2, <4>3, <4>5, <5>3, <6>1 DEF Holds
                    <6> QED
                        BY <1>4, <6>2
                <5> QED
                    BY <5>1, <5>2, <5>3
            <4>6. Holds(joined, a.next, feed.upto, 0, feed.key)
                BY <4>4, <4>5 DEF Holds
            <4>7. feed'.items = joined /\ feed'.next = a.next /\ feed'.upto = feed.upto /\ feed'.key = feed.key /\ goneNews' = goneNews
                BY <1>1, <1>5, <3>3
            <4> QED
                BY <4>6, <4>7 DEF Holds
        <3> QED
            BY <3>2, <3>3
    <2> QED
        BY <2>1, <2>2 DEF FeedHolds
<1>12. Closed'
    BY <1>0, <1>1, <1>5 DEF Closed
<1> QED
    BY <1>7, <1>8, <1>9, <1>10, <1>11, <1>12 DEF FeedInv

\* A page opened or left shows nothing yet.
LEMMA NoFeedHolds ==
    /\ NoFeed \in FeedSet(0) /\ NoFeed.open = 0 /\ ~NoFeed.up /\ NoFeed.showing = 0 /\ NoFeed.items = <<>> /\ NoFeed.upto = 0
    /\ ToSet(<<>>) = {}
<1>1. NoQuery \in KeySet
    BY DEF NoQuery, KeySet
<1>2. ToSet(<<>>) = {}
    BY DEF ToSet
<1> QED
    BY <1>1, <1>2 DEF NoFeed, FeedSet, Filters

\* The page of sources is left: its feed goes, and nothing is asked for.
LEMMA EmptyFeedKeeps ==
    ASSUME feed' = NoFeed, fetches' = {}, news' \in Nat, turns' \in Nat, returned' \in BOOLEAN
    PROVE  FeedInv'
<1>1. FeedTypes'
    BY NoFeedHolds DEF FeedTypes
<1>2. OneOfEach'
    BY NoFeedHolds DEF OneOfEach
<1>3. GoesOnFrom' /\ PagesHold' /\ Closed'
    BY DEF GoesOnFrom, PagesHold, Closed
<1>4. FeedHolds'
    BY NoFeedHolds DEF FeedHolds, Holds
<1> QED
    BY <1>1, <1>2, <1>3, <1>4 DEF FeedInv

\* At first the feed is empty and nothing has been asked for.
LEMMA FeedStart == FeedInit => FeedInv
<1> SUFFICES ASSUME FeedInit PROVE FeedInv
    OBVIOUS
<1>0. feed = NoFeed /\ fetches = {} /\ news = 1 /\ turns = 0 /\ returned = FALSE
    BY DEF FeedInit
<1>1. FeedTypes
    BY <1>0, NoFeedHolds DEF FeedTypes
<1>2. OneOfEach
    BY <1>0, NoFeedHolds DEF OneOfEach
<1>3. GoesOnFrom /\ PagesHold /\ Closed
    BY <1>0 DEF GoesOnFrom, PagesHold, Closed
<1>4. FeedHolds
    BY <1>0, NoFeedHolds DEF FeedHolds, Holds
<1> QED
    BY <1>1, <1>2, <1>3, <1>4 DEF FeedInv

\* Every step keeps what is known of the feed.
LEMMA FeedStep == FeedInv /\ [FeedNext]_fvars => FeedInv'
<1> SUFFICES ASSUME FeedInv, [FeedNext]_fvars PROVE FeedInv'
    OBVIOUS
<1>0. FeedTypes /\ Closed /\ feed \in FeedSet(feed.open) /\ news \in Nat /\ turns \in Nat /\ returned \in BOOLEAN
    BY DEF FeedInv, FeedTypes
<1>1. CASE OpenSources
    <2>1. PICK filter \in Filters : Requeries([NoFeed EXCEPT !.up = TRUE, !.filter = filter])
        BY <1>1 DEF OpenSources
    <2> DEFINE f == [NoFeed EXCEPT !.up = TRUE, !.filter = filter]
    <2>2. f \in FeedSet(f.open) /\ f.up /\ f.items = <<>> /\ f.upto = 0 /\ f.showing = 0
        BY NoFeedHolds DEF FeedSet
    <2>3. Requeries(f) /\ fetches = {} /\ UNCHANGED <<news, goneNews, returned>>
        BY <1>0, <1>1, <2>1 DEF OpenSources, Closed
    <2> HIDE DEF f
    <2> QED
        BY <2>2, <2>3, RequeryKeeps
<1>2. CASE ChangeFilter
    <2>1. PICK filter \in Filters : Requeries([feed EXCEPT !.filter = filter])
        BY <1>2 DEF ChangeFilter
    <2> DEFINE f == [feed EXCEPT !.filter = filter]
    <2>2. f \in FeedSet(f.open) /\ f.up /\ f.items = feed.items /\ f.next = feed.next /\ f.upto = feed.upto /\ f.key = feed.key
          /\ f.showing = feed.showing /\ f.moreBusy = feed.moreBusy
        BY <1>0, <1>2 DEF FeedSet, ChangeFilter
    <2>3. Requeries(f) /\ UNCHANGED <<news, goneNews, returned>>
        BY <1>2, <2>1 DEF ChangeFilter
    <2> HIDE DEF f
    <2> QED
        BY <2>2, <2>3, RequeryKeeps
<1>3. CASE Refresh
    <2> DEFINE f == [feed EXCEPT !.reloads = feed.reloads + 1]
    <2>1. Requeries(f) /\ UNCHANGED <<news, goneNews, returned>> /\ feed.up
        BY <1>3 DEF Refresh
    <2>2. f \in FeedSet(f.open) /\ f.up /\ f.items = feed.items /\ f.next = feed.next /\ f.upto = feed.upto /\ f.key = feed.key
          /\ f.showing = feed.showing /\ f.moreBusy = feed.moreBusy
        BY <1>0, <2>1 DEF FeedSet
    <2> HIDE DEF f
    <2> QED
        BY <2>1, <2>2, RequeryKeeps
<1>4. ASSUME NEW open, feed' = feed \/ feed' = [feed EXCEPT !.open = open], UNCHANGED <<fetches, turns, returned>>,
             news' \in Nat, news <= news', goneNews \subseteq goneNews'
      PROVE  FeedInv'
    <2>1. /\ feed' \in FeedSet(feed'.open) /\ feed'.up = feed.up /\ feed'.items = feed.items /\ feed'.next = feed.next /\ feed'.upto = feed.upto
          /\ feed'.key = feed.key /\ feed'.showing = feed.showing /\ feed'.moreBusy = feed.moreBusy
        BY <1>0, <1>4 DEF FeedSet
    <2> QED
        BY <1>4, <2>1, FeedStays
<1>5. CASE NewsComes
    BY <1>0, <1>4, <1>5 DEF NewsComes
<1>6. CASE OpenItem
    BY <1>0, <1>4, <1>6 DEF OpenItem
<1>7. CASE RemoveNews
    BY <1>0, <1>4, <1>7 DEF RemoveNews
<1>8. CASE UndoRemoval \/ UndoIsOver
    BY <1>0, <1>4, <1>8 DEF UndoRemoval, UndoIsOver
<1>9. CASE LeaveSources
    BY <1>0, <1>9, EmptyFeedKeeps DEF LeaveSources
<1>10. CASE AskMore
    BY <1>10, AskMoreKeeps
<1>11. ASSUME NEW a \in fetches, FetchServed(a) PROVE FeedInv'
    BY <1>11, FetchServedKeeps
<1>12. ASSUME NEW a \in fetches, TopArrives(a) PROVE FeedInv'
    BY <1>12, TopArrivesKeeps
<1>13. ASSUME NEW a \in fetches, MoreArrives(a) PROVE FeedInv'
    BY <1>13, MoreArrivesKeeps
<1>14. ASSUME NEW a \in fetches, FetchFails(a) PROVE FeedInv'
    <2> DEFINE busy == IF IsTop(a) THEN feed.moreBusy ELSE FALSE
    <2>1. /\ fetches' = fetches \ {a} /\ UNCHANGED <<news, goneNews, turns, returned>>
          /\ feed' = [feed EXCEPT !.failed = a.key, !.moreBusy = busy]
        BY <1>14 DEF FetchFails
    <2>2. a.key \in KeySet /\ busy \in BOOLEAN
        BY <1>0 DEF FeedTypes, FetchSet, FeedSet
    <2>3. busy = feed.moreBusy \/ \A b \in fetches' : IsTop(b)
        BY <2>1 DEF FeedInv, OneOfEach
    <2> HIDE DEF busy
    <2>4. /\ feed' \in FeedSet(feed'.open) /\ feed'.up = feed.up /\ feed'.items = feed.items /\ feed'.next = feed.next /\ feed'.upto = feed.upto
          /\ feed'.key = feed.key /\ feed'.showing = feed.showing /\ feed'.moreBusy = busy
        BY <1>0, <2>1, <2>2 DEF FeedSet
    <2> QED
        BY <1>0, <2>1, <2>3, <2>4, FeedStays
<1>15. ASSUME NEW d \in deletes, DeleteAnswered(d) PROVE FeedInv'
    BY <1>0, <1>4, <1>15 DEF DeleteAnswered
<1>16. CASE UNCHANGED fvars
    BY <1>0, <1>4, <1>16 DEF fvars
<1> QED
    BY <1>1, <1>2, <1>3, <1>5, <1>6, <1>7, <1>8, <1>9, <1>10, <1>11, <1>12, <1>13, <1>14, <1>15, <1>16 DEF FeedNext

\* A feed that counts as loaded shows its own query from the top down, nothing left out.
THEOREM FeedsHaveNoHoles == FeedSpec => []FeedHasNoHoles
<1>1. FeedInv => FeedHasNoHoles
    <2> SUFFICES ASSUME FeedInv, Shown(feed), ~returned
                 PROVE  /\ \A n \in ToSet(feed.items) : Matching(n, feed.filter)
                        /\ \A n \in 1..feed.upto \ goneNews : Matching(n, feed.filter) =>
                               n \in ToSet(feed.items) \/ (feed.next # 0 /\ n < feed.next)
        BY DEF FeedHasNoHoles
    <2>1. feed.key[1] = feed.filter
        BY DEF Shown, Key
    <2>2. Holds(feed.items, feed.next, feed.upto, 0, feed.key)
        BY DEF FeedInv, FeedHolds
    <2> QED
        BY <2>1, <2>2 DEF Holds
<1> QED
    BY FeedStart, FeedStep, <1>1, PTL DEF FeedSpec

\* What stands on the desk answers what was asked of it last, in the feed and in the lists.
THEOREM DesksAreInOrder == FeedSpec /\ ListSpec => []DeskIsInOrder
BY FeedsHaveNoHoles, DecidedGo, PTL DEF DeskIsInOrder

----------------------------------------------------------------------------
(* Dialogs (EditorDialogs).                                                 *)

----------------------------------------------------------------------------
(* Transcription.                                                           *)

Statuses == {"idle", "pending", "processing", "completed", "failed"}
Workers == {"queued", "running", "over"}
PollStages == {"asking", "fetching", "timer"}
Jobs == [status : Statuses, worker : Workers]
Dialogs == [open : BOOLEAN, job : Nat, status : Statuses, result : Nat]

\* A loop that fetches a result asks for no status any more: what hears how a job ends is a start, a
\* loop that asks or is about to, or a cancellation
TranscriptionInv ==
    /\ dialog \in Dialogs /\ dialog.job \in 0..Len(jobs)
    /\ jobs \in Seq(Jobs)
    /\ polls \subseteq [job : 1..Len(jobs), at : PollStages]
    /\ cancels \subseteq 1..Len(jobs)
    /\ starts \in Nat
    /\ dialog.status \in Processing =>
          starts > 0 \/ (\E p \in polls : p.at # "fetching") \/ cancels # {}

\* A job whose record is stored anew: the same jobs are there, each with a status.
LEMMA JobsStayTyped ==
  ASSUME TranscriptionInv, NEW j \in DOMAIN jobs, NEW r \in Jobs,
         jobs' = [jobs EXCEPT ![j] = r]
  PROVE  Len(jobs') = Len(jobs) /\ jobs' \in Seq(Jobs)
  BY DEF TranscriptionInv

\* Every step of the dialog, the worker and the loops keeps a running job watched.
LEMMA TranscriptionStep == TranscriptionInv /\ [TranscriptionNext]_tvars => TranscriptionInv'
  <1> SUFFICES ASSUME TranscriptionInv, [TranscriptionNext]_tvars PROVE TranscriptionInv'
    OBVIOUS
  <1> USE DEF TranscriptionInv, Processing, PollStages
  <1>j. ASSUME NEW j \in DOMAIN jobs PROVE jobs[j] \in Jobs /\ jobs[j].status \in Statuses
    <2>1. jobs[j] \in Jobs
      BY <1>j
    <2> QED BY <2>1 DEF Jobs
  <1>1. ASSUME OpenTranscription PROVE TranscriptionInv'
    BY <1>1 DEF OpenTranscription, Dialogs
  <1>2. ASSUME StartJob PROVE TranscriptionInv'
    <2>1. dialog' = [dialog EXCEPT !.status = "pending", !.result = 0]
      BY <1>2 DEF StartJob
    <2>2. dialog' \in Dialogs /\ dialog'.job = dialog.job
      BY <2>1 DEF Dialogs, Statuses
    <2> QED BY <1>2, <2>2 DEF StartJob
  <1>3. ASSUME Started PROVE TranscriptionInv'
    <2>1. NewJob \in Jobs
      BY DEF NewJob, Jobs, Statuses, Workers
    <2>2. Len(jobs') = Len(jobs) + 1 /\ jobs' \in Seq(Jobs)
      BY <1>3, <2>1 DEF Started
    <2>3. polls' = polls \union {[job |-> Len(jobs'), at |-> "asking"]} /\ dialog' = [dialog EXCEPT !.job = Len(jobs')]
          /\ starts' \in Nat /\ cancels' = cancels
      BY <1>3 DEF Started
    <2>4. [job |-> Len(jobs'), at |-> "asking"].at # "fetching"
      OBVIOUS
    <2>5. dialog' \in Dialogs /\ dialog'.job = Len(jobs')
      BY <2>2, <2>3 DEF Dialogs
    <2>6. polls' \subseteq [job : 1..Len(jobs'), at : PollStages] /\ cancels' \subseteq 1..Len(jobs')
      BY <2>2, <2>3
    <2>7. [job |-> Len(jobs'), at |-> "asking"] \in polls'
      BY <2>3
    <2>8. \E p \in polls' : p.at # "fetching"
      BY <2>4, <2>7
    <2>9. dialog'.job \in 0..Len(jobs')
      BY <2>2, <2>5
    <2> QED BY <2>2, <2>3, <2>5, <2>6, <2>8, <2>9
  <1>4. ASSUME StartFails PROVE TranscriptionInv'
    <2>1. dialog' = [dialog EXCEPT !.status = "failed"]
      BY <1>4 DEF StartFails
    <2>2. dialog' \in Dialogs /\ dialog'.job = dialog.job /\ dialog'.status = "failed"
      BY <2>1 DEF Dialogs, Statuses
    <2> QED BY <1>4, <2>2 DEF StartFails
  <1>5. ASSUME WorkerTakes PROVE TranscriptionInv'
    <2>1. PICK j \in DOMAIN jobs :
             jobs' = [jobs EXCEPT ![j] = IF @.status = "failed" THEN [@ EXCEPT !.worker = "over"] ELSE [status |-> "processing", worker |-> "running"]]
      BY <1>5 DEF WorkerTakes
    <2>2. (IF jobs[j].status = "failed" THEN [jobs[j] EXCEPT !.worker = "over"] ELSE [status |-> "processing", worker |-> "running"])
             \in Jobs
      BY <1>j DEF Jobs, Statuses, Workers
    <2> QED BY <1>5, <2>1, <2>2, JobsStayTyped DEF WorkerTakes
  <1>6. ASSUME WorkerSaves PROVE TranscriptionInv'
    <2>1. PICK j \in DOMAIN jobs : 
             \/ jobs' = [jobs EXCEPT ![j].status = "processing"]
             \/ \E s \in {"completed", "failed"} : jobs' = [jobs EXCEPT ![j] = [status |-> s, worker |-> "over"]]
      BY <1>6 DEF WorkerSaves
    <2>2. [jobs[j] EXCEPT !.status = "processing"] \in Jobs
      BY <1>j DEF Jobs, Statuses
    <2>3. \A s \in {"completed", "failed"} : [status |-> s, worker |-> "over"] \in Jobs
      BY DEF Jobs, Statuses, Workers
    <2> QED BY <1>6, <2>1, <2>2, <2>3, JobsStayTyped DEF WorkerSaves
  <1>7. ASSUME CancelJob PROVE TranscriptionInv'
    <2>1. dialog' = dialog \/ dialog' = [dialog EXCEPT !.status = "idle"]
      BY <1>7 DEF CancelJob
    <2>1a. dialog.job = 0 => dialog' = [dialog EXCEPT !.status = "idle"]
      BY <1>7 DEF CancelJob
    <2>2. dialog.job = 0 => dialog'.status = "idle"
      BY <2>1a DEF Dialogs, Statuses
    <2>3. dialog' \in Dialogs /\ dialog'.job = dialog.job
      BY <2>1 DEF Dialogs, Statuses
    <2>4. polls' \subseteq polls /\ starts' = starts /\ jobs' = jobs
      BY <1>7 DEF CancelJob, Cleared_
    <2>5a. IF dialog.job = 0 THEN cancels' = cancels ELSE cancels' = cancels \union {dialog.job}
      BY <1>7, Zenon DEF CancelJob
    <2>5b. CASE dialog.job = 0
      BY <2>2, <2>3, <2>4, <2>5a, <2>5b
    <2>5. CASE dialog.job # 0
      <3>1. dialog.job \in 1..Len(jobs) /\ cancels' = cancels \union {dialog.job}
        BY <2>5, <2>5a
      <3>2. cancels' \subseteq 1..Len(jobs) /\ cancels' # {}
        BY <3>1
      <3> QED BY <2>3, <2>4, <3>2
    <2> QED BY <2>5b, <2>5
  <1>8. ASSUME CancelHeard PROVE TranscriptionInv'
    <2>1. PICK j \in cancels : jobs' \in {jobs} \union IF jobs[j].status \in Processing THEN {[jobs EXCEPT ![j].status = "failed"]} ELSE {}
      BY <1>8 DEF CancelHeard
    <2>2a. j \in DOMAIN jobs
      OBVIOUS
    <2>2. [jobs[j] EXCEPT !.status = "failed"] \in Jobs
      BY <1>j, <2>2a DEF Jobs, Statuses
    <2>3. jobs' = jobs \/ jobs' = [jobs EXCEPT ![j] = [jobs[j] EXCEPT !.status = "failed"]]
      BY <2>1
    <2>4. Len(jobs') = Len(jobs) /\ jobs' \in Seq(Jobs)
      BY <2>2a, <2>2, <2>3, JobsStayTyped
    <2>5. dialog' = [dialog EXCEPT !.status = "idle", !.job = 0] /\ polls' = polls /\ starts' = starts /\ cancels' \subseteq cancels
      BY <1>8 DEF CancelHeard, Idles
    <2>6. dialog' \in Dialogs /\ dialog'.job = 0 /\ dialog'.status = "idle"
      BY <2>5 DEF Dialogs, Statuses
    <2> QED BY <2>4, <2>5, <2>6
  <1>9. ASSUME CloseTranscription PROVE TranscriptionInv'
    BY <1>9 DEF CloseTranscription, Cleared_, NoDialog, Dialogs, Statuses
  <1>p. ASSUME NEW p \in polls PROVE /\ p \in [job : 1..Len(jobs), at : PollStages]
                                      /\ [p EXCEPT !.at = "fetching"] \in [job : 1..Len(jobs), at : PollStages]
                                      /\ [p EXCEPT !.at = "timer"] \in [job : 1..Len(jobs), at : PollStages]
                                      /\ [p EXCEPT !.at = "timer"].at = "timer"
                                      /\ [p EXCEPT !.at = "asking"] \in [job : 1..Len(jobs), at : PollStages]
                                      /\ [p EXCEPT !.at = "asking"].at = "asking"
    OBVIOUS
  <1>10. ASSUME NEW p \in polls, Polled(p) PROVE TranscriptionInv'
    <2>1. jobs[p.job].status \in Statuses /\ dialog' = [dialog EXCEPT !.status = jobs[p.job].status] /\ UNCHANGED <<jobs, starts, cancels>>
      BY <1>10, <1>p, <1>j DEF Polled
    <2>2. dialog' \in Dialogs /\ dialog'.job = dialog.job /\ dialog'.status = jobs[p.job].status
      BY <2>1 DEF Dialogs
    <2>3. CASE jobs[p.job].status = "completed"
      <3>1. polls' = (polls \ {p}) \union {[p EXCEPT !.at = "fetching"]}
        BY <1>10, <2>3 DEF Polled
      <3> QED BY <2>1, <2>2, <2>3, <3>1, <1>p
    <2>4. CASE jobs[p.job].status = "failed"
      <3>1. polls' = polls \ {p}
        BY <1>10, <2>4 DEF Polled
      <3> QED BY <2>1, <2>2, <2>4, <3>1, <1>p
    <2>5. CASE jobs[p.job].status \notin {"completed", "failed"}
      <3>1. polls' = (polls \ {p}) \union {[p EXCEPT !.at = "timer"]}
        BY <1>10, <2>5 DEF Polled
      <3> QED BY <2>1, <2>2, <3>1, <1>p
    <2> QED BY <2>3, <2>4, <2>5
  <1>11. ASSUME NEW p \in polls, Fetched(p) PROVE TranscriptionInv'
    <2>1. \A q \in polls : q.at # "fetching" => q \in polls'
      BY <1>11 DEF Fetched
    <2>2. dialog' \in Dialogs /\ dialog'.job = dialog.job /\ dialog'.status = dialog.status
      BY <1>11, <1>p DEF Fetched, Dialogs
    <2> QED BY <1>11, <2>1, <2>2 DEF Fetched
  <1>12. ASSUME NEW p \in polls, PollFails(p) PROVE TranscriptionInv'
    <2>1. dialog' \in Dialogs /\ dialog'.job = dialog.job /\ dialog'.status = "failed"
      BY <1>12 DEF PollFails, Dialogs, Statuses
    <2> QED BY <1>12, <2>1 DEF PollFails
  <1>13. ASSUME NEW p \in polls, TimerFires(p) PROVE TranscriptionInv'
    BY <1>13, <1>p DEF TimerFires
  <1>14. ASSUME UNCHANGED tvars PROVE TranscriptionInv'
    BY <1>14 DEF tvars
  <1> QED BY <1>1, <1>2, <1>3, <1>4, <1>5, <1>6, <1>7, <1>8, <1>9, <1>10, <1>11, <1>12, <1>13, <1>14
          DEF TranscriptionNext

\* However many jobs are started, cancelled or left: a dialog that says one is running has something
\* under way that will tell it how it ends (TranscribeDialog.tsx).
THEOREM RunningJobsAreWatched == TranscriptionSpec => []RunningIsWatched
  <1>1. TranscriptionInit => TranscriptionInv
    BY DEF TranscriptionInit, TranscriptionInv, NoDialog, Processing, Dialogs, Statuses
  <1>2. TranscriptionInv => RunningIsWatched
    BY DEF TranscriptionInv, RunningIsWatched
  <1> QED BY <1>1, <1>2, TranscriptionStep, PTL DEF TranscriptionSpec

----------------------------------------------------------------------------
(* The assistant.                                                           *)

ChatStages == {"sent", "renewing", "streaming"}

\* Questions are numbered, and no two have the same number
ChatInv ==
    /\ questioned \in Nat
    /\ questions \subseteq [n : 1..questioned, at : ChatStages, stopped : BOOLEAN]
    /\ \A a, b \in questions : a.n = b.n => a = b
    /\ RunningCanBeStopped

\* A question that ends frees the panel; every other is stopped, or the step says it crossed one.
LEMMA EndsKeepsChat ==
  ASSUME ChatInv, NEW a \in questions, Ends(a)
  PROVE  ChatInv'
  <1>1. questions' = questions \ {a} /\ questioned' = questioned /\ crossed' = (crossed \/ stopper \notin {0, a.n})
    BY DEF Ends
  <1>2. a.n \in 1..questioned
    BY DEF ChatInv
  <1>3. ASSUME ~crossed', NEW b \in questions' PROVE b.stopped
    <2>1. ~crossed /\ stopper \in {0, a.n} /\ b \in questions /\ b # a
      BY <1>1, <1>3
    <2>2. b.n \in 1..questioned /\ b.n # a.n
      BY <2>1 DEF ChatInv
    <2> QED BY <1>2, <2>1, <2>2 DEF ChatInv, RunningCanBeStopped
  <1> QED BY <1>1, <1>3 DEF ChatInv, RunningCanBeStopped

\* Stopping reaches the question under way, so that every one that is left is stopped.
LEMMA HaltsKeepsChat ==
  ASSUME ChatInv, Halts(Stopped)
  PROVE  ChatInv'
  <1>1. ASSUME NEW a \in questions
        PROVE  /\ [a EXCEPT !.stopped = TRUE] \in [n : 1..questioned, at : ChatStages, stopped : BOOLEAN]
               /\ [a EXCEPT !.stopped = TRUE].n = a.n /\ [a EXCEPT !.stopped = TRUE].stopped
               /\ a \in [n : 1..questioned, at : ChatStages, stopped : BOOLEAN]
    BY <1>1 DEF ChatInv
  <1>2. Stopped \subseteq [n : 1..questioned, at : ChatStages, stopped : BOOLEAN]
    BY <1>1 DEF Stopped
  <1>3. \A a, b \in Stopped : a.n = b.n => a = b
    BY <1>1 DEF Stopped, ChatInv
  <1>4. ~crossed => \A b \in Stopped : b.stopped
    BY <1>1 DEF Stopped, ChatInv, RunningCanBeStopped
  <1>5. questions' \subseteq Stopped /\ UNCHANGED <<questioned, crossed>> /\ loading' = FALSE
    BY DEF Halts
  <1> QED BY <1>2, <1>3, <1>4, <1>5 DEF ChatInv, RunningCanBeStopped

\* A question that goes from one state into another, unstopped, is the same question.
LEMMA MovesKeepChat ==
  ASSUME ChatInv, NEW a \in questions, ~a.stopped, NEW at \in ChatStages,
         questions' = (questions \ {a}) \union {[a EXCEPT !.at = at]},
         UNCHANGED <<loading, stopper, questioned, crossed>>
  PROVE  ChatInv'
  <1>1. a \in [n : 1..questioned, at : ChatStages, stopped : BOOLEAN]
    BY DEF ChatInv
  <1>2. /\ [a EXCEPT !.at = at] \in [n : 1..questioned, at : ChatStages, stopped : BOOLEAN]
        /\ [a EXCEPT !.at = at].n = a.n /\ [a EXCEPT !.at = at].stopped = a.stopped
    BY <1>1
  <1> QED BY <1>1, <1>2 DEF ChatInv, RunningCanBeStopped

\* Every step of the conversation keeps the question under way within reach of the stop button.
LEMMA ChatStep == ChatInv /\ [ChatNext]_cvars => ChatInv'
  <1> SUFFICES ASSUME ChatInv, [ChatNext]_cvars PROVE ChatInv'
    OBVIOUS
  <1>1. ASSUME SendQuestion PROVE ChatInv'
    <2> DEFINE new == [n |-> questioned + 1, at |-> "sent", stopped |-> FALSE]
    <2>1. /\ questioned' = questioned + 1 /\ ~loading /\ loading' /\ stopper' = questioned + 1
          /\ questions' = questions \union {new} /\ crossed' = crossed
      BY <1>1 DEF SendQuestion
    <2>2. new \in [n : 1..questioned', at : ChatStages, stopped : BOOLEAN]
      BY <2>1 DEF ChatInv, ChatStages
    <2>3. \A a \in questions : a \in [n : 1..questioned', at : ChatStages, stopped : BOOLEAN] /\ a.n # new.n
      BY <2>1 DEF ChatInv
    <2>4. ~crossed => \A a \in questions : a.stopped
      BY <2>1 DEF ChatInv, RunningCanBeStopped
    <2>5. new.n = stopper' /\ questioned' \in Nat
      BY <2>1 DEF ChatInv
    <2> HIDE DEF new
    <2> QED BY <2>1, <2>2, <2>3, <2>4, <2>5 DEF ChatInv, RunningCanBeStopped
  <1>2. ASSUME Stop PROVE ChatInv'
    BY <1>2, HaltsKeepsChat DEF Stop
  <1>3. ASSUME ClearChat PROVE ChatInv'
    BY <1>3, HaltsKeepsChat DEF ClearChat
  <1>4. ASSUME NEW a \in questions, TokenSpent(a) \/ Chunk(a) PROVE ChatInv'
    BY <1>4, MovesKeepChat DEF TokenSpent, Chunk, ChatStages
  <1>5. ASSUME NEW a \in questions, Completed(a) \/ Errs(a) PROVE ChatInv'
    BY <1>5, EndsKeepsChat DEF Completed, Errs
  <1>6. ASSUME NEW a \in questions, Renewed(a) PROVE ChatInv'
    BY <1>6, EndsKeepsChat, MovesKeepChat DEF Renewed, ChatStages
  <1>7. ASSUME UNCHANGED cvars PROVE ChatInv'
    BY <1>7 DEF cvars, ChatInv, RunningCanBeStopped
  <1> QED BY <1>1, <1>2, <1>3, <1>4, <1>5, <1>6, <1>7 DEF ChatNext

\* However many questions are asked, stopped and cleared: the one under way is the one the stop button
\* reaches, unless one stopped while its token was renewed ended under it (AIChatPanel.tsx).
THEOREM QuestionsCanBeStopped == ChatSpec => []RunningCanBeStopped
  <1>1. ChatInit => ChatInv
    BY DEF ChatInit, ChatInv, RunningCanBeStopped
  <1>2. ChatInv => RunningCanBeStopped
    BY DEF ChatInv
  <1> QED BY <1>1, <1>2, ChatStep, PTL DEF ChatSpec

----------------------------------------------------------------------------
(* Translation, and the poll.                                               *)

\* What is under way is of the text as it stands, or it was overtaken
TranslationInv == TranslationMatches /\ (translating # 0 /\ ~overtaken => translating = wording)

\* A translation that stands beside a text is of that text (TranslateDialog.tsx).
THEOREM TranslationsMatch == TranslationSpec => []TranslationMatches
  <1>1. TranslationInit => TranslationInv
    BY DEF TranslationInit, TranslationInv, TranslationMatches
  <1>2. TranslationInv /\ [TranslationNext]_xvars => TranslationInv'
    BY DEF TranslationNext, TranslationInv, TranslationMatches, xvars, Reword, Fill, Translate, Translated,
           TranslationFails, ReopenTranslation
  <1>3. TranslationInv => TranslationMatches
    BY DEF TranslationInv
  <1> QED BY <1>1, <1>2, <1>3, PTL DEF TranslationSpec

\* No poll is sent with a deadline that is past, however long its form was open (PollDialog.tsx).
LEMMA DeadlinesStayAhead == PollDialogSpec => []DeadlinesAreAhead
  <1>1. PollDialogInit => DeadlinesAreAhead
    BY DEF PollDialogInit, DeadlinesAreAhead
  <1>2. DeadlinesAreAhead /\ [PollDialogNext]_qvars => DeadlinesAreAhead'
    BY DEF PollDialogNext, DeadlinesAreAhead, qvars, HourPasses, OpenPoll, FillPoll, ChooseDeadline, InsertPoll,
           InsertTooLate, PollMade, PollNotMade, ClosePoll, Posts, Ahead
  <1> QED BY <1>1, <1>2, PTL DEF PollDialogSpec

\* The four dialogs together, each going its own way: what they show is so or will be heard of.
THEOREM ToolsAreTrue ==
    TranscriptionSpec /\ ChatSpec /\ TranslationSpec /\ PollDialogSpec => []ToolsKeepTheirWord
  BY RunningJobsAreWatched, QuestionsCanBeStopped, TranslationsMatch, DeadlinesStayAhead, PTL DEF ToolsKeepTheirWord

----------------------------------------------------------------------------
(* The buffer (EditorBuffer).                                               *)

Articles == [there : BOOLEAN, ver : Nat, text : Nat, site : Nat, status : {"draft", "published"}, frozen : BOOLEAN,
             edit : {"none", "mine", "theirs"}]
Forms == [up : BOOLEAN, n : Nat, key : Keys, ready : BOOLEAN, ver : Nat, text : Nat, base : Nat,
          status : {"draft", "published"}, frozen : BOOLEAN, live : BOOLEAN, locked : BOOLEAN, timer : BOOLEAN,
          busy : {"none", "save", "publish", "discard", "delete", "unpublish"}]
Buffers == [text : Nat, early : BOOLEAN]
Deeds == {"create", "save", "publish", "discard", "delete", "unpublish"}
Requests == [kind : Deeds \union {"get"}, n : Nat, text : Nat, ver : Nat, then : {"none", "publish", "discard"},
             answer : {"none", "ok"}, got : Articles]

BufferTypes ==
    /\ form \in Forms /\ buffers \in [Keys -> Buffers] /\ held \in Articles /\ asks \subseteq Requests
    /\ typed \in Nat /\ asked \in Nat /\ elsewhere \in Nat /\ work \in [Keys -> Nat]
    /\ reached \subseteq Nat /\ behind \in BOOLEAN

\* A version of the article has one text: who says which version he has, says which text. Before it is
\* made there is none, and it is made once
Fresh(a) ==
    /\ a.ver <= held.ver /\ a.got.ver <= held.ver
    /\ a.answer = "ok" /\ a.got.ver = held.ver => a.got.text = held.text
    /\ a.answer = "ok" /\ a.kind \in {"create", "save"} => a.got.text = a.text
    /\ a.kind = "publish" /\ a.answer = "none" /\ a.ver = held.ver => a.text = held.text
    /\ a.kind = "create" /\ a.answer = "none" => held.ver = 0
    /\ a.then = "publish" => a.kind \in {"create", "save"}
Versions ==
    /\ form.ver <= held.ver
    /\ form.ready /\ form.key = "article" /\ form.ver = held.ver => form.base = held.text
    /\ \A a \in asks : Fresh(a)
    /\ \A a, b \in asks : a.kind = "create" /\ b.kind = "create" => a = b
    /\ held.ver = 0 => ~held.there

\* A page waits for one answer at a time: first for the article, then for what its button asked
Awaits(a) ==
    /\ a.kind = "create" <=> form.key = "new"
    /\ IF a.kind = "get" /\ a.then = "none" THEN ~form.ready ELSE form.ready /\ form.busy # "none"
    /\ a.kind \in {"create", "save", "publish"} => ~form.locked
Pages ==
    /\ form.up => form.n > 0
    /\ \A a \in asks : a.n <= form.n /\ (Mine(a) => Awaits(a))
    /\ \A a, b \in asks : a.n = b.n /\ a.n # 0 => a = b

\* Where a text comes from: the service (blank, saved by him, or of the colleague), or his typing
Taken(t) == t = Blank \/ t \in reached \/ t > MaxTexts
Known(t) == t <= typed \/ t > MaxTexts
Origins ==
    /\ typed <= MaxTexts
    /\ Blank \notin reached /\ \A t \in reached : Known(t)
    /\ Taken(held.text) /\ Taken(held.site) /\ Taken(form.base)
    /\ \A a \in asks : /\ a.answer = "ok" => Taken(a.got.text)
                       /\ Known(a.text) /\ (a.kind \in {"create", "save"} => a.text # Blank)
    /\ Known(form.text) /\ \A k \in Keys : Known(buffers[k].text)
    /\ \A k \in Keys : work[k] = Blank \/ (work[k] <= typed /\ work[k] \notin reached)

\* What is his and unsaved is on the screen he writes on, and in its buffer once the timer has gone off;
\* what he does not write on has it in the buffer
Writing == form.up /\ form.ready /\ ~form.locked
Rests(k) ==
    work[k] # Blank =>
        IF Writing /\ form.key = k THEN work[k] = form.text /\ (~form.timer => buffers[k].text = form.text)
        ELSE buffers[k].text = work[k]
Rest ==
    /\ form.timer => Writing
    /\ ~behind => \A k \in Keys : Rests(k)

\* A new article has no edit, is nobody's and on no site
NewIsBare == form.key = "new" => ~form.live /\ ~form.locked /\ form.status = "draft"

BufferInv == BufferTypes /\ Versions /\ Pages /\ Origins /\ Rest /\ NewIsBare

\* The empty values are of their types.
LEMMA EmptyOnes ==
  /\ NoForm \in Forms /\ NoArticle \in Articles /\ NoBuffer \in Buffers
  /\ ~NoForm.up /\ NoForm.n = 0 /\ NoForm.key = "new" /\ ~NoForm.ready /\ NoForm.ver = 0 /\ NoForm.text = Blank
  /\ NoForm.base = Blank /\ ~NoForm.locked /\ ~NoForm.timer /\ NoForm.busy = "none"
  /\ NoBuffer.text = Blank /\ Blank = 0
  /\ ~NoArticle.there /\ NoArticle.ver = 0 /\ NoArticle.text = Blank /\ NoArticle.site = Blank
  BY DEF NoForm, Forms, NoArticle, Articles, NoBuffer, Buffers, Keys, Blank

\* The fields of the form, of the article and of the requests.
LEMMA FieldsAreTyped ==
  ASSUME BufferTypes
  PROVE  /\ form.up \in BOOLEAN /\ form.n \in Nat /\ form.key \in Keys /\ form.ready \in BOOLEAN /\ form.ver \in Nat
         /\ form.text \in Nat /\ form.base \in Nat /\ form.locked \in BOOLEAN /\ form.timer \in BOOLEAN
         /\ typed \in Nat /\ MaxTexts \in Nat
         /\ held.there \in BOOLEAN /\ held.ver \in Nat /\ held.text \in Nat /\ held.site \in Nat
         /\ \A k \in Keys : buffers[k] \in Buffers /\ buffers[k].text \in Nat /\ work[k] \in Nat
         /\ \A a \in asks : /\ a \in Requests /\ a.kind \in Deeds \union {"get"} /\ a.n \in Nat /\ a.text \in Nat /\ a.ver \in Nat
                            /\ a.got \in Articles /\ a.got.ver \in Nat /\ a.got.text \in Nat
                            /\ a.answer \in {"none", "ok"}
  <1>1. form \in Forms /\ held \in Articles /\ buffers \in [Keys -> Buffers] /\ work \in [Keys -> Nat] /\ \A a \in asks : a \in Requests
    BY DEF BufferTypes
  <1>2. \A k \in Keys : buffers[k] \in Buffers /\ buffers[k].text \in Nat /\ work[k] \in Nat
    BY <1>1 DEF Buffers
  <1>3. \A a \in asks : /\ a \in Requests /\ a.kind \in Deeds \union {"get"} /\ a.n \in Nat /\ a.text \in Nat /\ a.ver \in Nat
                        /\ a.got \in Articles /\ a.answer \in {"none", "ok"}
    BY <1>1 DEF Requests
  <1>4. \A h \in Articles : h.ver \in Nat /\ h.text \in Nat
    BY DEF Articles
  <1>5. typed \in Nat /\ MaxTexts \in Nat
    BY EditorAssumption DEF BufferTypes
  <1> QED BY <1>1, <1>2, <1>3, <1>4, <1>5 DEF Forms, Articles

\* A request as it leaves.
LEMMA RequestMade ==
  ASSUME NEW kind \in Deeds \union {"get"}, NEW n \in Nat, NEW f \in Forms, NEW then \in {"none", "publish", "discard"}
  PROVE  /\ Request(kind, n, f, then) \in Requests
         /\ Request(kind, n, f, then).kind = kind /\ Request(kind, n, f, then).n = n
         /\ Request(kind, n, f, then).text = f.text /\ Request(kind, n, f, then).ver = f.ver
         /\ Request(kind, n, f, then).then = then /\ Request(kind, n, f, then).answer = "none"
         /\ Request(kind, n, f, then).got.ver = 0
  <1>1. f.text \in Nat /\ f.ver \in Nat
    BY DEF Forms
  <1> QED BY <1>1, EmptyOnes DEF Request, Requests

\* What a publication goes on with, when its save was answered.
LEMMA GoesOnMakes ==
  ASSUME NEW a \in Requests, NEW b \in GoesOn(a)
  PROVE  /\ b \in Requests /\ b.kind = "publish" /\ b.n = a.n /\ b.text = a.text /\ b.ver = a.got.ver
         /\ b.then = "none" /\ b.answer = "none" /\ b.got.ver = 0 /\ a.then = "publish"
         /\ \A c \in GoesOn(a) : c = b
  <1>1. a.then = "publish" /\ b = [a EXCEPT !.kind = "publish", !.ver = a.got.ver, !.then = "none", !.answer = "none", !.got = NoArticle]
    BY DEF GoesOn
  <1>2. a.got.ver \in Nat
    BY DEF Requests, Articles
  <1>3. b \in Requests
    BY <1>1, <1>2, EmptyOnes DEF Requests, Deeds
  <1>4. /\ b.kind = "publish" /\ b.n = a.n /\ b.text = a.text /\ b.ver = a.got.ver
        /\ b.then = "none" /\ b.answer = "none" /\ b.got = NoArticle
    BY <1>1 DEF Requests
  <1>5. \A c \in GoesOn(a) : c = b
    BY <1>1 DEF GoesOn
  <1> QED BY <1>1, <1>3, <1>4, <1>5, EmptyOnes

\* A render changes nothing of the form but its timer; a clean form takes its buffer away.
LEMMA Rendered ==
  ASSUME NEW f \in Forms, NEW b \in [Keys -> Buffers], Renders(f, b)
  PROVE  /\ form' \in Forms /\ form'.up = f.up /\ form'.n = f.n /\ form'.key = f.key /\ form'.ready = f.ready /\ form'.ver = f.ver
         /\ form'.text = f.text /\ form'.base = f.base /\ form'.locked = f.locked /\ form'.busy = f.busy /\ form'.live = f.live /\ form'.status = f.status
         /\ form'.timer = (f.ready /\ f.text # f.base /\ ~f.locked)
         /\ buffers' \in [Keys -> Buffers]
         /\ \A k \in Keys : buffers'[k] = IF k = f.key /\ f.ready /\ ~f.locked /\ f.text = f.base THEN NoBuffer ELSE b[k]
  <1>1. form' = [f EXCEPT !.timer = f.ready /\ f.text # f.base /\ ~f.locked]
    BY DEF Renders, Dirty
  <1>2. buffers' = IF f.ready /\ ~f.locked /\ f.text = f.base THEN [b EXCEPT ![f.key] = NoBuffer] ELSE b
    BY DEF Renders, Dirty, Forms
  <1>3. f.key \in Keys /\ NoBuffer \in Buffers
    BY EmptyOnes DEF Forms
  <1>4. form' \in Forms
    BY <1>1 DEF Forms
  <1>5. /\ form'.up = f.up /\ form'.n = f.n /\ form'.key = f.key /\ form'.ready = f.ready /\ form'.ver = f.ver
        /\ form'.text = f.text /\ form'.base = f.base /\ form'.locked = f.locked /\ form'.busy = f.busy /\ form'.live = f.live /\ form'.status = f.status
        /\ form'.timer = (f.ready /\ f.text # f.base /\ ~f.locked)
    BY <1>1 DEF Forms
  <1>6. buffers' \in [Keys -> Buffers]
    BY <1>2, <1>3
  <1>7. \A k \in Keys : buffers'[k] = IF k = f.key /\ f.ready /\ ~f.locked /\ f.text = f.base THEN NoBuffer ELSE b[k]
    BY <1>2, <1>3
  <1> QED BY <1>4, <1>5, <1>6, <1>7

\* A new article is opened: what was left of one before is on the screen, and in the buffer unless it goes.
LEMMA OpenNewKeeps ==
  ASSUME BufferInv, OpenNew
  PROVE  BufferInv'
  <1>1. UNCHANGED <<held, asks, typed, asked, elsewhere, work, reached, behind>> /\ ~form.up
    BY DEF OpenNew
  <1>2. /\ form' \in Forms /\ form'.up /\ form'.n = form.n + 1 /\ form'.key = "new" /\ form'.ready /\ form'.ver = 0
        /\ form'.text = buffers["new"].text /\ form'.base = Blank /\ ~form'.locked
        /\ form'.timer = (buffers["new"].text # Blank) /\ ~form'.live /\ form'.status = "draft"
    <2>1. form.n \in Nat /\ buffers["new"].text \in Nat
      BY FieldsAreTyped DEF BufferInv, Keys
    <2>2. form' = [NoForm EXCEPT !.up = TRUE, !.n = form.n + 1, !.ready = TRUE, !.text = buffers["new"].text,
                                 !.timer = buffers["new"].text # Blank]
      BY DEF OpenNew
    <2>3. form' \in Forms
      <3>1. PICK t \in BOOLEAN : t = (buffers["new"].text # Blank)
        OBVIOUS
      <3>2. PICK n \in Nat : n = form.n + 1
        BY <2>1
      <3>3. PICK x \in Nat : x = buffers["new"].text
        BY <2>1
      <3>4. form' = [NoForm EXCEPT !.up = TRUE, !.n = n, !.ready = TRUE, !.text = x, !.timer = t]
        BY <2>2, <3>1, <3>2, <3>3
      <3> QED BY <3>4, EmptyOnes DEF Forms
    <2>4. form'.timer = (buffers["new"].text # Blank)
      BY <2>2, EmptyOnes DEF Forms
    <2> QED BY <2>1, <2>2, <2>3, <2>4, EmptyOnes DEF Forms, NoForm
  <1>3. /\ buffers' \in [Keys -> Buffers] /\ buffers'["article"] = buffers["article"]
        /\ buffers'["new"] = NoBuffer \/ buffers'["new"] = buffers["new"]
    BY EmptyOnes DEF BufferInv, BufferTypes, OpenNew, Keys
  <1>4. BufferTypes'
    BY <1>1, <1>2, <1>3 DEF BufferInv, BufferTypes
  <1>5. Versions'
    BY <1>1, <1>2, FieldsAreTyped DEF BufferInv, Versions, Fresh
  <1>6. Pages'
    BY <1>1, <1>2, FieldsAreTyped DEF BufferInv, Pages, Mine
  <1>7. Origins'
    BY <1>1, <1>2, <1>3, FieldsAreTyped, EmptyOnes DEF BufferInv, Origins, Taken, Known, Keys
  <1>8. Rest'
    <2>1. ~behind => Rests("new") /\ Rests("article")
      BY DEF BufferInv, Rest, Keys
    <2>2. ~behind => (work["new"] # Blank => buffers["new"].text = work["new"]) /\ (work["article"] # Blank => buffers["article"].text = work["article"])
      BY <1>1, <2>1 DEF Rests, Writing
    <2>3. ~behind' => Rests("new")' /\ Rests("article")'
      BY <1>1, <1>2, <1>3, <2>2 DEF Rests, Writing
    <2> QED BY <1>2, <2>3 DEF Rest, Writing, Keys
  <1>9. NewIsBare'
    BY <1>2 DEF NewIsBare
  <1> QED BY <1>4, <1>5, <1>6, <1>7, <1>8, <1>9 DEF BufferInv

\* A page that reads the article first is not written on, and what the browser keeps waits for it.
LEMMA OpeningMade ==
  ASSUME NEW n \in Nat
  PROVE  /\ Opening(n) \in Forms /\ Opening(n).up /\ Opening(n).n = n /\ Opening(n).key = "article" /\ ~Opening(n).ready
         /\ Opening(n).ver = 0 /\ Opening(n).text = Blank /\ Opening(n).base = Blank /\ ~Opening(n).timer
  BY EmptyOnes DEF Opening, Forms, Keys

\* The request of a page that opens.
LEMMA ReadMade ==
  ASSUME NEW n \in Nat
  PROVE  \E r \in Requests : /\ r.kind = "get" /\ r.n = n /\ r.text = Blank /\ r.ver = 0 /\ r.then = "none" /\ r.answer = "none"
                             /\ r.got.ver = 0 /\ r = Request("get", n, NoForm, "none")
  <1> DEFINE q == Request("get", n, NoForm, "none")
  <1>1. "get" \in Deeds \union {"get"} /\ "none" \in {"none", "publish", "discard"} /\ NoForm \in Forms
    BY EmptyOnes
  <1>2. /\ q \in Requests /\ q.kind = "get" /\ q.n = n /\ q.text = Blank /\ q.ver = 0 /\ q.then = "none" /\ q.answer = "none"
        /\ q.got.ver = 0
    BY <1>1, RequestMade, EmptyOnes
  <1> QED BY <1>2

\* The article is opened.
LEMMA OpenArticleKeeps ==
  ASSUME BufferInv, OpenArticle
  PROVE  BufferInv'
  <1>2. form.n \in Nat /\ form.n + 1 \in Nat /\ \A a \in asks : a.n \in Nat
    BY FieldsAreTyped DEF BufferInv
  <1>3. PICK r \in Requests : /\ r.kind = "get" /\ r.n = form.n + 1 /\ r.text = Blank /\ r.ver = 0 /\ r.then = "none" /\ r.answer = "none"
                              /\ r.got.ver = 0 /\ r = Request("get", form.n + 1, NoForm, "none")
    BY <1>2, ReadMade
  <1>1. /\ UNCHANGED <<buffers, held, typed, asked, elsewhere, work, reached, behind>> /\ ~form.up /\ held.there
        /\ form' = Opening(form.n + 1) /\ asks' = asks \union {r}
    BY <1>3 DEF OpenArticle
  <1>4. /\ form' \in Forms /\ form'.up /\ form'.n = form.n + 1 /\ form'.key = "article" /\ ~form'.ready /\ form'.ver = 0
        /\ form'.text = Blank /\ form'.base = Blank /\ ~form'.timer
    BY <1>1, <1>2, OpeningMade
  <1>5. BufferTypes'
    BY <1>1, <1>3, <1>4 DEF BufferInv, BufferTypes
  <1>6. Versions'
    BY <1>1, <1>3, <1>4, FieldsAreTyped DEF BufferInv, Versions, Fresh
  <1>7. Pages'
    <2>1. \A a \in asks : a.n <= form.n
      BY DEF BufferInv, Pages
    <2>2. \A a, b \in asks : a.n = b.n /\ a.n # 0 => a = b
      BY DEF BufferInv, Pages
    <2>3. \A a \in asks' : a.n <= form'.n /\ (a = r \/ (a \in asks /\ a.n # form'.n))
      BY <1>1, <1>2, <1>3, <1>4, <2>1
    <2>4. Awaits(r)'
      BY <1>3, <1>4 DEF Awaits
    <2>5. \A a \in asks' : Mine(a)' => Awaits(a)'
      BY <2>3, <2>4 DEF Mine
    <2>6. \A a, b \in asks' : a.n = b.n /\ a.n # 0 => a = b
      BY <2>2, <2>3, <1>3, <1>4
    <2>7. form'.n > 0
      BY <1>2, <1>4
    <2> QED BY <2>3, <2>5, <2>6, <2>7 DEF Pages
  <1>8. Origins'
    BY <1>1, <1>3, <1>4, FieldsAreTyped, EmptyOnes DEF BufferInv, Origins, Taken, Known
  <1>9. Rest'
    BY <1>1, <1>4, FieldsAreTyped DEF BufferInv, Rest, Rests, Writing
  <1>10. NewIsBare'
    BY <1>4 DEF NewIsBare
  <1> QED BY <1>5, <1>6, <1>7, <1>8, <1>9, <1>10 DEF BufferInv

\* A clean form shows nothing unsaved of his.
LEMMA CleanIsSaved ==
  ASSUME BufferInv, NEW k \in Keys, Taken(work[k])
  PROVE  work[k] = Blank
  BY FieldsAreTyped DEF BufferInv, Origins, Taken

\* The article arrives on its page.
LEMMA LoadedKeeps ==
  ASSUME BufferInv, NEW a \in asks, Loaded(a)
  PROVE  BufferInv'
  <1> DEFINE f == Adopted(form, a.got)
  <1>1. /\ a.kind = "get" /\ a.then = "none" /\ a.answer = "ok" /\ Mine(a) /\ asks' = asks \ {a}
        /\ UNCHANGED <<held, typed, asked, elsewhere, reached, behind>>
    BY DEF Loaded
  <1>2. /\ f \in Forms /\ f.up = form.up /\ f.n = form.n /\ f.key = "article" /\ f.ready /\ f.ver = a.got.ver /\ f.text = a.got.text
        /\ f.base = a.got.text /\ f.locked = (a.got.edit = "theirs") /\ f.locked \in BOOLEAN
    <2>1. a.got \in Articles /\ form \in Forms
      BY FieldsAreTyped DEF BufferInv, BufferTypes
    <2> QED BY <2>1 DEF Adopted, Forms, Articles, Keys
  <1>3. PICK b \in Buffers : b = buffers["article"]
    BY FieldsAreTyped DEF BufferInv, Keys
  <1>4. \/ (f.locked \/ b = NoBuffer) /\ Renders(f, buffers) /\ UNCHANGED work
        \/ ~f.locked /\ b.text = f.text /\ Renders(f, buffers) /\ UNCHANGED work
        \/ ~f.locked /\ Renders(f, [buffers EXCEPT !["article"] = NoBuffer]) /\ Drops("article")
        \/ ~f.locked /\ b.text # f.text /\ Renders([f EXCEPT !.text = b.text], buffers) /\ UNCHANGED work
    BY <1>3 DEF Loaded
  <1>5. /\ buffers \in [Keys -> Buffers] /\ [buffers EXCEPT !["article"] = NoBuffer] \in [Keys -> Buffers] /\ b.text \in Nat
        /\ \A k \in Keys : [buffers EXCEPT !["article"] = NoBuffer][k] = IF k = "article" THEN NoBuffer ELSE buffers[k]
    BY EmptyOnes DEF BufferInv, BufferTypes, Keys, Buffers
  <1>6. /\ [f EXCEPT !.text = b.text] \in Forms /\ [f EXCEPT !.text = b.text].text = b.text
        /\ [f EXCEPT !.text = b.text].up = f.up /\ [f EXCEPT !.text = b.text].n = f.n /\ [f EXCEPT !.text = b.text].key = f.key
        /\ [f EXCEPT !.text = b.text].ready = f.ready /\ [f EXCEPT !.text = b.text].ver = f.ver
        /\ [f EXCEPT !.text = b.text].base = f.base /\ [f EXCEPT !.text = b.text].locked = f.locked
    BY <1>2, <1>5 DEF Forms
  <1> HIDE DEF f
  <1>7. /\ form' \in Forms /\ form'.up /\ form'.n = form.n /\ form'.key = "article" /\ form'.ready /\ form'.ver = a.got.ver
        /\ form'.base = a.got.text /\ form'.locked = f.locked /\ buffers' \in [Keys -> Buffers]
        /\ form'.text = a.got.text \/ form'.text = b.text
        /\ form'.timer => ~form'.locked
    BY <1>1, <1>2, <1>4, <1>5, <1>6, Rendered DEF Mine
  <1>8. buffers'["new"] = buffers["new"] /\ (buffers'["article"] = NoBuffer \/ buffers'["article"] = b)
    <2>0. "new" \in Keys /\ "article" \in Keys
      BY DEF Keys
    <2>1. CASE Renders(f, buffers)
      BY <2>0, <2>1, <1>2, <1>3, <1>5, Rendered
    <2>2. CASE Renders(f, [buffers EXCEPT !["article"] = NoBuffer])
      <3>1. \A k \in Keys : buffers'[k] = NoBuffer \/ buffers'[k] = [buffers EXCEPT !["article"] = NoBuffer][k]
        BY <2>2, <1>2, <1>5, Rendered
      <3>2. buffers'["new"] = [buffers EXCEPT !["article"] = NoBuffer]["new"]
        BY <2>0, <2>2, <1>2, <1>5, Rendered
      <3> QED BY <2>0, <3>1, <3>2, <1>3, <1>5
    <2>3. CASE Renders([f EXCEPT !.text = b.text], buffers)
      <3>1. \A k \in Keys : buffers'[k] = NoBuffer \/ buffers'[k] = buffers[k]
        BY <2>3, <1>2, <1>5, <1>6, Rendered
      <3>3. PICK g \in Forms : Renders(g, buffers) /\ g.key = "article"
        BY <2>3, <1>2, <1>6
      <3>2. buffers'["new"] = buffers["new"]
        BY <2>0, <3>3, <1>5, Rendered
      <3> QED BY <2>0, <3>1, <3>2, <1>3
    <2> QED BY <1>4, <2>1, <2>2, <2>3
  <1>9. /\ work' \in [Keys -> Nat] /\ work'["new"] = work["new"] /\ (work'["article"] = Blank \/ UNCHANGED work)
    BY <1>4, EmptyOnes DEF BufferInv, BufferTypes, Drops, Keys
  <1>10. BufferTypes'
    BY <1>1, <1>7, <1>9 DEF BufferInv, BufferTypes
  <1>11. Versions'
    BY <1>1, <1>7 DEF BufferInv, Versions, Fresh
  <1>12. Pages'
    BY <1>1, <1>7, FieldsAreTyped DEF BufferInv, Pages, Mine
  <1>13. Origins'
    BY <1>1, <1>3, <1>7, <1>8, <1>9, FieldsAreTyped, EmptyOnes DEF BufferInv, Origins, Taken, Known, Keys
  <1>14. ~form.ready
    BY <1>1 DEF BufferInv, Pages, Awaits
  <1>15. ASSUME ~behind', work'["article"] # Blank
         PROVE  IF ~form'.locked THEN work'["article"] = form'.text /\ (~form'.timer => buffers'["article"].text = form'.text)
                ELSE buffers'["article"].text = work'["article"]
    <2>1. UNCHANGED work /\ work["article"] = b.text
      BY <1>1, <1>3, <1>4, <1>9, <1>14, <1>15, EmptyOnes DEF BufferInv, Rest, Rests, Writing, Keys
    <2>2. b # NoBuffer
      BY <2>1, <1>15, EmptyOnes
    <2>3. ~Taken(b.text)
      BY <2>1, <1>15, CleanIsSaved DEF Keys
    <2>4. b.text # a.got.text
      BY <2>3, <1>1 DEF BufferInv, Origins, Taken
    <2>5. CASE f.locked
      BY <2>1, <2>5, <1>2, <1>3, <1>4, <1>5, <1>7, Rendered DEF Keys
    <2>6. CASE ~f.locked
      <3>1. Renders([f EXCEPT !.text = b.text], buffers)
        BY <2>1, <2>2, <2>4, <2>6, <1>2, <1>4, <1>15, EmptyOnes DEF Drops, Keys, BufferInv, BufferTypes
      <3> QED BY <2>1, <2>4, <2>6, <3>1, <1>2, <1>5, <1>6, <1>7, Rendered
    <2> QED BY <2>5, <2>6
  <1>16. Rest'
    BY <1>1, <1>7, <1>8, <1>9, <1>14, <1>15 DEF BufferInv, Rest, Rests, Writing, Keys
  <1>17. NewIsBare'
    BY <1>7 DEF NewIsBare
  <1> QED BY <1>10, <1>11, <1>12, <1>13, <1>16, <1>17 DEF BufferInv

\* What is written on the form is no business of the requests.
LEMMA WritingIsLocal ==
  ASSUME BufferInv, UNCHANGED <<held, asks>>, form'.up = form.up, form'.n = form.n, form'.key = form.key, form'.ready = form.ready,
         form'.ver = form.ver, form'.base = form.base, form'.locked = form.locked, form'.busy = form.busy, form'.live = form.live, form'.status = form.status
  PROVE  Versions' /\ Pages' /\ NewIsBare'
  <1>1. Versions'
    BY DEF BufferInv, Versions, Fresh
  <1>2. Pages'
    BY DEF BufferInv, Pages, Mine, Awaits
  <1>3. NewIsBare'
    BY DEF BufferInv, NewIsBare
  <1> QED BY <1>1, <1>2, <1>3

\* The form with another text, drawn anew.
LEMMA Retyped ==
  ASSUME BufferTypes, NEW t \in Nat, NEW b \in [Keys -> Buffers], Renders([form EXCEPT !.text = t], b)
  PROVE  /\ form' \in Forms /\ form'.up = form.up /\ form'.n = form.n /\ form'.key = form.key /\ form'.ready = form.ready
         /\ form'.ver = form.ver /\ form'.text = t /\ form'.base = form.base /\ form'.locked = form.locked /\ form'.busy = form.busy /\ form'.live = form.live /\ form'.status = form.status
         /\ form'.timer = (form.ready /\ t # form.base /\ ~form.locked)
         /\ buffers' \in [Keys -> Buffers]
         /\ \A k \in Keys : buffers'[k] = IF k = form.key /\ form.ready /\ ~form.locked /\ t = form.base THEN NoBuffer ELSE b[k]
  <1> DEFINE f == [form EXCEPT !.text = t]
  <1>1. /\ f \in Forms /\ f.up = form.up /\ f.n = form.n /\ f.key = form.key /\ f.ready = form.ready
        /\ f.ver = form.ver /\ f.text = t /\ f.base = form.base /\ f.locked = form.locked /\ f.busy = form.busy /\ f.live = form.live /\ f.status = form.status
    BY DEF BufferTypes, Forms
  <1>2. Renders(f, b)
    OBVIOUS
  <1> HIDE DEF f
  <1> QED BY <1>1, <1>2, Rendered

\* A text typed before, or of the service, is known.
LEMMA TakenIsKnown ==
  ASSUME BufferInv, NEW t \in Nat, Taken(t)
  PROVE  Known(t)
  BY FieldsAreTyped DEF BufferInv, Origins, Taken, Known, Blank

\* He types: the text is new, so the form is not clean and the timer runs.
LEMMA TypeInKeeps ==
  ASSUME BufferInv, TypeIn
  PROVE  BufferInv'
  <1>1. /\ form.up /\ form.ready /\ ~form.locked /\ typed < MaxTexts /\ typed' = typed + 1
        /\ Renders([form EXCEPT !.text = typed + 1], buffers) /\ work' = [work EXCEPT ![form.key] = typed + 1]
        /\ UNCHANGED <<held, asks, asked, elsewhere, reached, behind>>
    BY DEF TypeIn
  <1>2. typed + 1 \in Nat /\ typed + 1 # Blank /\ typed + 1 <= MaxTexts
    BY <1>1, FieldsAreTyped DEF BufferInv, Blank
  <1>3. typed + 1 \notin reached
    BY <1>1, FieldsAreTyped DEF BufferInv, Origins, Known
  <1>4. form.base # typed + 1
    BY <1>2, <1>3, FieldsAreTyped DEF BufferInv, Origins, Taken
  <1>5. /\ form' \in Forms /\ form'.up = form.up /\ form'.n = form.n /\ form'.key = form.key /\ form'.ready = form.ready
        /\ form'.ver = form.ver /\ form'.text = typed + 1 /\ form'.base = form.base /\ form'.locked = form.locked /\ form'.busy = form.busy /\ form'.live = form.live /\ form'.status = form.status
        /\ form'.timer /\ buffers' \in [Keys -> Buffers] /\ \A k \in Keys : buffers'[k] = buffers[k]
    BY <1>1, <1>2, <1>4, Retyped DEF BufferInv, BufferTypes
  <1>6. work' \in [Keys -> Nat] /\ \A k \in Keys : work'[k] = IF k = form.key THEN typed + 1 ELSE work[k]
    BY <1>1, <1>2 DEF BufferInv, BufferTypes
  <1>7. BufferTypes'
    BY <1>1, <1>2, <1>5, <1>6 DEF BufferInv, BufferTypes
  <1>8. Versions' /\ Pages' /\ NewIsBare'
    BY <1>1, <1>5, WritingIsLocal
  <1>9. \A t \in Nat : Known(t) => Known(t)'
    BY <1>1, FieldsAreTyped DEF BufferInv, Known
  <1>10. Origins'
    <2>1. \A k \in Keys : work'[k] = Blank \/ (work'[k] <= typed' /\ work'[k] \notin reached')
      BY <1>1, <1>3, <1>6, FieldsAreTyped DEF BufferInv, Origins
    <2>2. \A t \in reached : t \in Nat /\ Known(t)'
      BY <1>9 DEF BufferInv, BufferTypes, Origins
    <2>3. Known(form.text)'
      BY <1>1, <1>2, <1>5 DEF Known
    <2>4. \A k \in Keys : Known(buffers[k].text)'
      BY <1>5, <1>9, FieldsAreTyped DEF BufferInv, Origins, Known
    <2>5. \A a \in asks : /\ a.answer = "ok" => Taken(a.got.text)'
                          /\ Known(a.text)' /\ (a.kind \in {"create", "save"} => a.text # Blank)
      BY <1>1, <1>9, FieldsAreTyped DEF BufferInv, Origins, Taken
    <2>6. typed' <= MaxTexts /\ Blank \notin reached' /\ Taken(held.text)' /\ Taken(held.site)' /\ Taken(form.base)'
      BY <1>1, <1>2, <1>5 DEF BufferInv, Origins, Taken
    <2> QED BY <1>1, <2>1, <2>2, <2>3, <2>4, <2>5, <2>6 DEF Origins
  <1>11. Rest'
    BY <1>1, <1>5, <1>6, FieldsAreTyped DEF BufferInv, Rest, Rests, Writing
  <1> QED BY <1>7, <1>8, <1>10, <1>11 DEF BufferInv

\* He takes back what he typed.
LEMMA UndoTypingKeeps ==
  ASSUME BufferInv, UndoTyping
  PROVE  BufferInv'
  <1>1. /\ form.up /\ form.ready /\ ~form.locked
        /\ Renders([form EXCEPT !.text = form.base], buffers) /\ work' = [work EXCEPT ![form.key] = Blank]
        /\ UNCHANGED <<held, asks, typed, asked, elsewhere, reached, behind>>
    BY DEF UndoTyping, Dirty, Drops
  <1>2. PICK t \in Nat : t = form.base
    BY FieldsAreTyped DEF BufferInv
  <1>3. Renders([form EXCEPT !.text = t], buffers)
    BY <1>1, <1>2
  <1>4. /\ form' \in Forms /\ form'.up = form.up /\ form'.n = form.n /\ form'.key = form.key /\ form'.ready = form.ready
        /\ form'.ver = form.ver /\ form'.text = t /\ form'.base = form.base /\ form'.locked = form.locked /\ form'.busy = form.busy /\ form'.live = form.live /\ form'.status = form.status
        /\ ~form'.timer /\ buffers' \in [Keys -> Buffers]
        /\ \A k \in Keys : buffers'[k] = IF k = form.key THEN NoBuffer ELSE buffers[k]
    BY <1>1, <1>2, <1>3, Retyped DEF BufferInv, BufferTypes
  <1>5. work' \in [Keys -> Nat] /\ \A k \in Keys : work'[k] = IF k = form.key THEN Blank ELSE work[k]
    BY <1>1 DEF BufferInv, BufferTypes, Blank
  <1>6. BufferTypes'
    BY <1>1, <1>4, <1>5 DEF BufferInv, BufferTypes
  <1>7. Versions' /\ Pages' /\ NewIsBare'
    BY <1>1, <1>4, WritingIsLocal
  <1>8. Known(t)
    BY <1>2, TakenIsKnown DEF BufferInv, Origins
  <1>9. Origins'
    BY <1>1, <1>4, <1>5, <1>8, FieldsAreTyped, EmptyOnes DEF BufferInv, Origins, Taken, Known
  <1>10. Rest'
    BY <1>1, <1>4, <1>5, FieldsAreTyped DEF BufferInv, Rest, Rests, Writing
  <1> QED BY <1>6, <1>7, <1>9, <1>10 DEF BufferInv

\* The new article's form is emptied, and its buffer with it.
LEMMA ClearNewKeeps ==
  ASSUME BufferInv, ClearNew
  PROVE  BufferInv'
  <1> DEFINE b == [buffers EXCEPT !["new"] = NoBuffer]
  <1>1. /\ form.up /\ form.ready /\ form.key = "new"
        /\ Renders([form EXCEPT !.text = Blank], b) /\ work' = [work EXCEPT !["new"] = Blank]
        /\ UNCHANGED <<held, asks, typed, asked, elsewhere, reached, behind>>
    BY DEF ClearNew, Free, Drops
  <1>2. b \in [Keys -> Buffers] /\ b["new"] = NoBuffer /\ b["article"] = buffers["article"] /\ Blank \in Nat
    BY EmptyOnes DEF BufferInv, BufferTypes, Keys
  <1> HIDE DEF b
  <1>4. /\ form' \in Forms /\ form'.up = form.up /\ form'.n = form.n /\ form'.key = form.key /\ form'.ready = form.ready
        /\ form'.ver = form.ver /\ form'.text = Blank /\ form'.base = form.base /\ form'.locked = form.locked /\ form'.busy = form.busy /\ form'.live = form.live /\ form'.status = form.status
        /\ (form'.timer => ~form.locked) /\ buffers' \in [Keys -> Buffers]
        /\ buffers'["new"] = NoBuffer /\ buffers'["article"] = buffers["article"]
    BY <1>1, <1>2, Retyped DEF BufferInv, Keys
  <1>5. work' \in [Keys -> Nat] /\ work'["new"] = Blank /\ work'["article"] = work["article"]
    BY <1>1, EmptyOnes DEF BufferInv, BufferTypes, Keys
  <1>6. BufferTypes'
    BY <1>1, <1>4, <1>5 DEF BufferInv, BufferTypes
  <1>7. Versions' /\ Pages' /\ NewIsBare'
    BY <1>1, <1>4, WritingIsLocal
  <1>9. Origins'
    BY <1>1, <1>4, <1>5, FieldsAreTyped, EmptyOnes DEF BufferInv, Origins, Taken, Known, Keys
  <1>10. Rest'
    <2>1. ~behind' => Rests("article")
      BY <1>1 DEF BufferInv, Rest, Keys
    <2>2. ~behind' => Rests("new")' /\ Rests("article")'
      BY <1>1, <1>4, <1>5, <2>1 DEF Rests, Writing
    <2> QED BY <1>1, <1>4, <2>2 DEF Rest, Writing, Keys
  <1> QED BY <1>6, <1>7, <1>9, <1>10 DEF BufferInv

\* The timer goes off: what is on the screen is in the buffer.
LEMMA WriteBufferKeeps ==
  ASSUME BufferInv, WriteBuffer
  PROVE  BufferInv'
  <1>1. /\ form.up /\ form.timer /\ form' = [form EXCEPT !.timer = FALSE]
        /\ buffers' = [buffers EXCEPT ![form.key] = [text |-> form.text, early |-> ~form.frozen]]
        /\ UNCHANGED <<held, asks, typed, asked, elsewhere, work, reached, behind>>
    BY DEF WriteBuffer
  <1>2. form \in Forms /\ form.frozen \in BOOLEAN
    BY DEF BufferInv, BufferTypes, Forms
  <1>4. /\ form' \in Forms /\ form'.up = form.up /\ form'.n = form.n /\ form'.key = form.key /\ form'.ready = form.ready
        /\ form'.ver = form.ver /\ form'.text = form.text /\ form'.base = form.base /\ form'.locked = form.locked /\ form'.busy = form.busy /\ form'.live = form.live /\ form'.status = form.status
        /\ ~form'.timer
    BY <1>1, <1>2 DEF Forms
  <1>5. PICK e \in BOOLEAN : e = ~form.frozen
    OBVIOUS
  <1>6. [text |-> form.text, early |-> e] \in Buffers /\ [text |-> form.text, early |-> e].text = form.text
    BY FieldsAreTyped DEF BufferInv, Buffers
  <1>7. buffers' \in [Keys -> Buffers] /\ \A k \in Keys : buffers'[k].text = IF k = form.key THEN form.text ELSE buffers[k].text
    BY <1>1, <1>5, <1>6 DEF BufferInv, BufferTypes
  <1>8. BufferTypes'
    BY <1>1, <1>4, <1>7 DEF BufferInv, BufferTypes
  <1>9. Versions' /\ Pages' /\ NewIsBare'
    BY <1>1, <1>4, WritingIsLocal
  <1>10. Origins'
    BY <1>1, <1>4, <1>7, FieldsAreTyped DEF BufferInv, Origins, Taken, Known
  <1>11. Rest'
    BY <1>1, <1>4, <1>7, FieldsAreTyped DEF BufferInv, Rest, Rests, Writing
  <1> QED BY <1>8, <1>9, <1>10, <1>11 DEF BufferInv

\* A page that is free waits for nothing, so what it asks now is all it waits for.
LEMMA AsksKeeps ==
  ASSUME BufferInv, NEW kind \in Deeds, NEW busy \in {"save", "publish", "discard", "delete", "unpublish"},
         NEW then \in {"none", "publish"}, Free, Asks(kind, busy, then),
         kind = "create" <=> form.key = "new",
         kind = "create" => held.ver = 0 /\ \A a \in asks : a.kind # "create",
         kind \in {"create", "save", "publish"} => ~form.locked /\ form.text # Blank,
         kind = "publish" => form.text = form.base, then = "publish" => kind \in {"create", "save"}
  PROVE  BufferInv'
  <1>1. form.up /\ form.ready /\ form.busy = "none"
    BY DEF Free
  <1>2. form.n \in Nat /\ form \in Forms /\ kind \in Deeds \union {"get"} /\ then \in {"none", "publish", "discard"} /\ \A a \in asks : a.n \in Nat
    BY FieldsAreTyped DEF BufferInv, BufferTypes
  <1>3. PICK r \in Requests : /\ r.kind = kind /\ r.n = form.n /\ r.text = form.text /\ r.ver = form.ver /\ r.then = then /\ r.answer = "none"
                              /\ r.got.ver = 0 /\ r = Request(kind, form.n, form, then)
    <2> DEFINE q == Request(kind, form.n, form, then)
    <2>1. /\ q \in Requests /\ q.kind = kind /\ q.n = form.n /\ q.text = form.text /\ q.ver = form.ver /\ q.then = then /\ q.answer = "none"
          /\ q.got.ver = 0
      BY <1>2, RequestMade
    <2> QED BY <2>1
  <1>4. /\ form' = [form EXCEPT !.busy = busy] /\ asks' = asks \union {r} /\ asked' = asked + 1
        /\ UNCHANGED <<buffers, held, typed, elsewhere, work, reached, behind>>
    BY <1>3 DEF Asks
  <1>5. /\ form' \in Forms /\ form'.up = form.up /\ form'.n = form.n /\ form'.key = form.key /\ form'.ready = form.ready
        /\ form'.ver = form.ver /\ form'.text = form.text /\ form'.base = form.base /\ form'.locked = form.locked /\ form'.busy = busy /\ form'.live = form.live /\ form'.status = form.status
        /\ form'.timer = form.timer
    BY <1>2, <1>4 DEF Forms
  <1>6. BufferTypes'
    BY <1>3, <1>4, <1>5 DEF BufferInv, BufferTypes
  <1>7. Versions'
    <2>1. Fresh(r)
      BY <1>1, <1>3, FieldsAreTyped DEF BufferInv, Versions, Fresh, Keys, Deeds
    <2>2. \A a \in asks' : Fresh(a)
      BY <2>1, <1>4 DEF BufferInv, Versions
    <2>3. \A a, b \in asks' : a.kind = "create" /\ b.kind = "create" => a = b
      BY <1>3, <1>4 DEF BufferInv, Versions
    <2> QED BY <2>2, <2>3, <1>4, <1>5 DEF BufferInv, Versions, Fresh
  <1>8. Pages'
    <2>1. \A a \in asks : a.n # form.n
      <3>1. SUFFICES ASSUME NEW a \in asks, Mine(a) PROVE FALSE
        BY <1>1 DEF Mine
      <3>2. ~(a.kind = "get" /\ a.then = "none") => form.busy # "none"
        BY <3>1 DEF BufferInv, Pages, Awaits
      <3>3. (a.kind = "get" /\ a.then = "none") => ~form.ready
        BY <3>1 DEF BufferInv, Pages, Awaits
      <3> QED BY <1>1, <3>2, <3>3
    <2>2. Awaits(r)'
      BY <1>1, <1>3, <1>5 DEF Awaits, Deeds
    <2>3. \A a \in asks' : a.n <= form'.n /\ (Mine(a)' => Awaits(a)')
      BY <1>2, <1>3, <1>4, <1>5, <2>1, <2>2 DEF BufferInv, Pages, Mine
    <2>4. \A a, b \in asks' : a.n = b.n /\ a.n # 0 => a = b
      BY <1>3, <1>4, <2>1 DEF BufferInv, Pages
    <2> QED BY <1>5, <2>3, <2>4 DEF BufferInv, Pages
  <1>9. Origins'
    BY <1>3, <1>4, <1>5 DEF BufferInv, Origins, Taken, Known
  <1>10. Rest'
    BY <1>4, <1>5 DEF BufferInv, Rest, Rests, Writing
  <1>11. NewIsBare'
    BY <1>5 DEF BufferInv, NewIsBare
  <1> QED BY <1>6, <1>7, <1>8, <1>9, <1>10, <1>11 DEF BufferInv

\* The buttons of the status bar ask for what the page may ask.
LEMMA ButtonsKeep ==
  ASSUME BufferInv, Save \/ Publish \/ DiscardEdit \/ DeleteDraft \/ Unpublish
  PROVE  BufferInv'
  <1>0. form.key \in Keys
    BY FieldsAreTyped DEF BufferInv
  <1>1. CASE Save
    <2>1. Free /\ ~form.locked /\ form.text # Blank /\ MayCreate /\ Asks(SaveKind, "save", "none")
      BY <1>1 DEF Save
    <2>2. CASE form.key = "new"
      <3>1. Asks("create", "save", "none")
        BY <2>1, <2>2 DEF SaveKind
      <3> QED BY <2>1, <2>2, <3>1, AsksKeeps DEF MayCreate, Deeds
    <2>3. CASE form.key = "article"
      <3>1. Asks("save", "save", "none")
        BY <2>1, <2>3 DEF SaveKind
      <3> QED BY <2>1, <2>3, <3>1, AsksKeeps DEF Deeds
    <2> QED BY <1>0, <2>2, <2>3 DEF Keys
  <1>2. CASE Publish
    <2>1. /\ Free /\ ~form.locked /\ form.text # Blank
          /\ IF form.key = "new" \/ Dirty(form) THEN MayCreate /\ Asks(SaveKind, "save", "publish")
             ELSE Asks("publish", "publish", "none")
      BY <1>2 DEF Publish
    <2>2. CASE form.key = "new"
      <3>1. MayCreate /\ Asks("create", "save", "publish")
        BY <2>1, <2>2 DEF SaveKind
      <3> QED BY <2>1, <2>2, <3>1, AsksKeeps DEF MayCreate, Deeds
    <2>3. CASE form.key = "article" /\ Dirty(form)
      <3>1. Asks("save", "save", "publish")
        BY <2>1, <2>3 DEF SaveKind
      <3> QED BY <2>1, <2>3, <3>1, AsksKeeps DEF Deeds
    <2>4. CASE form.key = "article" /\ ~Dirty(form)
      <3>1. Asks("publish", "publish", "none") /\ form.text = form.base
        BY <2>1, <2>4 DEF Dirty, Free
      <3> QED BY <2>1, <2>4, <3>1, AsksKeeps DEF Deeds
    <2> QED BY <1>0, <2>2, <2>3, <2>4 DEF Keys
  <1>3. CASE DiscardEdit
    <2>1. Free /\ form.key # "new" /\ Asks("discard", "discard", "none")
      BY <1>3 DEF DiscardEdit, BufferInv, NewIsBare
    <2> QED BY <1>0, <2>1, AsksKeeps DEF Deeds, Keys
  <1>4. CASE DeleteDraft
    <2>1. Free /\ form.key = "article" /\ Asks("delete", "delete", "none")
      BY <1>4 DEF DeleteDraft
    <2> QED BY <2>1, AsksKeeps DEF Deeds
  <1>5. CASE Unpublish
    <2>1. Free /\ form.key # "new" /\ Asks("unpublish", "unpublish", "none")
      BY <1>5 DEF Unpublish, BufferInv, NewIsBare
    <2> QED BY <1>0, <2>1, AsksKeeps DEF Deeds, Keys
  <1> QED BY <1>1, <1>2, <1>3, <1>4, <1>5

\* What the service makes of an article.
LEMMA ServiceMakes ==
  ASSUME NEW h \in Articles, NEW t \in Nat
  PROVE  /\ Saves(h, t) \in Articles /\ Saves(h, t).ver = h.ver + 1 /\ Saves(h, t).text = t /\ Saves(h, t).site = h.site
         /\ Publishes(h) \in Articles /\ Publishes(h).ver = h.ver + 1 /\ Publishes(h).text = h.text /\ Publishes(h).site = h.text
         /\ DropsEdit(h) \in Articles /\ DropsEdit(h).ver = h.ver + 1 /\ DropsEdit(h).text = h.site /\ DropsEdit(h).site = h.site
  <1>1. PICK n \in Nat : n = h.ver + 1
    BY DEF Articles
  <1>2. PICK e \in {"none", "mine"} : e = IF h.status = "published" THEN "mine" ELSE "none"
    OBVIOUS
  <1>3. h.text \in Nat /\ h.site \in Nat
    BY DEF Articles
  <1>4. Saves(h, t) = [h EXCEPT !.text = t, !.ver = n, !.edit = e]
    BY <1>1, <1>2 DEF Saves
  <1>5. Publishes(h) = [h EXCEPT !.ver = n, !.site = h.text, !.status = "published", !.frozen = TRUE, !.edit = "none"]
    BY <1>1 DEF Publishes
  <1>6. DropsEdit(h) = [h EXCEPT !.ver = n, !.text = h.site, !.edit = "none"]
    BY <1>1 DEF DropsEdit
  <1>7. Saves(h, t) \in Articles /\ Saves(h, t).ver = n /\ Saves(h, t).text = t /\ Saves(h, t).site = h.site
    BY <1>4 DEF Articles
  <1>8. Publishes(h) \in Articles /\ Publishes(h).ver = n /\ Publishes(h).text = h.text /\ Publishes(h).site = h.text
    BY <1>3, <1>5 DEF Articles
  <1>9. DropsEdit(h) \in Articles /\ DropsEdit(h).ver = n /\ DropsEdit(h).text = h.site /\ DropsEdit(h).site = h.site
    BY <1>3, <1>6 DEF Articles
  <1> QED BY <1>1, <1>7, <1>8, <1>9

\* What a request does to the article when the service takes it.
LEMMA DoesMakes ==
  ASSUME BufferInv, NEW a \in asks, Takes(a), a.answer = "none", NEW h, h = Does(a.kind, held, a.text)
  PROVE  /\ h \in Articles
         /\ IF a.kind \in {"get", "delete"} THEN h.ver = held.ver /\ h.text = held.text /\ h.site = held.site
            ELSE h.ver = held.ver + 1
         /\ IF a.kind \in {"create", "save"} THEN h.text = a.text ELSE h.text \in {held.text, held.site}
         /\ h.site \in {Blank, held.text, held.site}
         /\ h.site # held.site => a.kind \in {"create", "publish"}
         /\ a.kind = "publish" => h.site = held.text /\ a.ver = held.ver
         /\ IF a.kind = "create" THEN held.ver = 0 ELSE held.ver # 0
  <1>1. held \in Articles /\ a.text \in Nat /\ held.ver \in Nat /\ a.kind \in Deeds \union {"get"}
    BY FieldsAreTyped DEF BufferInv, BufferTypes
  <1>2. IF a.kind = "create" THEN held.ver = 0 ELSE held.ver # 0
    BY <1>1 DEF BufferInv, Versions, Fresh, Takes, Deeds
  <1>3. CASE a.kind = "create"
    <2>1. h = [NoArticle EXCEPT !.there = TRUE, !.ver = 1, !.text = a.text]
      BY <1>3 DEF Does
    <2>2. h \in Articles /\ h.ver = 1 /\ h.text = a.text /\ h.site = Blank
      <3>1. PICK t \in Nat : t = a.text
        BY <1>1
      <3>2. h = [NoArticle EXCEPT !.there = TRUE, !.ver = 1, !.text = t]
        BY <2>1, <3>1
      <3>5. h = [there |-> TRUE, ver |-> 1, text |-> t, site |-> 0, status |-> "draft", frozen |-> FALSE, edit |-> "none"]
        BY <3>2 DEF NoArticle, Blank
      <3>3. h \in Articles
        BY <3>5 DEF Articles
      <3>4. h.ver = 1 /\ h.text = t /\ h.site = Blank
        BY <3>2, EmptyOnes DEF Articles
      <3> QED BY <3>1, <3>3, <3>4
    <2> QED BY <1>2, <1>3, <2>2
  <1>4. CASE a.kind = "save"
    <2>1. h = Saves(held, a.text)
      BY <1>4 DEF Does
    <2> QED BY <1>1, <1>2, <1>4, <2>1, ServiceMakes
  <1>5. CASE a.kind = "publish"
    <2>1. h = Publishes(held) /\ a.ver = held.ver
      BY <1>5 DEF Does, Takes
    <2> QED BY <1>1, <1>2, <1>5, <2>1, ServiceMakes
  <1>6. CASE a.kind = "discard"
    <2>1. h = DropsEdit(held)
      BY <1>6 DEF Does
    <2> QED BY <1>1, <1>2, <1>6, <2>1, ServiceMakes
  <1>7. CASE a.kind = "unpublish"
    <2>1. h = [held EXCEPT !.ver = held.ver + 1, !.status = "draft"]
      BY <1>7 DEF Does
    <2>2. PICK n \in Nat : n = held.ver + 1
      BY <1>1
    <2>3. h = [held EXCEPT !.ver = n, !.status = "draft"]
      BY <2>1, <2>2
    <2>4. h \in Articles /\ h.ver = n /\ h.text = held.text /\ h.site = held.site
      BY <1>1, <2>3 DEF Articles
    <2> QED BY <1>2, <1>7, <2>2, <2>4
  <1>8. CASE a.kind = "delete"
    <2>1. h = [held EXCEPT !.there = FALSE]
      BY <1>8 DEF Does
    <2>2. h \in Articles /\ h.ver = held.ver /\ h.text = held.text /\ h.site = held.site
      BY <1>1, <2>1 DEF Articles
    <2> QED BY <1>2, <1>8, <2>2
  <1>9. CASE a.kind = "get"
    <2>1. h = held
      BY <1>9 DEF Does
    <2> QED BY <1>1, <1>2, <1>9, <2>1
  <1> QED BY <1>1, <1>3, <1>4, <1>5, <1>6, <1>7, <1>8, <1>9 DEF Deeds

\* The service takes a request: whatever else is under way speaks of an older version now.
LEMMA ServedKeeps ==
  ASSUME BufferInv, NEW a \in asks, Served(a)
  PROVE  BufferInv'
  <1> DEFINE saves == a.kind \in {"create", "save"}
  <1>1. /\ a.answer = "none" /\ Takes(a) /\ held' = Does(a.kind, held, a.text)
        /\ asks' = (asks \ {a}) \union {[a EXCEPT !.answer = "ok", !.got = held']}
        /\ work' = [k \in Keys |-> IF saves /\ work[k] = a.text THEN Blank ELSE work[k]]
        /\ reached' = IF saves THEN reached \union {a.text} ELSE reached
        /\ UNCHANGED <<form, buffers, typed, asked, elsewhere, behind>>
    BY DEF Served
  <1>2. PICK h : h = Does(a.kind, held, a.text)
    OBVIOUS
  <1>3. held' = h
    BY <1>1, <1>2
  <1>4. /\ h \in Articles
        /\ IF a.kind \in {"get", "delete"} THEN h.ver = held.ver /\ h.text = held.text /\ h.site = held.site
           ELSE h.ver = held.ver + 1
        /\ IF a.kind \in {"create", "save"} THEN h.text = a.text ELSE h.text \in {held.text, held.site}
        /\ h.site \in {Blank, held.text, held.site}
        /\ IF a.kind = "create" THEN held.ver = 0 ELSE held.ver # 0
    BY <1>1, <1>2, DoesMakes
  <1>5. a \in Requests /\ a.text \in Nat /\ a.kind \in Deeds \union {"get"} /\ held.ver \in Nat /\ h.ver \in Nat
    BY <1>4, FieldsAreTyped DEF BufferInv, Articles
  <1>6. PICK b : b = [a EXCEPT !.answer = "ok", !.got = h]
    OBVIOUS
  <1>7. /\ b \in Requests /\ b.answer = "ok" /\ b.got = h /\ b.kind = a.kind /\ b.n = a.n /\ b.text = a.text /\ b.ver = a.ver
        /\ b.then = a.then
    BY <1>4, <1>5, <1>6 DEF Requests
  <1>8. asks' = (asks \ {a}) \union {b}
    BY <1>1, <1>3, <1>6
  <1>9. /\ work' \in [Keys -> Nat] /\ \A k \in Keys : work'[k] = IF saves /\ work[k] = a.text THEN Blank ELSE work[k]
        /\ reached \subseteq reached' /\ (saves => a.text \in reached') /\ \A t \in reached' : t \in reached \/ (saves /\ t = a.text)
    BY <1>1, EmptyOnes DEF BufferInv, BufferTypes
  <1>10. BufferTypes'
    BY <1>1, <1>3, <1>4, <1>5, <1>7, <1>8, <1>9 DEF BufferInv, BufferTypes
  <1>11. held.ver <= h.ver /\ (h.ver = held.ver => h.text = held.text /\ a.kind \in {"get", "delete"})
    BY <1>4, <1>5
  <1>12. Versions'
    <2>1. ASSUME NEW c \in asks, c # a
          PROVE  Fresh(c)'
      <3>1. Fresh(c) /\ c.ver \in Nat /\ c.got.ver \in Nat
        BY FieldsAreTyped DEF BufferInv, Versions
      <3>2. c.kind = "create" /\ c.answer = "none" => held.ver = 0 /\ a.kind # "create"
        BY <2>1, <3>1 DEF BufferInv, Versions, Fresh
      <3>3. c.kind = "create" /\ c.answer = "none" => FALSE \/ a.kind \in {"get", "delete"}
        BY <3>2, <1>4
      <3> QED BY <1>3, <1>4, <1>5, <1>11, <3>1, <3>2, <3>3 DEF Fresh
    <2>2. Fresh(b)'
      <3>1. Fresh(a) /\ a.ver \in Nat
        BY FieldsAreTyped DEF BufferInv, Versions
      <3> QED BY <1>3, <1>4, <1>5, <1>7, <1>11, <3>1 DEF Fresh
    <2>3. \A c \in asks' : Fresh(c)'
      BY <1>8, <2>1, <2>2
    <2>4. \A c, d \in asks' : c.kind = "create" /\ d.kind = "create" => c = d
      BY <1>7, <1>8 DEF BufferInv, Versions
    <2>5. form.ver <= h.ver /\ (form.ready /\ form.key = "article" /\ form.ver = h.ver => form.base = h.text)
      BY <1>5, <1>11, FieldsAreTyped DEF BufferInv, Versions
    <2>6. h.ver = 0 => ~h.there
      <3>1. h.ver # 0
        BY <1>4, <1>5
      <3> QED BY <3>1
    <2> QED BY <1>1, <1>3, <2>3, <2>4, <2>5, <2>6 DEF Versions
  <1>13. Pages'
    <2>1. Mine(b)' => Awaits(b)'
      BY <1>1, <1>7 DEF BufferInv, Pages, Mine, Awaits
    <2>2. \A c \in asks : Mine(c)' => Awaits(c)'
      BY <1>1 DEF BufferInv, Pages, Mine, Awaits
    <2>3. \A c, d \in asks' : c.n = d.n /\ c.n # 0 => c = d
      BY <1>7, <1>8 DEF BufferInv, Pages
    <2> QED BY <1>1, <1>7, <1>8, <2>1, <2>2, <2>3 DEF BufferInv, Pages
  <1>14. Origins'
    <2>1. \A t : Taken(t) => Taken(t)'
      BY <1>9 DEF Taken
    <2>2. \A t : Known(t) <=> Known(t)'
      BY <1>1 DEF Known
    <2>3. Taken(h.text)' /\ Taken(h.site)'
      BY <1>4, <1>9, <2>1, EmptyOnes DEF BufferInv, Origins, Taken
    <2>4. saves => a.text # Blank
      BY DEF BufferInv, Origins
    <2>5. Known(a.text)
      BY DEF BufferInv, Origins
    <2>6. Blank \notin reached' /\ \A t \in reached' : Known(t)'
      BY <1>9, <2>2, <2>4, <2>5 DEF BufferInv, Origins
    <2>7. \A c \in asks' : /\ c.answer = "ok" => Taken(c.got.text)'
                           /\ Known(c.text)' /\ (c.kind \in {"create", "save"} => c.text # Blank)
      BY <1>7, <1>8, <2>1, <2>2, <2>3, <2>4, <2>5 DEF BufferInv, Origins
    <2>8. \A k \in Keys : work'[k] = Blank \/ (work'[k] <= typed /\ work'[k] \notin reached')
      BY <1>9 DEF BufferInv, Origins
    <2>9. Taken(form.base)'
      BY <1>1, <2>1 DEF BufferInv, Origins, Taken
    <2>10. Known(form.text)' /\ \A k \in Keys : Known(buffers[k].text)'
      BY <1>1, <2>2 DEF BufferInv, Origins, Known
    <2> QED BY <1>1, <1>3, <2>3, <2>6, <2>7, <2>8, <2>9, <2>10 DEF BufferInv, Origins, Taken
  <1>15. Rest'
    BY <1>1, <1>9 DEF BufferInv, Rest, Rests, Writing
  <1>16. NewIsBare'
    BY <1>1 DEF BufferInv, NewIsBare
  <1> QED BY <1>10, <1>12, <1>13, <1>14, <1>15, <1>16 DEF BufferInv

\* The colleague's step makes another version.
LEMMA ElsewhereKeeps ==
  ASSUME BufferInv, Elsewhere
  PROVE  BufferInv'
  <1>1. PICK h : h = held'
    OBVIOUS
  <1>2. PICK theirs \in Nat : theirs = MaxTexts + (elsewhere + 1)
    BY EditorAssumption DEF BufferInv, BufferTypes
  <1>3. /\ held.there /\ elsewhere' = elsewhere + 1
        /\ h \in CASE held.status = "draft" -> {Saves(held, theirs), Publishes(held)}
                   [] held.edit = "none" -> {[Saves(held, theirs) EXCEPT !.edit = "theirs"]}
                   [] held.edit = "theirs" -> {DropsEdit(held), Publishes(held)}
                   [] OTHER -> {DropsEdit(held)}
        /\ UNCHANGED <<form, buffers, asks, typed, asked, work, reached, behind>>
    BY <1>1, <1>2 DEF Elsewhere
  <1>4. h \in {Saves(held, theirs), Publishes(held), DropsEdit(held), [Saves(held, theirs) EXCEPT !.edit = "theirs"]}
    BY <1>3
  <1>5. held \in Articles /\ held.ver \in Nat
    BY FieldsAreTyped DEF BufferInv, BufferTypes
  <1>6. h \in Articles /\ h.ver = held.ver + 1 /\ h.text \in {theirs, held.text, held.site} /\ h.site \in {held.text, held.site}
    <2>1. PICK v \in Articles : v = Saves(held, theirs)
      BY <1>5, ServiceMakes
    <2>2. v.ver = held.ver + 1 /\ v.text = theirs /\ v.site = held.site
      BY <1>5, <2>1, ServiceMakes
    <2>3. /\ [v EXCEPT !.edit = "theirs"] \in Articles /\ [v EXCEPT !.edit = "theirs"].ver = v.ver
          /\ [v EXCEPT !.edit = "theirs"].text = v.text /\ [v EXCEPT !.edit = "theirs"].site = v.site
      BY DEF Articles
    <2>4. CASE h = v
      BY <2>2, <2>4
    <2>5. CASE h = [v EXCEPT !.edit = "theirs"]
      BY <2>2, <2>3, <2>5
    <2>6. CASE h = Publishes(held) \/ h = DropsEdit(held)
      BY <1>2, <1>5, <2>6, ServiceMakes
    <2> QED BY <1>4, <2>1, <2>4, <2>5, <2>6
  <1>7. held.ver # 0 /\ theirs > MaxTexts
    BY <1>2, <1>3, EditorAssumption DEF BufferInv, Versions, BufferTypes
  <1>8. BufferTypes'
    BY <1>1, <1>3, <1>6 DEF BufferInv, BufferTypes
  <1>9. Versions'
    <2>1. \A a \in asks : Fresh(a)'
      BY <1>1, <1>3, <1>5, <1>6, <1>7, FieldsAreTyped DEF BufferInv, Versions, Fresh
    <2>2. form'.ver <= h.ver /\ form'.ver # h.ver /\ h.ver # 0
      BY <1>3, <1>5, <1>6, FieldsAreTyped DEF BufferInv, Versions
    <2> QED BY <1>1, <1>3, <2>1, <2>2 DEF BufferInv, Versions
  <1>10. Pages'
    BY <1>3 DEF BufferInv, Pages, Mine, Awaits
  <1>11. Origins'
    BY <1>1, <1>3, <1>6, <1>7 DEF BufferInv, Origins, Taken, Known
  <1>12. Rest' /\ NewIsBare'
    BY <1>3 DEF BufferInv, Rest, Rests, Writing, NewIsBare
  <1> QED BY <1>8, <1>9, <1>10, <1>11, <1>12 DEF BufferInv

\* A page with an answer of its own waits for no other.
LEMMA OneForAPage ==
  ASSUME BufferInv, NEW a \in asks, Mine(a)
  PROVE  Awaits(a) /\ a.n = form.n /\ a.n # 0 /\ form.up /\ \A c \in asks \ {a} : c.n # form.n
  BY FieldsAreTyped DEF BufferInv, Pages, Mine

\* What goes on from an answered save is of the text that was saved.
LEMMA GoesOnFresh ==
  ASSUME BufferInv, NEW a \in asks, a.answer = "ok", NEW g \in GoesOn(a)
  PROVE  Fresh(g) /\ Known(g.text) /\ g.kind = "publish" /\ g.n = a.n /\ g \in Requests /\ g.answer = "none" /\ g.then = "none"
  <1>1. /\ g \in Requests /\ g.kind = "publish" /\ g.n = a.n /\ g.text = a.text /\ g.ver = a.got.ver
        /\ g.then = "none" /\ g.answer = "none" /\ g.got.ver = 0 /\ a.then = "publish"
    BY GoesOnMakes, FieldsAreTyped DEF BufferInv
  <1>2. Fresh(a) /\ Known(a.text) /\ held.ver \in Nat
    BY FieldsAreTyped DEF BufferInv, Versions, Origins
  <1> QED BY <1>1, <1>2 DEF Fresh

\* A save, or a publication, is answered on its page: what was typed since stays, and stays dirty.
LEMMA SavedHereKeeps ==
  ASSUME BufferInv, NEW a \in asks, SavedHere(a)
  PROVE  BufferInv'
  <1> DEFINE made == a.kind = "create"
  <1>1. /\ a.kind \in {"create", "save", "publish"} /\ a.answer = "ok" /\ Mine(a)
        /\ asks' = (asks \ {a}) \union GoesOn(a)
        /\ Renders([AdoptSaved(form, a.got) EXCEPT !.busy = IF a.then = "publish" THEN "publish" ELSE "none"],
                   IF made THEN [buffers EXCEPT !["new"] = NoBuffer] ELSE buffers)
        /\ work' = IF made THEN [new |-> Blank, article |-> work["new"]] ELSE work
        /\ UNCHANGED <<held, typed, asked, elsewhere, reached, behind>>
    BY DEF SavedHere
  <1>2. /\ form.up /\ form.ready /\ ~form.locked /\ (made <=> form.key = "new") /\ form.key \in Keys
        /\ a.n = form.n /\ a.n # 0 /\ \A c \in asks \ {a} : c.n # form.n
    BY <1>1, OneForAPage, FieldsAreTyped DEF BufferInv, Awaits
  <1>3. /\ a \in Requests /\ a.got \in Articles /\ a.got.ver \in Nat /\ a.got.text \in Nat /\ form \in Forms /\ Taken(a.got.text) /\ Fresh(a)
        /\ held.ver \in Nat
    BY <1>1, FieldsAreTyped DEF BufferInv, BufferTypes, Origins, Versions
  <1>4. PICK y \in {"publish", "none"} : y = IF a.then = "publish" THEN "publish" ELSE "none"
    OBVIOUS
  <1>5. PICK f \in Forms :
          /\ f = [AdoptSaved(form, a.got) EXCEPT !.busy = y]
          /\ f.up = form.up /\ f.n = form.n /\ f.key = "article" /\ f.ready = form.ready /\ f.ver = a.got.ver /\ f.text = form.text
          /\ f.base = a.got.text /\ f.locked = form.locked /\ f.busy = y
    <2> DEFINE g == [AdoptSaved(form, a.got) EXCEPT !.busy = y]
    <2>1. PICK e \in BOOLEAN : e = (a.got.status = "published" /\ a.got.edit = "mine")
      OBVIOUS
    <2>2. g = [form EXCEPT !.key = "article", !.ver = a.got.ver, !.base = a.got.text, !.status = a.got.status, !.frozen = a.got.frozen,
                           !.live = e, !.busy = y]
      BY <2>1, <1>3 DEF AdoptSaved, Forms
    <2>3. a.got.status \in {"draft", "published"} /\ a.got.frozen \in BOOLEAN
      BY <1>3 DEF Articles
    <2>4. g \in Forms
      BY <1>3, <2>2, <2>3 DEF Forms, Keys
    <2>5. /\ g.up = form.up /\ g.n = form.n /\ g.key = "article" /\ g.ready = form.ready /\ g.ver = a.got.ver /\ g.text = form.text
          /\ g.base = a.got.text /\ g.locked = form.locked /\ g.busy = y
      BY <1>3, <2>2 DEF Forms
    <2> QED BY <2>4, <2>5
  <1>6. PICK b \in [Keys -> Buffers] :
          b = (IF made THEN [buffers EXCEPT !["new"] = NoBuffer] ELSE buffers)
    BY EmptyOnes DEF BufferInv, BufferTypes
  <1>7. b["article"] = buffers["article"] /\ b["new"] = IF made THEN NoBuffer ELSE buffers["new"]
    BY <1>6 DEF BufferInv, BufferTypes, Keys
  <1>8. /\ Renders(f, b)
        /\ f.up = form.up /\ f.n = form.n /\ f.key = "article" /\ f.ready = form.ready /\ f.ver = a.got.ver /\ f.text = form.text
        /\ f.base = a.got.text /\ f.locked = form.locked /\ f.busy = y
    BY <1>1, <1>4, <1>5, <1>6
  <1>9. /\ form' \in Forms /\ form'.up /\ form'.n = form.n /\ form'.key = "article" /\ form'.ready /\ form'.ver = a.got.ver
        /\ form'.text = form.text /\ form'.base = a.got.text /\ ~form'.locked /\ form'.busy = y
        /\ form'.timer = (form.text # a.got.text) /\ buffers' \in [Keys -> Buffers]
    <2>1. f \in Forms /\ b \in [Keys -> Buffers] /\ Renders(f, b)
      BY <1>5, <1>6, <1>8
    <2>2. /\ form' \in Forms /\ form'.up = f.up /\ form'.n = f.n /\ form'.key = f.key /\ form'.ready = f.ready /\ form'.ver = f.ver
          /\ form'.text = f.text /\ form'.base = f.base /\ form'.locked = f.locked /\ form'.busy = f.busy
          /\ form'.timer = (f.ready /\ f.text # f.base /\ ~f.locked) /\ buffers' \in [Keys -> Buffers]
      BY <2>1, Rendered
    <2> QED BY <1>2, <1>8, <2>2
  <1>10. /\ buffers'["new"] = b["new"]
         /\ buffers'["article"] = IF form.text = a.got.text THEN NoBuffer ELSE b["article"]
    <2>1. f \in Forms /\ b \in [Keys -> Buffers] /\ Renders(f, b)
      BY <1>5, <1>6, <1>8
    <2>2. \A k \in Keys : buffers'[k] = IF k = f.key /\ f.ready /\ ~f.locked /\ f.text = f.base THEN NoBuffer ELSE b[k]
      BY <2>1, Rendered
    <2> QED BY <1>2, <1>8, <2>2 DEF Keys
  <1>11. /\ work' \in [Keys -> Nat] /\ work'["new"] = IF made THEN Blank ELSE work["new"]
         /\ work'["article"] = IF made THEN work["new"] ELSE work["article"]
    BY <1>1, EmptyOnes DEF BufferInv, BufferTypes, Keys
  <1>12. BufferTypes'
    BY <1>1, <1>3, <1>9, <1>11, GoesOnMakes DEF BufferInv, BufferTypes
  <1>13. Versions'
    <2>1. \A g \in GoesOn(a) : Fresh(g) /\ g.kind = "publish"
      BY <1>1, GoesOnFresh
    <2>2. \A c \in asks' : Fresh(c)'
      BY <1>1, <2>1 DEF BufferInv, Versions, Fresh
    <2> QED BY <1>1, <1>3, <1>9, <2>1, <2>2 DEF BufferInv, Versions, Fresh
  <1>14. Pages'
    <2>1. \A g \in GoesOn(a) : g.kind = "publish" /\ g.n = form.n /\ a.then = "publish" /\ \A c \in GoesOn(a) : c = g
      BY <1>2, <1>3, GoesOnMakes
    <2>2. \A c \in asks' : c \in GoesOn(a) \/ (c \in asks /\ c.n # form.n)
      BY <1>1, <1>2
    <2>3. \A c \in asks' : c.n <= form'.n /\ (Mine(c)' => Awaits(c)')
      BY <1>2, <1>4, <1>9, <2>1, <2>2, FieldsAreTyped DEF BufferInv, Pages, Mine, Awaits
    <2>4. \A c, d \in asks' : c.n = d.n /\ c.n # 0 => c = d
      BY <2>1, <2>2 DEF BufferInv, Pages
    <2> QED BY <1>2, <1>9, <2>3, <2>4 DEF BufferInv, Pages
  <1>15. Origins'
    <2>1. \A g \in GoesOn(a) : g.kind = "publish" /\ g.answer = "none" /\ Known(g.text)
      BY <1>1, GoesOnFresh
    <2>2. Blank <= typed /\ Known(Blank)
      BY EmptyOnes, FieldsAreTyped DEF BufferInv, Known
    <2>3. \A c \in asks' : /\ c.answer = "ok" => Taken(c.got.text)
                           /\ Known(c.text) /\ (c.kind \in {"create", "save"} => c.text # Blank)
      BY <1>1, <2>1 DEF BufferInv, Origins
    <2>4. \A k \in Keys : Known(buffers'[k].text) /\ (work'[k] = Blank \/ (work'[k] <= typed /\ work'[k] \notin reached))
      BY <1>7, <1>10, <1>11, <2>2, EmptyOnes DEF BufferInv, Origins, Keys
    <2> QED BY <1>1, <1>3, <1>9, <2>3, <2>4 DEF BufferInv, Origins, Taken, Known
  <1>16. ASSUME ~behind', work'["article"] # Blank
         PROVE  work'["article"] = form'.text /\ form'.timer
    <2>1. work'["article"] = work[form.key]
      BY <1>2, <1>11 DEF Keys
    <2>2. work[form.key] = form.text
      BY <1>1, <1>2, <1>16, <2>1 DEF BufferInv, Rest, Rests, Writing
    <2>3. form.text # a.got.text
      BY <1>2, <1>3, <1>16, <2>1, <2>2, CleanIsSaved
    <2> QED BY <1>9, <2>1, <2>2, <2>3
  <1>17. ASSUME ~behind', work'["new"] # Blank
         PROVE  work'["new"] = buffers'["new"].text
    <2>1. ~made /\ work'["new"] = work["new"] /\ form.key = "article"
      BY <1>2, <1>11, <1>17 DEF Keys
    <2>2. work["new"] = buffers["new"].text
      BY <1>1, <1>17, <2>1 DEF BufferInv, Rest, Rests, Keys
    <2> QED BY <1>7, <1>10, <2>1, <2>2
  <1>18. Rest'
    BY <1>9, <1>16, <1>17 DEF Rest, Rests, Writing, Keys
  <1>19. NewIsBare'
    BY <1>9 DEF NewIsBare
  <1> QED BY <1>12, <1>13, <1>14, <1>15, <1>18, <1>19 DEF BufferInv

\* An answer to a page he has left changes no form.
LEMMA SavedBehindKeeps ==
  ASSUME BufferInv, NEW a \in asks, SavedBehind(a)
  PROVE  BufferInv'
  <1>1. /\ a.answer = "ok" /\ ~Mine(a) /\ asks' = (asks \ {a}) \union GoesOn(a) /\ a \in Requests
        /\ UNCHANGED <<form, buffers, held, typed, asked, elsewhere, work, reached, behind>>
    BY FieldsAreTyped DEF SavedBehind, BufferInv
  <1>2. \A g \in GoesOn(a) : /\ g \in Requests /\ Fresh(g) /\ Known(g.text) /\ g.kind = "publish" /\ g.n = a.n /\ g.answer = "none"
                             /\ \A c \in GoesOn(a) : c = g
    BY <1>1, GoesOnFresh, GoesOnMakes
  <1>3. BufferTypes'
    BY <1>1, <1>2 DEF BufferInv, BufferTypes
  <1>4. Versions'
    BY <1>1, <1>2 DEF BufferInv, Versions, Fresh
  <1>5. Pages'
    BY <1>1, <1>2 DEF BufferInv, Pages, Mine, Awaits
  <1>6. Origins'
    BY <1>1, <1>2 DEF BufferInv, Origins, Taken, Known
  <1>7. Rest' /\ NewIsBare'
    BY <1>1 DEF BufferInv, Rest, Rests, Writing, NewIsBare
  <1> QED BY <1>3, <1>4, <1>5, <1>6, <1>7 DEF BufferInv

\* Turned down, or answered to nobody.
LEMMA UnheardKeeps ==
  ASSUME BufferInv, NEW a \in asks, Fails(a) \/ ToNobody(a)
  PROVE  BufferInv'
  <1>1. /\ asks' = asks \ {a} /\ UNCHANGED <<buffers, held, typed, asked, elsewhere, work, reached, behind>>
        /\ form' = form \/ (Mine(a) /\ form' = [form EXCEPT !.busy = "none"])
    BY DEF Fails, ToNobody
  <1>2. /\ form' \in Forms /\ form'.up = form.up /\ form'.n = form.n /\ form'.key = form.key /\ form'.ready = form.ready
        /\ form'.ver = form.ver /\ form'.text = form.text /\ form'.base = form.base /\ form'.locked = form.locked
        /\ form'.timer = form.timer /\ form'.live = form.live /\ form'.status = form.status
    BY <1>1 DEF BufferInv, BufferTypes, Forms
  <1>3. BufferTypes'
    BY <1>1, <1>2 DEF BufferInv, BufferTypes
  <1>4. Versions'
    BY <1>1, <1>2 DEF BufferInv, Versions, Fresh
  <1>5. Pages'
    <2>1. CASE form' = form
      BY <1>1, <2>1 DEF BufferInv, Pages, Mine, Awaits
    <2>2. CASE Mine(a)
      <3>1. \A c \in asks' : ~Mine(c)'
        BY <1>1, <1>2, <2>2, OneForAPage DEF Mine
      <3> QED BY <1>1, <1>2, <3>1 DEF BufferInv, Pages
    <2> QED BY <1>1, <2>1, <2>2
  <1>6. Origins'
    BY <1>1, <1>2 DEF BufferInv, Origins, Taken, Known
  <1>7. Rest' /\ NewIsBare'
    BY <1>1, <1>2 DEF BufferInv, Rest, Rests, Writing, NewIsBare
  <1> QED BY <1>3, <1>4, <1>5, <1>6, <1>7 DEF BufferInv

\* What is on a clean form is nothing of his, so his unsaved work is in the buffer.
LEMMA CleanLeavesNothing ==
  ASSUME BufferInv, ~behind, ~(form.up /\ Dirty(form)), NEW k \in Keys, work[k] # Blank
  PROVE  buffers[k].text = work[k]
  <1>1. Rests(k)
    BY DEF BufferInv, Rest
  <1>2. CASE Writing /\ form.key = k
    <2>1. form.text = form.base /\ work[k] = form.text
      BY <1>1, <1>2 DEF Rests, Writing, Dirty
    <2> QED BY <2>1, CleanIsSaved DEF BufferInv, Origins, Taken
  <1> QED BY <1>1, <1>2 DEF Rests

\* The new article of a page he had left is made: the page that is open gives way to it.
LEMMA CreatedBehindKeeps ==
  ASSUME BufferInv, NEW a \in asks, CreatedBehind(a)
  PROVE  BufferInv'
  <1>2. form.n \in Nat /\ form.n + 1 \in Nat /\ a \in Requests /\ \A c \in asks : c.n \in Nat /\ c.n <= form.n
    BY FieldsAreTyped DEF BufferInv, Pages
  <1>3. PICK r \in Requests : /\ r.kind = "get" /\ r.n = form.n + 1 /\ r.text = Blank /\ r.ver = 0 /\ r.then = "none" /\ r.answer = "none"
                              /\ r.got.ver = 0 /\ r = Request("get", form.n + 1, NoForm, "none")
    BY <1>2, ReadMade
  <1>1. /\ a.kind = "create" /\ a.answer = "ok" /\ a.n # 0
        /\ buffers' = [buffers EXCEPT !["new"] = NoBuffer]
        /\ behind' = (behind \/ work["new"] # Blank \/ (form.up /\ Dirty(form)))
        /\ form' = Opening(form.n + 1) /\ asks' = (asks \ {a}) \union GoesOn(a) \union {r}
        /\ UNCHANGED <<held, typed, asked, elsewhere, work, reached>>
    BY <1>3 DEF CreatedBehind
  <1>4. /\ form' \in Forms /\ form'.up /\ form'.n = form.n + 1 /\ form'.key = "article" /\ ~form'.ready /\ form'.ver = 0
        /\ form'.text = Blank /\ form'.base = Blank /\ ~form'.timer
    BY <1>1, <1>2, OpeningMade
  <1>5. \A g \in GoesOn(a) : /\ g \in Requests /\ Fresh(g) /\ Known(g.text) /\ g.kind = "publish" /\ g.n = a.n /\ g.answer = "none"
                             /\ \A c \in GoesOn(a) : c = g
    BY <1>1, <1>2, GoesOnFresh, GoesOnMakes
  <1>6. buffers' \in [Keys -> Buffers] /\ buffers'["new"] = NoBuffer /\ buffers'["article"] = buffers["article"]
    BY <1>1, EmptyOnes DEF BufferInv, BufferTypes, Keys
  <1>7. BufferTypes'
    BY <1>1, <1>3, <1>4, <1>5, <1>6 DEF BufferInv, BufferTypes
  <1>8. Versions'
    <2>1. Fresh(r)
      BY <1>3, FieldsAreTyped DEF BufferInv, Fresh
    <2>2. \A c \in asks' : Fresh(c)'
      BY <1>1, <1>5, <2>1 DEF BufferInv, Versions, Fresh
    <2>3. \A c, d \in asks' : c.kind = "create" /\ d.kind = "create" => c = d
      BY <1>1, <1>3, <1>5 DEF BufferInv, Versions
    <2> QED BY <1>1, <1>4, <2>2, <2>3, FieldsAreTyped DEF BufferInv, Versions
  <1>9. Pages'
    <2>1. \A c \in asks' : c = r \/ (c.n <= form.n /\ (c \in GoesOn(a) \/ (c \in asks /\ c # a)))
      BY <1>1, <1>2, <1>5
    <2>2. Awaits(r)'
      BY <1>3, <1>4 DEF Awaits
    <2>3. \A c \in asks' : c.n <= form'.n /\ (Mine(c)' => Awaits(c)')
      BY <1>2, <1>3, <1>4, <2>1, <2>2, <1>5, <1>1 DEF Mine
    <2>4. \A c, d \in asks' : c.n = d.n /\ c.n # 0 => c = d
      BY <1>2, <1>3, <1>5, <2>1 DEF BufferInv, Pages
    <2> QED BY <1>2, <1>4, <2>3, <2>4 DEF Pages
  <1>10. Origins'
    <2>1. Known(Blank)
      BY EmptyOnes, FieldsAreTyped DEF BufferInv, Known
    <2>2. \A c \in asks' : /\ c.answer = "ok" => Taken(c.got.text)
                           /\ Known(c.text) /\ (c.kind \in {"create", "save"} => c.text # Blank)
      BY <1>1, <1>3, <1>5, <2>1 DEF BufferInv, Origins
    <2> QED BY <1>1, <1>4, <1>6, <2>1, <2>2, EmptyOnes DEF BufferInv, Origins, Taken, Known, Keys
  <1>11. Rest'
    <2>1. SUFFICES ASSUME ~behind' PROVE \A k \in Keys : Rests(k)'
      BY <1>4 DEF Rest
    <2>2. ~behind /\ work["new"] = Blank /\ ~(form.up /\ Dirty(form))
      BY <1>1, <2>1 DEF BufferInv, BufferTypes
    <2>3. work["article"] # Blank => buffers["article"].text = work["article"]
      BY <2>2, CleanLeavesNothing DEF Keys
    <2> QED BY <1>1, <1>4, <1>6, <2>2, <2>3 DEF Rests, Writing, Keys
  <1>12. NewIsBare'
    BY <1>4 DEF NewIsBare
  <1> QED BY <1>7, <1>8, <1>9, <1>10, <1>11, <1>12 DEF BufferInv

\* An edit is dropped: its buffer goes, and the page waits for the article as it now is.
LEMMA DiscardedKeeps ==
  ASSUME BufferInv, NEW a \in asks, Discarded(a)
  PROVE  BufferInv'
  <1>1. PICK r : r = [a EXCEPT !.kind = "get", !.answer = "none", !.then = "discard", !.got = NoArticle]
    OBVIOUS
  <1>2. /\ a.kind = "discard" /\ a.answer = "ok" /\ a.n # 0
        /\ buffers' = [buffers EXCEPT !["article"] = NoBuffer] /\ asks' = (asks \ {a}) \union {r}
        /\ IF Mine(a) THEN work' = [work EXCEPT !["article"] = Blank] /\ UNCHANGED behind
           ELSE behind' = (behind \/ work["article"] # Blank) /\ UNCHANGED work
        /\ UNCHANGED <<form, held, typed, asked, elsewhere, reached>>
    BY <1>1 DEF Discarded, Drops
  <1>3. a \in Requests
    BY FieldsAreTyped DEF BufferInv
  <1>4. /\ r \in Requests /\ r.kind = "get" /\ r.answer = "none" /\ r.then = "discard" /\ r.got.ver = 0 /\ r.n = a.n /\ r.text = a.text
        /\ r.ver = a.ver
    BY <1>1, <1>3, EmptyOnes DEF Requests
  <1>5. buffers' \in [Keys -> Buffers] /\ buffers'["article"] = NoBuffer /\ buffers'["new"] = buffers["new"]
    BY <1>2, EmptyOnes DEF BufferInv, BufferTypes, Keys
  <1>6. /\ work' \in [Keys -> Nat] /\ work'["new"] = work["new"] /\ (work'["article"] = Blank \/ UNCHANGED work)
        /\ behind' \in BOOLEAN /\ (behind => behind') /\ (~behind' => work'["article"] = Blank)
    <2>1. CASE Mine(a)
      <3>1. work' = [work EXCEPT !["article"] = Blank] /\ UNCHANGED behind
        BY <1>2, <2>1
      <3> QED BY <3>1, EmptyOnes DEF BufferInv, BufferTypes, Keys
    <2>2. CASE ~Mine(a)
      <3>1. behind' = (behind \/ work["article"] # Blank) /\ UNCHANGED work
        BY <1>2, <2>2
      <3> QED BY <3>1 DEF BufferInv, BufferTypes
    <2> QED BY <2>1, <2>2
  <1>7. BufferTypes'
    BY <1>2, <1>4, <1>5, <1>6 DEF BufferInv, BufferTypes
  <1>8. Versions'
    <2>1. Fresh(r)
      BY <1>2, <1>4, FieldsAreTyped DEF BufferInv, Versions, Fresh
    <2> QED BY <1>2, <1>4, <2>1 DEF BufferInv, Versions, Fresh
  <1>9. Pages'
    <2>1. Mine(r)' => Awaits(r)'
      BY <1>2, <1>4 DEF BufferInv, Pages, Mine, Awaits
    <2>2. \A c \in asks : c.n <= form.n /\ (Mine(c)' => Awaits(c)')
      BY <1>2 DEF BufferInv, Pages, Mine, Awaits
    <2>3. \A c, d \in asks' : c.n = d.n /\ c.n # 0 => c = d
      BY <1>2, <1>4 DEF BufferInv, Pages
    <2> QED BY <1>2, <1>4, <2>1, <2>2, <2>3 DEF BufferInv, Pages
  <1>10. Origins'
    <2>1. Known(Blank)
      BY EmptyOnes, FieldsAreTyped DEF BufferInv, Known
    <2>2. \A c \in asks' : /\ c.answer = "ok" => Taken(c.got.text)
                           /\ Known(c.text) /\ (c.kind \in {"create", "save"} => c.text # Blank)
      BY <1>2, <1>4 DEF BufferInv, Origins
    <2>3. \A k \in Keys : work'[k] = Blank \/ (work'[k] <= typed /\ work'[k] \notin reached)
      BY <1>6 DEF BufferInv, Origins, Keys
    <2> QED BY <1>2, <1>5, <2>1, <2>2, <2>3, EmptyOnes DEF BufferInv, Origins, Taken, Known, Keys
  <1>11. Rest'
    <2>1. SUFFICES ASSUME ~behind' PROVE Rests("new")' /\ Rests("article")'
      BY <1>2 DEF BufferInv, Rest, Writing, Keys
    <2>2. Rests("new")
      BY <1>6, <2>1 DEF BufferInv, Rest, Keys
    <2> QED BY <1>2, <1>5, <1>6, <2>1, <2>2 DEF Rests, Writing
  <1>12. NewIsBare'
    BY <1>2 DEF BufferInv, NewIsBare
  <1> QED BY <1>7, <1>8, <1>9, <1>10, <1>11, <1>12 DEF BufferInv

\* The article is read again after his edit was dropped: what he typed meanwhile goes with it.
LEMMA ReadAgainKeeps ==
  ASSUME BufferInv, NEW a \in asks, ReadAgain(a)
  PROVE  BufferInv'
  <1>1. PICK f : f = [Adopted(form, a.got) EXCEPT !.busy = "none"]
    OBVIOUS
  <1>2. /\ a.kind = "get" /\ a.then = "discard" /\ a.answer = "ok" /\ Mine(a) /\ asks' = asks \ {a}
        /\ Renders(f, buffers) /\ work' = [work EXCEPT !["article"] = Blank]
        /\ UNCHANGED <<held, typed, asked, elsewhere, reached, behind>>
    BY <1>1 DEF ReadAgain, Drops
  <1>3. a.got \in Articles /\ form \in Forms /\ buffers \in [Keys -> Buffers]
    BY FieldsAreTyped DEF BufferInv, BufferTypes
  <1>4. /\ f \in Forms /\ f.up = form.up /\ f.n = form.n /\ f.key = "article" /\ f.ready /\ f.ver = a.got.ver /\ f.text = a.got.text
        /\ f.base = a.got.text
    <2>1. Adopted(form, a.got) \in Forms
      BY <1>3 DEF Adopted, Forms, Articles, Keys
    <2>2. /\ Adopted(form, a.got).up = form.up /\ Adopted(form, a.got).n = form.n /\ Adopted(form, a.got).key = "article"
          /\ Adopted(form, a.got).ready /\ Adopted(form, a.got).ver = a.got.ver /\ Adopted(form, a.got).text = a.got.text
          /\ Adopted(form, a.got).base = a.got.text
      BY <1>3 DEF Adopted, Forms
    <2> QED BY <1>1, <2>1, <2>2 DEF Forms
  <1>5. /\ form.key = "article" /\ form.up /\ \A c \in asks' : c.n # form.n
    BY <1>2, OneForAPage, FieldsAreTyped DEF BufferInv, Awaits, Keys
  <1>6. /\ form' \in Forms /\ form'.up = form.up /\ form'.n = form.n /\ form'.key = "article" /\ form'.ready /\ form'.ver = a.got.ver
        /\ form'.text = a.got.text /\ form'.base = a.got.text /\ ~form'.timer /\ buffers' \in [Keys -> Buffers]
    BY <1>2, <1>3, <1>4, Rendered
  <1>7. buffers'["new"] = buffers["new"] /\ (buffers'["article"] = NoBuffer \/ buffers'["article"] = buffers["article"])
    <2>1. \A k \in Keys : buffers'[k] = IF k = f.key /\ f.ready /\ ~f.locked /\ f.text = f.base THEN NoBuffer ELSE buffers[k]
      BY <1>2, <1>3, <1>4, Rendered
    <2> QED BY <1>4, <2>1 DEF Keys
  <1>8. work' \in [Keys -> Nat] /\ work'["new"] = work["new"] /\ work'["article"] = Blank
    BY <1>2, EmptyOnes DEF BufferInv, BufferTypes, Keys
  <1>9. BufferTypes'
    BY <1>2, <1>6, <1>8 DEF BufferInv, BufferTypes
  <1>10. Versions'
    BY <1>2, <1>6 DEF BufferInv, Versions, Fresh
  <1>11. Pages'
    BY <1>2, <1>5, <1>6 DEF BufferInv, Pages, Mine
  <1>12. Origins'
    <2>1. Taken(a.got.text) /\ Known(a.got.text) /\ Known(Blank)
      BY <1>2, TakenIsKnown, EmptyOnes, FieldsAreTyped DEF BufferInv, Origins, Known
    <2>2. \A k \in Keys : /\ Known(buffers'[k].text)
                          /\ work'[k] = Blank \/ (work'[k] <= typed /\ work'[k] \notin reached)
      BY <1>7, <1>8, <2>1, EmptyOnes DEF BufferInv, Origins, Keys
    <2> QED BY <1>2, <1>6, <2>1, <2>2 DEF BufferInv, Origins, Taken, Known
  <1>13. Rest'
    BY <1>2, <1>5, <1>6, <1>7, <1>8 DEF BufferInv, Rest, Rests, Writing, Keys
  <1>14. NewIsBare'
    BY <1>6 DEF NewIsBare
  <1> QED BY <1>9, <1>10, <1>11, <1>12, <1>13, <1>14 DEF BufferInv

\* No page is open: its number is kept, so that what it asked is not taken for what the next one asks.
LEMMA PageLeft ==
  ASSUME NEW n \in Nat
  PROVE  /\ [NoForm EXCEPT !.n = n] \in Forms /\ ~[NoForm EXCEPT !.n = n].up /\ [NoForm EXCEPT !.n = n].n = n
         /\ [NoForm EXCEPT !.n = n].ver = 0 /\ [NoForm EXCEPT !.n = n].text = Blank /\ [NoForm EXCEPT !.n = n].base = Blank
         /\ ~[NoForm EXCEPT !.n = n].ready /\ ~[NoForm EXCEPT !.n = n].timer /\ ~[NoForm EXCEPT !.n = n].locked
         /\ ~[NoForm EXCEPT !.n = n].live /\ [NoForm EXCEPT !.n = n].status = "draft"
  <1>1. ~NoForm.live /\ NoForm.status = "draft"
    BY DEF NoForm
  <1> QED BY <1>1, EmptyOnes DEF Forms

\* The article is gone, or off the site.
LEMMA ToTheDeskKeeps ==
  ASSUME BufferInv, NEW a \in asks, ToTheDesk(a)
  PROVE  BufferInv'
  <1>1. PICK goes \in IF Mine(a) \/ ~Dirty(form) THEN {TRUE} ELSE BOOLEAN :
          LET let == (IF Mine(a) THEN {"article"} ELSE {}) \union IF goes /\ form.up /\ Dirty(form) THEN {form.key} ELSE {}
          IN /\ form' = IF goes THEN [NoForm EXCEPT !.n = form.n] ELSE form
             /\ buffers' = [k \in Keys |-> IF k \in let \union {"article"} THEN NoBuffer ELSE buffers[k]]
             /\ work' = [k \in Keys |-> IF k \in let THEN Blank ELSE work[k]]
             /\ behind' = (behind \/ work'["article"] # Blank)
    BY DEF ToTheDesk
  <1>2. goes \in BOOLEAN /\ (~goes => ~Mine(a))
    BY <1>1
  <1>3. PICK let : let = (IF Mine(a) THEN {"article"} ELSE {}) \union IF goes /\ form.up /\ Dirty(form) THEN {form.key} ELSE {}
    OBVIOUS
  <1>4. /\ form' = IF goes THEN [NoForm EXCEPT !.n = form.n] ELSE form
        /\ buffers' = [k \in Keys |-> IF k \in let \union {"article"} THEN NoBuffer ELSE buffers[k]]
        /\ work' = [k \in Keys |-> IF k \in let THEN Blank ELSE work[k]]
        /\ behind' = (behind \/ work'["article"] # Blank)
    BY <1>1, <1>3
  <1>5. asks' = asks \ {a} /\ UNCHANGED <<held, typed, asked, elsewhere, reached>>
    BY DEF ToTheDesk
  <1>6. /\ ("new" \in let <=> goes /\ form.up /\ Dirty(form) /\ form.key = "new") /\ form.key \in Keys /\ form.n \in Nat
    BY <1>3, FieldsAreTyped DEF BufferInv, Keys
  <1>7. \/ form' = form /\ ~goes
        \/ /\ goes /\ form' \in Forms /\ ~form'.up /\ form'.n = form.n /\ form'.ver = 0 /\ form'.text = Blank /\ form'.base = Blank
           /\ ~form'.ready /\ ~form'.timer /\ ~form'.locked /\ ~form'.live /\ form'.status = "draft"
    BY <1>2, <1>4, <1>6, PageLeft
  <1>8. /\ buffers' \in [Keys -> Buffers] /\ \A k \in Keys : buffers'[k] = NoBuffer \/ buffers'[k] = buffers[k]
        /\ "new" \notin let => buffers'["new"] = buffers["new"]
    BY <1>4, EmptyOnes DEF BufferInv, BufferTypes, Keys
  <1>9. /\ work' \in [Keys -> Nat] /\ \A k \in Keys : work'[k] = Blank \/ work'[k] = work[k]
        /\ "new" \in let => work'["new"] = Blank
    BY <1>4, EmptyOnes DEF BufferInv, BufferTypes, Keys
  <1>10. behind' \in BOOLEAN /\ (~behind' => ~behind /\ work'["article"] = Blank)
    BY <1>4 DEF BufferInv, BufferTypes
  <1>11. BufferTypes'
    BY <1>5, <1>7, <1>8, <1>9, <1>10 DEF BufferInv, BufferTypes
  <1>12. Versions'
    <2>1. form'.ver <= held.ver /\ (form'.ready => form' = form)
      BY <1>7, FieldsAreTyped DEF BufferInv, Versions
    <2> QED BY <1>5, <2>1 DEF BufferInv, Versions, Fresh
  <1>13. Pages'
    <2>1. form'.n = form.n /\ (form'.up => form' = form)
      BY <1>7
    <2> QED BY <1>5, <2>1 DEF BufferInv, Pages, Mine, Awaits
  <1>14. Origins'
    <2>1. Known(Blank)
      BY EmptyOnes, FieldsAreTyped DEF BufferInv, Known
    <2>2. Taken(form.base)' /\ Known(form.text)'
      BY <1>5, <1>7, <2>1 DEF BufferInv, Origins, Taken, Known
    <2>3. \A k \in Keys : Known(buffers[k].text)'
      BY <1>5, <1>8, <2>1, EmptyOnes DEF BufferInv, Origins, Known
    <2> QED BY <1>5, <1>9, <2>2, <2>3 DEF BufferInv, Origins, Taken, Known
  <1>15. Rest'
    <2>1. form'.timer => Writing'
      BY <1>7 DEF BufferInv, Rest, Writing
    <2>2. SUFFICES ASSUME ~behind' PROVE Rests("new")' /\ Rests("article")'
      BY <2>1 DEF Rest, Keys
    <2>3. Rests("article")'
      BY <1>10, <2>2 DEF Rests
    <2>4. ASSUME work'["new"] # Blank
          PROVE  Rests("new")'
      <3>1. "new" \notin let /\ work'["new"] = work["new"] /\ buffers'["new"] = buffers["new"]
        BY <1>8, <1>9, <2>4 DEF Keys
      <3>2. Rests("new") /\ ~behind
        BY <1>10, <2>2 DEF BufferInv, Rest, Keys
      <3>3. CASE ~goes
        BY <1>7, <3>1, <3>2, <3>3 DEF Rests, Writing
      <3>4. CASE goes
        <4>1. buffers["new"].text = work["new"]
          <5>1. CASE form.up /\ Dirty(form)
            BY <1>6, <2>4, <3>1, <3>2, <3>4, <5>1 DEF Rests
          <5>2. CASE ~(form.up /\ Dirty(form))
            BY <2>4, <3>1, <3>2, <5>2, CleanLeavesNothing DEF Keys
          <5> QED BY <5>1, <5>2
        <4> QED BY <1>7, <3>1, <3>4, <4>1 DEF Rests, Writing
      <3> QED BY <1>2, <3>3, <3>4
    <2> QED BY <2>3, <2>4 DEF Rests
  <1>16. NewIsBare'
    BY <1>7 DEF BufferInv, NewIsBare
  <1> QED BY <1>11, <1>12, <1>13, <1>14, <1>15, <1>16 DEF BufferInv

\* He leaves the page: what he lets go goes from the buffer too.
LEMMA LeavePageKeeps ==
  ASSUME BufferInv, LeavePage
  PROVE  BufferInv'
  <1>1. /\ form.up /\ form' = [NoForm EXCEPT !.n = form.n] /\ UNCHANGED <<held, asks, typed, asked, elsewhere, reached, behind>>
        /\ IF Dirty(form) THEN /\ buffers' = [buffers EXCEPT ![form.key] = NoBuffer]
                               /\ work' = [work EXCEPT ![form.key] = Blank]
           ELSE UNCHANGED <<buffers, work>>
    BY DEF LeavePage, Drops
  <1>2. form.n \in Nat /\ form.key \in Keys
    BY FieldsAreTyped DEF BufferInv
  <1>3. /\ form' \in Forms /\ ~form'.up /\ form'.n = form.n /\ form'.ver = 0 /\ form'.text = Blank /\ form'.base = Blank
        /\ ~form'.ready /\ ~form'.timer /\ ~form'.locked /\ ~form'.live /\ form'.status = "draft"
    BY <1>1, <1>2, PageLeft
  <1>4. /\ buffers' \in [Keys -> Buffers] /\ work' \in [Keys -> Nat]
        /\ \A k \in Keys : \/ buffers'[k] = NoBuffer /\ work'[k] = Blank
                           \/ buffers'[k] = buffers[k] /\ work'[k] = work[k] /\ ~(Dirty(form) /\ form.key = k)
    <2>1. CASE Dirty(form)
      BY <1>1, <1>2, <2>1, EmptyOnes DEF BufferInv, BufferTypes
    <2>2. CASE ~Dirty(form)
      BY <1>1, <2>2 DEF BufferInv, BufferTypes
    <2> QED BY <2>1, <2>2
  <1>5. BufferTypes'
    BY <1>1, <1>3, <1>4 DEF BufferInv, BufferTypes
  <1>6. Versions'
    BY <1>1, <1>3, FieldsAreTyped DEF BufferInv, Versions, Fresh
  <1>7. Pages'
    BY <1>1, <1>3 DEF BufferInv, Pages, Mine
  <1>8. Origins'
    <2>1. Known(Blank)
      BY EmptyOnes, FieldsAreTyped DEF BufferInv, Known
    <2> QED BY <1>1, <1>3, <1>4, <2>1, EmptyOnes DEF BufferInv, Origins, Taken, Known
  <1>9. Rest'
    <2>1. SUFFICES ASSUME ~behind', NEW k \in Keys, work'[k] # Blank PROVE buffers'[k].text = work'[k]
      BY <1>3 DEF Rest, Rests, Writing
    <2>2. ~behind /\ buffers'[k] = buffers[k] /\ work'[k] = work[k] /\ ~(Dirty(form) /\ form.key = k)
      BY <1>1, <1>4, <2>1
    <2>3. CASE form.key = k
      BY <2>1, <2>2, <2>3, CleanLeavesNothing
    <2>4. CASE form.key # k
      BY <2>1, <2>2, <2>4 DEF BufferInv, Rest, Rests
    <2> QED BY <2>3, <2>4
  <1>10. NewIsBare'
    BY <1>3 DEF NewIsBare
  <1> QED BY <1>5, <1>6, <1>7, <1>8, <1>9, <1>10 DEF BufferInv

\* The tab is closed: nobody hears what is still under way, and the buffer is what is left.
LEMMA CloseTabKeeps ==
  ASSUME BufferInv, CloseTab
  PROVE  BufferInv'
  <1>1. /\ form' = [NoForm EXCEPT !.n = form.n]
        /\ work' = IF form.timer
                   THEN [work EXCEPT ![form.key] = IF buffers[form.key].text \in (1 .. typed) \ reached THEN buffers[form.key].text ELSE Blank]
                   ELSE work
        /\ asks' = {[a EXCEPT !.n = 0] : a \in {r \in asks : r.answer = "none" /\ r.kind # "get"}}
        /\ UNCHANGED <<buffers, held, typed, asked, elsewhere, reached, behind>>
    BY DEF CloseTab
  <1>2. form.n \in Nat /\ form.key \in Keys /\ typed \in Nat /\ buffers[form.key].text \in Nat
    BY FieldsAreTyped DEF BufferInv
  <1>3. /\ form' \in Forms /\ ~form'.up /\ form'.n = form.n /\ form'.ver = 0 /\ form'.text = Blank /\ form'.base = Blank
        /\ ~form'.ready /\ ~form'.timer /\ ~form'.locked /\ ~form'.live /\ form'.status = "draft"
    BY <1>1, <1>2, PageLeft
  <1>4. \A c \in asks' : \E a \in asks : c = [a EXCEPT !.n = 0] /\ a.answer = "none"
    BY <1>1
  <1>5. \A a \in asks : LET c == [a EXCEPT !.n = 0]
                        IN c \in Requests /\ c.n = 0 /\ c.kind = a.kind /\ c.text = a.text /\ c.ver = a.ver /\ c.answer = a.answer
                           /\ c.then = a.then /\ c.got = a.got
    BY DEF BufferInv, BufferTypes, Requests
  <1>6. /\ work' \in [Keys -> Nat]
        /\ \A k \in Keys : \/ work'[k] = work[k] /\ ~(form.timer /\ form.key = k)
                           \/ work'[k] = Blank
                           \/ work'[k] = buffers[k].text /\ work'[k] \in (1 .. typed) \ reached
    <2>1. CASE form.timer
      <3>1. PICK x \in Nat : x = IF buffers[form.key].text \in (1 .. typed) \ reached THEN buffers[form.key].text ELSE Blank
        BY <1>2, EmptyOnes
      <3>2. work' = [work EXCEPT ![form.key] = x]
        BY <1>1, <2>1, <3>1
      <3>3. work' \in [Keys -> Nat] /\ \A k \in Keys : work'[k] = IF k = form.key THEN x ELSE work[k]
        BY <3>2, <1>2 DEF BufferInv, BufferTypes
      <3> QED BY <3>1, <3>3
    <2>2. CASE ~form.timer
      BY <1>1, <2>2 DEF BufferInv, BufferTypes
    <2> QED BY <2>1, <2>2
  <1>7. BufferTypes'
    BY <1>1, <1>3, <1>4, <1>5, <1>6 DEF BufferInv, BufferTypes
  <1>8. Versions'
    <2>1. \A c \in asks' : Fresh(c)'
      <3>1. SUFFICES ASSUME NEW c \in asks' PROVE Fresh(c)'
        OBVIOUS
      <3>2. PICK a \in asks : c = [a EXCEPT !.n = 0]
        BY <1>4
      <3>3. c.kind = a.kind /\ c.text = a.text /\ c.ver = a.ver /\ c.answer = a.answer /\ c.then = a.then /\ c.got = a.got
        BY <1>5, <3>2
      <3>4. Fresh(a)
        BY DEF BufferInv, Versions
      <3> QED BY <1>1, <3>3, <3>4 DEF Fresh
    <2>2. \A c, d \in asks' : c.kind = "create" /\ d.kind = "create" => c = d
      <3>1. SUFFICES ASSUME NEW c \in asks', NEW d \in asks', c.kind = "create", d.kind = "create" PROVE c = d
        OBVIOUS
      <3>2. PICK a \in asks : c = [a EXCEPT !.n = 0]
        BY <1>4
      <3>3. PICK b \in asks : d = [b EXCEPT !.n = 0]
        BY <1>4
      <3>4. a.kind = "create" /\ b.kind = "create"
        BY <1>5, <3>1, <3>2, <3>3
      <3> QED BY <3>2, <3>3, <3>4 DEF BufferInv, Versions
    <2> QED BY <1>1, <1>3, <2>1, <2>2, FieldsAreTyped DEF BufferInv, Versions
  <1>9. Pages'
    <2>1. \A c \in asks' : c.n = 0
      BY <1>4, <1>5
    <2> QED BY <1>2, <1>3, <2>1 DEF Pages, Mine
  <1>10. Origins'
    <2>1. Known(Blank)
      BY EmptyOnes, FieldsAreTyped DEF BufferInv, Known
    <2>2. \A c \in asks' : /\ c.answer = "ok" => Taken(c.got.text)
                           /\ Known(c.text) /\ (c.kind \in {"create", "save"} => c.text # Blank)
      <3>1. SUFFICES ASSUME NEW c \in asks' PROVE c.answer # "ok" /\ Known(c.text) /\ (c.kind \in {"create", "save"} => c.text # Blank)
        OBVIOUS
      <3>2. PICK a \in asks : c = [a EXCEPT !.n = 0] /\ a.answer = "none"
        BY <1>4
      <3>3. c.kind = a.kind /\ c.text = a.text /\ c.answer = a.answer
        BY <1>5, <3>2
      <3> QED BY <3>2, <3>3 DEF BufferInv, Origins
    <2>3. \A k \in Keys : work'[k] = Blank \/ (work'[k] <= typed /\ work'[k] \notin reached)
      BY <1>2, <1>6 DEF BufferInv, Origins
    <2> QED BY <1>1, <1>3, <2>1, <2>2, <2>3 DEF BufferInv, Origins, Taken, Known
  <1>11. Rest'
    <2>1. SUFFICES ASSUME ~behind', NEW k \in Keys, work'[k] # Blank PROVE buffers'[k].text = work'[k]
      BY <1>3 DEF Rest, Rests, Writing
    <2>2. CASE work'[k] = buffers[k].text
      BY <1>1, <2>2
    <2>3. CASE work'[k] = work[k] /\ ~(form.timer /\ form.key = k)
      BY <1>1, <2>1, <2>3 DEF BufferInv, Rest, Rests
    <2> QED BY <1>6, <2>1, <2>2, <2>3
  <1>12. NewIsBare'
    BY <1>3 DEF NewIsBare
  <1> QED BY <1>7, <1>8, <1>9, <1>10, <1>11, <1>12 DEF BufferInv

\* An empty tab, and an article of the service or none.
LEMMA BufferStart ==
  ASSUME BufferInit
  PROVE  BufferInv
  <1>1. /\ form = NoForm /\ buffers = [k \in Keys |-> NoBuffer] /\ asks = {} /\ typed = 0 /\ asked = 0 /\ elsewhere = 0
        /\ work = [k \in Keys |-> Blank] /\ reached = {} /\ behind = FALSE
        /\ held \in {NoArticle, [NoArticle EXCEPT !.there = TRUE, !.ver = 1, !.status = "published", !.frozen = TRUE]}
    BY DEF BufferInit
  <1>2. ~NoForm.live /\ NoForm.status = "draft"
    BY DEF NoForm
  <1>3. /\ held \in Articles /\ held.ver \in {0, 1} /\ (held.ver = 0 => ~held.there) /\ held.text = Blank /\ held.site = Blank
    <2>1. CASE held = NoArticle
      BY <2>1, EmptyOnes
    <2>2. CASE held = [NoArticle EXCEPT !.there = TRUE, !.ver = 1, !.status = "published", !.frozen = TRUE]
      <3>1. held = [there |-> TRUE, ver |-> 1, text |-> 0, site |-> 0, status |-> "published", frozen |-> TRUE, edit |-> "none"]
        BY <2>2 DEF NoArticle, Blank
      <3> QED BY <3>1 DEF Articles, Blank
    <2> QED BY <1>1, <2>1, <2>2
  <1>4. BufferTypes
    <2>1. buffers \in [Keys -> Buffers] /\ work \in [Keys -> Nat]
      BY <1>1, EmptyOnes
    <2>2. form \in Forms /\ asks \subseteq Requests /\ reached \subseteq Nat /\ behind \in BOOLEAN
      BY <1>1, EmptyOnes
    <2>3. typed \in Nat /\ asked \in Nat /\ elsewhere \in Nat
      BY <1>1
    <2> QED BY <1>3, <2>1, <2>2, <2>3 DEF BufferTypes
  <1>5. Versions /\ Pages
    BY <1>1, <1>3, EmptyOnes DEF Versions, Pages, Fresh, Mine
  <1>6. Origins
    BY <1>1, <1>3, EmptyOnes, EditorAssumption DEF Origins, Taken, Known
  <1>7. Rest /\ NewIsBare
    BY <1>1, <1>2, EmptyOnes DEF Rest, Rests, Writing, NewIsBare
  <1> QED BY <1>4, <1>5, <1>6, <1>7 DEF BufferInv

\* Every step keeps the invariant.
LEMMA BufferStep ==
  ASSUME BufferInv, [BufferNext]_evars
  PROVE  BufferInv'
  <1>1. CASE UNCHANGED evars
    <2>1. UNCHANGED <<form, buffers, held, asks, typed, asked, elsewhere, work, reached, behind>>
      BY <1>1 DEF evars
    <2>2. BufferTypes' /\ Versions' /\ Pages'
      BY <2>1 DEF BufferInv, BufferTypes, Versions, Fresh, Pages, Mine, Awaits
    <2>3. Origins' /\ Rest' /\ NewIsBare'
      BY <2>1 DEF BufferInv, Origins, Taken, Known, Rest, Rests, Writing, NewIsBare
    <2> QED BY <2>2, <2>3 DEF BufferInv
  <1>2. CASE OpenNew \/ OpenArticle \/ TypeIn \/ UndoTyping \/ WriteBuffer
    BY <1>2, OpenNewKeeps, OpenArticleKeeps, TypeInKeeps, UndoTypingKeeps, WriteBufferKeeps
  <1>3. CASE Save \/ Publish \/ DiscardEdit \/ DeleteDraft \/ Unpublish \/ ClearNew
    BY <1>3, ButtonsKeep, ClearNewKeeps
  <1>4. ASSUME NEW a \in asks,
               \/ Served(a) \/ Loaded(a) \/ SavedHere(a) \/ SavedBehind(a) \/ CreatedBehind(a) \/ Discarded(a)
               \/ ReadAgain(a) \/ ToTheDesk(a) \/ Fails(a) \/ ToNobody(a)
        PROVE  BufferInv'
    BY <1>4, ServedKeeps, LoadedKeeps, SavedHereKeeps, SavedBehindKeeps, CreatedBehindKeeps, DiscardedKeeps, ReadAgainKeeps,
       ToTheDeskKeeps, UnheardKeeps
  <1>5. CASE Elsewhere \/ LeavePage \/ CloseTab
    BY <1>5, ElsewhereKeeps, LeavePageKeeps, CloseTabKeeps
  <1> QED BY <1>1, <1>2, <1>3, <1>4, <1>5 DEF BufferNext

\* What he typed and has neither saved nor let go of is on his screen or in his browser, unless the answer to a
\* page he had left took it: after any writing, saving, leaving, coming back and closing of the tab.
THEOREM WorkStays == BufferSpec => []WorkIsKept
  <1>1. BufferInit => BufferInv
    BY BufferStart
  <1>2. BufferInv /\ [BufferNext]_evars => BufferInv'
    BY BufferStep
  <1>3. BufferInv => WorkIsKept
    BY DEF BufferInv, Rest, Rests, Writing, WorkIsKept, Stands
  <1> QED BY <1>1, <1>2, <1>3, PTL DEF BufferSpec

\* What goes on the site on his publication is the text he asked it with, whatever was typed, saved or published
\* between his click and the service's answer.
THEOREM PublishedAsShown == BufferSpec => GoesOutAsShown
  <1>1. BufferInit => BufferInv
    BY BufferStart
  <1>2. BufferInv /\ [BufferNext]_evars => BufferInv'
    BY BufferStep
  <1>3. BufferInv /\ [BufferNext]_evars =>
          [\A a \in asks : (a.kind = "publish" /\ a.answer = "none" /\ held'.site # held.site /\ a \notin asks') => held'.site = a.text]_evars
    <2>1. SUFFICES ASSUME BufferInv, BufferNext, NEW a \in asks, a.kind = "publish", a.answer = "none", held'.site # held.site, a \notin asks'
                   PROVE  held'.site = a.text
      OBVIOUS
    <2>2. PICK b \in asks : Served(b)
      BY <2>1 DEF BufferNext, OpenNew, OpenArticle, TypeIn, UndoTyping, WriteBuffer, Save, Publish, DiscardEdit, DeleteDraft, Unpublish,
                  ClearNew, Asks, Loaded, SavedHere, SavedBehind, CreatedBehind, Discarded, ReadAgain, ToTheDesk, Fails, ToNobody,
                  Elsewhere, LeavePage, CloseTab
    <2>3. a = b
      BY <2>1, <2>2 DEF Served
    <2>4. Takes(a) /\ held' = Does(a.kind, held, a.text)
      BY <2>2, <2>3 DEF Served
    <2>5. PICK h : h = Does(a.kind, held, a.text)
      OBVIOUS
    <2>6. h.site = held.text /\ a.ver = held.ver
      BY <2>1, <2>4, <2>5, DoesMakes
    <2>7. a.text = held.text
      BY <2>1, <2>6 DEF BufferInv, Versions, Fresh
    <2> QED BY <2>4, <2>5, <2>6, <2>7
  <1> QED BY <1>1, <1>2, <1>3, PTL DEF BufferSpec, GoesOutAsShown
==============================================================================
