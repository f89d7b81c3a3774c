------------------------------ MODULE MobilePage ------------------------------
(* The same block on a screen of the mobile app, which mirrors the browser's  *)
(* (apps/mobile, components/discussion and lib/discussion). It has one order, *)
(* no check for comments already shown, and the comment the screen is rooted  *)
(* on is its own state: an effect of a change of it loads.                    *)
EXTENDS DiscussionPage

MobileInit == Init /\ app = "mobile" /\ sort = "newest" /\ address = Top

MobileMoreLoaded(pg, s, r) == Extended(pg, s, r, Items(s, Top, r.sort, r.last))
MobileReduce(pg, r) == IF r.kind = "more" THEN MobileMoreLoaded(pg, r.seen, r) ELSE Reduce(pg, r)

\* The screen loads as it opens, whatever way the reader took to it
MobileOpen == Open
\* The press un-roots, but the loader it calls still has the comment the screen was rooted on: that one
\* is loaded, and the effect of the change loads the list after it
MobileBackToAll ==
    /\ OffersAll
    /\ address' = Top /\ hashPending' = (hashPending \/ address # Top)
    /\ UNCHANGED <<app, server>>
    /\ Load(address)
MobileLoadMore == LoadMore
MobileBrowsed(c) == Browsed(c)
MobileWritten(c) == Written(c)
MobileAnswered(r) == Arrives(r, MobileReduce(page, r))

MobileNext ==
    \/ MobileOpen \/ HashChange \/ MobileBackToAll \/ MobileLoadMore \/ Post \/ Lift
    \/ \E c \in Ids : MobileBrowsed(c) \/ MobileWritten(c) \/ TakenDown(c)
    \/ \E r \in flight : Serve(r) \/ MobileAnswered(r)

\* Either client from its own start: `app' says which, and never changes
PageInit == (Init /\ app = "web") \/ MobileInit
PageNext == (app = "web" /\ Next) \/ (app = "mobile" /\ MobileNext)
PageSpec == PageInit /\ [][PageNext]_vars
=============================================================================
