------------------------------ MODULE NewsFlow ------------------------------
(***************************************************************************)
(* How news gets from one source to the newsroom: the runs of the          *)
(* collector (parsing-service), what it remembers in Redis, the items of   *)
(* aggregator-service, and the editors who delete them.                    *)
(*                                                                         *)
(* One run of a source at a time.  A run may be cut short between any two  *)
(* of its steps: by a restart, its time limit, a block, Redis or an        *)
(* aggregator that does not answer.  A request that got no answer may have *)
(* been carried out: the run is then cut after the step that sends it.     *)
(* It is carried out, if at all, before the next run of the source.        *)
(*                                                                         *)
(* Time is what is left of it: an article is news (within max_age), then   *)
(* old; the memory of it (seen_ttl, twice max_age) ends when it is old.    *)
(* Changes of dates go the way changes of titles do and are left out.  A   *)
(* title that was replaced does not come back in the feed.                 *)
(***************************************************************************)
EXTENDS Integers, FiniteSets

CONSTANTS
    Entry,      \* articles of the source
    Moved,      \* those whose page names another address than the feed
    None,
    Delays,     \* how many times a page that failed is asked again
    LastTitle   \* bound: how often a title changes

Titles == 0..LastTitle
FeedRows == [listed : BOOLEAN, title : Titles]
RetryRows == [attempt : 1..Delays, title : Titles]
ItemRows == [title : Titles, text : BOOLEAN]

ASSUME NoneIsApart == None \notin Entry \cup Titles \cup ItemRows \cup [Entry -> FeedRows]
ASSUME MovedAreEntries == Moved \subseteq Entry
ASSUME BoundsAreNatural == Delays \in Nat \ {0} /\ LastTitle \in Nat

VARIABLES
    feed,      \* what the source shows
    age,       \* "unborn", "news" or "old"
    dated,     \* where the date of an article is found, and stays
    etag,      \* the feed the saved validators stand for
    seen,      \* the title each is remembered with; always looked up by the feed's address
    retries,   \* pages to be asked again: which attempt is next, and the title as first sent
    run,       \* the run under way
    known,     \* whether the aggregator has the source in its catalog
    items,     \* the rows of the aggregator, at the two addresses an article may have
    rejected,  \* history: articles the aggregator turned down
    settled,   \* history: those turned away by the date on their page, or deleted once
    buried     \* history: addresses an editor deleted while the collector remembered the article

feedVars == <<feed, age, dated>>
memory == <<etag, seen, retries>>
store == <<known, items, rejected, buried>>
vars == <<feed, age, dated, etag, seen, retries, run, known, items, rejected, settled, buried>>

Address == {"feed", "page"}
Pages == {"text", "later", "never"}   \* a page gives its text, fails for now, or for good

-----------------------------------------------------------------------------
At(stage) == run # None /\ run.stage = stage
AtEntry(stage, e) == At(stage) /\ run.entry = e
Shown(e) == run.shown[e].title
Listed == {e \in Entry : feed[e].listed}
Waiting == {e \in Entry : retries[e] # None}

\* Turned away by the date the feed gives
TooOld(e) == dated[e] = "feed" /\ age[e] = "old"

\* The address an item goes under: the one its page names, if the page was read
AddressOf(e, page) == IF page = "text" /\ e \in Moved THEN "page" ELSE "feed"

\* The run goes on with this entry, or has done with it
With(stage) == run' = [run EXCEPT !.stage = stage]
DoneWith(e, stage) ==
    run' = [run EXCEPT !.stage = stage, !.left = @ \ {e}, !.entry = None, !.page = None]

\* What IngestService does with a new item and with an update
Merged(item, title, text) == [title |-> title, text |-> text \/ (item # None /\ item.text)]

Ingest(e, a, title, text) ==
    IF items[e][a] # None \/ known
    THEN /\ items' = [items EXCEPT ![e][a] = Merged(@, title, text)]
         /\ UNCHANGED rejected
    ELSE /\ rejected' = rejected \cup {e}
         /\ UNCHANGED items

\* Mutant of the next: what is not there is made
UpdateOrMake(e, a, title, text) ==
    items' = [items EXCEPT ![e][a] = Merged(@, title, text)]

\* An update of what is not there is ignored
Update(e, a, title, text) ==
    items' = [items EXCEPT ![e][a] = IF @ = None THEN None ELSE Merged(@, title, text)]

-----------------------------------------------------------------------------
Init ==
    /\ feed = [e \in Entry |-> [listed |-> FALSE, title |-> 0]]
    /\ age = [e \in Entry |-> "unborn"]
    /\ dated \in [Entry -> {"feed", "page", "nothing"}]
    /\ etag = None
    /\ seen = [e \in Entry |-> None]
    /\ retries = [e \in Entry |-> None]
    /\ run = None
    /\ known \in BOOLEAN
    /\ items = [e \in Entry |-> [a \in Address |-> None]]
    /\ rejected = {} /\ settled = {} /\ buried = {}

\* The site
Publish(e) ==
    /\ age[e] = "unborn"
    /\ feed' = [feed EXCEPT ![e].listed = TRUE]
    /\ age' = [age EXCEPT ![e] = "news"]
    /\ UNCHANGED <<dated, memory, run, settled, store>>

Retitle(e) ==
    /\ feed[e].listed /\ feed[e].title < LastTitle
    /\ feed' = [feed EXCEPT ![e].title = @ + 1]
    /\ UNCHANGED <<age, dated, memory, run, settled, store>>

\* An article falls out of the feed, or is back in it
ListOrNot(e) ==
    /\ age[e] # "unborn"
    /\ feed' = [feed EXCEPT ![e].listed = ~@]
    /\ UNCHANGED <<age, dated, memory, run, settled, store>>

GrowOld(e) ==
    /\ age[e] = "news"
    /\ age' = [age EXCEPT ![e] = "old"]
    /\ UNCHANGED <<feed, dated, memory, run, settled, store>>

\* seen_ttl runs out
Forget(e) ==
    /\ seen[e] # None /\ age[e] = "old"
    /\ seen' = [seen EXCEPT ![e] = None]
    /\ UNCHANGED <<feedVars, etag, retries, run, settled, store>>

\* What is kept of a page to be asked again runs out: the source was switched off for days
Lapse(e) ==
    /\ run = None /\ retries[e] # None
    /\ retries' = [retries EXCEPT ![e] = None]
    /\ UNCHANGED <<feedVars, etag, seen, run, settled, store>>

\* The tick sends the catalog after it has queued the runs
Register ==
    /\ ~known /\ known' = TRUE
    /\ UNCHANGED <<feedVars, memory, run, items, rejected, settled, buried>>

\* An editor deletes an item
Delete(e, a) ==
    /\ items[e][a] # None
    /\ items' = [items EXCEPT ![e][a] = None]
    /\ settled' = settled \cup {e}
    /\ buried' = IF seen[e] = None THEN buried ELSE buried \cup {<<e, a>>}
    /\ UNCHANGED <<feedVars, memory, run, known, rejected>>

\* Its thirty days are over, long after the collector has forgotten it
Expire(e, a) ==
    /\ items[e][a] # None /\ age[e] = "old" /\ seen[e] = None
    /\ items' = [items EXCEPT ![e][a] = None]
    /\ settled' = settled \cup {e}
    /\ UNCHANGED <<feedVars, memory, run, known, rejected, buried>>

-----------------------------------------------------------------------------
Run(stage, shown, left) ==
    run' = [stage |-> stage, shown |-> shown, left |-> left, entry |-> None, page |-> None]

\* Mutants of the next: the validators are saved with the answer, ...
SaveAtOnce ==
    /\ run = None
    /\ \/ Run("feed", feed, Listed) /\ etag' = feed
       \/ etag = feed /\ etag' = etag /\ \E due \in SUBSET Waiting : Run("retries", None, due)
    /\ UNCHANGED <<feedVars, seen, retries, settled, store>>

\* ... a feed that cannot be had is replaced by the one that was read to the end last, ...
ReadAKeptFeed ==
    /\ run = None
    /\ \/ Run("feed", feed, Listed)
       \/ etag = feed /\ \E due \in SUBSET Waiting : Run("retries", None, due)
       \/ etag # None /\ Run("feed", etag, {e \in Entry : etag[e].listed})
    /\ UNCHANGED <<feedVars, memory, settled, store>>

\* ... any validators are answered with 304
AlwaysUnmodified ==
    /\ run = None
    /\ \/ Run("feed", feed, Listed)
       \/ etag # None /\ \E due \in SUBSET Waiting : Run("retries", None, due)
    /\ UNCHANGED <<feedVars, memory, settled, store>>

\* The feed answers 304 to its validators, or in full.  The retries taken are those of which
\* the time has come; which they are is left open.
StartRun ==
    /\ run = None
    /\ \/ Run("feed", feed, Listed)
       \/ etag = feed /\ \E due \in SUBSET Waiting : Run("retries", None, due)
    /\ UNCHANGED <<feedVars, memory, settled, store>>

\* Nothing to do: too old by the feed, or remembered as it is
Pass(e) ==
    /\ At("feed") /\ e \in run.left
    /\ TooOld(e) \/ seen[e] = Shown(e)
    /\ DoneWith(e, "feed")
    /\ UNCHANGED <<feedVars, memory, settled, store>>

\* Mutant of the next: an article is remembered before its item is sent
TakeForSeen(e, page) ==
    /\ At("feed") /\ e \in run.left
    /\ ~TooOld(e) /\ seen[e] = None
    /\ seen' = [seen EXCEPT ![e] = Shown(e)]
    /\ run' = [run EXCEPT !.stage = "send", !.entry = e, !.page = page]
    /\ UNCHANGED <<feedVars, etag, retries, settled, store>>

\* A new one: its page is read
Take(e, page) ==
    /\ At("feed") /\ e \in run.left
    /\ ~TooOld(e) /\ seen[e] = None
    /\ ~(dated[e] = "page" /\ page = "text" /\ age[e] = "old")
    /\ run' = [run EXCEPT !.stage = "send", !.entry = e, !.page = page]
    /\ UNCHANGED <<feedVars, memory, settled, store>>

\* ... and turns out to be old: remembered and not sent
TurnAway(e) ==
    /\ At("feed") /\ e \in run.left
    /\ seen[e] = None /\ dated[e] = "page" /\ age[e] = "old"
    /\ seen' = [seen EXCEPT ![e] = Shown(e)]
    /\ settled' = settled \cup {e}
    /\ DoneWith(e, "feed")
    /\ UNCHANGED <<feedVars, etag, retries, store>>

Send(e) ==
    /\ AtEntry("send", e)
    /\ Ingest(e, AddressOf(e, run.page), Shown(e), run.page = "text")
    /\ With("mark")
    /\ UNCHANGED <<feedVars, memory, known, settled, buried>>

\* Remembered once the aggregator has answered, whatever it answered
Mark(e) ==
    /\ AtEntry("mark", e)
    /\ seen' = [seen EXCEPT ![e] = Shown(e)]
    /\ IF run.page = "later" THEN With("queue") ELSE DoneWith(e, "feed")
    /\ UNCHANGED <<feedVars, etag, retries, settled, store>>

Queue(e) ==
    /\ AtEntry("queue", e)
    /\ retries' = [retries EXCEPT ![e] = [attempt |-> 1, title |-> Shown(e)]]
    /\ DoneWith(e, "feed")
    /\ UNCHANGED <<feedVars, etag, seen, settled, store>>

\* A change of one that is remembered goes under the address the feed has
SendChange(e) ==
    /\ At("feed") /\ e \in run.left
    /\ ~TooOld(e) /\ seen[e] # None /\ seen[e] # Shown(e)
    /\ Update(e, "feed", Shown(e), FALSE)
    /\ run' = [run EXCEPT !.stage = "mark", !.entry = e, !.page = None]
    /\ UNCHANGED <<feedVars, memory, known, rejected, settled, buried>>

\* Saved last
SaveValidators ==
    /\ At("feed") /\ run.left = {}
    /\ etag' = run.shown
    /\ \E due \in SUBSET Waiting : Run("retries", None, due)
    /\ UNCHANGED <<feedVars, seen, retries, settled, store>>

-----------------------------------------------------------------------------
\* A page is asked again and gives its text
Reread(e) ==
    /\ At("retries") /\ run.entry = None /\ e \in run.left
    /\ run' = [run EXCEPT !.stage = "resend", !.entry = e]
    /\ UNCHANGED <<feedVars, memory, settled, store>>

\* ... or fails once more, for now or for good
FailAgain(e) ==
    /\ At("retries") /\ run.entry = None /\ e \in run.left
    /\ \/ retries' = [retries EXCEPT ![e] =
              IF @.attempt < Delays THEN [attempt |-> @.attempt + 1, title |-> @.title]
                                   ELSE None]
       \/ retries' = [retries EXCEPT ![e] = None]
    /\ DoneWith(e, "retries")
    /\ UNCHANGED <<feedVars, etag, seen, settled, store>>

\* The item as it was first sent goes again, with its text, under the address it went under
Resend(e) ==
    /\ AtEntry("resend", e)
    /\ Update(e, AddressOf(e, "later"), retries[e].title, TRUE)
    /\ With("remark")
    /\ UNCHANGED <<feedVars, memory, known, rejected, settled, buried>>

Remark(e) ==
    /\ AtEntry("remark", e)
    /\ seen' = [seen EXCEPT ![e] = retries[e].title]
    /\ With("drop")
    /\ UNCHANGED <<feedVars, etag, retries, settled, store>>

Drop(e) ==
    /\ AtEntry("drop", e)
    /\ retries' = [retries EXCEPT ![e] = None]
    /\ DoneWith(e, "retries")
    /\ UNCHANGED <<feedVars, etag, seen, settled, store>>

EndRun ==
    /\ At("retries") /\ run.left = {}
    /\ run' = None
    /\ UNCHANGED <<feedVars, memory, settled, store>>

\* The run is cut short
Cut ==
    /\ run # None
    /\ run' = None
    /\ UNCHANGED <<feedVars, memory, settled, store>>

-----------------------------------------------------------------------------
Site == \E e \in Entry : Publish(e) \/ Retitle(e) \/ ListOrNot(e) \/ GrowOld(e)
Aggregator == Register \/ \E e \in Entry, a \in Address : Delete(e, a) \/ Expire(e, a)

FeedStep(e) ==
    \/ Pass(e) \/ TurnAway(e) \/ \E page \in Pages : Take(e, page)
    \/ Send(e) \/ Mark(e) \/ Queue(e) \/ SendChange(e)
RetryStep(e) == Reread(e) \/ FailAgain(e) \/ Resend(e) \/ Remark(e) \/ Drop(e)

Collector == StartRun \/ SaveValidators \/ EndRun \/ \E e \in Entry : FeedStep(e) \/ RetryStep(e)

Next == Site \/ Aggregator \/ Collector \/ Cut \/ \E e \in Entry : Forget(e) \/ Lapse(e)

Spec == Init /\ [][Next]_vars

\* The worker goes on; an article in the feed is not one that every run is cut short before
ComesTo(e) == Pass(e) \/ TurnAway(e) \/ SendChange(e) \/ \E page \in Pages : Take(e, page)
FairlyFor(e) == SF_vars(ComesTo(e)) /\ SF_vars(Send(e)) /\ SF_vars(Mark(e))

FairSpec ==
    /\ Spec
    /\ WF_vars(Collector)
    /\ \A e \in Entry : FairlyFor(e)

-----------------------------------------------------------------------------
Stages == {"feed", "send", "mark", "queue", "retries", "resend", "remark", "drop"}
Runs == [stage : Stages, shown : [Entry -> FeedRows] \cup {None}, left : SUBSET Entry,
         entry : Entry \cup {None}, page : Pages \cup {None}]

InRetries == run # None /\ run.stage \in {"retries", "resend", "remark", "drop"}

\* Everything has its type, and a retry is taken up only for a page that waits for one.
TypeOK ==
    /\ feed \in [Entry -> FeedRows]
    /\ age \in [Entry -> {"unborn", "news", "old"}]
    /\ dated \in [Entry -> {"feed", "page", "nothing"}]
    /\ etag \in [Entry -> FeedRows] \cup {None}
    /\ seen \in [Entry -> Titles \cup {None}]
    /\ retries \in [Entry -> RetryRows \cup {None}]
    /\ run \in Runs \cup {None}
    /\ known \in BOOLEAN
    /\ items \in [Entry -> [Address -> ItemRows \cup {None}]]
    /\ rejected \subseteq Entry /\ settled \subseteq Entry
    /\ buried \subseteq settled \X Address
    /\ InRetries => run.left \subseteq Waiting /\ run.entry \in run.left \cup {None}

\* What the collector remembers has arrived: its item is there, unless it was turned down or
\* away or has been deleted.
RememberedHasArrived ==
    \A e \in Entry : seen[e] # None =>
        \/ e \in rejected \cup settled
        \/ \E a \in Address : items[e][a] # None

\* An item an editor deleted when the collector had been told of it does not come back, if the
\* feed dates the article.
DeletedStaysDeleted ==
    \A e \in Entry, a \in Address :
        <<e, a>> \in buried /\ dated[e] = "feed" => items[e][a] = None

\* The validators of a feed are saved only when nothing in it is left to take: a 304 hides no news.
NothingBehindA304 ==
    etag = feed => \A e \in Listed : age[e] = "news" => seen[e] # None

\* The title of an item goes back to an earlier one only by a retry, which carries the title the
\* item was first sent with.
OnlyRetriesTurnTitlesBack ==
    [][\A e \in Entry, a \in Address :
        items[e][a] # None /\ items'[e][a] # None /\ items'[e][a].title < items[e][a].title
            => Resend(e)]_vars

\* The title of an item is never an earlier one than it has had.
TitlesGoForward ==
    [][\A e \in Entry, a \in Address :
        items[e][a] # None /\ items'[e][a] # None => items'[e][a].title >= items[e][a].title]_vars

\* An item an editor deleted when the collector had been told of it does not come back.
DeletedNeverReturns == \A e \in Entry, a \in Address : <<e, a>> \in buried => items[e][a] = None

\* What the aggregator turned down it would turn down again.
RejectionsLast == rejected # {} => ~known

\* A title the collector takes for delivered is the one the item has, when no run is under way
\* and no retry waits.
ChangesReachTheirItem ==
    run = None => \A e \in Entry, a \in Address :
        items[e][a] # None /\ retries[e] = None /\ seen[e] = feed[e].title
            => items[e][a].title = seen[e]

\* News in the feed is in the collector's memory in the end, however many runs are cut, unless
\* it leaves the feed or grows old first.
NewsArrives ==
    \A e \in Entry :
        feed[e].listed /\ age[e] = "news"
            ~> seen[e] # None \/ ~feed[e].listed \/ age[e] = "old"
=============================================================================
