--------------------------- MODULE NewsFlowProofs ---------------------------
(***************************************************************************)
(* What holds between a source, the collector's memory and the aggregator  *)
(* for any number of articles, titles and retries, wherever runs are cut.  *)
(* The invariant follows an article through one run: sent before it is     *)
(* remembered, remembered before the run is done with it, and all of the   *)
(* feed done with before its validators are saved.                         *)
(***************************************************************************)
EXTENDS NewsFlow, TLAPS

\* What was sent for an article has arrived
Arrived(e) == e \in rejected \cup settled \/ \E a \in Address : items[e][a] # None

\* What is remembered, about to be, or to be asked again has arrived
SentHasArrived ==
    \A e \in Entry :
        seen[e] # None \/ retries[e] # None \/ AtEntry("mark", e) \/ AtEntry("queue", e)
            => Arrived(e)

\* A run goes by one answer of the feed until it comes to its retries
FeedStages == {"feed", "send", "mark", "queue"}
InFeed == run # None /\ run.stage \in FeedStages

\* A feed that was answered shows no article before it is published, and what its run is
\* done with is remembered while it is news
Handled(e) == age[e] # "unborn" /\ (age[e] = "news" => seen[e] # None)

AnswersAreHandled ==
    /\ \A e \in Entry : feed[e].listed => age[e] # "unborn"
    /\ InFeed => run.shown \in [Entry -> FeedRows] /\ run.entry \in run.left \cup {None}
    /\ InFeed => \A e \in run.left : run.shown[e].listed
    /\ InFeed => \A e \in Entry : run.shown[e].listed =>
            age[e] # "unborn" /\ (e \notin run.left => Handled(e))
    /\ \A e \in Entry : AtEntry("queue", e) => Handled(e)
    /\ etag # None => \A e \in Entry : etag[e].listed => Handled(e)

\* What was deleted is gone, and an article the feed dates is not taken again: it is
\* remembered until it is old
DeletedIsNotTaken ==
    \A e \in Entry : dated[e] = "feed" =>
        /\ \A a \in Address : <<e, a>> \in buried =>
                items[e][a] = None /\ (seen[e] # None \/ age[e] = "old")
        /\ AtEntry("send", e) => seen[e] = None /\ \A a \in Address : <<e, a>> \notin buried

Inv == TypeOK /\ SentHasArrived /\ AnswersAreHandled /\ DeletedIsNotTaken

-----------------------------------------------------------------------------
\* What the aggregator does with a new item: it is there, or turned down
LEMMA IngestArrives ==
    ASSUME TypeOK, NEW e \in Entry, NEW a \in Address, NEW title \in Titles,
           NEW text \in BOOLEAN, Ingest(e, a, title, text)
    PROVE  /\ items' \in [Entry -> [Address -> ItemRows \cup {None}]]
           /\ rejected \subseteq rejected' /\ rejected' \subseteq Entry
           /\ items'[e][a] # None \/ e \in rejected'
           /\ \A f \in Entry, b \in Address : <<f, b>> # <<e, a>> => items'[f][b] = items[f][b]
           /\ \A f \in Entry, b \in Address : items[f][b] # None => items'[f][b] # None
<1>1. items \in [Entry -> [Address -> ItemRows \cup {None}]] /\ rejected \subseteq Entry
    BY DEF TypeOK
<1>2. None \notin ItemRows
    BY NoneIsApart
<1>3. CASE items[e][a] # None \/ known
    <2>1. items' = [items EXCEPT ![e][a] = Merged(@, title, text)] /\ rejected' = rejected
        BY <1>3 DEF Ingest
    <2>2. Merged(items[e][a], title, text) \in ItemRows
        <3>1. items[e][a] \in ItemRows \cup {None}
            BY <1>1
        <3>. QED
            BY <3>1 DEF Merged, ItemRows
    <2>. HIDE DEF ItemRows
    <2>. DEFINE m == Merged(items[e][a], title, text)
    <2>3. items' = [items EXCEPT ![e] = [items[e] EXCEPT ![a] = m]]
        BY <2>1
    <2>. HIDE DEF m
    <2>4. m \in ItemRows /\ m # None
        BY <1>2, <2>2 DEF m
    <2>5. items'[e][a] = m
        BY <1>1, <2>3
    <2>6. \A f \in Entry, b \in Address : <<f, b>> # <<e, a>> => items'[f][b] = items[f][b]
        BY <1>1, <2>3
    <2>7. items' \in [Entry -> [Address -> ItemRows \cup {None}]]
        BY <1>1, <2>3, <2>4
    <2>. QED
        BY <1>1, <2>1, <2>4, <2>5, <2>6, <2>7
<1>4. CASE ~(items[e][a] # None \/ known)
    BY <1>1, <1>4 DEF Ingest
<1>. QED
    BY <1>3, <1>4

\* An update makes no item and takes none away
LEMMA UpdateMakesNothing ==
    ASSUME TypeOK, NEW e \in Entry, NEW a \in Address, NEW title \in Titles,
           NEW text \in BOOLEAN, Update(e, a, title, text)
    PROVE  /\ items' \in [Entry -> [Address -> ItemRows \cup {None}]]
           /\ \A f \in Entry, b \in Address : items'[f][b] = None <=> items[f][b] = None
<1>1. items \in [Entry -> [Address -> ItemRows \cup {None}]]
    BY DEF TypeOK
<1>2. None \notin ItemRows
    BY NoneIsApart
<1>. DEFINE m == IF items[e][a] = None THEN None ELSE Merged(items[e][a], title, text)
<1>3. m \in ItemRows \cup {None} /\ (m = None <=> items[e][a] = None)
    <2>1. CASE items[e][a] = None
        BY <2>1
    <2>2. CASE items[e][a] # None
        <3>1. items[e][a] \in ItemRows
            BY <1>1, <2>2
        <3>2. Merged(items[e][a], title, text) \in ItemRows
            BY <3>1 DEF Merged, ItemRows
        <3>. QED
            BY <1>2, <2>2, <3>2
    <2>. QED
        BY <2>1, <2>2
<1>4. items' = [items EXCEPT ![e] = [items[e] EXCEPT ![a] = m]]
    BY DEF Update
<1>. HIDE DEF m, ItemRows
<1>5. items' \in [Entry -> [Address -> ItemRows \cup {None}]]
    BY <1>1, <1>3, <1>4
<1>6. items'[e][a] = m
    BY <1>1, <1>4
<1>7. \A f \in Entry, b \in Address : <<f, b>> # <<e, a>> => items'[f][b] = items[f][b]
    BY <1>1, <1>4
<1>. QED
    BY <1>3, <1>5, <1>6, <1>7

\* A removal takes one item
LEMMA RemovalTakesOne ==
    ASSUME TypeOK, NEW e \in Entry, NEW a \in Address, items' = [items EXCEPT ![e][a] = None]
    PROVE  /\ items' \in [Entry -> [Address -> ItemRows \cup {None}]]
           /\ items'[e][a] = None
           /\ \A f \in Entry, b \in Address : <<f, b>> # <<e, a>> => items'[f][b] = items[f][b]
<1>1. items \in [Entry -> [Address -> ItemRows \cup {None}]]
    BY DEF TypeOK
<1>2. items' = [items EXCEPT ![e] = [items[e] EXCEPT ![a] = None]]
    OBVIOUS
<1>. QED
    BY <1>1, <1>2

-----------------------------------------------------------------------------
LEMMA InitKeepsAll == Init => Inv
<1>. SUFFICES ASSUME Init PROVE Inv
    OBVIOUS
<1>1. None \notin ItemRows /\ 0 \in Titles
    BY NoneIsApart, BoundsAreNatural DEF Titles
<1>2. TypeOK
    BY <1>1 DEF Init, TypeOK, FeedRows, InRetries
<1>3. SentHasArrived
    BY DEF Init, SentHasArrived, AtEntry, At
<1>4. AnswersAreHandled
    BY DEF Init, AnswersAreHandled, InFeed, AtEntry, At
<1>5. DeletedIsNotTaken
    BY DEF Init, DeletedIsNotTaken, AtEntry, At
<1>. QED
    BY <1>2, <1>3, <1>4, <1>5 DEF Inv

-----------------------------------------------------------------------------
\* Every step keeps the types
LEMMA TypeOKStep == Inv /\ [Next]_vars => TypeOK'
<1>. SUFFICES ASSUME Inv, [Next]_vars PROVE TypeOK'
    OBVIOUS
<1>. USE DEF feedVars, memory, store
<1>1. TypeOK /\ None \notin Entry
    BY NoneIsApart DEF Inv
<1>2. CASE UNCHANGED vars
    BY <1>1, <1>2 DEF vars, TypeOK, InRetries, Waiting
<1>3. CASE Site
    <2>. PICK e \in Entry : Publish(e) \/ Retitle(e) \/ ListOrNot(e) \/ GrowOld(e)
        BY <1>3 DEF Site
    <2>1. feed[e] \in FeedRows /\ (feed[e].title < LastTitle => feed[e].title + 1 \in Titles)
        BY <1>1, BoundsAreNatural DEF TypeOK, FeedRows, Titles
    <2>2. /\ [feed[e] EXCEPT !.listed = TRUE] \in FeedRows
          /\ [feed[e] EXCEPT !.listed = ~@] \in FeedRows
          /\ feed[e].title < LastTitle => [feed[e] EXCEPT !.title = @ + 1] \in FeedRows
        BY <2>1 DEF FeedRows
    <2>3. feed' \in [Entry -> FeedRows] /\ age' \in [Entry -> {"unborn", "news", "old"}]
        <3>1. CASE Publish(e)
            BY <1>1, <2>2, <3>1 DEF Publish, TypeOK
        <3>2. CASE Retitle(e)
            BY <1>1, <2>2, <3>2 DEF Retitle, TypeOK
        <3>3. CASE ListOrNot(e)
            BY <1>1, <2>2, <3>3 DEF ListOrNot, TypeOK
        <3>4. CASE GrowOld(e)
            BY <1>1, <3>4 DEF GrowOld, TypeOK
        <3>. QED
            BY <3>1, <3>2, <3>3, <3>4
    <2>4. UNCHANGED <<dated, memory, run, settled, store>>
        BY DEF Publish, Retitle, ListOrNot, GrowOld
    <2>. QED
        BY <1>1, <2>3, <2>4 DEF TypeOK, InRetries, Waiting
<1>4. CASE Aggregator
    <2>1. CASE Register
        BY <1>1, <2>1 DEF Register, TypeOK, InRetries, Waiting
    <2>2. ASSUME NEW e \in Entry, NEW a \in Address, Delete(e, a) \/ Expire(e, a) PROVE TypeOK'
        <3>1. items' \in [Entry -> [Address -> ItemRows \cup {None}]]
            BY <1>1, <2>2, RemovalTakesOne DEF Delete, Expire
        <3>2. settled' \subseteq Entry /\ buried' \subseteq settled' \X Address
            <4>1. buried \subseteq settled \X Address /\ settled \subseteq Entry
                BY <1>1 DEF TypeOK
            <4>2. settled' = settled \cup {e} /\ buried' \subseteq buried \cup {<<e, a>>}
                BY <2>2 DEF Delete, Expire
            <4>3. buried \cup {<<e, a>>} \subseteq (settled \cup {e}) \X Address
                BY <4>1
            <4>. QED
                BY <4>1, <4>2, <4>3
        <3>. QED
            BY <1>1, <2>2, <3>1, <3>2 DEF Delete, Expire, TypeOK, InRetries, Waiting
    <2>. QED
        BY <1>4, <2>1, <2>2 DEF Aggregator
<1>5. CASE StartRun
    <2>1. run' \in Runs /\ (InRetries => run.left \subseteq Waiting /\ run.entry = None)'
        BY <1>1, <1>5 DEF StartRun, Run, TypeOK, Runs, Stages, Listed, Waiting, InRetries
    <2>. QED
        BY <1>1, <1>5, <2>1 DEF StartRun, TypeOK, InRetries
<1>6. CASE SaveValidators
    <2>1. run' \in Runs /\ (InRetries => run.left \subseteq Waiting /\ run.entry = None)'
        BY <1>1, <1>6 DEF SaveValidators, Run, TypeOK, Runs, Stages, Waiting, InRetries
    <2>2. etag' \in [Entry -> FeedRows] \cup {None}
        BY <1>6 DEF SaveValidators, Inv, AnswersAreHandled, InFeed, FeedStages, At
    <2>. QED
        BY <1>1, <1>6, <2>1, <2>2 DEF SaveValidators, TypeOK, InRetries
<1>7. CASE EndRun \/ Cut
    BY <1>1, <1>7 DEF EndRun, Cut, TypeOK, InRetries
<1>8. ASSUME NEW e \in Entry, FeedStep(e) PROVE TypeOK'
    <2>1. run \in Runs /\ run.shown \in [Entry -> FeedRows] /\ Shown(e) \in Titles
        <3>1. run # None /\ run.stage \in FeedStages
            BY <1>8 DEF FeedStep, Pass, TurnAway, Take, Send, Mark, Queue, SendChange, At, AtEntry,
                FeedStages
        <3>2. run.shown \in [Entry -> FeedRows]
            BY <3>1 DEF Inv, AnswersAreHandled, InFeed
        <3>. QED
            BY <1>1, <3>1, <3>2 DEF TypeOK, Shown, FeedRows
    <2>2. run' \in Runs /\ run'.stage \in FeedStages
        BY <1>8, <2>1 DEF FeedStep, Pass, TurnAway, Take, Send, Mark, Queue, SendChange, With, DoneWith,
            Runs, Stages, Pages, FeedStages
    <2>3. seen' \in [Entry -> Titles \cup {None}] /\ settled' \subseteq Entry /\ settled \subseteq settled'
        <3>1. CASE TurnAway(e)
            BY <1>1, <2>1, <3>1 DEF TypeOK, TurnAway
        <3>2. CASE Mark(e)
            BY <1>1, <2>1, <3>2 DEF TypeOK, Mark
        <3>3. CASE seen' = seen /\ settled' = settled
            BY <1>1, <3>3 DEF TypeOK
        <3>. QED
            BY <1>8, <3>1, <3>2, <3>3 DEF FeedStep, Pass, Take, Send, Queue, SendChange
    <2>4. retries' \in [Entry -> RetryRows \cup {None}]
        <3>1. [attempt |-> 1, title |-> Shown(e)] \in RetryRows
            BY <2>1, BoundsAreNatural DEF RetryRows
        <3>. QED
            BY <1>1, <1>8, <3>1 DEF TypeOK, FeedStep, Pass, TurnAway, Take, Send, Mark, Queue, SendChange
    <2>5. items' \in [Entry -> [Address -> ItemRows \cup {None}]] /\ rejected' \subseteq Entry
        <3>1. CASE Send(e)
            <4>1. AddressOf(e, run.page) \in Address /\ (run.page = "text") \in BOOLEAN
                BY DEF AddressOf, Address
            <4>. QED
                BY <1>1, <2>1, <3>1, <4>1, IngestArrives DEF Send
        <3>2. CASE SendChange(e)
            <4>1. "feed" \in Address /\ rejected' = rejected
                BY <3>2 DEF Address, SendChange
            <4>. QED
                BY <1>1, <2>1, <3>2, <4>1, UpdateMakesNothing DEF SendChange, TypeOK
        <3>3. CASE items' = items /\ rejected' = rejected
            BY <1>1, <3>3 DEF TypeOK
        <3>. QED
            BY <1>8, <3>1, <3>2, <3>3 DEF FeedStep, Pass, TurnAway, Take, Mark, Queue
    <2>6. UNCHANGED <<feedVars, etag, known, buried>>
        BY <1>8 DEF FeedStep, Pass, TurnAway, Take, Send, Mark, Queue, SendChange
    <2>7. ~InRetries'
        BY <2>2 DEF InRetries, FeedStages
    <2>. QED
        BY <1>1, <2>2, <2>3, <2>4, <2>5, <2>6, <2>7 DEF TypeOK
<1>9. ASSUME NEW e \in Entry, RetryStep(e) PROVE TypeOK'
    <2>1. /\ run \in Runs /\ run.left \subseteq Waiting /\ e \in run.left
          /\ retries[e] # None /\ retries[e] \in RetryRows
        <3>1. InRetries /\ (e \in run.left \/ run.entry = e)
            BY <1>9 DEF RetryStep, Reread, FailAgain, Resend, Remark, Drop, At, AtEntry, InRetries
        <3>. QED
            BY <1>1, <3>1 DEF TypeOK, InRetries, Waiting
    <2>2. /\ run' \in Runs /\ run'.stage \in {"retries", "resend", "remark", "drop"}
          /\ \/ run'.left = run.left /\ run'.entry = e
             \/ run'.left = run.left \ {e} /\ run'.entry = None
          /\ run'.left = run.left => retries' = retries
        BY <1>9, <2>1 DEF RetryStep, Reread, FailAgain, Resend, Remark, Drop, AtEntry, With, DoneWith,
            Runs, Stages
    <2>3. retries' \in [Entry -> RetryRows \cup {None}] /\ \A f \in Entry \ {e} : retries'[f] = retries[f]
        <3>1. retries[e].attempt < Delays =>
                [attempt |-> retries[e].attempt + 1, title |-> retries[e].title] \in RetryRows
            BY <2>1, BoundsAreNatural DEF RetryRows
        <3>2. CASE FailAgain(e)
            BY <1>1, <3>1, <3>2 DEF FailAgain, TypeOK
        <3>3. CASE Drop(e)
            BY <1>1, <3>3 DEF Drop, TypeOK
        <3>4. CASE retries' = retries
            BY <1>1, <3>4 DEF TypeOK
        <3>. QED
            BY <1>9, <3>2, <3>3, <3>4 DEF RetryStep, Reread, Resend, Remark
    <2>4. (InRetries => run.left \subseteq Waiting /\ run.entry \in run.left \cup {None})'
        BY <2>1, <2>2, <2>3 DEF InRetries, Waiting
    <2>5. seen' \in [Entry -> Titles \cup {None}]
        BY <1>1, <1>9, <2>1 DEF RetryStep, Reread, FailAgain, Resend, Remark, Drop, TypeOK, RetryRows
    <2>6. items' \in [Entry -> [Address -> ItemRows \cup {None}]]
        <3>1. AddressOf(e, "later") \in Address /\ retries[e].title \in Titles
            BY <2>1 DEF AddressOf, Address, RetryRows
        <3>2. CASE Resend(e)
            BY <1>1, <3>1, <3>2, UpdateMakesNothing DEF Resend
        <3>3. CASE items' = items
            BY <1>1, <3>3 DEF TypeOK
        <3>. QED
            BY <1>9, <3>2, <3>3 DEF RetryStep, Reread, FailAgain, Remark, Drop
    <2>7. UNCHANGED <<feedVars, etag, settled, known, rejected, buried>>
        BY <1>9 DEF RetryStep, Reread, FailAgain, Resend, Remark, Drop
    <2>. QED
        BY <1>1, <2>2, <2>3, <2>4, <2>5, <2>6, <2>7 DEF TypeOK
<1>10. ASSUME NEW e \in Entry, Forget(e) \/ Lapse(e) PROVE TypeOK'
    BY <1>1, <1>10 DEF Forget, Lapse, TypeOK, InRetries, Waiting
<1>. QED
    BY <1>2, <1>3, <1>4, <1>5, <1>6, <1>7, <1>8, <1>9, <1>10 DEF Next, Collector

-----------------------------------------------------------------------------
\* What has arrived stays arrived: an item that goes is settled
LEMMA ArrivedStays ==
    ASSUME TypeOK, rejected \subseteq rejected', settled \subseteq settled',
           \A f \in Entry, b \in Address :
                items[f][b] # None => items'[f][b] # None \/ f \in settled'
    PROVE  \A f \in Entry : Arrived(f) => Arrived(f)'
BY DEF Arrived

\* Nothing is remembered before it has arrived
LEMMA SentHasArrivedStep == Inv /\ [Next]_vars => SentHasArrived'
<1>. SUFFICES ASSUME Inv, [Next]_vars PROVE SentHasArrived'
    OBVIOUS
<1>. USE DEF feedVars, memory, store
<1>1. TypeOK /\ SentHasArrived
    BY DEF Inv
<1>2. CASE UNCHANGED vars
    BY <1>1, <1>2 DEF vars, SentHasArrived, Arrived, AtEntry, At
<1>3. CASE Site
    <2>1. UNCHANGED <<memory, run, settled, store>>
        BY <1>3 DEF Site, Publish, Retitle, ListOrNot, GrowOld
    <2>. QED
        BY <1>1, <2>1 DEF SentHasArrived, Arrived, AtEntry, At
<1>4. CASE Aggregator
    <2>1. CASE Register
        BY <1>1, <2>1 DEF Register, SentHasArrived, Arrived, AtEntry, At
    <2>2. ASSUME NEW e \in Entry, NEW a \in Address, Delete(e, a) \/ Expire(e, a)
          PROVE  SentHasArrived'
        <3>1. items' = [items EXCEPT ![e][a] = None] /\ settled' = settled \cup {e}
              /\ UNCHANGED <<memory, run, rejected>>
            BY <2>2 DEF Delete, Expire
        <3>2. \A f \in Entry : Arrived(f) => Arrived(f)'
            BY <1>1, <3>1, RemovalTakesOne, ArrivedStays
        <3>. QED
            BY <1>1, <3>1, <3>2 DEF SentHasArrived, AtEntry, At
    <2>. QED
        BY <1>4, <2>1, <2>2 DEF Aggregator
<1>5. CASE StartRun \/ SaveValidators \/ EndRun \/ Cut
    <2>1. UNCHANGED <<seen, retries, settled, store>> /\ ~At("mark")' /\ ~At("queue")'
        BY <1>5 DEF StartRun, SaveValidators, EndRun, Cut, Run, At
    <2>. QED
        BY <1>1, <2>1 DEF SentHasArrived, Arrived, AtEntry
<1>6. ASSUME NEW e \in Entry, FeedStep(e) PROVE SentHasArrived'
    <2>1. run \in Runs /\ run.shown \in [Entry -> FeedRows] /\ Shown(e) \in Titles
        <3>1. run # None /\ run.stage \in FeedStages
            BY <1>6 DEF FeedStep, Pass, TurnAway, Take, Send, Mark, Queue, SendChange, At, AtEntry,
                FeedStages
        <3>2. run.shown \in [Entry -> FeedRows]
            BY <3>1 DEF Inv, AnswersAreHandled, InFeed
        <3>. QED
            BY <1>1, <3>1, <3>2 DEF TypeOK, Shown, FeedRows, Runs
    <2>2. CASE Pass(e) \/ \E page \in Pages : Take(e, page)
        <3>1. UNCHANGED <<seen, retries, settled, store>> /\ run'.stage \in {"feed", "send"}
            BY <2>1, <2>2 DEF Pass, Take, DoneWith, Runs
        <3>. QED
            BY <1>1, <3>1 DEF SentHasArrived, Arrived, AtEntry, At
    <2>3. CASE TurnAway(e)
        <3>1. UNCHANGED <<retries, store>> /\ settled' = settled \cup {e} /\ run'.stage = "feed"
              /\ \A f \in Entry \ {e} : seen'[f] = seen[f]
            BY <1>1, <2>1, <2>3 DEF TurnAway, DoneWith, TypeOK, Runs
        <3>. QED
            BY <1>1, <3>1 DEF SentHasArrived, Arrived, AtEntry, At
    <2>4. CASE Send(e)
        <3>1. AddressOf(e, run.page) \in Address /\ (run.page = "text") \in BOOLEAN
            BY DEF AddressOf, Address
        <3>2. /\ Arrived(e)' /\ \A f \in Entry : Arrived(f) => Arrived(f)'
            BY <1>1, <2>1, <2>4, <3>1, IngestArrives DEF Send, Arrived
        <3>3. UNCHANGED <<seen, retries>> /\ run'.stage = "mark" /\ run'.entry = e
            BY <2>1, <2>4 DEF Send, With, AtEntry, Runs
        <3>. QED
            BY <1>1, <3>2, <3>3 DEF SentHasArrived, AtEntry, At
    <2>5. CASE Mark(e)
        <3>1. Arrived(e)
            BY <1>1, <2>5 DEF Mark, SentHasArrived
        <3>2. UNCHANGED <<retries, settled, store>> /\ run'.stage \in {"feed", "queue"}
              /\ (run'.stage = "queue" => run'.entry = e) /\ \A f \in Entry \ {e} : seen'[f] = seen[f]
            BY <1>1, <2>1, <2>5 DEF Mark, With, DoneWith, TypeOK, AtEntry, Runs
        <3>. QED
            BY <1>1, <3>1, <3>2 DEF SentHasArrived, Arrived, AtEntry, At
    <2>6. CASE Queue(e)
        <3>1. Arrived(e)
            BY <1>1, <2>6 DEF Queue, SentHasArrived
        <3>2. UNCHANGED <<seen, settled, store>> /\ run'.stage = "feed"
              /\ \A f \in Entry \ {e} : retries'[f] = retries[f]
            BY <1>1, <2>1, <2>6 DEF Queue, DoneWith, TypeOK, Runs
        <3>. QED
            BY <1>1, <3>1, <3>2 DEF SentHasArrived, Arrived, AtEntry, At
    <2>7. CASE SendChange(e)
        <3>1. "feed" \in Address
            BY DEF Address
        <3>2. UNCHANGED <<seen, retries, rejected, settled>> /\ seen[e] # None
              /\ run'.stage = "mark" /\ run'.entry = e
            BY <2>1, <2>7 DEF SendChange, Runs
        <3>3. \A f \in Entry : Arrived(f) => Arrived(f)'
            BY <1>1, <2>1, <2>7, <3>1, <3>2, UpdateMakesNothing DEF SendChange, Arrived
        <3>. QED
            BY <1>1, <3>2, <3>3 DEF SentHasArrived, AtEntry, At
    <2>. QED
        BY <1>6, <2>2, <2>3, <2>4, <2>5, <2>6, <2>7 DEF FeedStep
<1>7. ASSUME NEW e \in Entry, RetryStep(e) PROVE SentHasArrived'
    <2>1. InRetries /\ (e \in run.left \/ run.entry = e) /\ run \in Runs
        BY <1>1, <1>7 DEF RetryStep, Reread, FailAgain, Resend, Remark, Drop, At, AtEntry, InRetries,
            TypeOK
    <2>2. retries[e] # None /\ retries[e] \in RetryRows
        BY <1>1, <2>1, NoneIsApart DEF TypeOK, InRetries, Waiting
    <2>3. Arrived(e)
        BY <1>1, <2>2 DEF SentHasArrived
    <2>4. \A f \in Entry : Arrived(f) => Arrived(f)'
        <3>1. CASE Resend(e)
            <4>1. AddressOf(e, "later") \in Address /\ retries[e].title \in Titles
                BY <2>2 DEF AddressOf, Address, RetryRows
            <4>. QED
                BY <1>1, <3>1, <4>1, UpdateMakesNothing DEF Resend, Arrived
        <3>2. CASE UNCHANGED <<settled, store>>
            BY <3>2 DEF Arrived
        <3>. QED
            BY <1>7, <3>1, <3>2 DEF RetryStep, Reread, FailAgain, Remark, Drop
    <2>5. /\ \A f \in Entry \ {e} : seen'[f] = seen[f] /\ retries'[f] = retries[f]
          /\ run'.stage \in {"retries", "resend", "remark", "drop"}
        <3>1. run'.stage \in {"retries", "resend", "remark", "drop"}
            BY <1>7, <2>1 DEF RetryStep, Reread, FailAgain, Resend, Remark, Drop, With, DoneWith, Runs
        <3>2. \A f \in Entry \ {e} : seen'[f] = seen[f] /\ retries'[f] = retries[f]
            <4>1. CASE FailAgain(e)
                BY <1>1, <4>1 DEF FailAgain, TypeOK
            <4>2. CASE Reread(e) \/ Resend(e) \/ Remark(e) \/ Drop(e)
                BY <1>1, <4>2 DEF Reread, Resend, Remark, Drop, TypeOK
            <4>. QED
                BY <1>7, <4>1, <4>2 DEF RetryStep
        <3>. QED
            BY <3>1, <3>2
    <2>. QED
        BY <1>1, <2>3, <2>4, <2>5 DEF SentHasArrived, AtEntry, At
<1>8. ASSUME NEW e \in Entry, Forget(e) \/ Lapse(e) PROVE SentHasArrived'
    <2>1. UNCHANGED <<run, settled, store>> /\ \A f \in Entry :
                (seen'[f] # None => seen[f] # None) /\ (retries'[f] # None => retries[f] # None)
        BY <1>1, <1>8 DEF Forget, Lapse, TypeOK
    <2>. QED
        BY <1>1, <2>1 DEF SentHasArrived, Arrived, AtEntry, At
<1>. QED
    BY <1>2, <1>3, <1>4, <1>5, <1>6, <1>7, <1>8 DEF Next, Collector

-----------------------------------------------------------------------------
\* Who goes on with a run of the feed, and what the run remembers of the others
LEMMA FeedStepsKeepMemory ==
    ASSUME Inv, NEW e \in Entry, FeedStep(e)
    PROVE  /\ InFeed /\ run \in Runs /\ Shown(e) \in Titles
           /\ run'.shown = run.shown /\ run'.stage \in FeedStages
           /\ UNCHANGED <<feed, age, dated, etag, buried>>
           /\ \A f \in Entry : seen[f] # None => seen'[f] # None
           /\ \A f \in Entry \ {e} : seen'[f] = seen[f]
           /\ run'.left = run.left \/ run'.left = run.left \ {e}
<1>. USE DEF feedVars, memory, store
<1>1. TypeOK
    BY DEF Inv
<1>2. InFeed
    BY DEF FeedStep, Pass, TurnAway, Take, Send, Mark, Queue, SendChange, At, AtEntry, FeedStages, InFeed
<1>3. run \in Runs /\ Shown(e) \in Titles
    <2>1. run.shown \in [Entry -> FeedRows]
        BY <1>2 DEF Inv, AnswersAreHandled
    <2>. QED
        BY <1>1, <1>2, <2>1 DEF TypeOK, Shown, FeedRows, InFeed
<1>4. /\ run'.shown = run.shown /\ run'.stage \in FeedStages
      /\ run'.left = run.left \/ run'.left = run.left \ {e}
    BY <1>3 DEF FeedStep, Pass, TurnAway, Take, Send, Mark, Queue, SendChange, With, DoneWith,
        Runs, FeedStages
<1>5. UNCHANGED <<feed, age, dated, etag, buried>>
    BY DEF FeedStep, Pass, TurnAway, Take, Send, Mark, Queue, SendChange
<1>6. \A f \in Entry : (seen[f] # None => seen'[f] # None) /\ (f # e => seen'[f] = seen[f])
    <2>1. CASE seen' = seen
        BY <2>1
    <2>2. CASE seen' = [seen EXCEPT ![e] = Shown(e)]
        BY <1>1, <1>3, <2>2, NoneIsApart DEF TypeOK
    <2>. QED
        BY <2>1, <2>2 DEF FeedStep, Pass, TurnAway, Take, Send, Mark, Queue, SendChange
<1>. QED
    BY <1>2, <1>3, <1>4, <1>5, <1>6

\* The retries leave the feed, its validators and what is deleted alone, and forget nothing
LEMMA RetryStepsKeepMemory ==
    ASSUME Inv, NEW e \in Entry, RetryStep(e)
    PROVE  /\ ~InFeed' /\ (\A stage \in FeedStages : ~At(stage)')
           /\ UNCHANGED <<feed, age, dated, etag, buried>>
           /\ \A f \in Entry : seen[f] # None => seen'[f] # None
           /\ \A f \in Entry, a \in Address : items[f][a] = None => items'[f][a] = None
<1>. USE DEF feedVars, memory, store
<1>1. TypeOK
    BY DEF Inv
<1>2. InRetries /\ (e \in run.left \/ run.entry = e) /\ run \in Runs
    BY <1>1 DEF RetryStep, Reread, FailAgain, Resend, Remark, Drop, At, AtEntry, InRetries, TypeOK
<1>3. retries[e] # None /\ retries[e] \in RetryRows
    BY <1>1, <1>2, NoneIsApart DEF TypeOK, InRetries, Waiting
<1>4. run'.stage \in {"retries", "resend", "remark", "drop"}
    BY <1>2 DEF RetryStep, Reread, FailAgain, Resend, Remark, Drop, With, DoneWith, Runs
<1>5. ~InFeed' /\ \A stage \in FeedStages : ~At(stage)'
    BY <1>4 DEF InFeed, FeedStages, At
<1>6. UNCHANGED <<feed, age, dated, etag, buried>>
    BY DEF RetryStep, Reread, FailAgain, Resend, Remark, Drop
<1>7. \A f \in Entry : seen[f] # None => seen'[f] # None
    <2>1. CASE seen' = seen
        BY <2>1
    <2>2. CASE seen' = [seen EXCEPT ![e] = retries[e].title]
        BY <1>1, <1>3, <2>2, NoneIsApart DEF TypeOK, RetryRows
    <2>. QED
        BY <2>1, <2>2 DEF RetryStep, Reread, FailAgain, Resend, Remark, Drop
<1>8. \A f \in Entry, a \in Address : items[f][a] = None => items'[f][a] = None
    <2>1. CASE items' = items
        BY <2>1
    <2>2. CASE Resend(e)
        <3>1. AddressOf(e, "later") \in Address /\ retries[e].title \in Titles
            BY <1>3 DEF AddressOf, Address, RetryRows
        <3>. QED
            BY <1>1, <2>2, <3>1, UpdateMakesNothing DEF Resend
    <2>. QED
        BY <2>1, <2>2 DEF RetryStep, Reread, FailAgain, Resend, Remark, Drop
<1>. QED
    BY <1>5, <1>6, <1>7, <1>8

-----------------------------------------------------------------------------
\* A feed is done with before its validators are saved
LEMMA AnswersAreHandledStep == Inv /\ [Next]_vars => AnswersAreHandled'
<1>. SUFFICES ASSUME Inv, [Next]_vars PROVE AnswersAreHandled'
    OBVIOUS
<1>. USE DEF feedVars, memory, store
<1>1. TypeOK /\ AnswersAreHandled
    BY DEF Inv
<1>2. CASE UNCHANGED vars
    BY <1>1, <1>2 DEF vars, AnswersAreHandled, InFeed, Handled, AtEntry, At
<1>3. CASE Site
    <2>. PICK e \in Entry : Publish(e) \/ Retitle(e) \/ ListOrNot(e) \/ GrowOld(e)
        BY <1>3 DEF Site
    <2>1. UNCHANGED <<dated, memory, run, settled, store>>
        BY DEF Publish, Retitle, ListOrNot, GrowOld
    <2>2. \A f \in Entry : /\ age[f] # "unborn" => age'[f] # "unborn"
                           /\ age[f] # "unborn" /\ age'[f] = "news" => age[f] = "news"
        BY <1>1 DEF Publish, Retitle, ListOrNot, GrowOld, TypeOK
    <2>3. \A f \in Entry : feed'[f].listed => age'[f] # "unborn"
        <3>1. \A f \in Entry \ {e} : feed'[f] = feed[f]
            BY <1>1 DEF Publish, Retitle, ListOrNot, GrowOld, TypeOK
        <3>2. feed'[e].listed => age'[e] # "unborn"
            <4>1. CASE Publish(e)
                BY <1>1, <4>1 DEF Publish, TypeOK
            <4>2. CASE Retitle(e) \/ ListOrNot(e)
                BY <1>1, <4>2 DEF Retitle, ListOrNot, TypeOK, FeedRows, AnswersAreHandled
            <4>3. CASE GrowOld(e)
                BY <1>1, <4>3 DEF GrowOld, TypeOK
            <4>. QED
                BY <4>1, <4>2, <4>3
        <3>. QED
            BY <1>1, <2>2, <3>1, <3>2 DEF AnswersAreHandled
    <2>. QED
        BY <1>1, <2>1, <2>2, <2>3 DEF AnswersAreHandled, InFeed, Handled, AtEntry, At
<1>4. CASE Aggregator
    <2>1. UNCHANGED <<feedVars, memory, run>>
        BY <1>4 DEF Aggregator, Register, Delete, Expire
    <2>. QED
        BY <1>1, <2>1 DEF AnswersAreHandled, InFeed, Handled, AtEntry, At
<1>5. CASE StartRun
    <2>1. UNCHANGED <<feedVars, memory>> /\ ~At("queue")'
        BY <1>5 DEF StartRun, Run, At
    <2>2. InFeed' => run'.shown = feed /\ run'.left = Listed /\ run'.entry = None
        BY <1>5 DEF StartRun, Run, InFeed, FeedStages
    <2>. QED
        BY <1>1, <2>1, <2>2 DEF AnswersAreHandled, TypeOK, Handled, Listed, AtEntry
<1>6. CASE SaveValidators
    <2>1. UNCHANGED <<feedVars, seen>> /\ ~At("queue")' /\ ~InFeed'
        BY <1>6 DEF SaveValidators, Run, At, InFeed, FeedStages
    <2>2. \A f \in Entry : etag'[f].listed => Handled(f)
        BY <1>1, <1>6 DEF SaveValidators, AnswersAreHandled, InFeed, FeedStages, At
    <2>. QED
        BY <1>1, <2>1, <2>2 DEF AnswersAreHandled, Handled, AtEntry
<1>7. CASE EndRun \/ Cut
    BY <1>1, <1>7 DEF EndRun, Cut, AnswersAreHandled, InFeed, Handled, AtEntry, At
<1>8. ASSUME NEW e \in Entry, FeedStep(e) PROVE AnswersAreHandled'
    <2>1. /\ InFeed /\ run \in Runs /\ Shown(e) \in Titles
          /\ run'.shown = run.shown
          /\ UNCHANGED <<feed, age, dated, etag, buried>>
          /\ \A f \in Entry : seen[f] # None => seen'[f] # None
          /\ run'.left = run.left \/ run'.left = run.left \ {e}
        BY <1>8, FeedStepsKeepMemory
    <2>2. \A f \in Entry : Handled(f) => Handled(f)'
        BY <2>1 DEF Handled
    <2>3. run'.left # run.left /\ age[e] # "unborn" => Handled(e)'
        <3>1. CASE Pass(e)
            BY <2>1, <3>1, NoneIsApart DEF Pass, TooOld, Handled
        <3>2. CASE TurnAway(e)
            BY <2>1, <3>2 DEF TurnAway, Handled
        <3>3. CASE Mark(e)
            BY <1>1, <2>1, <3>3, NoneIsApart DEF Mark, TypeOK, Handled
        <3>4. CASE Queue(e)
            BY <1>1, <2>2, <3>4 DEF Queue, AnswersAreHandled
        <3>5. CASE Send(e) \/ SendChange(e) \/ \E page \in Pages : Take(e, page)
            BY <2>1, <3>5 DEF Send, SendChange, Take, With, Runs
        <3>. QED
            BY <1>8, <3>1, <3>2, <3>3, <3>4, <3>5 DEF FeedStep
    <2>4. AtEntry("queue", e)' => Handled(e)'
        <3>1. CASE Mark(e)
            <4>1. seen'[e] # None
                BY <1>1, <2>1, <3>1, NoneIsApart DEF Mark, TypeOK
            <4>2. age[e] # "unborn"
                BY <1>1, <2>1, <3>1, NoneIsApart DEF Mark, AtEntry, AnswersAreHandled
            <4>. QED
                BY <2>1, <4>1, <4>2 DEF Handled
        <3>2. CASE ~Mark(e)
            BY <1>8, <2>1, <3>2 DEF FeedStep, Pass, TurnAway, Take, Send, Queue, SendChange, With, DoneWith,
                AtEntry, At, Runs
        <3>. QED
            BY <3>1, <3>2
    <2>5. \A f \in Entry \ {e} : ~AtEntry("queue", f)'
        BY <1>8, <2>1 DEF FeedStep, Pass, TurnAway, Take, Send, Mark, Queue, SendChange, With, DoneWith,
            AtEntry, At, Runs
    <2>6. run'.entry \in run'.left \cup {None}
        <3>1. run.entry \in run.left \cup {None}
            BY <1>1, <2>1 DEF AnswersAreHandled
        <3>. QED
            BY <1>8, <2>1, <3>1 DEF FeedStep, Pass, TurnAway, Take, Send, Mark, Queue, SendChange, With,
                DoneWith, Runs
    <2>. QED
        BY <1>1, <2>1, <2>2, <2>3, <2>4, <2>5, <2>6 DEF AnswersAreHandled
<1>9. ASSUME NEW e \in Entry, RetryStep(e) PROVE AnswersAreHandled'
    <2>1. /\ ~InFeed' /\ ~At("queue")'
          /\ UNCHANGED <<feed, age, etag>>
          /\ \A f \in Entry : seen[f] # None => seen'[f] # None
        BY <1>9, RetryStepsKeepMemory DEF FeedStages
    <2>. QED
        BY <1>1, <2>1 DEF AnswersAreHandled, Handled, AtEntry
<1>10. ASSUME NEW e \in Entry, Forget(e) \/ Lapse(e) PROVE AnswersAreHandled'
    <2>1. UNCHANGED <<feedVars, etag, run>>
          /\ \A f \in Entry : seen[f] # None => seen'[f] # None \/ age[f] = "old"
        BY <1>1, <1>10 DEF Forget, Lapse, TypeOK
    <2>. QED
        BY <1>1, <2>1 DEF AnswersAreHandled, InFeed, Handled, AtEntry, At
<1>. QED
    BY <1>2, <1>3, <1>4, <1>5, <1>6, <1>7, <1>8, <1>9, <1>10 DEF Next, Collector

-----------------------------------------------------------------------------
\* What was deleted is not taken again while it is remembered, nor when it is old
LEMMA DeletedIsNotTakenStep == Inv /\ [Next]_vars => DeletedIsNotTaken'
<1>. SUFFICES ASSUME Inv, [Next]_vars PROVE DeletedIsNotTaken'
    OBVIOUS
<1>. USE DEF feedVars, memory, store
<1>1. TypeOK /\ DeletedIsNotTaken
    BY DEF Inv
<1>2. CASE UNCHANGED vars
    BY <1>1, <1>2 DEF vars, DeletedIsNotTaken, AtEntry, At
<1>3. CASE Site
    <2>1. UNCHANGED <<dated, memory, run, settled, store>>
        BY <1>3 DEF Site, Publish, Retitle, ListOrNot, GrowOld
    <2>2. \A f \in Entry : age[f] = "old" => age'[f] = "old"
        BY <1>1, <1>3 DEF Site, Publish, Retitle, ListOrNot, GrowOld, TypeOK
    <2>. QED
        BY <1>1, <2>1, <2>2 DEF DeletedIsNotTaken, AtEntry, At
<1>4. CASE Aggregator
    <2>1. CASE Register
        BY <1>1, <2>1 DEF Register, DeletedIsNotTaken, AtEntry, At
    <2>2. ASSUME NEW e \in Entry, NEW a \in Address, Delete(e, a) \/ Expire(e, a)
          PROVE  DeletedIsNotTaken'
        <3>1. items' = [items EXCEPT ![e][a] = None] /\ UNCHANGED <<feedVars, memory, run>>
              /\ buried' \subseteq buried \cup {<<e, a>>}
              /\ (seen[e] = None => buried' = buried)
            BY <2>2 DEF Delete, Expire
        <3>2. /\ items'[e][a] = None
              /\ \A f \in Entry, b \in Address : items[f][b] = None => items'[f][b] = None
            BY <1>1, <3>1, RemovalTakesOne
        <3>3. ASSUME NEW f \in Entry, NEW b \in Address, <<f, b>> \in buried', dated[f] = "feed"
              PROVE  items'[f][b] = None /\ (seen[f] # None \/ age[f] = "old")
            BY <1>1, <3>1, <3>2, <3>3 DEF DeletedIsNotTaken
        <3>4. ASSUME NEW f \in Entry, AtEntry("send", f), dated[f] = "feed"
              PROVE  seen[f] = None /\ \A b \in Address : <<f, b>> \notin buried'
            BY <1>1, <3>1, <3>4 DEF DeletedIsNotTaken
        <3>. QED
            BY <3>1, <3>3, <3>4 DEF DeletedIsNotTaken, AtEntry, At
    <2>. QED
        BY <1>4, <2>1, <2>2 DEF Aggregator
<1>5. CASE StartRun \/ SaveValidators \/ EndRun \/ Cut
    <2>1. UNCHANGED <<feedVars, seen, store>> /\ ~At("send")'
        BY <1>5 DEF StartRun, SaveValidators, EndRun, Cut, Run, At
    <2>. QED
        BY <1>1, <2>1 DEF DeletedIsNotTaken, AtEntry
<1>6. ASSUME NEW e \in Entry, FeedStep(e) PROVE DeletedIsNotTaken'
    <2>1. /\ run \in Runs /\ Shown(e) \in Titles
          /\ UNCHANGED <<feed, age, dated, etag, buried>>
          /\ \A f \in Entry : seen[f] # None => seen'[f] # None
        BY <1>6, FeedStepsKeepMemory
    <2>2. ASSUME NEW f \in Entry, NEW b \in Address, <<f, b>> \in buried, dated[f] = "feed"
          PROVE  items'[f][b] = None
        <3>1. items[f][b] = None
            BY <1>1, <2>2 DEF DeletedIsNotTaken
        <3>2. CASE Send(e)
            <4>1. AddressOf(e, run.page) \in Address /\ (run.page = "text") \in BOOLEAN
                BY DEF AddressOf, Address
            <4>2. f # e
                BY <1>1, <2>2, <3>2 DEF Send, DeletedIsNotTaken
            <4>. QED
                BY <1>1, <2>1, <3>1, <3>2, <4>1, <4>2, IngestArrives DEF Send
        <3>3. CASE SendChange(e)
            <4>1. "feed" \in Address
                BY DEF Address
            <4>. QED
                BY <1>1, <2>1, <3>1, <3>3, <4>1, UpdateMakesNothing DEF SendChange
        <3>4. CASE items' = items
            BY <3>1, <3>4
        <3>. QED
            BY <1>6, <3>2, <3>3, <3>4 DEF FeedStep, Pass, TurnAway, Take, Mark, Queue
    <2>3. ASSUME NEW f \in Entry, AtEntry("send", f)', dated[f] = "feed"
          PROVE  seen'[f] = None /\ \A b \in Address : <<f, b>> \notin buried
        <3>1. (\E page \in Pages : Take(e, page)) /\ f = e
            BY <1>6, <2>1, <2>3 DEF FeedStep, Pass, TurnAway, Take, Send, Mark, Queue, SendChange, With,
                DoneWith, Runs, AtEntry, At
        <3>2. seen'[e] = None /\ age[e] # "old"
            BY <2>3, <3>1 DEF Take, TooOld
        <3>. QED
            BY <1>1, <2>1, <2>3, <3>1, <3>2 DEF DeletedIsNotTaken
    <2>. QED
        BY <1>1, <2>1, <2>2, <2>3 DEF DeletedIsNotTaken
<1>7. ASSUME NEW e \in Entry, RetryStep(e) PROVE DeletedIsNotTaken'
    <2>1. /\ ~At("send")' /\ UNCHANGED <<age, dated, buried>>
          /\ \A f \in Entry : seen[f] # None => seen'[f] # None
          /\ \A f \in Entry, a \in Address : items[f][a] = None => items'[f][a] = None
        BY <1>7, RetryStepsKeepMemory DEF FeedStages
    <2>. QED
        BY <1>1, <2>1 DEF DeletedIsNotTaken, AtEntry
<1>8. ASSUME NEW e \in Entry, Forget(e) \/ Lapse(e) PROVE DeletedIsNotTaken'
    <2>1. /\ UNCHANGED <<feedVars, run, store>>
          /\ \A f \in Entry : seen[f] = None => seen'[f] = None
          /\ \A f \in Entry : seen[f] # None => seen'[f] # None \/ age[f] = "old"
        BY <1>1, <1>8 DEF Forget, Lapse, TypeOK
    <2>. QED
        BY <1>1, <2>1 DEF DeletedIsNotTaken, AtEntry, At
<1>. QED
    BY <1>2, <1>3, <1>4, <1>5, <1>6, <1>7, <1>8 DEF Next, Collector

-----------------------------------------------------------------------------
LEMMA InvHolds == Spec => []Inv
<1>1. Inv /\ [Next]_vars => Inv'
    BY TypeOKStep, SentHasArrivedStep, AnswersAreHandledStep, DeletedIsNotTakenStep DEF Inv
<1>. QED
    BY InitKeepsAll, <1>1, PTL DEF Spec

\* The feed, the collector's memory, its run and the items keep their types, and a run takes up
\* only pages that wait, wherever runs are cut.
THEOREM FlowTypeCorrect == Spec => []TypeOK
<1>1. Inv => TypeOK
    BY DEF Inv
<1>. QED
    BY InvHolds, <1>1, PTL

\* The collector forgets no article it has not sent: what its memory passes over has been
\* answered for by the aggregator.
THEOREM MemoryIsEarned == Spec => []RememberedHasArrived
<1>1. Inv => RememberedHasArrived
    BY DEF Inv, SentHasArrived, RememberedHasArrived, Arrived
<1>. QED
    BY InvHolds, <1>1, PTL

\* A feed that answers 304 hides no news, wherever the runs before were cut.
THEOREM UnmodifiedHidesNothing == Spec => []NothingBehindA304
<1>1. Inv => NothingBehindA304
    <2>. SUFFICES ASSUME Inv, etag = feed, NEW e \in Listed, age[e] = "news" PROVE seen[e] # None
        BY DEF NothingBehindA304
    <2>1. e \in Entry /\ feed[e].listed /\ feed # None
        BY NoneIsApart DEF Listed, Inv, TypeOK
    <2>. QED
        BY <2>1 DEF Inv, AnswersAreHandled, Handled
<1>. QED
    BY InvHolds, <1>1, PTL

\* What an editor deleted, and the collector had been told of, stays deleted when the feed dates it.
THEOREM DeletionLasts == Spec => []DeletedStaysDeleted
<1>1. Inv => DeletedStaysDeleted
    BY DEF Inv, DeletedIsNotTaken, DeletedStaysDeleted
<1>. QED
    BY InvHolds, <1>1, PTL


-----------------------------------------------------------------------------
\* The titles the aggregator has of an article, and the one its retry carries
Known(e) ==
    {items[e][a].title : a \in {b \in Address : items[e][b] # None}} \cup
    (IF retries[e] = None THEN {} ELSE {retries[e].title})

\* None of them is ahead of the feed, nor of the answer the run under way goes by: what the run
\* has yet to send is as new as all that has been sent
NothingIsAhead ==
    \A e \in Entry :
        /\ InFeed => run.shown[e].title <= feed[e].title
        /\ \A n \in Known(e) : n <= feed[e].title /\ (InFeed => n <= run.shown[e].title)

\* What a step makes of the title of an item
KeepsTitle(e, a) ==
    items[e][a] # None /\ items'[e][a] # None => items'[e][a].title >= items[e][a].title

\* An item that is sent, anew or as a change, gets the title that was sent
LEMMA SentTitle ==
    ASSUME TypeOK, NEW e \in Entry, NEW a \in Address, NEW title \in Titles, NEW text \in BOOLEAN,
           Ingest(e, a, title, text) \/ Update(e, a, title, text)
    PROVE  \A f \in Entry, b \in Address :
              \/ items'[f][b] = items[f][b]
              \/ f = e /\ b = a /\ (items'[f][b] # None => items'[f][b].title = title)
<1>1. items \in [Entry -> [Address -> ItemRows \cup {None}]]
    BY DEF TypeOK
<1>2. PICK m : m = Merged(items[e][a], title, text)
    OBVIOUS
<1>3. m.title = title
    BY <1>2 DEF Merged
<1>4. \/ items' = items
      \/ items' = [items EXCEPT ![e] = [items[e] EXCEPT ![a] = m]]
      \/ items' = [items EXCEPT ![e] = [items[e] EXCEPT ![a] = None]]
    BY <1>2 DEF Ingest, Update
<1>. QED
    BY <1>1, <1>3, <1>4

\* What is known of an article are titles
LEMMA KnownAreTitles ==
    ASSUME TypeOK, NEW e \in Entry
    PROVE  feed[e].title \in Nat /\ Known(e) \subseteq Nat
<1>1. feed[e] \in FeedRows /\ retries[e] \in RetryRows \cup {None}
      /\ \A a \in Address : items[e][a] \in ItemRows \cup {None}
    BY DEF TypeOK
<1>2. Titles \subseteq Nat
    BY BoundsAreNatural DEF Titles
<1>. QED
    BY <1>1, <1>2 DEF Known, FeedRows, RetryRows, ItemRows

\* It is enough that the feed goes forward, that a run goes by one answer of it, and that what
\* becomes known was known or is in that answer
LEMMA StaysBehind ==
    ASSUME TypeOK, TypeOK', NothingIsAhead,
           InFeed => run.shown \in [Entry -> FeedRows],
           \A f \in Entry : feed'[f].title >= feed[f].title,
           InFeed' => (InFeed /\ run'.shown = run.shown) \/ run'.shown = feed',
           \A f \in Entry : \A n \in Known(f)' :
              n \in Known(f) \/ (InFeed /\ n = run.shown[f].title)
    PROVE  NothingIsAhead'
<1>. SUFFICES ASSUME NEW f \in Entry
              PROVE  /\ InFeed' => run'.shown[f].title <= feed'[f].title
                     /\ \A n \in Known(f)' :
                            n <= feed'[f].title /\ (InFeed' => n <= run'.shown[f].title)
    BY DEF NothingIsAhead
<1>1. /\ feed[f].title \in Nat /\ feed'[f].title \in Nat /\ feed'[f].title >= feed[f].title
      /\ Known(f) \subseteq Nat /\ Known(f)' \subseteq Nat
    <2>1. feed'[f].title \in Nat /\ Known(f)' \subseteq Nat
        <3>1. feed'[f] \in FeedRows /\ retries'[f] \in RetryRows \cup {None}
              /\ \A a \in Address : items'[f][a] \in ItemRows \cup {None}
            BY DEF TypeOK
        <3>2. Titles \subseteq Nat
            BY BoundsAreNatural DEF Titles
        <3>3. feed'[f].title \in Nat
            BY <3>1, <3>2 DEF FeedRows
        <3>4. retries'[f] # None => retries'[f].title \in Nat
            BY <3>1, <3>2 DEF RetryRows
        <3>5. \A a \in Address : items'[f][a] # None => items'[f][a].title \in Nat
            BY <3>1, <3>2 DEF ItemRows
        <3>. QED
            BY <3>3, <3>4, <3>5 DEF Known
    <2>. QED
        BY <2>1, KnownAreTitles
<1>2. InFeed => run.shown[f].title \in Nat /\ run.shown[f].title <= feed[f].title
    <2>1. Titles \subseteq Nat
        BY BoundsAreNatural DEF Titles
    <2>. QED
        BY <2>1 DEF NothingIsAhead, FeedRows
<1>3. ASSUME NEW n \in Known(f)'
      PROVE  n \in Nat /\ n <= feed[f].title /\ (InFeed => n <= run.shown[f].title)
    BY <1>1, <1>2 DEF NothingIsAhead
<1>. QED
    BY <1>1, <1>2, <1>3

\* No step lets a title get ahead, and only a retry sends an older one than the item has
LEMMA TitlesStep ==
    ASSUME Inv, Inv', NothingIsAhead, [Next]_vars
    PROVE  /\ NothingIsAhead'
           /\ \A e \in Entry, a \in Address : KeepsTitle(e, a) \/ Resend(e)
<1>. USE DEF feedVars, memory, store
<1>1. /\ TypeOK /\ TypeOK' /\ (InFeed => run.shown \in [Entry -> FeedRows])
      /\ \A f \in Entry : feed[f].title \in Nat /\ Known(f) \subseteq Nat
    BY KnownAreTitles DEF Inv, AnswersAreHandled
<1>2. \A f \in Entry : feed[f].title >= feed[f].title
    BY <1>1
\* Where no item gets another title
<1>3. ASSUME \A f \in Entry, b \in Address : items'[f][b] \in {items[f][b], None}
      PROVE  \A f \in Entry, b \in Address : KeepsTitle(f, b)
    <2>. SUFFICES ASSUME NEW f \in Entry, NEW b \in Address, items[f][b] # None
                  PROVE  items[f][b].title >= items[f][b].title
        BY <1>3 DEF KeepsTitle
    <2>1. items[f][b].title \in Known(f)
        BY DEF Known
    <2>. QED
        BY <1>1, <2>1
<1>4. ASSUME \A f \in Entry, b \in Address : items'[f][b] \in {items[f][b], None},
             \A f \in Entry : retries'[f] \in {retries[f], None}
      PROVE  \A f \in Entry : \A n \in Known(f)' : n \in Known(f)
    BY <1>4 DEF Known
<1>5. CASE UNCHANGED vars
    BY <1>1, <1>2, <1>3, <1>4, <1>5, StaysBehind DEF vars, InFeed
<1>6. CASE Site
    <2>1. UNCHANGED <<dated, memory, run, settled, store>>
        BY <1>6 DEF Site, Publish, Retitle, ListOrNot, GrowOld
    <2>2. \A f \in Entry : feed'[f].title >= feed[f].title
        <3>1. \A f \in Entry :
                feed'[f] = feed[f] \/ feed'[f].title \in {feed[f].title, feed[f].title + 1}
            BY <1>1, <1>6 DEF Site, Publish, Retitle, ListOrNot, GrowOld, TypeOK, FeedRows
        <3>. QED
            BY <1>1, <3>1
    <2>. QED
        BY <1>1, <1>3, <1>4, <2>1, <2>2, StaysBehind DEF InFeed
<1>7. CASE Aggregator
    <2>1. UNCHANGED <<feedVars, memory, run>>
        BY <1>7 DEF Aggregator, Register, Delete, Expire
    <2>2. \A f \in Entry, b \in Address : items'[f][b] \in {items[f][b], None}
        <3>1. CASE items' = items
            BY <3>1
        <3>2. ASSUME NEW e \in Entry, NEW a \in Address, Delete(e, a) \/ Expire(e, a)
              PROVE  \A f \in Entry, b \in Address : items'[f][b] \in {items[f][b], None}
            BY <1>1, <3>2, RemovalTakesOne DEF Delete, Expire
        <3>. QED
            BY <1>7, <3>1, <3>2 DEF Aggregator, Register
    <2>. QED
        BY <1>1, <1>2, <1>3, <1>4, <2>1, <2>2, StaysBehind DEF InFeed
<1>8. CASE StartRun \/ SaveValidators \/ EndRun \/ Cut
    <2>1. UNCHANGED <<feed, retries, items>>
        BY <1>8 DEF StartRun, SaveValidators, EndRun, Cut
    <2>2. InFeed' => run'.shown = feed'
        BY <1>8 DEF StartRun, SaveValidators, EndRun, Cut, Run, InFeed, FeedStages
    <2>. QED
        BY <1>1, <1>2, <1>3, <1>4, <2>1, <2>2, StaysBehind
<1>9. ASSUME NEW e \in Entry, FeedStep(e)
      PROVE  NothingIsAhead' /\ \A f \in Entry, b \in Address : KeepsTitle(f, b)
    <2>1. InFeed /\ Shown(e) \in Titles /\ run'.shown = run.shown /\ feed' = feed
        BY <1>9, FeedStepsKeepMemory
    <2>2. \A f \in Entry, b \in Address :
            \/ items'[f][b] = items[f][b]
            \/ f = e /\ (items'[f][b] # None => items'[f][b].title = Shown(e))
        <3>1. CASE Send(e)
            <4>1. PICK a \in Address, text \in BOOLEAN : Ingest(e, a, Shown(e), text)
                BY <3>1 DEF Send, AddressOf, Address
            <4>. QED
                BY <1>1, <2>1, <4>1, SentTitle
        <3>2. CASE SendChange(e)
            <4>1. PICK a \in Address, text \in BOOLEAN : Update(e, a, Shown(e), text)
                BY <3>2 DEF SendChange, Address
            <4>. QED
                BY <1>1, <2>1, <4>1, SentTitle
        <3>3. CASE items' = items
            BY <3>3
        <3>. QED
            BY <1>9, <3>1, <3>2, <3>3 DEF FeedStep, Pass, TurnAway, Take, Mark, Queue
    <2>3. \A f \in Entry :
            \/ retries'[f] = retries[f]
            \/ f = e /\ (retries'[f] # None => retries'[f].title = Shown(e))
        <3>1. CASE Queue(e)
            <4>1. PICK r : r = [attempt |-> 1, title |-> Shown(e)]
                OBVIOUS
            <4>2. retries' = [retries EXCEPT ![e] = r] /\ r.title = Shown(e)
                BY <3>1, <4>1 DEF Queue
            <4>. QED
                BY <1>1, <4>2 DEF TypeOK
        <3>2. CASE retries' = retries
            BY <3>2
        <3>. QED
            BY <1>9, <3>1, <3>2 DEF FeedStep, Pass, TurnAway, Take, Send, Mark, SendChange
    <2>4. \A f \in Entry : \A n \in Known(f)' : n \in Known(f) \/ (InFeed /\ n = run.shown[f].title)
        BY <2>1, <2>2, <2>3 DEF Known, Shown
    <2>5. NothingIsAhead'
        BY <1>1, <1>2, <2>1, <2>4, StaysBehind
    <2>6. ASSUME NEW f \in Entry, NEW b \in Address PROVE KeepsTitle(f, b)
        <3>. SUFFICES ASSUME items[f][b] # None, items'[f][b] # None
                      PROVE  items'[f][b].title >= items[f][b].title
            BY DEF KeepsTitle
        <3>1. items[f][b].title \in Known(f)
            BY DEF Known
        <3>2. items[f][b].title \in Nat /\ items[f][b].title <= run.shown[f].title
            BY <1>1, <2>1, <3>1 DEF NothingIsAhead
        <3>3. run.shown[f].title \in Nat
            BY <1>1, <2>1, BoundsAreNatural DEF FeedRows, Titles
        <3>4. items'[f][b].title \in {items[f][b].title, run.shown[f].title}
            BY <2>2 DEF Shown
        <3>. QED
            BY <3>2, <3>3, <3>4
    <2>. QED
        BY <2>5, <2>6
<1>10. ASSUME NEW e \in Entry, RetryStep(e)
       PROVE  /\ NothingIsAhead'
              /\ \A f \in Entry, b \in Address : KeepsTitle(f, b) \/ Resend(f)
    <2>1. ~InFeed' /\ feed' = feed
        BY <1>10, RetryStepsKeepMemory
    <2>2. e \in Waiting /\ retries[e] \in RetryRows /\ retries[e] # None
        <3>1. InRetries /\ (e \in run.left \/ run.entry = e)
            BY <1>10 DEF RetryStep, Reread, FailAgain, Resend, Remark, Drop, At, AtEntry, InRetries
        <3>. QED
            BY <1>1, <3>1, NoneIsApart DEF TypeOK, InRetries, Waiting
    <2>3. \A f \in Entry :
            \/ retries'[f] = retries[f]
            \/ f = e /\ (retries'[f] # None => retries'[f].title = retries[e].title)
        <3>1. PICK r : r = [attempt |-> retries[e].attempt + 1, title |-> retries[e].title]
            OBVIOUS
        <3>2. r.title = retries[e].title
            BY <3>1
        <3>3. \/ retries' = retries \/ retries' = [retries EXCEPT ![e] = None]
              \/ retries' = [retries EXCEPT ![e] = r]
            BY <1>10, <3>1 DEF RetryStep, Reread, FailAgain, Resend, Remark, Drop
        <3>. QED
            BY <1>1, <3>2, <3>3 DEF TypeOK
    <2>4. \A f \in Entry, b \in Address :
            \/ items'[f][b] = items[f][b]
            \/ /\ f = e /\ Resend(f)
               /\ items'[f][b] # None => items'[f][b].title = retries[e].title
        <3>1. CASE Resend(e)
            <4>1. PICK a \in Address, text \in BOOLEAN : Update(e, a, retries[e].title, text)
                BY <3>1 DEF Resend, AddressOf, Address
            <4>2. retries[e].title \in Titles
                BY <2>2 DEF RetryRows
            <4>. QED
                BY <1>1, <3>1, <4>1, <4>2, SentTitle
        <3>2. CASE items' = items
            BY <3>2
        <3>. QED
            BY <1>10, <3>1, <3>2 DEF RetryStep, Reread, FailAgain, Remark, Drop
    <2>5. \A f \in Entry : \A n \in Known(f)' : n \in Known(f)
        BY <2>2, <2>3, <2>4 DEF Known
    <2>6. NothingIsAhead'
        BY <1>1, <1>2, <2>1, <2>5, StaysBehind
    <2>7. ASSUME NEW f \in Entry, NEW b \in Address, ~Resend(f) PROVE KeepsTitle(f, b)
        <3>. SUFFICES ASSUME items[f][b] # None PROVE items[f][b].title >= items[f][b].title
            BY <2>4, <2>7 DEF KeepsTitle
        <3>1. items[f][b].title \in Known(f)
            BY DEF Known
        <3>. QED
            BY <1>1, <3>1
    <2>. QED
        BY <2>6, <2>7
<1>11. ASSUME NEW e \in Entry, Forget(e) \/ Lapse(e)
       PROVE  /\ NothingIsAhead'
              /\ \A f \in Entry, b \in Address : KeepsTitle(f, b)
    <2>1. UNCHANGED <<feed, run, items>> /\ \A f \in Entry : retries'[f] \in {retries[f], None}
        BY <1>1, <1>11 DEF Forget, Lapse, TypeOK
    <2>. QED
        BY <1>1, <1>2, <1>3, <1>4, <2>1, StaysBehind DEF InFeed
<1>. QED
    BY <1>5, <1>6, <1>7, <1>8, <1>9, <1>10, <1>11 DEF Next, Collector

\* The title of an item goes back to an earlier one only by a retry, wherever runs are cut and
\* however often the site changes its titles meanwhile.
THEOREM TitlesGoBackByRetries == Spec => OnlyRetriesTurnTitlesBack
<1>1. Init => NothingIsAhead
    <2>. SUFFICES ASSUME Init, NEW e \in Entry PROVE ~InFeed /\ Known(e) = {}
        BY DEF NothingIsAhead
    <2>. QED
        BY DEF Init, InFeed, Known
<1>2. ASSUME Inv, Inv', NothingIsAhead, [Next]_vars
      PROVE  [\A e \in Entry, a \in Address :
                items[e][a] # None /\ items'[e][a] # None /\ items'[e][a].title < items[e][a].title
                    => Resend(e)]_vars
    <2>1. ASSUME NEW e \in Entry, NEW a \in Address, items[e][a] # None, items'[e][a] # None,
                 items'[e][a].title < items[e][a].title
          PROVE  Resend(e)
        <3>1. items[e][a].title \in Nat /\ items'[e][a].title \in Nat
            <4>1. items[e][a] \in ItemRows /\ items'[e][a] \in ItemRows
                BY <1>2, <2>1 DEF Inv, TypeOK
            <4>. QED
                BY <4>1, BoundsAreNatural DEF ItemRows, Titles
        <3>2. ~KeepsTitle(e, a)
            BY <2>1, <3>1 DEF KeepsTitle
        <3>. QED
            BY <1>2, <3>2, TitlesStep
    <2>. QED
        BY <2>1
<1>. QED
    BY <1>1, <1>2, InvHolds, TitlesStep, PTL DEF Spec, OnlyRetriesTurnTitlesBack
=============================================================================
