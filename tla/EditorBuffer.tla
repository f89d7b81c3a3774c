------------------------------ MODULE EditorBuffer ------------------------------
(* One person writes one article in one tab of the editor: the form of the    *)
(* page that is open (useArticleSession.ts), what localStorage keeps of it    *)
(* (draftBuffer.ts), the guard that asks before he leaves (useLeaveGuard.ts), *)
(* and the requests of this page and of the pages he has left. The service    *)
(* behind them, and the colleague who works there too, are as far as the      *)
(* answers show them. A text stands for everything the form edits.            *)
EXTENDS Integers, FiniteSets

CONSTANTS
    MaxTexts,       \* bound: texts typed
    MaxPages,       \* bound: pages of the editor opened
    MaxAsks,        \* bound: saves, publications and the like asked for
    MaxElsewhere    \* bound: steps of the colleague

ASSUME EditorAssumption == MaxTexts \in Nat /\ MaxPages \in Nat /\ MaxAsks \in Nat /\ MaxElsewhere \in Nat

Keys == {"new", "article"}
Blank == 0
NoBuffer == [text |-> Blank, early |-> FALSE]
NoForm == [up |-> FALSE, n |-> 0, key |-> "new", ready |-> FALSE, ver |-> 0, text |-> Blank, base |-> Blank,
           status |-> "draft", frozen |-> FALSE, live |-> FALSE, locked |-> FALSE, timer |-> FALSE, busy |-> "none"]
NoArticle == [there |-> FALSE, ver |-> 0, text |-> Blank, site |-> Blank, status |-> "draft", frozen |-> FALSE, edit |-> "none"]

VARIABLES
    form,           \* the page that is open: what it shows, what it takes the server to hold
    buffers,        \* localStorage; early: written before the article was ever on the site
    held,           \* the article as the service has it, and who holds an edit of it
    asks,           \* requests under way, each of the page it left from
    typed,          \* texts typed so far
    asked,          \* actions asked for so far
    elsewhere,      \* the colleague's steps so far
    work,           \* what he typed last under each key, until it is saved or he lets it go
    reached,        \* the texts of his the service has taken
    behind          \* the answer to a page he had left has taken the buffer, or the page, of what he typed since
evars == <<form, buffers, held, asks, typed, asked, elsewhere, work, reached, behind>>

BufferInit ==
    /\ form = NoForm /\ buffers = [k \in Keys |-> NoBuffer] /\ asks = {} /\ typed = 0 /\ asked = 0 /\ elsewhere = 0
    /\ work = [k \in Keys |-> Blank] /\ reached = {} /\ behind = FALSE
    /\ held \in {NoArticle, [NoArticle EXCEPT !.there = TRUE, !.ver = 1, !.status = "published", !.frozen = TRUE]}

Dirty(f) == f.ready /\ f.text # f.base
\* The form and localStorage after a render: a clean form has no buffer, a dirty one starts the timer anew
Renders(f, b) ==
    /\ form' = [f EXCEPT !.timer = Dirty(f) /\ ~f.locked]
    /\ buffers' = IF f.ready /\ ~f.locked /\ ~Dirty(f) THEN [b EXCEPT ![f.key] = NoBuffer] ELSE b
Drops(k) == work' = [work EXCEPT ![k] = Blank]
Request(kind, n, f, then) ==
    [kind |-> kind, n |-> n, text |-> f.text, ver |-> f.ver, then |-> then, answer |-> "none", got |-> NoArticle]
Free == form.up /\ form.ready /\ form.busy = "none"
Mine(a) == form.up /\ form.n = a.n

\* -- Opening --

\* A new article picks up what was left unsaved. The first render has the fields of the buffer and no
\* text yet: where the fields are those of a blank article, it counts as clean and the buffer goes
OpenNew ==
    /\ ~form.up /\ form.n < MaxPages
    /\ form' = [NoForm EXCEPT !.up = TRUE, !.n = form.n + 1, !.ready = TRUE, !.text = buffers["new"].text,
                              !.timer = buffers["new"].text # Blank]
    /\ \E plain \in BOOLEAN : buffers' = IF plain THEN [buffers EXCEPT !["new"] = NoBuffer] ELSE buffers
    /\ UNCHANGED <<held, asks, typed, asked, elsewhere, work, reached, behind>>
Opening(n) == [NoForm EXCEPT !.up = TRUE, !.n = n, !.key = "article"]
OpenArticle ==
    /\ ~form.up /\ form.n < MaxPages /\ held.there
    /\ form' = Opening(form.n + 1)
    /\ asks' = asks \union {Request("get", form.n + 1, NoForm, "none")}
    /\ UNCHANGED <<buffers, held, typed, asked, elsewhere, work, reached, behind>>
Adopted(f, h) ==
    [f EXCEPT !.key = "article", !.ready = TRUE, !.ver = h.ver, !.text = h.text, !.base = h.text, !.status = h.status,
              !.frozen = h.frozen, !.live = h.status = "published" /\ h.edit = "mine", !.locked = h.edit = "theirs"]
\* The server's copy; what the browser kept besides is offered, unless it is the same, or of a type the
\* article can no longer have: then it goes without a word
Loaded(a) ==
    LET f == Adopted(form, a.got)
        b == buffers["article"]
    IN /\ a.kind = "get" /\ a.then = "none" /\ a.answer = "ok" /\ Mine(a) /\ asks' = asks \ {a}
       /\ \/ (f.locked \/ b = NoBuffer) /\ Renders(f, buffers) /\ UNCHANGED work
          \/ /\ ~f.locked /\ b # NoBuffer /\ b.text = f.text
             /\ Renders(f, buffers) /\ UNCHANGED work
          \/ /\ ~f.locked /\ b # NoBuffer /\ b.text # f.text /\ b.early /\ f.frozen
             /\ Renders(f, [buffers EXCEPT !["article"] = NoBuffer]) /\ Drops("article")
          \/ /\ ~f.locked /\ b # NoBuffer /\ b.text # f.text
             /\ \/ Renders([f EXCEPT !.text = b.text], buffers) /\ UNCHANGED work
                \/ Renders(f, [buffers EXCEPT !["article"] = NoBuffer]) /\ Drops("article")
       /\ UNCHANGED <<held, typed, asked, elsewhere, reached, behind>>

\* -- Keeping what is not saved --

TypeIn ==
    /\ form.up /\ form.ready /\ ~form.locked /\ typed < MaxTexts
    /\ typed' = typed + 1
    /\ Renders([form EXCEPT !.text = typed'], buffers)
    /\ work' = [work EXCEPT ![form.key] = typed']
    /\ UNCHANGED <<held, asks, asked, elsewhere, reached, behind>>
UndoTyping ==
    /\ form.up /\ Dirty(form) /\ ~form.locked
    /\ Renders([form EXCEPT !.text = form.base], buffers) /\ Drops(form.key)
    /\ UNCHANGED <<held, asks, typed, asked, elsewhere, reached, behind>>
WriteBuffer ==
    /\ form.up /\ form.timer
    /\ form' = [form EXCEPT !.timer = FALSE]
    /\ buffers' = [buffers EXCEPT ![form.key] = [text |-> form.text, early |-> ~form.frozen]]
    /\ UNCHANGED <<held, asks, typed, asked, elsewhere, work, reached, behind>>

\* -- Actions: one request at a time for each page --

Asks(kind, busy, then) ==
    /\ asked < MaxAsks /\ asked' = asked + 1
    /\ form' = [form EXCEPT !.busy = busy]
    /\ asks' = asks \union {Request(kind, form.n, form, then)}
    /\ UNCHANGED <<buffers, held, typed, elsewhere, work, reached, behind>>
\* A second article is never made, not after the first is deleted either: one is modelled
MayCreate == form.key = "new" => held.ver = 0 /\ \A a \in asks : a.kind # "create"
SaveKind == IF form.key = "new" THEN "create" ELSE "save"
\* The status bar gives no button to a page that is locked, or clean
Save ==
    /\ Free /\ ~form.locked /\ form.text # Blank /\ (form.key = "new" \/ Dirty(form)) /\ MayCreate
    /\ Asks(SaveKind, "save", "none")
\* Slip: only a new article is saved before it is published
PublishUnsaved ==
    /\ Free /\ ~form.locked /\ form.text # Blank
    /\ (form.status = "published" => form.live \/ Dirty(form))
    /\ IF form.key = "new" THEN MayCreate /\ Asks("create", "save", "publish") ELSE Asks("publish", "publish", "none")
\* What the form holds is saved first, so what goes out is what is on the screen
Publish ==
    /\ Free /\ ~form.locked /\ form.text # Blank
    /\ (form.status = "published" => form.live \/ Dirty(form))
    /\ IF form.key = "new" \/ Dirty(form) THEN MayCreate /\ Asks(SaveKind, "save", "publish")
       ELSE Asks("publish", "publish", "none")
\* The holder drops his edit; a chief editor resets someone else's without seeing it
DiscardEdit == Free /\ (form.live \/ form.locked) /\ Asks("discard", "discard", "none")
DeleteDraft == Free /\ form.key = "article" /\ form.status = "draft" /\ ~form.frozen /\ ~form.locked /\ Asks("delete", "delete", "none")
Unpublish == Free /\ form.status = "published" /\ ~form.live /\ ~form.locked /\ Asks("unpublish", "unpublish", "none")
ClearNew ==
    /\ Free /\ form.key = "new"
    /\ Renders([form EXCEPT !.text = Blank], [buffers EXCEPT !["new"] = NoBuffer]) /\ Drops("new")
    /\ UNCHANGED <<held, asks, typed, asked, elsewhere, reached, behind>>

\* -- content-service, and the colleague --

Saves(h, text) == [h EXCEPT !.text = text, !.ver = h.ver + 1, !.edit = IF h.status = "published" THEN "mine" ELSE "none"]
Publishes(h) == [h EXCEPT !.ver = h.ver + 1, !.site = h.text, !.status = "published", !.frozen = TRUE, !.edit = "none"]
DropsEdit(h) == [h EXCEPT !.ver = h.ver + 1, !.text = h.site, !.edit = "none"]
Does(kind, h, text) ==
    CASE kind = "create" -> [NoArticle EXCEPT !.there = TRUE, !.ver = 1, !.text = text]
      [] kind = "save" -> Saves(h, text)
      [] kind = "publish" -> Publishes(h)
      [] kind = "discard" -> DropsEdit(h)
      [] kind = "unpublish" -> [h EXCEPT !.ver = h.ver + 1, !.status = "draft"]
      [] kind = "delete" -> [h EXCEPT !.there = FALSE]
      [] kind = "get" -> h
Takes(a) ==
    CASE a.kind = "create" -> ~held.there
      [] a.kind = "save" -> held.there /\ a.ver = held.ver /\ held.edit # "theirs"
      [] a.kind = "publish" -> held.there /\ a.ver = held.ver /\ held.edit # "theirs" /\ (held.status = "draft" \/ held.edit = "mine")
      [] a.kind = "discard" -> held.there /\ held.edit # "none"
      [] a.kind = "unpublish" -> held.there /\ held.status = "published" /\ held.edit = "none"
      [] a.kind = "delete" -> held.there /\ held.status = "draft" /\ ~held.frozen
      [] a.kind = "get" -> held.there
Served(a) ==
    /\ a.answer = "none" /\ Takes(a)
    /\ held' = Does(a.kind, held, a.text)
    /\ asks' = (asks \ {a}) \union {[a EXCEPT !.answer = "ok", !.got = held']}
    /\ LET saves == a.kind \in {"create", "save"}
       IN /\ work' = [k \in Keys |-> IF saves /\ work[k] = a.text THEN Blank ELSE work[k]]
          /\ reached' = IF saves THEN reached \union {a.text} ELSE reached
    /\ UNCHANGED <<form, buffers, typed, asked, elsewhere, behind>>
\* He takes an edit, gives it up or brings it out, or saves the draft
Elsewhere ==
    /\ held.there /\ elsewhere < MaxElsewhere
    /\ elsewhere' = elsewhere + 1
    /\ LET theirs == MaxTexts + elsewhere'
       IN held' \in CASE held.status = "draft" -> {Saves(held, theirs), Publishes(held)}
                      [] held.edit = "none" -> {[Saves(held, theirs) EXCEPT !.edit = "theirs"]}
                      [] held.edit = "theirs" -> {DropsEdit(held), Publishes(held)}
                      [] OTHER -> {DropsEdit(held)}
    /\ UNCHANGED <<form, buffers, asks, typed, asked, work, reached, behind>>

\* -- Answers --

\* Slip: what the form holds by now is taken for what the server holds
AdoptSavedAsTyped(f, h) ==
    [f EXCEPT !.key = "article", !.ver = h.ver, !.base = f.text, !.status = h.status, !.frozen = h.frozen,
              !.live = h.status = "published" /\ h.edit = "mine"]
\* What was typed while the request travelled stays, and stays dirty
AdoptSaved(f, h) ==
    [f EXCEPT !.key = "article", !.ver = h.ver, !.base = h.text, !.status = h.status, !.frozen = h.frozen,
              !.live = h.status = "published" /\ h.edit = "mine"]
\* A publication goes on from the save it waited for, whether its page is still open or not
GoesOn(a) == IF a.then = "publish" THEN {[a EXCEPT !.kind = "publish", !.ver = a.got.ver, !.then = "none", !.answer = "none", !.got = NoArticle]} ELSE {}
SavedHere(a) ==
    /\ a.kind \in {"create", "save", "publish"} /\ a.answer = "ok" /\ Mine(a)
    /\ asks' = (asks \ {a}) \union GoesOn(a)
    /\ Renders([AdoptSaved(form, a.got) EXCEPT !.busy = IF a.then = "publish" THEN "publish" ELSE "none"],
               IF a.kind = "create" THEN [buffers EXCEPT !["new"] = NoBuffer] ELSE buffers)
    /\ work' = IF a.kind = "create" THEN [new |-> Blank, article |-> work["new"]] ELSE work
    /\ UNCHANGED <<held, typed, asked, elsewhere, reached, behind>>
\* A save or a publication of a page he has left changes no form
SavedBehind(a) ==
    /\ a.kind \in {"save", "publish"} /\ a.answer = "ok" /\ ~Mine(a)
    /\ asks' = (asks \ {a}) \union GoesOn(a)
    /\ UNCHANGED <<form, buffers, held, typed, asked, elsewhere, work, reached, behind>>
\* A new article saved after its page was left takes the buffer of the next one, and moves whatever page
\* is open to its own address, past the guard: the way there "continues"
CreatedBehind(a) ==
    /\ a.kind = "create" /\ a.answer = "ok" /\ a.n # 0 /\ ~Mine(a)
    /\ buffers' = [buffers EXCEPT !["new"] = NoBuffer]
    /\ behind' = (behind \/ work["new"] # Blank \/ (form.up /\ Dirty(form)))
    /\ form' = Opening(form.n + 1)
    /\ asks' = (asks \ {a}) \union GoesOn(a) \union {Request("get", form.n + 1, NoForm, "none")}
    /\ UNCHANGED <<held, typed, asked, elsewhere, work, reached>>
\* An edit dropped: its buffer goes, and the article is read again as it now is
Discarded(a) ==
    /\ a.kind = "discard" /\ a.answer = "ok" /\ a.n # 0
    /\ buffers' = [buffers EXCEPT !["article"] = NoBuffer]
    /\ asks' = (asks \ {a}) \union {[a EXCEPT !.kind = "get", !.answer = "none", !.then = "discard", !.got = NoArticle]}
    /\ IF Mine(a) THEN Drops("article") /\ UNCHANGED behind ELSE behind' = (behind \/ work["article"] # Blank) /\ UNCHANGED work
    /\ UNCHANGED <<form, held, typed, asked, elsewhere, reached>>
ReadAgain(a) ==
    /\ a.kind = "get" /\ a.then = "discard" /\ a.answer = "ok" /\ Mine(a)
    /\ asks' = asks \ {a}
    /\ Renders([Adopted(form, a.got) EXCEPT !.busy = "none"], buffers) /\ Drops("article")
    /\ UNCHANGED <<held, typed, asked, elsewhere, reached, behind>>
\* The article is gone, or off the site: to the desk. From a page he has left this asks, if there is something unsaved
ToTheDesk(a) ==
    /\ a.kind \in {"delete", "unpublish"} /\ a.answer = "ok" /\ a.n # 0
    /\ asks' = asks \ {a}
    /\ \E goes \in IF Mine(a) \/ ~Dirty(form) THEN {TRUE} ELSE BOOLEAN :
        LET let == (IF Mine(a) THEN {"article"} ELSE {}) \union IF goes /\ form.up /\ Dirty(form) THEN {form.key} ELSE {}
        IN /\ form' = IF goes THEN [NoForm EXCEPT !.n = form.n] ELSE form
           /\ buffers' = [k \in Keys |-> IF k \in let \union {"article"} THEN NoBuffer ELSE buffers[k]]
           /\ work' = [k \in Keys |-> IF k \in let THEN Blank ELSE work[k]]
           /\ behind' = (behind \/ work'["article"] # Blank)
    /\ UNCHANGED <<held, typed, asked, elsewhere, reached>>
\* Turned down, or no answer: what was done may have been done
Fails(a) ==
    /\ a.n # 0 /\ asks' = asks \ {a}
    /\ form' = IF Mine(a) THEN [form EXCEPT !.busy = "none"] ELSE form
    /\ UNCHANGED <<buffers, held, typed, asked, elsewhere, work, reached, behind>>
ToNobody(a) ==
    /\ (a.answer # "none" /\ a.n = 0) \/ (a.kind = "get" /\ ~Mine(a))
    /\ asks' = asks \ {a}
    /\ UNCHANGED <<form, buffers, held, typed, asked, elsewhere, work, reached, behind>>

\* -- Leaving --

\* Inside the app the answer is final: going means the unsaved part is dropped
LeavePage ==
    /\ form.up
    /\ form' = [NoForm EXCEPT !.n = form.n]
    /\ IF Dirty(form) THEN buffers' = [buffers EXCEPT ![form.key] = NoBuffer] /\ Drops(form.key) ELSE UNCHANGED <<buffers, work>>
    /\ UNCHANGED <<held, asks, typed, asked, elsewhere, reached, behind>>
\* The tab is closed, or crashes: what the timer had not written goes with it, and nobody hears the answers
CloseTab ==
    /\ form' = [NoForm EXCEPT !.n = form.n]
    /\ LET b == buffers[form.key].text
       IN work' = IF form.timer THEN [work EXCEPT ![form.key] = IF b \in (1 .. typed) \ reached THEN b ELSE Blank] ELSE work
    /\ asks' = {[a EXCEPT !.n = 0] : a \in {r \in asks : r.answer = "none" /\ r.kind # "get"}}
    /\ UNCHANGED <<buffers, held, typed, asked, elsewhere, reached, behind>>

BufferNext ==
    \/ OpenNew \/ OpenArticle \/ TypeIn \/ UndoTyping \/ WriteBuffer
    \/ Save \/ Publish \/ DiscardEdit \/ DeleteDraft \/ Unpublish \/ ClearNew
    \/ \E a \in asks : Served(a) \/ Loaded(a) \/ SavedHere(a) \/ SavedBehind(a) \/ CreatedBehind(a) \/ Discarded(a)
                       \/ ReadAgain(a) \/ ToTheDesk(a) \/ Fails(a) \/ ToNobody(a)
    \/ Elsewhere \/ LeavePage \/ CloseTab
BufferSpec == BufferInit /\ [][BufferNext]_evars

\* -----------------------------------------------------------------------------

\* What he typed and has neither saved nor let go of is on his screen or in his browser
Stands(k) == work[k] # Blank => work[k] = buffers[k].text \/ (form.up /\ form.key = k /\ work[k] = form.text)
WorkIsKept == ~behind => \A k \in Keys : Stands(k)

\* What goes on the site is what was on the screen when he asked for it (useArticleSession.ts:274-275),
\* whatever was typed, saved or published since
GoesOutAsShown ==
    [][\A a \in asks : (a.kind = "publish" /\ a.answer = "none" /\ held'.site # held.site /\ a \notin asks') => held'.site = a.text]_evars

\* The same as WorkIsKept, whatever page was taken away: "Asks before unsaved work is left behind" (useLeaveGuard.ts:11)
AsksBeforeLeaving == \A k \in Keys : Stands(k)
================================================================================
