----------------------------- MODULE ReaderWriting -----------------------------
(* What a reader writes under an article, in the browser and in the mobile    *)
(* app: the form for a comment, the form for a reply, the form that corrects  *)
(* a comment of his (ComposeForm.tsx, EditForm.tsx), the drafts kept on the   *)
(* device (drafts.ts) and the keys texts go under (compose.ts). A request is  *)
(* sent, served and answered in steps of its own, and the client gives up     *)
(* on one that takes too long without taking it back.                         *)
EXTENDS Integers, FiniteSets, Sequences

CONSTANTS
    MaxSends,   \* bound: requests in all
    MaxForms,   \* bound: times a form is put on the page
    MaxMoves    \* bound: what the reader types or leaves, and what happens around him

ASSUME WritingBounds == {MaxSends, MaxForms, MaxMoves} \subseteq Nat

(* Texts as typed. Two of them leave the device as the same text; all are     *)
(* short, and the service takes such a text again as often as it comes.       *)
Texts == {"", "a", "a ", "b"}
Body(t) == IF t = "a " THEN "a" ELSE t
Problem(t) == Body(t) = ""
Kept == {"top", "reply"}           \* forms whose text is kept as a draft
Places == Kept \union {"edit"}
NoDraft == [text |-> "", old |-> FALSE]
NoKey == [body |-> "", key |-> 0]
NoSeed == [text |-> "", at |-> 0]

VARIABLES
    client,     \* "web" or "mobile"
    signedIn,   \* the page holds a session
    tokenGood,  \* ... and the services still take it
    drafts,     \* what the device keeps
    forms,      \* the forms
    made,       \* how many forms there have been
    moves,      \* how much has been typed, left or happened
    seed,       \* a text handed over from a reply to the form for comments
    taken,      \* how many forms have put it in their field
    requests,   \* requests under way, given up or not
    sends,      \* all that was ever sent: which form, which text, its key; over: a correction sent over another under way
    heard,      \* those whose form was told they succeeded
    posted,     \* the comments the service wrote
    parentGone, \* the comment replied to has come down
    banned,     \* the reader may not comment
    shown, held \* the text of the comment he corrects: on the page, and with the service

wvars == <<client, signedIn, tokenGood, drafts, forms, made, moves, seed, taken, requests, sends, heard, posted,
           parentGone, banned, shown, held>>
device == <<client, signedIn, tokenGood, drafts, made, moves, seed, taken>>
Moves == moves < MaxMoves /\ moves' = moves + 1
service == <<tokenGood, posted, parentGone, banned, held>>

Off == [on |-> FALSE, inst |-> 0, text |-> "", unsaved |-> FALSE, reading |-> NoDraft, sending |-> FALSE,
        failure |-> "none", pending |-> NoKey, sent |-> FALSE, restricted |-> FALSE]

----------------------------------------------------------------------------
(* Drafts.                                                                  *)

Fresh(d) == IF d.old THEN NoDraft ELSE d
\* An emptied field is a cleared draft
Saved(ds, p, text) ==
    IF p \notin Kept THEN ds
    ELSE [ds EXCEPT ![p] = IF Body(text) = "" THEN NoDraft ELSE [text |-> text, old |-> FALSE]]
Cleared(ds, p) == Saved(ds, p, "")
\* Slip: a form goes without saving
LeftUnsaved(ds, gone) == ds
\* The last of the typing is saved as forms go, unless one of them has sent something before
LastSaved(ds, gone) ==
    [p \in Kept |-> IF p \in gone /\ forms[p].on /\ ~forms[p].sent
                    THEN Saved(ds, p, forms[p].text)[p] ELSE ds[p]]
Gone(gone) == [p \in Places |-> IF p \in gone THEN Off ELSE forms[p]]

WritingInit ==
    /\ client \in {"web", "mobile"}
    /\ signedIn = TRUE /\ tokenGood = TRUE
    /\ drafts = [p \in Kept |-> NoDraft]
    /\ forms = [p \in Places |-> Off]
    /\ made = 0 /\ moves = 0 /\ seed = NoSeed /\ taken = 0
    /\ requests = {} /\ sends = <<>> /\ heard = {} /\ posted = <<>>
    /\ parentGone = FALSE /\ banned = FALSE
    /\ shown = "c" /\ held = "c"      \* the comment he corrects reads otherwise than what he types

----------------------------------------------------------------------------
(* The forms.                                                               *)

\* A form is put on the page. The browser reads the draft there and then; the app asks for it, and
\* a form with a text handed over takes that whatever the draft
Mount(p) ==
    /\ signedIn /\ ~forms[p].on /\ made < MaxForms
    /\ p = "edit" => client = "web"     \* the app has no form for corrections
    /\ made' = made + 1
    /\ LET draft == IF p \in Kept THEN Fresh(drafts[p]) ELSE NoDraft
           given == p = "top" /\ seed # NoSeed
       IN /\ forms' = [forms EXCEPT ![p] =
                [Off EXCEPT !.on = TRUE, !.inst = made', !.unsaved = p \in Kept,
                            !.text = IF given THEN seed.text
                                     ELSE IF p = "edit" THEN shown
                                     ELSE IF client = "web" THEN draft.text ELSE "",
                            !.reading = IF client = "mobile" /\ ~given THEN draft ELSE NoDraft]]
          /\ taken' = IF given THEN taken + 1 ELSE taken
          /\ drafts' = IF p \in Kept THEN [drafts EXCEPT ![p] = draft] ELSE drafts
    /\ UNCHANGED <<client, signedIn, tokenGood, moves, seed, requests, sends, heard, posted, parentGone, banned, shown, held>>
\* The app's store answers. What the field holds by then is not looked at: the check reads the text
\* the form was put up with
DraftRead(p) ==
    /\ forms[p].on /\ forms[p].reading # NoDraft
    /\ forms' = [forms EXCEPT ![p].text = forms[p].reading.text, ![p].reading = NoDraft, ![p].unsaved = TRUE]
    /\ UNCHANGED <<device, requests, sends, heard, posted, parentGone, banned, shown, held>>
TypeText(p, t) ==
    /\ Moves
    /\ forms[p].on /\ ~forms[p].sending /\ ~forms[p].restricted /\ t # forms[p].text
    /\ forms' = [forms EXCEPT ![p].text = t, ![p].unsaved = p \in Kept]
    /\ UNCHANGED <<client, signedIn, tokenGood, drafts, made, seed, taken, requests, sends, heard, posted, parentGone, banned, shown, held>>
\* The typing has paused for DRAFT_DELAY_MS
SaveDraft(p) ==
    /\ forms[p].on /\ forms[p].unsaved
    /\ drafts' = Saved(drafts, p, forms[p].text)
    /\ forms' = [forms EXCEPT ![p].unsaved = FALSE]
    /\ UNCHANGED <<client, signedIn, tokenGood, made, moves, seed, taken, requests, sends, heard, posted, parentGone, banned, shown, held>>
\* Cancelled, or the view it stands in goes; a request under way goes on
Leave(p) ==
    /\ Moves
    /\ forms[p].on
    /\ drafts' = LastSaved(drafts, {p})
    /\ forms' = Gone({p})
    /\ UNCHANGED <<client, signedIn, tokenGood, made, seed, taken, requests, sends, heard, posted, parentGone, banned, shown, held>>
\* The tab is closed or the app killed: nothing of what forms do as they go is done
PageGone ==
    /\ Moves
    /\ forms' = [p \in Places |-> Off]
    /\ seed' = NoSeed /\ taken' = 0
    /\ requests' = {[r EXCEPT !.awaited = FALSE] : r \in requests}
    /\ signedIn' = tokenGood
    /\ shown' = held
    /\ UNCHANGED <<client, tokenGood, drafts, made, sends, heard, posted, parentGone, banned, held>>

\* Slip: every send is given a key of its own
NewKeyFor(previous, body) == [body |-> body, key |-> Len(sends) + 1]
\* The same text sent again keeps its key
KeyFor(previous, body) == IF previous.body = body THEN previous ELSE [body |-> body, key |-> Len(sends) + 1]
Submit(p) ==
    /\ forms[p].on /\ ~forms[p].sending /\ ~forms[p].restricted
    /\ ~Problem(forms[p].text) /\ Len(sends) < MaxSends
    /\ p = "edit" => Body(forms[p].text) # shown   \* the same text is no edit: it closes, as Leave does
    /\ LET keyed == KeyFor(forms[p].pending, Body(forms[p].text))
       IN /\ forms' = [forms EXCEPT ![p].sending = TRUE, ![p].failure = "none",
                                    ![p].pending = IF p \in Kept THEN keyed ELSE NoKey]
          /\ requests' = requests \union
                {[n |-> Len(sends) + 1, place |-> p, inst |-> forms[p].inst, body |-> keyed.body,
                  key |-> keyed.key, answer |-> "none", awaited |-> TRUE]}
          /\ sends' = Append(sends, [place |-> p, inst |-> forms[p].inst, body |-> keyed.body, key |-> keyed.key,
                                     over |-> p = "edit" /\ \E r \in requests : r.place = "edit"])
    /\ UNCHANGED <<device, heard, posted, parentGone, banned, shown, held>>
\* The parent is gone: the text moves to the other form, draft and all
PostAsNew ==
    LET text == forms["reply"].text
        handed == [text |-> text, at |-> seed.at + 1]
        onPage == forms["top"].on
    IN /\ forms["reply"].on /\ forms["reply"].failure = "parent" /\ ~forms["reply"].sending
       /\ seed' = handed
       /\ taken' = IF onPage THEN 1 ELSE 0
       /\ drafts' = Cleared(drafts, "reply")
       /\ forms' = [forms EXCEPT !["reply"] = Off,
                       !["top"] = IF onPage THEN [@ EXCEPT !.text = text, !.unsaved = TRUE] ELSE @]
       /\ UNCHANGED <<client, signedIn, tokenGood, made, moves, requests, sends, heard, posted, parentGone, banned, shown, held>>

----------------------------------------------------------------------------
(* The service, and what becomes of those around it.                        *)

Answers(r) ==
    IF ~tokenGood THEN {"401"}
    ELSE IF r.place \in Kept /\ \E i \in DOMAIN posted : posted[i].key = r.key THEN {"done"}
    ELSE IF banned THEN {"restricted"}
    ELSE IF r.place = "reply" /\ parentGone THEN {"parent", "rate"}
    ELSE {"done", "rate"}
Serve(r) ==
    /\ r.answer = "none"
    /\ \E answer \in Answers(r) :
        LET first == r.place \in Kept /\ answer = "done" /\ \A i \in DOMAIN posted : posted[i].key # r.key
        IN /\ requests' = (requests \ {r}) \union {[r EXCEPT !.answer = answer]}
           /\ posted' = IF first THEN Append(posted, [n |-> r.n, inst |-> r.inst, body |-> r.body, key |-> r.key])
                        ELSE posted
           /\ held' = IF r.place = "edit" /\ answer = "done" THEN r.body ELSE held
    /\ UNCHANGED <<device, forms, sends, heard, parentGone, banned, shown>>
Turn ==   \* the session ends, the parent comes down, a ban is given, a week passes
    /\ Moves
    /\ \/ tokenGood' = FALSE /\ UNCHANGED <<parentGone, banned, drafts>>
       \/ parentGone' = TRUE /\ UNCHANGED <<tokenGood, banned, drafts>>
       \/ banned' = TRUE /\ UNCHANGED <<tokenGood, parentGone, drafts>>
       \/ /\ drafts' = [p \in Kept |-> IF drafts[p] = NoDraft THEN NoDraft ELSE [drafts[p] EXCEPT !.old = TRUE]]
          /\ UNCHANGED <<tokenGood, parentGone, banned>>
    /\ UNCHANGED <<client, signedIn, forms, made, seed, taken, requests, sends, heard, posted, shown, held>>
SignIn ==
    /\ Moves
    /\ ~signedIn
    /\ signedIn' = TRUE /\ tokenGood' = TRUE
    /\ seed' = IF client = "web" THEN NoSeed ELSE seed   \* the browser goes away and comes back
    /\ UNCHANGED <<client, drafts, forms, made, taken, requests, sends, heard, posted, parentGone, banned, shown, held>>

----------------------------------------------------------------------------
(* Answers.                                                                 *)

Waiting(r) == r.awaited /\ r.answer # "none"
Live(r) == forms[r.place].on /\ forms[r.place].inst = r.inst
\* The comment is written. A reply's form goes, and so does whatever form stands for replies by now;
\* the draft goes whichever form wrote it
Succeeds(r) ==
    /\ Waiting(r) /\ r.answer = "done" /\ r.place \in Kept
    /\ requests' = requests \ {r}
    /\ heard' = IF Live(r) THEN heard \union {r.n} ELSE heard
    /\ LET after == Cleared(drafts, r.place)
       IN IF r.place = "reply"
          THEN /\ drafts' = IF Live(r) THEN after ELSE LastSaved(after, {"reply"})
               /\ forms' = Gone({"reply"})
          ELSE /\ drafts' = after
               /\ forms' = IF ~Live(r) THEN forms
                           ELSE [forms EXCEPT !["top"].text = "", !["top"].pending = NoKey, !["top"].sent = TRUE,
                                              !["top"].sending = FALSE, !["top"].unsaved = TRUE]
    /\ UNCHANGED <<client, signedIn, tokenGood, made, moves, seed, taken, sends, posted, parentGone, banned, shown, held>>
\* Slip: the form goes and the page keeps the text it had
EditedUnseen(r) ==
    /\ Waiting(r) /\ r.answer = "done" /\ r.place = "edit"
    /\ requests' = requests \ {r}
    /\ forms' = Gone({"edit"})
    /\ UNCHANGED <<device, sends, heard, posted, parentGone, banned, shown, held>>
\* The correction is on the page and its form gone, whichever form asked for it
Edited(r) ==
    /\ Waiting(r) /\ r.answer = "done" /\ r.place = "edit"
    /\ requests' = requests \ {r}
    /\ forms' = Gone({"edit"})
    /\ shown' = r.body
    /\ UNCHANGED <<device, sends, heard, posted, parentGone, banned, held>>
\* The session is over: every form gives way to an invitation, its text to the draft
SessionOver(r) ==
    /\ Waiting(r) /\ r.answer = "401"
    /\ requests' = requests \ {r}
    /\ signedIn' = FALSE
    /\ drafts' = LastSaved(drafts, Kept)
    /\ forms' = Gone(Places)
    /\ UNCHANGED <<client, tokenGood, made, moves, seed, taken, sends, heard, posted, parentGone, banned, shown, held>>
\* The form says why, or shows the plate of a ban with the text left to be copied
Refused(r) ==
    /\ Waiting(r) /\ r.answer \in {"rate", "parent", "restricted"}
    /\ requests' = requests \ {r}
    /\ forms' = IF ~Live(r) THEN forms
                ELSE [forms EXCEPT ![r.place].sending = FALSE,
                                   ![r.place].restricted = r.answer = "restricted" /\ r.place \in Kept,
                                   ![r.place].failure = r.answer]
    /\ UNCHANGED <<device, sends, heard, posted, parentGone, banned, shown, held>>
\* No answer within TIMEOUT_MS, or a failure on the way: the request may still be served, or have been
GivenUp(r) ==
    /\ r.awaited
    /\ requests' = (requests \ {r}) \union {[r EXCEPT !.awaited = FALSE]}
    /\ forms' = IF ~Live(r) THEN forms
                ELSE [forms EXCEPT ![r.place].sending = FALSE, ![r.place].failure = "network"]
    /\ UNCHANGED <<device, sends, heard, posted, parentGone, banned, shown, held>>

\* What a form offers, wherever it is drawn, and what its answers come to
Offered(p) == Mount(p) \/ SaveDraft(p) \/ Leave(p) \/ Submit(p) \/ \E t \in Texts : TypeText(p, t)
Answer_(r) == Succeeds(r) \/ Edited(r) \/ SessionOver(r) \/ Refused(r) \/ GivenUp(r)
WebForms == client = "web" /\ ((\E p \in Kept : Offered(p)) \/ PostAsNew)
WebEditForm == client = "web" /\ Offered("edit")
WebAnswers == client = "web" /\ \E r \in requests : Answer_(r)
AppForms == client = "mobile" /\ ((\E p \in Kept : Offered(p) \/ DraftRead(p)) \/ PostAsNew)
AppAnswers == client = "mobile" /\ \E r \in requests : Answer_(r)

WritingNext ==
    \/ WebForms \/ WebEditForm \/ WebAnswers
    \/ AppForms \/ AppAnswers
    \/ PageGone \/ Turn \/ SignIn
    \/ \E r \in requests : Serve(r)
WritingSpec == WritingInit /\ [][WritingNext]_wvars

----------------------------------------------------------------------------
(* Properties.                                                              *)

\* As long as its form stands, a text sent again after an answer that never came is written once, in
\* whatever order the service gets to the two (compose.ts, keyFor): twice only when another text went
\* in between, or the form was told of the first.
RetryWritesOnce ==
    \A i, j \in DOMAIN posted :
        i # j /\ posted[i].n < posted[j].n /\ posted[i].inst = posted[j].inst /\ posted[i].body = posted[j].body
        => \E k \in posted[i].n..(posted[j].n - 1) :
              sends[k].inst = posted[i].inst /\ (sends[k].body # posted[i].body \/ k \in heard)

\* A form that goes while the page stays leaves its text in the draft, unless that very text was
\* taken or handed over, or the form had sent another before (it then saves nothing as it goes: up to
\* DRAFT_DELAY_MS of typing is lost). And in the browser a draft is dropped or replaced for a reason:
\* the field it belongs to holds something else, the text was written or handed over, its week is over,
\* or a send from a form long gone was answered at last.
DraftsAreKept ==
    [][\A p \in Kept :
        /\ forms[p].on /\ ~forms'[p].on /\ Body(forms[p].text) # "" =>
            \/ drafts'[p].text = forms[p].text
            \/ \E r \in requests \ requests' : r.answer = "done" /\ r.inst = forms[p].inst
            \/ p = "reply" /\ seed'.text = forms[p].text /\ seed' # seed
            \/ forms[p].sent
            \/ PageGone
        /\ client = "web" /\ drafts[p] # NoDraft /\ drafts'[p].text # drafts[p].text =>
            \/ drafts[p].old
            \/ forms[p].on /\ drafts'[p] = Saved(drafts, p, forms[p].text)[p]
            \/ \E r \in requests \ requests' : r.place = p /\ r.answer = "done"
            \/ p = "reply" /\ seed' # seed]_wvars

\* Where the comment on the page reads otherwise than with the service, the correction the service holds
\* has its answer still on the way, or the client gave up on it; or a correction was sent over another
\* that was under way (its form had gone, or gave up): the page then shows the one answered last.
ShownIsHeld ==
    shown # held => \/ \E r \in requests : r.place = "edit" /\ r.answer = "done" /\ r.body = held
                    \/ \E k \in DOMAIN sends : sends[k].over

\* "A hand-over replaces the text once" (ComposeForm.tsx): the text of a reply whose parent is gone is
\* put in the field of the comment form by one form only.
HandOverReplacesOnce == taken <= 1
=============================================================================
