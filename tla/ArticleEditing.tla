--------------------------- MODULE ArticleEditing ---------------------------
(***************************************************************************)
(* One article, the pending edit a published one may have, and the editor  *)
(* tabs that work on it.  A draft belongs to its author; a published       *)
(* article changes through an edit, which one person holds, and reaches    *)
(* the site when it is applied.                                            *)
(*                                                                         *)
(* A request is a transaction that reads the article, then the edit, then  *)
(* writes.  It locks nothing: an update or a delete goes through when the  *)
(* row still has the version that was read, an insert when there is no     *)
(* row.  A tab has one request under way at a time, and what it sends      *)
(* names the version it was last given.                                    *)
(*                                                                         *)
(* What is written is abstracted to which save wrote it: a copy is the     *)
(* number of its save.  Titles, tags, slugs and types are left out; a      *)
(* request they would fail is one the server refuses for no reason here.   *)
(***************************************************************************)
EXTENDS Integers

CONSTANTS
    Tab,
    StaffOf,     \* who sits at which tab
    Author,      \* whose article it is
    Chief,       \* the chief editors
    None,
    MaxSaves,    \* bound: saves that are written
    MaxVersion   \* bound: the version an article reaches

Staff == {StaffOf[t] : t \in Tab} \cup Chief \cup {Author}

ASSUME BoundsAreNatural == MaxSaves \in Nat /\ MaxVersion \in Nat

VARIABLES
    article,  \* its row: status, version, copy, and whether it was ever published
    edit,     \* its article_edits row or None; `id' tells one edit from the next, and `from' is
              \* the live copy its first save was made from
    tabs,     \* what each tab was last given: a version, the copy, and the edit it was of
    request,  \* the request each tab has under way, with what its transaction has read
    saves     \* how many saves have been written

vars == <<article, edit, tabs, request, saves>>

-----------------------------------------------------------------------------
ArticleVersion(a) == <<"a", a.version>>
EditVersion(e) == <<"e", e.version>>

\* What a person is shown: his own edit of a published article, or the article itself
View(a, e, s) ==
    IF a.status = "published" /\ e # None /\ e.owner = s
    THEN [version |-> EditVersion(e), copy |-> e.copy, of |-> e.id]
    ELSE [version |-> ArticleVersion(a), copy |-> a.copy, of |-> None]

\* A draft is there for its author alone, a published article also for a chief editor
Visible(a, s) ==
    \/ a.status = "draft" /\ s = Author
    \/ a.status = "published" /\ (s = Author \/ s \in Chief)

Operations == {"save", "publish", "discard", "delete", "unpublish"}

Idle(t) == request[t] = None
At(t, op, stage) == ~Idle(t) /\ request[t].op = op /\ request[t].stage = stage

\* What the transaction of a tab read
Article(t) == request[t].article
Edit(t) == request[t].edit
Sent(t) == tabs[t].version

\* What requireVersion and requireHeldBy ask of a request
SentArticle(t) == Sent(t) = ArticleVersion(Article(t))
SentEdit(t) ==
    /\ Edit(t) # None /\ Edit(t).owner = StaffOf[t]
    /\ Sent(t) = EditVersion(Edit(t))

\* Mutants of the two below: a write goes to the row whatever its version
ArticleStandsAnyhow(t) == article.status # "gone"
EditStandsAnyhow(t) == edit # None

\* The versions a write is guarded by
ArticleStands(t) == article.status # "gone" /\ article.version = Article(t).version
EditStands(t) == edit # None /\ edit.version = Edit(t).version

Written == saves + 1
MayBump == article.version < MaxVersion

\* The answer arrives, with the copy as it is now, or is lost on the way
Answered(t, a, e) ==
    /\ request' = [request EXCEPT ![t] = None]
    /\ \E arrives \in BOOLEAN :
        tabs' = IF arrives THEN [tabs EXCEPT ![t] = View(a, e, StaffOf[t])] ELSE tabs

-----------------------------------------------------------------------------
Init ==
    /\ article = [status |-> "draft", version |-> 0, copy |-> 0, firstPublished |-> "never"]
    /\ edit = None
    /\ tabs = [t \in Tab |-> None]
    /\ request = [t \in Tab |-> None]
    /\ saves = 0

\* A tab opens the article, or is brought up to date
Open(t) ==
    /\ Idle(t) /\ Visible(article, StaffOf[t])
    /\ tabs' = [tabs EXCEPT ![t] = View(article, edit, StaffOf[t])]
    /\ UNCHANGED <<article, edit, request, saves>>

\* A request arrives, and its transaction reads the article
Send(t, op) ==
    /\ Idle(t) /\ tabs[t] # None
    /\ Visible(article, StaffOf[t])
    /\ op = "unpublish" => StaffOf[t] \in Chief
    /\ request' = [request EXCEPT ![t] =
            [op |-> op, stage |-> "article", article |-> article, edit |-> None]]
    /\ UNCHANGED <<article, edit, tabs, saves>>

\* ... then the edit of a published one
ReadEdit(t) ==
    /\ ~Idle(t) /\ request[t].stage = "article"
    /\ Article(t).status = "published" \/ request[t].op = "discard"
    /\ request' = [request EXCEPT ![t].stage = "edit", ![t].edit = edit]
    /\ UNCHANGED <<article, edit, tabs, saves>>

\* Turned down by a check, or by a write that finds another version
Refuse(t) ==
    /\ ~Idle(t)
    /\ request' = [request EXCEPT ![t] = None]
    /\ UNCHANGED <<article, edit, tabs, saves>>

-----------------------------------------------------------------------------
SaveDraft(t) ==
    /\ saves < MaxSaves /\ MayBump
    /\ At(t, "save", "article") /\ Article(t).status = "draft"
    /\ SentArticle(t) /\ ArticleStands(t)
    /\ article' = [Article(t) EXCEPT !.version = @ + 1, !.copy = Written]
    /\ saves' = Written
    /\ Answered(t, article', edit)
    /\ UNCHANGED edit

\* The first save of a published article makes the edit; two at once, and one is refused
BeginEdit(t) ==
    /\ saves < MaxSaves
    /\ At(t, "save", "edit")
    /\ Edit(t) = None /\ SentArticle(t)
    /\ edit = None /\ article.status # "gone"
    /\ edit' = [owner |-> StaffOf[t], version |-> 0, copy |-> Written,
                id |-> Written, from |-> Article(t).copy]
    /\ saves' = Written
    /\ Answered(t, Article(t), edit')
    /\ UNCHANGED article

\* The whole row is written, the owner's column as it was read
SaveEdit(t) ==
    /\ saves < MaxSaves
    /\ At(t, "save", "edit")
    /\ SentEdit(t) /\ EditStands(t)
    /\ edit' = [edit EXCEPT !.owner = Edit(t).owner, !.version = @ + 1, !.copy = Written]
    /\ saves' = Written
    /\ Answered(t, Article(t), edit')
    /\ UNCHANGED article

PublishDraft(t) ==
    /\ MayBump
    /\ At(t, "publish", "article") /\ Article(t).status = "draft"
    /\ SentArticle(t) /\ ArticleStands(t)
    /\ article' = [Article(t) EXCEPT !.version = @ + 1, !.status = "published",
                                      !.firstPublished = "once"]
    /\ Answered(t, article', edit)
    /\ UNCHANGED <<edit, saves>>

ApplyEdit(t) ==
    /\ MayBump
    /\ At(t, "publish", "edit")
    /\ SentEdit(t) /\ EditStands(t) /\ ArticleStands(t)
    /\ article' = [Article(t) EXCEPT !.version = @ + 1, !.copy = Edit(t).copy]
    /\ edit' = None
    /\ Answered(t, article', edit')
    /\ UNCHANGED saves

\* The holder drops his own, a chief editor anyone's; no version is sent
DiscardEdit(t) ==
    /\ At(t, "discard", "edit")
    /\ Edit(t) # None /\ (Edit(t).owner = StaffOf[t] \/ StaffOf[t] \in Chief)
    /\ EditStands(t)
    /\ edit' = None
    /\ request' = [request EXCEPT ![t] = None]
    /\ UNCHANGED <<article, tabs, saves>>

\* Mutant of Delete: whatever was on the site may go as well
DeleteAnything(t) ==
    /\ At(t, "delete", "article")
    /\ ArticleStands(t)
    /\ article' = [article EXCEPT !.status = "gone"]
    /\ edit' = None
    /\ request' = [request EXCEPT ![t] = None]
    /\ UNCHANGED <<tabs, saves>>

\* No version is sent here either; the row goes with its edit, if it is as it was read
Delete(t) ==
    /\ At(t, "delete", "article") /\ Article(t).firstPublished = "never"
    /\ ArticleStands(t)
    /\ article' = [article EXCEPT !.status = "gone"]
    /\ edit' = None
    /\ request' = [request EXCEPT ![t] = None]
    /\ UNCHANGED <<tabs, saves>>

\* Back to its author as a draft, unless an edit was found
Unpublish(t) ==
    /\ MayBump
    /\ At(t, "unpublish", "edit")
    /\ Edit(t) = None /\ ArticleStands(t)
    /\ article' = [Article(t) EXCEPT !.version = @ + 1, !.status = "draft"]
    /\ request' = [request EXCEPT ![t] = None]
    /\ UNCHANGED <<edit, tabs, saves>>

Next ==
    \E t \in Tab :
        \/ Open(t) \/ ReadEdit(t) \/ Refuse(t)
        \/ \E op \in Operations : Send(t, op)
        \/ SaveDraft(t) \/ BeginEdit(t) \/ SaveEdit(t)
        \/ PublishDraft(t) \/ ApplyEdit(t)
        \/ DiscardEdit(t) \/ Delete(t) \/ Unpublish(t)

Spec == Init /\ [][Next]_vars

-----------------------------------------------------------------------------
ArticleRows ==
    [status : {"draft", "published", "gone"}, version : Nat, copy : Nat, firstPublished : {"never", "once"}]
EditRows == [owner : Staff, version : Nat, copy : Nat, id : Nat, from : Nat]

ASSUME NoneIsNoRow == None \notin EditRows

Views == [version : {"a", "e"} \X Nat, copy : Nat, of : Nat \cup {None}]
Requests == [op : Operations, stage : {"article", "edit"},
             article : ArticleRows, edit : EditRows \cup {None}]

\* Rows, tabs and requests have their types, and a published article was published.
TypeOK ==
    /\ article \in ArticleRows
    /\ article.status = "published" => article.firstPublished = "once"
    /\ edit \in EditRows \cup {None}
    /\ tabs \in [Tab -> Views \cup {None}]
    /\ request \in [Tab -> Requests \cup {None}]
    /\ saves \in Nat

\* A draft is saved or goes on the site only from a tab that was given the copy it replaces.
DraftWorkIsNotLost ==
    [][\A t \in Tab : SaveDraft(t) \/ PublishDraft(t) => tabs[t].copy = article.copy]_vars

\* An edit is saved or applied only from a tab that was given its copy, as long as it is the
\* edit that tab was given and not a later one.
EditWorkIsNotLost ==
    [][\A t \in Tab : (SaveEdit(t) \/ ApplyEdit(t)) /\ tabs[t].of = edit.id
                        => tabs[t].copy = edit.copy]_vars

\* What has been on the site is never deleted: comments hang on its id.
PublishedIsNeverDeleted ==
    [][article.firstPublished = "once" => article'.status # "gone"]_vars

\* While someone holds an edit the article stays on the site.
DraftHasNoEdit == edit # None => article.status = "published"

\* An edit is saved or applied only from a tab that was given the copy it replaces.
EditsReplaceWhatWasSeen ==
    [][\A t \in Tab : SaveEdit(t) \/ ApplyEdit(t) => tabs[t].copy = edit.copy]_vars

\* An edit is applied to the live copy it was begun from.
SiteIsStillUnderAnEdit ==
    [][\A t \in Tab : ApplyEdit(t) => article.copy = edit.from]_vars

\* An edit belongs to whoever began it until it is applied or dropped.
EditKeepsItsHolder ==
    [][edit # None /\ edit' # None /\ edit.id = edit'.id => edit.owner = edit'.owner]_vars
=============================================================================
