------------------------ MODULE ArticleEditingProofs ------------------------
(***************************************************************************)
(* What holds of an article and its edit for any number of tabs, saves and *)
(* versions.  The invariant ties a version to what was read with it: a tab *)
(* or a transaction that has the current version has the current copy, for *)
(* an edit only while it is the same edit.                                 *)
(***************************************************************************)
EXTENDS ArticleEditing, TLAPS

\* A version of the article binds the copy that was given with it
ArticleVersionsBind ==
    \A t \in Tab :
        /\ tabs[t] # None /\ tabs[t].version[1] = "a" =>
            /\ tabs[t].version[2] <= article.version
            /\ tabs[t].version[2] = article.version => tabs[t].copy = article.copy
        /\ request[t] # None =>
            /\ request[t].article.version <= article.version
            /\ request[t].article.version = article.version /\ article.status # "gone"
                => request[t].article = article

\* A version of an edit binds the copy that was given with it, within that edit
EditVersionsBind ==
    /\ edit # None => edit.id <= saves
    /\ \A t \in Tab : tabs[t] # None /\ tabs[t].version[1] = "e" =>
        /\ tabs[t].of \in Nat /\ tabs[t].of <= saves
        /\ edit # None /\ edit.id = tabs[t].of =>
            /\ tabs[t].version[2] <= edit.version
            /\ tabs[t].version[2] = edit.version => tabs[t].copy = edit.copy

\* Who has a request under way was given a version first, and only discarding looks for the
\* edit of an article that is no longer out
RequestsAreOfTabs ==
    \A t \in Tab : request[t] # None =>
        /\ tabs[t] # None
        /\ request[t].stage = "edit" /\ request[t].op # "discard"
            => request[t].article.status = "published"

DeletedWasNeverOut == article.status = "gone" => article.firstPublished = "never"

Inv ==
    /\ TypeOK
    /\ ArticleVersionsBind
    /\ EditVersionsBind
    /\ RequestsAreOfTabs
    /\ DeletedWasNeverOut

-----------------------------------------------------------------------------
\* What a tab is given carries the version and the copy of one row
LEMMA ViewIsOfOneRow ==
    ASSUME NEW a \in ArticleRows, NEW e \in EditRows \cup {None}, NEW s
    PROVE  /\ View(a, e, s) \in Views
           /\ View(a, e, s).version[1] = "a" =>
                View(a, e, s).version[2] = a.version /\ View(a, e, s).copy = a.copy
           /\ View(a, e, s).version[1] = "e" =>
                /\ e # None /\ e \in EditRows /\ View(a, e, s).of = e.id
                /\ View(a, e, s).version[2] = e.version /\ View(a, e, s).copy = e.copy
<1>1. CASE a.status = "published" /\ e # None /\ e.owner = s
    <2>1. View(a, e, s) = [version |-> <<"e", e.version>>, copy |-> e.copy, of |-> e.id]
        BY <1>1 DEF View, EditVersion
    <2>2. e \in EditRows
        BY <1>1
    <2>. QED
        BY <1>1, <2>1, <2>2 DEF Views, EditRows
<1>2. CASE ~(a.status = "published" /\ e # None /\ e.owner = s)
    <2>1. View(a, e, s) = [version |-> <<"a", a.version>>, copy |-> a.copy, of |-> None]
        BY <1>2 DEF View, ArticleVersion
    <2>. QED
        BY <2>1 DEF Views, ArticleRows
<1>. QED
    BY <1>1, <1>2

\* A transaction that holds the version the article has holds the article
LEMMA StandingIsAsRead ==
    ASSUME Inv, NEW t \in Tab, request[t] # None, ArticleStands(t)
    PROVE  Article(t) = article /\ request[t] \in Requests
BY DEF Inv, TypeOK, ArticleVersionsBind, ArticleStands, Article

\* A row the article becomes keeps versions bound if it is newer than what was read before
LEMMA NewerArticleBinds ==
    ASSUME Inv, NEW t \in Tab, NEW b \in ArticleRows, article' = b,
           b.version = article.version + 1,
           NEW v \in Views \cup {None},
           v # None /\ v.version[1] = "a" =>
                v.version[2] = b.version /\ v.copy = b.copy,
           request' = [request EXCEPT ![t] = None],
           tabs' = [tabs EXCEPT ![t] = v] \/ tabs' = tabs
    PROVE  ArticleVersionsBind'
<1>. SUFFICES ASSUME NEW u \in Tab
              PROVE  /\ tabs'[u] # None /\ tabs'[u].version[1] = "a" =>
                        /\ tabs'[u].version[2] <= b.version
                        /\ tabs'[u].version[2] = b.version => tabs'[u].copy = b.copy
                     /\ request'[u] # None =>
                        /\ request'[u].article.version <= b.version
                        /\ request'[u].article.version = b.version /\ b.status # "gone"
                            => request'[u].article = b
    BY DEF ArticleVersionsBind
<1>1. article \in ArticleRows /\ tabs \in [Tab -> Views \cup {None}]
      /\ request \in [Tab -> Requests \cup {None}] /\ article.version \in Nat
    BY DEF Inv, TypeOK, ArticleRows
<1>2. request'[u] # None => request'[u].article.version <= article.version
    BY <1>1 DEF Inv, ArticleVersionsBind
<1>3. request'[u] # None => request'[u].article.version \in Nat
    BY <1>1 DEF Requests, ArticleRows
<1>4. CASE tabs'[u] = tabs[u]
    <2>1. tabs[u] # None => tabs[u].version[2] \in Nat
        BY <1>1 DEF Views
    <2>. QED
        BY <1>1, <1>2, <1>3, <1>4, <2>1 DEF Inv, ArticleVersionsBind
<1>5. CASE u = t /\ tabs'[u] = v
    <2>1. b.version \in Nat
        BY DEF ArticleRows
    <2>. QED
        BY <1>1, <1>2, <1>3, <1>5, <2>1
<1>. QED
    BY <1>1, <1>4, <1>5

\* An article that stays as it is, or only goes, keeps versions bound
LEMMA SameArticleBinds ==
    ASSUME Inv, NEW t \in Tab,
           article' = article \/ article' = [article EXCEPT !.status = "gone"],
           NEW v \in Views \cup {None},
           v # None /\ v.version[1] = "a" =>
                v.version[2] = article.version /\ v.copy = article.copy,
           NEW r \in Requests \cup {None},
           r # None => r.article = article \/ (request[t] # None /\ r.article = request[t].article),
           article' # article => r = None,
           request' = [request EXCEPT ![t] = r],
           tabs' = [tabs EXCEPT ![t] = v] \/ tabs' = tabs
    PROVE  ArticleVersionsBind'
<1>1. article \in ArticleRows /\ tabs \in [Tab -> Views \cup {None}]
      /\ request \in [Tab -> Requests \cup {None}] /\ article.version \in Nat
    BY DEF Inv, TypeOK, ArticleRows
<1>2. article'.version = article.version /\ article'.copy = article.copy
      /\ (article' # article => article'.status = "gone")
    BY <1>1 DEF ArticleRows
<1>. SUFFICES ASSUME NEW u \in Tab
              PROVE  /\ tabs'[u] # None /\ tabs'[u].version[1] = "a" =>
                        /\ tabs'[u].version[2] <= article.version
                        /\ tabs'[u].version[2] = article.version => tabs'[u].copy = article.copy
                     /\ request'[u] # None =>
                        /\ request'[u].article.version <= article.version
                        /\ request'[u].article.version = article.version /\ article'.status # "gone"
                            => request'[u].article = article
    BY <1>2 DEF ArticleVersionsBind
<1>3. tabs'[u] # None /\ tabs'[u].version[1] = "a" =>
        /\ tabs'[u].version[2] <= article.version
        /\ tabs'[u].version[2] = article.version => tabs'[u].copy = article.copy
    <2>1. CASE tabs'[u] = tabs[u]
        BY <2>1 DEF Inv, ArticleVersionsBind
    <2>2. CASE tabs'[u] = v
        BY <2>2, <1>1
    <2>. QED
        BY <1>1, <2>1, <2>2
<1>4. request'[u] # None =>
        /\ request'[u].article.version <= article.version
        /\ request'[u].article.version = article.version /\ article'.status # "gone"
            => request'[u].article = article
    <2>1. \/ request'[u] = request[u] \/ request'[u] = None
          \/ u = t /\ request'[u] = r /\ r # None
        BY <1>1
    <2>2. CASE request'[u] = request[u]
        BY <2>2, <1>1, <1>2 DEF Inv, ArticleVersionsBind
    <2>3. CASE u = t /\ request'[u] = r /\ r # None
        BY <2>3, <1>1, <1>2 DEF Inv, ArticleVersionsBind
    <2>. QED
        BY <2>1, <2>2, <2>3
<1>. QED
    BY <1>3, <1>4

\* An edit that goes, comes with a number of its own, or is saved again keeps versions bound
LEMMA EditBinds ==
    ASSUME Inv, NEW t \in Tab, NEW e \in EditRows \cup {None}, edit' = e,
           NEW n \in Nat, saves' = n, saves <= n,
           \/ e = edit
           \/ e = None
           \/ e.id = n /\ saves < n
           \/ edit # None /\ e.id = edit.id /\ e.version = edit.version + 1,
           NEW v \in Views \cup {None},
           v # None /\ v.version[1] = "e" =>
                /\ e # None /\ v.of = e.id
                /\ v.version[2] = e.version /\ v.copy = e.copy,
           tabs' = [tabs EXCEPT ![t] = v] \/ tabs' = tabs
    PROVE  EditVersionsBind'
<1>1. tabs \in [Tab -> Views \cup {None}] /\ saves \in Nat
      /\ (edit # None => edit \in EditRows /\ edit.version \in Nat /\ edit.id \in Nat)
      /\ (e # None => e \in EditRows /\ e.version \in Nat /\ e.id \in Nat)
    BY DEF Inv, TypeOK, EditRows
<1>2. e # None => e.id <= n
    BY <1>1 DEF Inv, EditVersionsBind
<1>3. ASSUME NEW u \in Tab, tabs'[u] # None, tabs'[u].version[1] = "e"
      PROVE  /\ tabs'[u].of \in Nat /\ tabs'[u].of <= n
             /\ e # None /\ e.id = tabs'[u].of =>
                /\ tabs'[u].version[2] <= e.version
                /\ tabs'[u].version[2] = e.version => tabs'[u].copy = e.copy
    <2>1. CASE tabs'[u] = v
        BY <1>1, <1>2, <1>3, <2>1
    <2>2. CASE tabs'[u] = tabs[u]
        <3>1. tabs[u].of \in Nat /\ tabs[u].of <= saves /\ tabs[u].version[2] \in Nat
            BY <1>1, <1>3, <2>2 DEF Inv, EditVersionsBind, Views
        <3>2. edit # None /\ edit.id = tabs[u].of =>
                /\ tabs[u].version[2] <= edit.version
                /\ tabs[u].version[2] = edit.version => tabs[u].copy = edit.copy
            BY <1>3, <2>2 DEF Inv, EditVersionsBind
        <3>. QED
            BY <1>1, <2>2, <3>1, <3>2
    <2>. QED
        BY <1>1, <2>1, <2>2
<1>. QED
    BY <1>2, <1>3 DEF EditVersionsBind

-----------------------------------------------------------------------------
\* Reading a row, opening the article and being refused change no row
LEMMA ReadingKeepsInv ==
    ASSUME Inv, NEW t \in Tab,
           \/ Open(t) \/ ReadEdit(t) \/ Refuse(t)
           \/ \E op \in Operations : Send(t, op)
    PROVE  Inv'
<1>1. /\ article \in ArticleRows /\ edit \in EditRows \cup {None} /\ saves \in Nat
      /\ tabs \in [Tab -> Views \cup {None}]
      /\ request \in [Tab -> Requests \cup {None}]
    BY DEF Inv, TypeOK
<1>2. article' = article /\ edit' = edit /\ saves' = saves
    BY DEF Open, ReadEdit, Refuse, Send
<1>. DEFINE v == IF Open(t) THEN View(article, edit, StaffOf[t]) ELSE tabs[t]
            r == request'[t]
<1>3. /\ tabs' = [tabs EXCEPT ![t] = v] /\ v \in Views \cup {None}
      /\ v # None /\ v.version[1] = "a" =>
            v.version[2] <= article.version /\ (v.version[2] = article.version => v.copy = article.copy)
      /\ v # None /\ v.version[1] = "e" =>
            \/ v = tabs[t]
            \/ edit # None /\ v.of = edit.id /\ v.version[2] = edit.version /\ v.copy = edit.copy
    <2>1. CASE Open(t)
        BY <2>1, <1>1, ViewIsOfOneRow DEF Open, ArticleRows
    <2>2. CASE ~Open(t)
        BY <2>2, <1>1 DEF ReadEdit, Refuse, Send, Inv, ArticleVersionsBind
    <2>. QED
        BY <2>1, <2>2
<1>4. /\ request' = [request EXCEPT ![t] = r] /\ r \in Requests \cup {None}
      /\ r # None => r.article = article \/ (request[t] # None /\ r.article = request[t].article)
      /\ r # None =>
            /\ tabs'[t] # None
            /\ r.stage = "edit" /\ r.op # "discard" => r.article.status = "published"
    <2>1. CASE Open(t) \/ Refuse(t)
        BY <2>1, <1>1 DEF Open, Refuse, Idle
    <2>2. CASE ReadEdit(t)
        BY <2>2, <1>1 DEF ReadEdit, Idle, Article, Requests, Inv, RequestsAreOfTabs
    <2>3. CASE \E op \in Operations : Send(t, op)
        <3>1. PICK op \in Operations : Send(t, op)
            BY <2>3
        <3>. QED
            BY <3>1, <1>1 DEF Send, Requests
    <2>. QED
        BY <2>1, <2>2, <2>3
<1>5. TypeOK'
    BY <1>1, <1>2, <1>3, <1>4 DEF Inv, TypeOK
<1>6. ArticleVersionsBind'
    <2>1. CASE Open(t)
        <3>1. v # None /\ v.version[1] = "a" =>
                v.version[2] = article.version /\ v.copy = article.copy
            BY <2>1, <1>1, ViewIsOfOneRow
        <3>. QED
            BY <3>1, <1>2, <1>3, <1>4, SameArticleBinds
    <2>2. CASE ~Open(t)
        <3>1. tabs' = tabs
            BY <2>2 DEF ReadEdit, Refuse, Send
        <3>. QED
            BY <3>1, <1>2, <1>4, SameArticleBinds
    <2>. QED
        BY <2>1, <2>2
<1>7. EditVersionsBind'
    <2>1. CASE Open(t)
        <3>1. v # None /\ v.version[1] = "e" =>
                /\ edit # None /\ v.of = edit.id
                /\ v.version[2] = edit.version /\ v.copy = edit.copy
            BY <2>1, <1>1, ViewIsOfOneRow
        <3>2. /\ edit \in EditRows \cup {None} /\ edit' = edit
              /\ saves \in Nat /\ saves' = saves /\ saves <= saves
              /\ v \in Views \cup {None} /\ tabs' = [tabs EXCEPT ![t] = v]
            BY <1>1, <1>2, <1>3
        <3>. HIDE DEF v
        <3>. QED
            BY <3>1, <3>2, EditBinds
    <2>2. CASE ~Open(t)
        <3>1. tabs' = tabs
            BY <2>2 DEF ReadEdit, Refuse, Send
        <3>. QED
            BY <3>1, <1>2 DEF Inv, EditVersionsBind
    <2>. QED
        BY <2>1, <2>2
<1>8. RequestsAreOfTabs'
    <2>1. CASE Open(t)
        BY <2>1, <1>1 DEF Open, Idle, Inv, RequestsAreOfTabs
    <2>2. CASE ~Open(t)
        <3>1. tabs' = tabs
            BY <2>2 DEF ReadEdit, Refuse, Send
        <3>. QED
            BY <3>1, <1>1, <1>4 DEF Inv, RequestsAreOfTabs
    <2>. QED
        BY <2>1, <2>2
<1>9. DeletedWasNeverOut'
    BY <1>2 DEF Inv, DeletedWasNeverOut
<1>. QED
    BY <1>5, <1>6, <1>7, <1>8, <1>9 DEF Inv

\* An answer carries the version and the copy of one row
LEMMA AnswerIsOfOneRow ==
    ASSUME Inv, NEW t \in Tab, NEW a \in ArticleRows, NEW e \in EditRows \cup {None},
           Answered(t, a, e)
    PROVE  LET v == View(a, e, StaffOf[t])
           IN  /\ v \in Views
               /\ v.version[1] = "a" => v.version[2] = a.version /\ v.copy = a.copy
               /\ v.version[1] = "e" =>
                    /\ e # None /\ v.of = e.id
                    /\ v.version[2] = e.version /\ v.copy = e.copy
               /\ tabs' = [tabs EXCEPT ![t] = v] \/ tabs' = tabs
               /\ request' = [request EXCEPT ![t] = None]
               /\ RequestsAreOfTabs'
               /\ tabs' \in [Tab -> Views \cup {None}]
               /\ request' \in [Tab -> Requests \cup {None}]
<1>. DEFINE v == View(a, e, StaffOf[t])
<1>1. tabs \in [Tab -> Views \cup {None}] /\ request \in [Tab -> Requests \cup {None}]
    BY DEF Inv, TypeOK
<1>2. v \in Views
    BY ViewIsOfOneRow
<1>3. tabs' = [tabs EXCEPT ![t] = v] \/ tabs' = tabs
    BY DEF Answered
<1>4. request' = [request EXCEPT ![t] = None]
    BY DEF Answered
<1>5. RequestsAreOfTabs'
    <2>1. ASSUME NEW u \in Tab, request'[u] # None
          PROVE  request'[u] = request[u] /\ tabs'[u] = tabs[u]
        BY <2>1, <1>1, <1>3, <1>4
    <2>. QED
        BY <2>1 DEF Inv, RequestsAreOfTabs
<1>. QED
    BY <1>1, <1>2, <1>3, <1>4, <1>5, ViewIsOfOneRow

\* A save, and a publication, that replaces the article
LEMMA DraftStepsKeepInv ==
    ASSUME Inv, NEW t \in Tab, SaveDraft(t) \/ PublishDraft(t)
    PROVE  Inv'
<1>1. /\ article \in ArticleRows /\ edit \in EditRows \cup {None} /\ saves \in Nat
    BY DEF Inv, TypeOK
<1>2. request[t] # None /\ ArticleStands(t)
    BY DEF SaveDraft, PublishDraft, At, Idle
<1>3. Article(t) = article
    BY <1>2, StandingIsAsRead
<1>. PICK n \in Nat, c \in Nat : n = article.version + 1 /\ c = saves + 1
    BY <1>1 DEF ArticleRows
<1>4. /\ article' \in ArticleRows /\ article'.version = n
      /\ article'.status # "gone" /\ edit' = edit
      /\ article'.status = "published" => article'.firstPublished = "once"
    <2>1. CASE SaveDraft(t)
        <3>1. article' = [article EXCEPT !.version = n, !.copy = c]
            BY <2>1, <1>3 DEF SaveDraft, Written
        <3>2. article.status = "draft" /\ edit' = edit
            BY <2>1, <1>3 DEF SaveDraft
        <3>3. article' \in ArticleRows /\ article'.version = n /\ article'.status = article.status
            <4>1. article \in ArticleRows /\ n \in Nat /\ c \in Nat
                BY <1>1
            <4>. QED
                BY <4>1, <3>1 DEF ArticleRows
        <3>. QED
            BY <3>2, <3>3
    <2>2. CASE PublishDraft(t)
        <3>1. article' = [article EXCEPT !.version = n, !.status = "published",
                                         !.firstPublished = "once"]
            BY <2>2, <1>3 DEF PublishDraft
        <3>2. edit' = edit
            BY <2>2 DEF PublishDraft
        <3>3. /\ article' \in ArticleRows /\ article'.version = n
              /\ article'.status = "published" /\ article'.firstPublished = "once"
            <4>1. article \in ArticleRows /\ n \in Nat
                BY <1>1
            <4>. QED
                BY <4>1, <3>1 DEF ArticleRows
        <3>. QED
            BY <3>2, <3>3
    <2>. QED
        BY <2>1, <2>2
<1>5. saves' \in Nat /\ saves <= saves'
    BY <1>1 DEF SaveDraft, PublishDraft, Written
<1>6. Answered(t, article', edit)
    BY DEF SaveDraft, PublishDraft
<1>7. ArticleVersionsBind'
    BY <1>1, <1>4, <1>6, AnswerIsOfOneRow, NewerArticleBinds
<1>8. EditVersionsBind'
    BY <1>1, <1>4, <1>5, <1>6, AnswerIsOfOneRow, EditBinds
<1>. QED
    BY <1>1, <1>4, <1>5, <1>6, <1>7, <1>8, AnswerIsOfOneRow DEF Inv, TypeOK, DeletedWasNeverOut

\* A save that begins the edit or goes to the one there is
LEMMA EditSavesKeepInv ==
    ASSUME Inv, NEW t \in Tab, BeginEdit(t) \/ SaveEdit(t)
    PROVE  Inv'
<1>1. /\ article \in ArticleRows /\ edit \in EditRows \cup {None} /\ saves \in Nat
      /\ request \in [Tab -> Requests \cup {None}]
    BY DEF Inv, TypeOK
<1>2. /\ request[t] # None /\ request[t].stage = "edit" /\ request[t].op = "save"
    BY DEF BeginEdit, SaveEdit, At, Idle
<1>3. /\ Article(t) \in ArticleRows /\ Article(t).status = "published"
      /\ Edit(t) \in EditRows \cup {None}
    BY <1>1, <1>2 DEF Inv, RequestsAreOfTabs, Article, Edit, Requests
<1>4. article' = article /\ saves' = saves + 1 /\ Answered(t, Article(t), edit')
    BY DEF BeginEdit, SaveEdit, Written
<1>. PICK c \in Nat : c = saves + 1
    BY <1>1
<1>5. /\ edit' \in EditRows
      /\ edit' # None => edit'.owner = StaffOf[t]
      /\ \/ edit'.id = c
         \/ edit # None /\ edit'.id = edit.id /\ edit'.version = edit.version + 1
    <2>1. CASE BeginEdit(t)
        <3>1. edit' = [owner |-> StaffOf[t], version |-> 0, copy |-> c, id |-> c,
                       from |-> Article(t).copy]
            BY <2>1 DEF BeginEdit, Written
        <3>2. Article(t).copy \in Nat /\ StaffOf[t] \in Staff
            BY <1>3 DEF ArticleRows, Staff
        <3>. QED
            BY <3>1, <3>2 DEF EditRows
    <2>2. CASE SaveEdit(t)
        <3>1. edit # None /\ edit \in EditRows /\ Edit(t).owner = StaffOf[t]
            BY <1>1, <2>2 DEF SaveEdit, EditStands, SentEdit
        <3>2. PICK n \in Nat : n = edit.version + 1
            BY <3>1 DEF EditRows
        <3>3. edit' = [edit EXCEPT !.owner = StaffOf[t], !.version = n, !.copy = c]
            BY <2>2, <3>1, <3>2 DEF SaveEdit, Written
        <3>4. edit \in EditRows /\ n \in Nat /\ c \in Nat /\ StaffOf[t] \in Staff
            BY <3>1 DEF Staff
        <3>5. /\ edit' \in EditRows /\ edit'.owner = StaffOf[t]
              /\ edit'.id = edit.id /\ edit'.version = n
            BY <3>3, <3>4 DEF EditRows
        <3>. QED
            BY <3>1, <3>2, <3>5
    <2>. QED
        BY <2>1, <2>2
<1>. DEFINE v == View(Article(t), edit', StaffOf[t])
<1>6. /\ v \in Views
      /\ edit' # None => v.version[1] = "e"
      /\ v.version[1] = "e" =>
            /\ edit' # None /\ v.of = edit'.id
            /\ v.version[2] = edit'.version /\ v.copy = edit'.copy
      /\ tabs' = [tabs EXCEPT ![t] = v] \/ tabs' = tabs
      /\ request' = [request EXCEPT ![t] = None]
      /\ RequestsAreOfTabs'
      /\ tabs' \in [Tab -> Views \cup {None}]
      /\ request' \in [Tab -> Requests \cup {None}]
    <2>1. edit' # None => v.version[1] = "e"
        BY <1>3, <1>5 DEF View, EditVersion
    <2>2. edit' \in EditRows \cup {None}
        BY <1>5
    <2>. QED
        BY <2>1, <2>2, <1>3, <1>4, AnswerIsOfOneRow
<1>7. edit' # None
    BY <1>5, NoneIsNoRow
<1>8. ArticleVersionsBind'
    <2>1. v \in Views \cup {None} /\ v.version[1] # "a"
        BY <1>6, <1>7
    <2>. HIDE DEF v
    <2>. QED
        BY <1>4, <1>6, <2>1, SameArticleBinds
<1>9. EditVersionsBind'
    <2>1. v \in Views \cup {None} /\ saves <= c /\ saves < c /\ saves' = c
          /\ edit' \in EditRows \cup {None}
        BY <1>1, <1>4, <1>5, <1>6
    <2>. HIDE DEF v
    <2>. QED
        BY <1>5, <1>6, <2>1, EditBinds
<1>10. TypeOK'
    BY <1>1, <1>4, <1>5, <1>6 DEF Inv, TypeOK
<1>11. DeletedWasNeverOut'
    BY <1>4 DEF Inv, DeletedWasNeverOut
<1>. QED
    BY <1>6, <1>8, <1>9, <1>10, <1>11 DEF Inv

\* The edit goes on the site
LEMMA ApplyKeepsInv ==
    ASSUME Inv, NEW t \in Tab, ApplyEdit(t)
    PROVE  Inv'
<1>1. /\ article \in ArticleRows /\ edit \in EditRows \cup {None} /\ saves \in Nat
      /\ request \in [Tab -> Requests \cup {None}]
    BY DEF Inv, TypeOK
<1>2. /\ request[t] # None /\ ArticleStands(t) /\ request[t].stage = "edit"
      /\ request[t].op = "publish"
    BY DEF ApplyEdit, At, Idle
<1>3. /\ Article(t) = article /\ article.status = "published"
      /\ Edit(t) \in EditRows
    BY <1>1, <1>2, StandingIsAsRead
       DEF Inv, RequestsAreOfTabs, Article, Edit, Requests, ApplyEdit, SentEdit
<1>. PICK n \in Nat : n = article.version + 1
    BY <1>1 DEF ArticleRows
<1>4. /\ article' \in ArticleRows /\ article'.version = n /\ article'.status = "published"
      /\ article'.firstPublished = "once"
    <2>1. article' = [article EXCEPT !.version = n, !.copy = Edit(t).copy]
        BY <1>3 DEF ApplyEdit
    <2>2. article \in ArticleRows /\ n \in Nat /\ Edit(t).copy \in Nat
        BY <1>1, <1>3 DEF EditRows
    <2>3. /\ article' \in ArticleRows /\ article'.version = n
          /\ article'.status = article.status
          /\ article'.firstPublished = article.firstPublished
        BY <2>1, <2>2 DEF ArticleRows
    <2>. QED
        BY <1>3, <2>3 DEF Inv, TypeOK
<1>5. edit' = None /\ saves' = saves /\ Answered(t, article', edit')
    BY DEF ApplyEdit
<1>6. ArticleVersionsBind'
    BY <1>1, <1>4, <1>5, AnswerIsOfOneRow, NewerArticleBinds
<1>7. EditVersionsBind'
    <2>1. saves <= saves
        BY <1>1
    <2>. QED
        BY <2>1, <1>1, <1>4, <1>5, AnswerIsOfOneRow, EditBinds
<1>8. /\ RequestsAreOfTabs' /\ tabs' \in [Tab -> Views \cup {None}]
      /\ request' \in [Tab -> Requests \cup {None}]
    BY <1>4, <1>5, AnswerIsOfOneRow
<1>9. TypeOK'
    BY <1>1, <1>4, <1>5, <1>8 DEF TypeOK
<1>10. DeletedWasNeverOut'
    BY <1>4 DEF DeletedWasNeverOut
<1>. QED
    BY <1>6, <1>7, <1>8, <1>9, <1>10 DEF Inv

\* A row goes, or the article back to its author; the tab is given no version
LEMMA WithdrawalsKeepInv ==
    ASSUME Inv, NEW t \in Tab, DiscardEdit(t) \/ Delete(t) \/ Unpublish(t)
    PROVE  Inv'
<1>1. /\ article \in ArticleRows /\ edit \in EditRows \cup {None} /\ saves \in Nat
      /\ tabs \in [Tab -> Views \cup {None}]
      /\ request \in [Tab -> Requests \cup {None}]
    BY DEF Inv, TypeOK
<1>2. /\ tabs' = tabs /\ saves' = saves /\ (edit' = edit \/ edit' = None)
      /\ request' = [request EXCEPT ![t] = None]
    BY DEF DiscardEdit, Delete, Unpublish
<1>3. /\ article' \in ArticleRows
      /\ article'.status = "published" => article'.firstPublished = "once"
      /\ article'.status = "gone" => article'.firstPublished = "never"
      /\ ArticleVersionsBind'
    <2>1. CASE DiscardEdit(t)
        <3>1. article' = article
            BY <2>1 DEF DiscardEdit
        <3>2. ArticleVersionsBind'
            BY <1>1, <1>2, <3>1 DEF Inv, ArticleVersionsBind
        <3>. QED
            BY <1>1, <3>1, <3>2 DEF Inv, TypeOK, DeletedWasNeverOut
    <2>2. CASE Delete(t)
        <3>1. /\ article' = [article EXCEPT !.status = "gone"]
              /\ request[t] # None /\ ArticleStands(t) /\ Article(t).firstPublished = "never"
            BY <2>2 DEF Delete, At, Idle
        <3>2. article.firstPublished = "never"
            BY <3>1, StandingIsAsRead
        <3>3. /\ article' \in ArticleRows /\ article'.status = "gone"
              /\ article'.firstPublished = article.firstPublished
              /\ article'.version = article.version /\ article'.copy = article.copy
            BY <1>1, <3>1 DEF ArticleRows
        <3>4. \A u \in Tab : request'[u] # None => u # t /\ request'[u] = request[u]
            BY <1>1, <1>2
        <3>5. ArticleVersionsBind'
            BY <1>2, <3>3, <3>4 DEF Inv, ArticleVersionsBind
        <3>. QED
            BY <3>2, <3>3, <3>5
    <2>3. CASE Unpublish(t)
        <3>1. request[t] # None /\ ArticleStands(t) /\ request[t].op = "unpublish"
              /\ request[t].stage = "edit"
            BY <2>3 DEF Unpublish, At, Idle
        <3>2. Article(t) = article
            BY <3>1, StandingIsAsRead
        <3>3. PICK n \in Nat : n = article.version + 1
            BY <1>1 DEF ArticleRows
        <3>4. article' = [article EXCEPT !.version = n, !.status = "draft"]
            BY <2>3, <3>2, <3>3 DEF Unpublish
        <3>5. article \in ArticleRows /\ n \in Nat
            BY <1>1
        <3>6. article' \in ArticleRows /\ article'.version = n /\ article'.status = "draft"
            BY <3>4, <3>5 DEF ArticleRows
        <3>7. tabs' = [tabs EXCEPT ![t] = None] \/ tabs' = tabs
            BY <1>2
        <3>8. ArticleVersionsBind'
            BY <1>2, <3>3, <3>6, <3>7, NewerArticleBinds
        <3>. QED
            BY <3>6, <3>8
    <2>. QED
        BY <2>1, <2>2, <2>3
<1>4. EditVersionsBind'
    BY <1>2 DEF Inv, EditVersionsBind
<1>5. RequestsAreOfTabs'
    BY <1>1, <1>2 DEF Inv, RequestsAreOfTabs
<1>6. TypeOK'
    BY <1>1, <1>2, <1>3 DEF TypeOK
<1>7. DeletedWasNeverOut'
    BY <1>3 DEF DeletedWasNeverOut
<1>. QED
    BY <1>3, <1>4, <1>5, <1>6, <1>7 DEF Inv

-----------------------------------------------------------------------------
\* The invariant holds throughout
LEMMA InvHolds == Spec => []Inv
<1>1. Init => Inv
    <2>. SUFFICES ASSUME Init PROVE Inv
        OBVIOUS
    <2>1. TypeOK
        BY DEF Init, TypeOK, ArticleRows
    <2>2. ArticleVersionsBind /\ EditVersionsBind /\ RequestsAreOfTabs /\ DeletedWasNeverOut
        BY DEF Init, ArticleVersionsBind, EditVersionsBind, RequestsAreOfTabs, DeletedWasNeverOut
    <2>. QED
        BY <2>1, <2>2 DEF Inv
<1>2. Inv /\ [Next]_vars => Inv'
    <2>. SUFFICES ASSUME Inv, [Next]_vars PROVE Inv'
        OBVIOUS
    <2>1. CASE UNCHANGED vars
        BY <2>1 DEF vars, Inv, TypeOK, ArticleVersionsBind, EditVersionsBind,
                    RequestsAreOfTabs, DeletedWasNeverOut
    <2>2. CASE Next
        BY <2>2, ReadingKeepsInv, DraftStepsKeepInv, EditSavesKeepInv, ApplyKeepsInv,
           WithdrawalsKeepInv DEF Next
    <2>. QED
        BY <2>1, <2>2
<1>. QED
    BY <1>1, <1>2, PTL DEF Spec

\* Rows, tabs and requests keep their types, and what is on the site remembers that it is:
\* the transactions of EditorialArticleService for any number of tabs and saves.
THEOREM ArticleTypeCorrect == Spec => []TypeOK
<1>1. Inv => TypeOK
    BY DEF Inv
<1>. QED
    BY <1>1, InvHolds, PTL

\* Nobody overwrites a draft, or puts it on the site, in a copy he was not given: the version
\* he sends and the version of the row he writes see to that together.
THEOREM DraftsAreSafe == Spec => DraftWorkIsNotLost
<1>1. Inv /\ [Next]_vars
        => [\A t \in Tab : SaveDraft(t) \/ PublishDraft(t) => tabs[t].copy = article.copy]_vars
    <2>. SUFFICES ASSUME Inv, NEW t \in Tab, SaveDraft(t) \/ PublishDraft(t)
                  PROVE  tabs[t].copy = article.copy
        OBVIOUS
    <2>1. request[t] # None /\ ArticleStands(t) /\ tabs[t].version = ArticleVersion(Article(t))
        BY DEF SaveDraft, PublishDraft, At, Idle, SentArticle, Sent
    <2>2. tabs[t] # None
        BY <2>1 DEF Inv, RequestsAreOfTabs
    <2>3. tabs[t].version = <<"a", article.version>>
        BY <2>1, StandingIsAsRead DEF ArticleVersion
    <2>. QED
        BY <2>2, <2>3 DEF Inv, ArticleVersionsBind
<1>. QED
    BY <1>1, InvHolds, PTL DEF Spec, DraftWorkIsNotLost

\* Within the life of one edit nobody overwrites or applies it in a copy he was not given.
THEOREM EditsAreSafe == Spec => EditWorkIsNotLost
<1>1. Inv /\ [Next]_vars
        => [\A t \in Tab : (SaveEdit(t) \/ ApplyEdit(t)) /\ tabs[t].of = edit.id
                => tabs[t].copy = edit.copy]_vars
    <2>. SUFFICES ASSUME Inv, NEW t \in Tab, SaveEdit(t) \/ ApplyEdit(t), tabs[t].of = edit.id
                  PROVE  tabs[t].copy = edit.copy
        OBVIOUS
    <2>1. request[t] # None /\ EditStands(t) /\ tabs[t].version = EditVersion(Edit(t))
        BY DEF SaveEdit, ApplyEdit, At, Idle, SentEdit, Sent
    <2>2. tabs[t] # None
        BY <2>1 DEF Inv, RequestsAreOfTabs
    <2>3. edit # None /\ tabs[t].version = <<"e", edit.version>>
        BY <2>1 DEF EditVersion, EditStands
    <2>. QED
        BY <2>2, <2>3 DEF Inv, EditVersionsBind
<1>. QED
    BY <1>1, InvHolds, PTL DEF Spec, EditWorkIsNotLost

\* What has once been on the site keeps its row: a delete that read it before it went out
\* finds another version.
THEOREM SiteIdsStay == Spec => PublishedIsNeverDeleted
<1>1. Inv /\ Inv' /\ [Next]_vars
        => [article.firstPublished = "once" => article'.status # "gone"]_vars
    <2>. SUFFICES ASSUME Inv, Inv', Next, article.firstPublished = "once"
                  PROVE  article'.status # "gone"
        BY DEF vars
    <2>1. PICK t \in Tab :
            \/ Open(t) \/ ReadEdit(t) \/ Refuse(t)
            \/ \E op \in Operations : Send(t, op)
            \/ SaveDraft(t) \/ BeginEdit(t) \/ SaveEdit(t)
            \/ PublishDraft(t) \/ ApplyEdit(t)
            \/ DiscardEdit(t) \/ Delete(t) \/ Unpublish(t)
        BY DEF Next
    <2>2. ASSUME Delete(t) PROVE FALSE
        <3>1. request[t] # None /\ ArticleStands(t) /\ Article(t).firstPublished = "never"
            BY <2>2 DEF Delete, At, Idle
        <3>. QED
            BY <3>1, StandingIsAsRead
    <2>3. article'.firstPublished = "once"
        <3>1. CASE article' = article
            BY <3>1
        <3>2. CASE SaveDraft(t) \/ PublishDraft(t) \/ ApplyEdit(t) \/ Unpublish(t)
            <4>1. request[t] # None /\ ArticleStands(t)
                BY <3>2 DEF SaveDraft, PublishDraft, ApplyEdit, Unpublish, At, Idle
            <4>2. Article(t) = article /\ article \in ArticleRows
                BY <4>1, StandingIsAsRead DEF Inv, TypeOK
            <4>. QED
                BY <3>2, <4>2
                   DEF SaveDraft, PublishDraft, ApplyEdit, Unpublish, ArticleRows
        <3>. QED
            BY <2>1, <2>2, <3>1, <3>2
               DEF Open, ReadEdit, Refuse, Send, BeginEdit, SaveEdit, DiscardEdit
    <2>. QED
        BY <2>3 DEF Inv, DeletedWasNeverOut
<1>. QED
    BY <1>1, InvHolds, PTL DEF Spec, PublishedIsNeverDeleted
=============================================================================
