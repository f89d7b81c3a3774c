------------------------ MODULE AccountErasureProofs ------------------------
(***************************************************************************)
(* What holds of every account on its way out, for any number of readers   *)
(* and instances and any durations, while the realm is set to other token  *)
(* lifespans, as long as the margin covers the difference.  The invariant  *)
(* is a sum: the time a token still has and the time since the identity    *)
(* was closed never exceed the longest lifespan and the slack of one step, *)
(* so when the rule lets the profile go no token is good.  The last part,  *)
(* about the clock, needs nothing of the margin.                           *)
(***************************************************************************)
EXTENDS AccountErasure, WellFoundedInduction, TLAPS

\* Whatever lifespan a pass goes by, the margin makes up for that of any token
MarginCovers == \A m, n \in Lifespans : m + Slack <= n + Margin

\* There is a longest lifespan the realm may be set to
HasLongest == \E n \in Lifespans : \A m \in Lifespans : m <= n

\* The identity is shut, and no token outlives the sum
ShutFor(u, age) ==
    /\ identity[u] # "open"
    /\ token[u] > 0 => token[u] + age <= MaxLifespan + Slack

\* No token is good, and there is nothing left to find
Traceless(u) == token[u] = 0 /\ identity[u] # "open" /\ u \notin trace

UserSound(u) ==
    /\ row[u] # None /\ row[u].closed # None => ShutFor(u, row[u].closed)
    /\ request[u] = "closed" => identity[u] # "open"
    /\ request[u] = "recorded" => row[u] # None \/ identity[u] # "open"
    /\ profile[u] # "kept" => profile[u] = "gone" /\ Traceless(u)
    /\ identity[u] # "open" /\ row[u] = None => identity[u] = "gone" /\ profile[u] = "gone"

WorkSound(i) ==
    LET u == work[i].user
    IN  /\ pass[i] \in Passes /\ row[u] # None
        /\ work[i].stage = "closed" => ShutFor(u, work[i].since)
        /\ work[i].stage \in {"held", "erased", "deleted"} => Traceless(u)
        /\ work[i].stage = "deleted" => identity[u] = "gone"

Inv ==
    /\ TypeOK
    /\ \A u \in User : UserSound(u)
    /\ \A i \in Instance : Busy(i) => WorkSound(i)

-----------------------------------------------------------------------------
\* With a longest lifespan the bounds are numbers, and no grace is longer than what is counted
LEMMA BoundFacts ==
    ASSUME HasLongest
    PROVE  /\ MaxLifespan \in Lifespans /\ MaxLifespan \in Nat
           /\ \A n \in Lifespans : n \in 0..MaxLifespan
           /\ CacheFor \in Nat /\ Margin \in Nat /\ Slack \in Nat /\ Recheck \in Nat
           /\ RetryCap \in Nat /\ Slack <= Margin /\ RetryCap > 0
           /\ Enough = MaxLifespan + Margin + Slack /\ Enough \in Nat
<1>1. MaxLifespan \in Lifespans /\ \A m \in Lifespans : m <= MaxLifespan
    BY DEF HasLongest, MaxLifespan, Highest
<1>2. Lifespans \subseteq Nat
    BY Durations
<1>3. \A n \in Lifespans : n \in 0..MaxLifespan
    BY <1>1, <1>2
<1>. QED
    BY <1>1, <1>2, <1>3, Durations DEF Enough

\* Lifespans that a margin covers have a longest
LEMMA CoveredHasLongest ==
    ASSUME MarginCovers
    PROVE  HasLongest
<1>1. PICK a : a \in Lifespans
    BY Durations
<1>2. PICK b \in Nat : b = a + Margin
    BY <1>1, Durations
<1>. DEFINE short == {k \in Nat : \E m \in Lifespans : k = b - m}
<1>3. \A m \in Lifespans : m \in Nat /\ b - m \in short
    BY <1>1, <1>2, Durations DEF MarginCovers
<1>4. PICK k \in short : \A l \in short : <<l, k>> \notin OpToRel(<, Nat)
    <2>1. short \subseteq Nat /\ short # {}
        BY <1>1, <1>3
    <2>. QED
        BY <2>1, NatLessThanWellFounded, WFMin
<1>5. \A l \in short : ~(l < k)
    BY <1>4 DEF OpToRel
<1>6. PICK m \in Lifespans : k = b - m
    BY <1>4
<1>7. \A n \in Lifespans : n <= m
    BY <1>2, <1>3, <1>5, <1>6
<1>. QED
    BY <1>6, <1>7 DEF HasLongest

\* With lifespans the margin covers the durations are what they seem, and no grace is too short
LEMMA DurationFacts ==
    ASSUME MarginCovers
    PROVE  /\ MaxLifespan \in Nat
           /\ \A n \in Lifespans : n \in 0..MaxLifespan /\ n + Margin >= MaxLifespan + Slack
           /\ CacheFor \in Nat /\ Margin \in Nat /\ Slack \in Nat /\ Recheck \in Nat
           /\ RetryCap \in Nat /\ Slack <= Margin /\ RetryCap > 0 /\ Recheck > 0
           /\ Enough = MaxLifespan + Margin + Slack /\ Enough \in Nat
    BY CoveredHasLongest, BoundFacts, Durations DEF MarginCovers

\* The variables, one by one
LEMMA TypeFacts ==
    ASSUME TypeOK, MarginCovers
    PROVE  /\ realm \in Lifespans /\ realm \in 0..MaxLifespan
           /\ token \in [User -> 0..MaxLifespan]
           /\ identity \in [User -> {"open", "closed", "gone"}]
           /\ profile \in [User -> {"kept", "gone", "again"}]
           /\ trace \subseteq User /\ banned \subseteq User
           /\ row \in [User -> Rows \cup {None}]
           /\ request \in [User -> {"none", "recorded", "closed", "noted"}]
           /\ cache \in [Instance -> [lifespan : Lifespans, age : 0..(CacheFor + 1)] \cup {None}]
           /\ pass \in [Instance -> Passes \cup {None}]
           /\ work \in [Instance -> Works \cup {None}]
BY DurationFacts DEF TypeOK

\* A reader's own steps, as long as the row and the work of the job stay as they are
LEMMA TokenStepsKeepInv ==
    ASSUME Inv, MarginCovers, NEW u \in User, TokenNext(u)
    PROVE  Inv'
<1>1. /\ realm' = realm /\ identity' = identity /\ row' = row /\ request' = request
      /\ cache' = cache /\ pass' = pass /\ work' = work /\ banned' = banned
    BY DEF TokenNext, Login, Comment, jobVars, readerVars
<1>2. /\ token \in [User -> 0..MaxLifespan] /\ realm \in 0..MaxLifespan /\ MaxLifespan \in Nat
      /\ trace \subseteq User /\ profile \in [User -> {"kept", "gone", "again"}]
    BY TypeFacts, DurationFacts DEF Inv
<1>3. CASE Login(u)
    <2>1. profile' = profile /\ trace' = trace /\ identity[u] = "open"
          /\ token' = [token EXCEPT ![u] = realm]
        BY <1>3 DEF Login
    <2>2. token' \in [User -> 0..MaxLifespan]
          /\ \A v \in User : identity[v] # "open" => token'[v] = token[v]
        BY <1>2, <2>1
    <2>3. TypeOK'
        BY <1>1, <2>1, <2>2 DEF Inv, TypeOK, Busy
    <2>4. ASSUME NEW v \in User PROVE UserSound(v)'
        BY <1>1, <2>1, <2>2, <2>4 DEF Inv, UserSound, ShutFor, Traceless
    <2>5. ASSUME NEW i \in Instance, Busy(i)' PROVE WorkSound(i)'
        <3>1. work[i].user \in User /\ WorkSound(i)
            BY <1>1, <2>5, TypeFacts DEF Inv, Busy, Works
        <3>. QED
            BY <1>1, <2>1, <2>2, <3>1 DEF WorkSound, ShutFor, Traceless
    <2>. QED
        BY <2>3, <2>4, <2>5 DEF Inv
<1>4. CASE Comment(u)
    <2>1. /\ profile' = profile /\ token' = token /\ token[u] > 0
          /\ trace' = trace \cup {u}
        <3>1. profile[u] = "kept" /\ token[u] > 0
            BY <1>2, <1>4 DEF Comment, Inv, UserSound, Traceless
        <3>2. profile' = profile
            BY <1>2, <1>4, <3>1 DEF Comment, Resolved
        <3>. QED
            BY <1>4, <3>1, <3>2 DEF Comment, readerVars
    <2>2. TypeOK'
        BY <1>1, <1>2, <2>1 DEF Inv, TypeOK, Busy
    <2>3. \A v \in User : Traceless(v) => Traceless(v)'
        BY <1>1, <1>2, <2>1 DEF Traceless
    <2>4. ASSUME NEW v \in User PROVE UserSound(v)'
        BY <1>1, <2>1, <2>3, <2>4 DEF Inv, UserSound, ShutFor
    <2>5. ASSUME NEW i \in Instance, Busy(i)' PROVE WorkSound(i)'
        <3>1. work[i].user \in User /\ WorkSound(i)
            BY <1>1, <2>5, TypeFacts DEF Inv, Busy, Works
        <3>. QED
            BY <1>1, <2>1, <2>3, <3>1 DEF WorkSound, ShutFor
    <2>. QED
        BY <2>2, <2>4, <2>5 DEF Inv
<1>. QED
    BY <1>3, <1>4 DEF TokenNext

\* The job's own state, with the work of nobody disturbed
LEMMA UndisturbedWork ==
    ASSUME Inv, MarginCovers, work' = work, pass' = pass,
           \A v \in User : row[v] # None => row'[v] # None,
           \A v \in User : ShutFor(v, 0) => identity'[v] # "open" /\ token'[v] = token[v],
           \A v \in User : Traceless(v) => Traceless(v)',
           \A v \in User : identity[v] = "gone" => identity'[v] = "gone",
           NEW i \in Instance, Busy(i)'
    PROVE  WorkSound(i)'
<1>1. Busy(i) /\ WorkSound(i) /\ work[i].user \in User /\ work[i].since \in 0..Slack
    BY TypeFacts DEF Inv, Busy, Works
<1>2. token \in [User -> 0..MaxLifespan] /\ Slack \in Nat /\ MaxLifespan \in Nat
    BY TypeFacts, DurationFacts DEF Inv
<1>. DEFINE u == work[i].user
<1>3. ShutFor(u, work[i].since) => ShutFor(u, work[i].since)'
    <2>. SUFFICES ASSUME ShutFor(u, work[i].since) PROVE ShutFor(u, work[i].since)'
        OBVIOUS
    <2>1. token[u] <= MaxLifespan + Slack /\ token[u] + 0 <= MaxLifespan + Slack
        BY <1>1, <1>2
    <2>2. identity'[u] # "open" /\ token'[u] = token[u]
        BY <1>1, <2>1 DEF ShutFor
    <2>. QED
        BY <2>2 DEF ShutFor
<1>. QED
    BY <1>1, <1>3 DEF WorkSound

\* The steps of a request
LEMMA RequestStepsKeepInv ==
    ASSUME Inv, MarginCovers, NEW u \in User, RequestNext(u)
    PROVE  Inv'
<1>1. /\ realm' = realm /\ token' = token
      /\ cache' = cache /\ pass' = pass /\ work' = work /\ profile' = profile
    BY DEF RequestNext, BanOrLift, Ask, CloseNow, MarkClosed, StartTrace, RequestLost,
           jobVars, readerVars
<1>2. /\ token \in [User -> 0..MaxLifespan] /\ realm \in 0..MaxLifespan /\ MaxLifespan \in Nat
      /\ Slack \in Nat /\ Enough \in Nat
      /\ identity \in [User -> {"open", "closed", "gone"}]
      /\ profile \in [User -> {"kept", "gone", "again"}]
      /\ trace \subseteq User /\ banned \subseteq User
      /\ row \in [User -> Rows \cup {None}]
      /\ request \in [User -> {"none", "recorded", "closed", "noted"}]
    BY TypeFacts, DurationFacts DEF Inv
\* What each step does to the account of one reader
<1>3. /\ identity' \in [User -> {"open", "closed", "gone"}]
      /\ \A v \in User :
            \/ identity'[v] = identity[v]
            \/ /\ identity[v] = "open" /\ identity'[v] = "closed"
               /\ request[v] = "recorded"
      /\ trace' \subseteq trace
      /\ banned' \subseteq User
    <2>1. CASE BanOrLift(u)
        BY <1>2, <2>1 DEF BanOrLift
    <2>2. CASE CloseNow(u)
        BY <1>2, <2>2 DEF CloseNow, readerVars, Closed
    <2>3. CASE Ask(u) \/ MarkClosed(u) \/ StartTrace(u) \/ RequestLost(u)
        BY <1>2, <2>3 DEF Ask, MarkClosed, StartTrace, RequestLost, readerVars
    <2>. QED
        BY <2>1, <2>2, <2>3 DEF RequestNext
<1>4. /\ row' \in [User -> Rows \cup {None}]
      /\ \A v \in User :
            \/ row'[v] = row[v]
            \/ /\ row[v] = None /\ profile[v] = "kept"
               /\ row'[v] # None /\ row'[v].closed = None
            \/ /\ row[v] # None /\ request[v] = "closed"
               /\ row'[v] # None /\ row'[v].closed = 0
    <2>1. CASE Ask(u)
        <3>1. NewRow \in Rows /\ NewRow.closed = None
            BY DurationFacts DEF NewRow, Rows, Ages, Waits
        <3>. QED
            BY <1>2, <2>1, <3>1, NoneIsNoRow DEF Ask
    <2>2. CASE MarkClosed(u)
        <3>1. CASE row[u] # None /\ row[u].closed = None
            <4>1. row' = [row EXCEPT ![u] = [row[u] EXCEPT !.closed = 0]]
                BY <2>2, <3>1 DEF MarkClosed
            <4>2. row[u] \in Rows /\ 0 \in Ages
                BY <1>2, <3>1 DEF Ages
            <4>3. [row[u] EXCEPT !.closed = 0] \in Rows /\ [row[u] EXCEPT !.closed = 0].closed = 0
                BY <4>2 DEF Rows
            <4>. QED
                BY <1>2, <2>2, <3>1, <4>1, <4>3, NoneIsNoRow DEF MarkClosed
        <3>2. CASE ~(row[u] # None /\ row[u].closed = None)
            <4>1. row' = [row EXCEPT ![u] = row[u]]
                BY <2>2, <3>2 DEF MarkClosed
            <4>. QED
                BY <1>2, <4>1
        <3>. QED
            BY <3>1, <3>2
    <2>3. CASE BanOrLift(u) \/ CloseNow(u) \/ StartTrace(u) \/ RequestLost(u)
        BY <1>2, <2>3 DEF BanOrLift, CloseNow, StartTrace, RequestLost
    <2>. QED
        BY <2>1, <2>2, <2>3 DEF RequestNext
<1>5. /\ request' \in [User -> {"none", "recorded", "closed", "noted"}]
      /\ \A v \in User :
            /\ request'[v] = "recorded" => request[v] = "recorded" \/ row'[v] # None
            /\ request'[v] = "closed" => request[v] = "closed" \/ identity'[v] # "open"
    <2>1. CASE Ask(u)
        <3>1. NewRow \in Rows
            BY DurationFacts DEF NewRow, Rows, Ages, Waits
        <3>2. row'[u] = IF row[u] = None THEN NewRow ELSE row[u]
            BY <1>2, <2>1 DEF Ask
        <3>3. row'[u] # None
            BY <3>1, <3>2, NoneIsNoRow
        <3>. QED
            BY <1>2, <2>1, <3>3 DEF Ask
    <2>2. CASE CloseNow(u)
        BY <1>2, <2>2 DEF CloseNow, Closed
    <2>3. CASE BanOrLift(u) \/ MarkClosed(u) \/ StartTrace(u) \/ RequestLost(u)
        BY <1>2, <2>3 DEF BanOrLift, MarkClosed, StartTrace, RequestLost
    <2>. QED
        BY <2>1, <2>2, <2>3 DEF RequestNext
<1>6. TypeOK'
    <2>1. trace' \subseteq User
        BY <1>2, <1>3
    <2>. QED
        BY <1>1, <1>3, <1>4, <1>5, <2>1 DEF Inv, TypeOK, Busy
<1>7. \A v \in User : Traceless(v) => Traceless(v)'
    BY <1>1, <1>3 DEF Traceless
<1>8. ASSUME NEW v \in User PROVE UserSound(v)'
    <2>1. UserSound(v)
        BY DEF Inv
    <2>2. (row[v] # None /\ row[v].closed # None => ShutFor(v, row[v].closed))'
        <3>1. CASE row'[v] = row[v]
            BY <1>1, <1>3, <2>1, <3>1 DEF UserSound, ShutFor
        <3>2. CASE row[v] # None /\ request[v] = "closed" /\ row'[v] # None /\ row'[v].closed = 0
            <4>1. token[v] + 0 <= MaxLifespan + Slack /\ identity'[v] # "open"
                BY <1>2, <1>3, <2>1, <3>2 DEF UserSound
            <4>. QED
                BY <1>1, <3>2, <4>1 DEF ShutFor
        <3>. QED
            BY <1>4, <3>1, <3>2
    <2>3. request'[v] = "closed" => identity'[v] # "open"
        BY <1>3, <1>5, <2>1 DEF UserSound
    <2>4. request'[v] = "recorded" => row'[v] # None \/ identity'[v] # "open"
        BY <1>3, <1>4, <1>5, <2>1 DEF UserSound
    <2>5. profile'[v] # "kept" => profile'[v] = "gone" /\ Traceless(v)'
        BY <1>1, <1>7, <2>1 DEF UserSound
    <2>6. identity'[v] # "open" /\ row'[v] = None => identity'[v] = "gone" /\ profile'[v] = "gone"
        BY <1>1, <1>3, <1>4, <2>1 DEF UserSound
    <2>. QED
        BY <2>2, <2>3, <2>4, <2>5, <2>6 DEF UserSound
<1>9. ASSUME NEW i \in Instance, Busy(i)' PROVE WorkSound(i)'
    <2>1. \A v \in User : row[v] # None => row'[v] # None
        BY <1>4
    <2>2. \A v \in User : identity[v] # "open" => identity'[v] # "open"
        BY <1>3
    <2>3. \A v \in User : identity[v] = "gone" => identity'[v] = "gone"
        BY <1>3
    <2>. QED
        BY <1>1, <1>7, <1>9, <2>1, <2>2, <2>3, UndisturbedWork DEF ShutFor
<1>. QED
    BY <1>6, <1>8, <1>9 DEF Inv

\* What a step of the job on one account has to show: the rest is as it was
LEMMA OthersUndisturbed ==
    ASSUME Inv, MarginCovers, NEW i \in Instance, Busy(i), NEW u \in User, u = work[i].user,
           realm' = realm, token' = token, banned' = banned, request' = request,
           cache' = cache, pass' = pass,
           identity' \in [User -> {"open", "closed", "gone"}],
           profile' \in [User -> {"kept", "gone", "again"}],
           trace' \subseteq trace,
           row' \in [User -> Rows \cup {None}],
           work' \in [Instance -> Works \cup {None}],
           \A v \in User \ {u} :
              identity'[v] = identity[v] /\ profile'[v] = profile[v] /\ row'[v] = row[v],
           \A j \in Instance \ {i} : work'[j] = work[j],
           Busy(i)' => work'[i].user = u,
           UserSound(u)',
           Busy(i)' => WorkSound(i)'
    PROVE  Inv'
<1>1. \A j \in Instance \ {i} : Busy(j) => work[j].user \in User \ {u}
    BY TypeFacts DEF Inv, TypeOK, Busy, Works
<1>2. TypeOK'
    <2>1. trace' \subseteq User
        BY TypeFacts DEF Inv
    <2>2. ASSUME NEW j \in Instance, NEW k \in Instance,
                 Busy(j)', Busy(k)', work'[j].user = work'[k].user
          PROVE  j = k
        <3>1. \A l \in Instance : Busy(l)' => Busy(l) /\ work'[l].user = work[l].user
            BY DEF Busy
        <3>. QED
            BY <2>2, <3>1 DEF Inv, TypeOK
    <2>3. /\ realm \in Lifespans /\ token \in [User -> 0..MaxLifespan] /\ banned \subseteq User
          /\ request \in [User -> {"none", "recorded", "closed", "noted"}]
          /\ cache \in [Instance -> [lifespan : Lifespans, age : 0..(CacheFor + 1)] \cup {None}]
          /\ pass \in [Instance -> Passes \cup {None}]
        BY DEF Inv, TypeOK
    <2>. QED
        BY <2>1, <2>2, <2>3 DEF TypeOK
<1>3. \A v \in User : Traceless(v) /\ identity'[v] = identity[v] => Traceless(v)'
    BY DEF Traceless
<1>4. ASSUME NEW v \in User PROVE UserSound(v)'
    <2>1. CASE v = u
        BY <2>1
    <2>2. CASE v # u
        <3>1. UserSound(v) /\ identity'[v] = identity[v] /\ profile'[v] = profile[v]
              /\ row'[v] = row[v]
            BY <2>2 DEF Inv
        <3>. QED
            BY <1>3, <3>1 DEF UserSound, ShutFor
    <2>. QED
        BY <2>1, <2>2
<1>5. ASSUME NEW j \in Instance, Busy(j)' PROVE WorkSound(j)'
    <2>1. CASE j = i
        BY <1>5, <2>1
    <2>2. CASE j # i
        <3>1. Busy(j) /\ work'[j] = work[j] /\ work[j].user \in User \ {u}
            BY <1>1, <1>5, <2>2 DEF Busy
        <3>2. WorkSound(j)
            BY <3>1 DEF Inv
        <3>. QED
            BY <1>3, <3>1, <3>2 DEF WorkSound, ShutFor
    <2>. QED
        BY <2>1, <2>2
<1>. QED
    BY <1>2, <1>4, <1>5 DEF Inv

\* What an instance that advances an account has in hand
LEMMA InHand ==
    ASSUME Inv, MarginCovers, NEW i \in Instance, Busy(i)
    PROVE  /\ work[i] \in Works /\ work[i].user \in User /\ work[i].since \in 0..Slack
           /\ row[work[i].user] \in Rows /\ row[work[i].user] # None
           /\ WorkSound(i) /\ UserSound(work[i].user)
<1>1. work[i] \in Works
    BY TypeFacts DEF Inv, Busy
<1>2. work[i].user \in User /\ work[i].since \in 0..Slack
    BY <1>1 DEF Works
<1>3. WorkSound(i) /\ UserSound(work[i].user)
    BY <1>2 DEF Inv
<1>4. row[work[i].user] \in Rows \cup {None} /\ row[work[i].user] # None
    BY <1>2, <1>3, TypeFacts DEF Inv, WorkSound
<1>. QED
    BY <1>1, <1>2, <1>3, <1>4

\* A step that only moves the work on to its next stage
LEMMA StageTyped ==
    ASSUME Inv, MarginCovers, NEW i \in Instance, Busy(i),
           NEW s \in {"closed", "erased", "held", "deleted"}, Goes(i, s)
    PROVE  /\ work' \in [Instance -> Works \cup {None}]
           /\ \A j \in Instance \ {i} : work'[j] = work[j]
           /\ work'[i].user = work[i].user /\ work'[i].since = work[i].since
           /\ work'[i].stage = s
<1>1. work[i] \in Works /\ work \in [Instance -> Works \cup {None}]
    BY InHand, TypeFacts DEF Inv
<1>2. work' = [work EXCEPT ![i] = [work[i] EXCEPT !.stage = s]]
    BY DEF Goes
<1>3. /\ [work[i] EXCEPT !.stage = s] \in Works
      /\ [work[i] EXCEPT !.stage = s].user = work[i].user
      /\ [work[i] EXCEPT !.stage = s].since = work[i].since
      /\ [work[i] EXCEPT !.stage = s].stage = s
    BY <1>1 DEF Works
<1>. QED
    BY <1>1, <1>2, <1>3

\* A commit writes the row of the account and puts it down
LEMMA CommitTyped ==
    ASSUME Inv, MarginCovers, NEW i \in Instance, Busy(i), NEW r \in Rows \cup {None},
           Commits(i, r)
    PROVE  /\ row' \in [User -> Rows \cup {None}]
           /\ \A v \in User \ {work[i].user} : row'[v] = row[v]
           /\ row'[work[i].user] = r
           /\ work' \in [Instance -> Works \cup {None}]
           /\ \A j \in Instance \ {i} : work'[j] = work[j]
           /\ ~Busy(i)'
BY InHand, TypeFacts DEF Inv, Commits, Busy

\* The account as an instance finds it that advances it
LEMMA OnHand ==
    ASSUME Inv, MarginCovers, NEW i \in Instance, Busy(i), NEW u \in User, u = work[i].user
    PROVE  /\ token[u] \in 0..MaxLifespan /\ MaxLifespan \in Nat /\ Slack \in Nat
           /\ work[i].since \in 0..Slack
           /\ identity \in [User -> {"open", "closed", "gone"}]
           /\ profile \in [User -> {"kept", "gone", "again"}]
           /\ row \in [User -> Rows \cup {None}] /\ row[u] \in Rows /\ row[u] # None
           /\ trace \subseteq User /\ UserSound(u) /\ WorkSound(i)
           /\ pass[i] \in Passes /\ pass[i].grace \in (MaxLifespan + Slack)..(MaxLifespan + Margin)
<1>1. pass[i] \in Passes
    BY InHand, TypeFacts DEF Inv, WorkSound
<1>2. pass[i].grace \in (MaxLifespan + Slack)..(MaxLifespan + Margin)
    BY <1>1, DurationFacts DEF Passes
<1>. QED
    BY <1>1, <1>2, InHand, TypeFacts, DurationFacts DEF Inv

LEMMA CloseIdentityKeepsInv ==
    ASSUME Inv, MarginCovers, NEW i \in Instance, CloseIdentity(i),
           NEW u \in User, u = work[i].user
    PROVE  Inv'
<1>1. Busy(i) /\ Goes(i, "closed") /\ row[u].closed = None
    BY DEF CloseIdentity, At, Row
<1>2. /\ realm' = realm /\ token' = token /\ banned' = banned /\ request' = request
      /\ cache' = cache /\ pass' = pass /\ profile' = profile /\ trace' = trace /\ row' = row
      /\ identity' = [identity EXCEPT ![u] = Closed(identity[u])]
    BY DEF CloseIdentity, readerVars
<1>3. /\ token[u] \in 0..MaxLifespan /\ MaxLifespan \in Nat /\ Slack \in Nat
      /\ work[i].since \in 0..Slack
      /\ identity \in [User -> {"open", "closed", "gone"}]
      /\ profile \in [User -> {"kept", "gone", "again"}]
      /\ row \in [User -> Rows \cup {None}] /\ row[u] # None
      /\ UserSound(u) /\ pass[i] \in Passes
    BY <1>1, OnHand
<1>4. /\ work' \in [Instance -> Works \cup {None}]
      /\ \A j \in Instance \ {i} : work'[j] = work[j]
      /\ work'[i].user = u /\ work'[i].since = work[i].since /\ work'[i].stage = "closed"
    BY <1>1, StageTyped
<1>5. /\ identity'[u] # "open" /\ (identity[u] = "gone" => identity'[u] = "gone")
      /\ identity' \in [User -> {"open", "closed", "gone"}]
      /\ \A v \in User \ {u} : identity'[v] = identity[v]
    BY <1>2, <1>3 DEF Closed
<1>6. UserSound(u)'
    BY <1>1, <1>2, <1>3, <1>5 DEF UserSound, Traceless
<1>7. WorkSound(i)'
    <2>1. token[u] + work[i].since <= MaxLifespan + Slack
        BY <1>3
    <2>2. ShutFor(work[i].user, work[i].since)'
        BY <1>2, <1>4, <1>5, <2>1 DEF ShutFor
    <2>. QED
        BY <1>2, <1>3, <1>4, <2>2 DEF WorkSound
<1>. QED
    BY <1>1, <1>2, <1>3, <1>4, <1>5, <1>6, <1>7, OthersUndisturbed

LEMMA CommitClosedKeepsInv ==
    ASSUME Inv, MarginCovers, NEW i \in Instance, CommitClosed(i),
           NEW u \in User, u = work[i].user
    PROVE  Inv'
<1>1. PICK n \in Int : n = pass[i].grace - work[i].since
    <2>1. Busy(i)
        BY DEF CommitClosed, At
    <2>. QED
        BY <2>1, OnHand, DurationFacts
<1>. DEFINE r == [closed |-> work[i].since, wait |-> n, attempts |-> 0]
<1>2. Busy(i) /\ Commits(i, r) /\ work[i].stage = "closed"
    BY <1>1 DEF CommitClosed, At
<1>3. /\ realm' = realm /\ token' = token /\ banned' = banned /\ request' = request
      /\ cache' = cache /\ pass' = pass /\ profile' = profile /\ trace' = trace
      /\ identity' = identity
    BY DEF CommitClosed, readerVars
<1>4. /\ identity \in [User -> {"open", "closed", "gone"}]
      /\ profile \in [User -> {"kept", "gone", "again"}]
      /\ work[i].since \in 0..Slack /\ UserSound(u) /\ WorkSound(i)
      /\ pass[i].grace \in (MaxLifespan + Slack)..(MaxLifespan + Margin)
    BY <1>2, OnHand
<1>5. r \in Rows /\ r # None /\ r.closed = work[i].since
    <2>1. n \in Ages /\ work[i].since \in Ages
        BY <1>1, <1>4, DurationFacts DEF Ages
    <2>2. n \in Waits /\ 0 \in 0..RetryCap
        BY <2>1, DurationFacts DEF Waits
    <2>3. r \in Rows
        BY <2>1, <2>2 DEF Rows
    <2>. QED
        BY <2>3, NoneIsNoRow
<1>6. ShutFor(u, work[i].since)
    BY <1>2, <1>4 DEF WorkSound
<1>. HIDE DEF r
<1>7. /\ row' \in [User -> Rows \cup {None}] /\ row'[u] = r
      /\ \A v \in User \ {u} : row'[v] = row[v]
      /\ work' \in [Instance -> Works \cup {None}]
      /\ \A j \in Instance \ {i} : work'[j] = work[j]
      /\ ~Busy(i)'
    BY <1>2, <1>5, CommitTyped
<1>8. UserSound(u)'
    BY <1>3, <1>4, <1>5, <1>6, <1>7 DEF UserSound, ShutFor, Traceless
<1>. QED
    BY <1>2, <1>3, <1>4, <1>7, <1>8, OthersUndisturbed

LEMMA PutDownKeepsInv ==
    ASSUME Inv, MarginCovers, NEW i \in Instance, PutDown(i),
           NEW u \in User, u = work[i].user
    PROVE  Inv'
<1>1. PICK n : n = Rest(pass[i].grace - row[u].closed)
    OBVIOUS
<1>. DEFINE r == [row[u] EXCEPT !.wait = n]
<1>2. Busy(i) /\ Commits(i, r) /\ row[u].closed # None
    BY <1>1 DEF PutDown, At, Row
<1>3. /\ realm' = realm /\ token' = token /\ banned' = banned /\ request' = request
      /\ cache' = cache /\ pass' = pass /\ profile' = profile /\ trace' = trace
      /\ identity' = identity
    BY DEF PutDown, readerVars
<1>4. /\ identity \in [User -> {"open", "closed", "gone"}]
      /\ profile \in [User -> {"kept", "gone", "again"}]
      /\ row[u] \in Rows /\ row[u] # None /\ UserSound(u)
      /\ pass[i].grace \in (MaxLifespan + Slack)..(MaxLifespan + Margin)
    BY <1>2, OnHand
<1>5. r \in Rows /\ r # None /\ r.closed = row[u].closed
    <2>1. row[u].closed \in 0..Enough
        BY <1>2, <1>4 DEF Rows, Ages
    <2>2. n \in Waits
        BY <1>1, <1>4, <2>1, DurationFacts DEF Waits, Ages, Rest
    <2>3. r \in Rows /\ r.closed = row[u].closed
        BY <1>4, <2>2 DEF Rows
    <2>. QED
        BY <2>3, NoneIsNoRow
<1>. HIDE DEF r
<1>6. /\ row' \in [User -> Rows \cup {None}] /\ row'[u] = r
      /\ \A v \in User \ {u} : row'[v] = row[v]
      /\ work' \in [Instance -> Works \cup {None}]
      /\ \A j \in Instance \ {i} : work'[j] = work[j]
      /\ ~Busy(i)'
    BY <1>2, <1>5, CommitTyped
<1>7. UserSound(u)'
    BY <1>3, <1>4, <1>5, <1>6 DEF UserSound, ShutFor, Traceless
<1>. QED
    BY <1>2, <1>3, <1>4, <1>6, <1>7, OthersUndisturbed

\* Where the rule is kept, no token is good any longer
LEMMA OutwaitedTokens ==
    ASSUME Inv, MarginCovers, NEW i \in Instance, Busy(i), NEW u \in User, u = work[i].user,
           Outwaited(i)
    PROVE  token[u] = 0 /\ identity[u] # "open"
<1>1. /\ row[u].closed # None /\ row[u].closed - work[i].since >= pass[i].grace
    BY DEF Outwaited, Row
<1>2. row[u].closed \in 0..Enough
    BY <1>1, OnHand DEF Rows, Ages
<1>3. ShutFor(u, row[u].closed)
    BY <1>1, OnHand DEF UserSound
<1>. QED
    BY <1>1, <1>2, <1>3, OnHand, DurationFacts DEF ShutFor

LEMMA EraseTraceKeepsInv ==
    ASSUME Inv, MarginCovers, NEW i \in Instance, EraseTrace(i),
           NEW u \in User, u = work[i].user
    PROVE  Inv'
<1>1. PICK s \in {"erased", "held"} : Goes(i, s)
    BY DEF EraseTrace
<1>2. Busy(i) /\ Outwaited(i)
    BY DEF EraseTrace, At
<1>3. /\ realm' = realm /\ token' = token /\ banned' = banned /\ request' = request
      /\ cache' = cache /\ pass' = pass /\ profile' = profile /\ row' = row
      /\ identity' = identity /\ trace' = trace \ {u}
    BY DEF EraseTrace, readerVars
<1>4. /\ identity \in [User -> {"open", "closed", "gone"}]
      /\ profile \in [User -> {"kept", "gone", "again"}]
      /\ row \in [User -> Rows \cup {None}] /\ row[u] # None
      /\ UserSound(u) /\ pass[i] \in Passes
    BY <1>2, OnHand
<1>5. Traceless(u)'
    BY <1>2, <1>3, OutwaitedTokens DEF Traceless
<1>6. /\ work' \in [Instance -> Works \cup {None}]
      /\ \A j \in Instance \ {i} : work'[j] = work[j]
      /\ work'[i].user = u /\ work'[i].stage = s
    BY <1>1, <1>2, StageTyped
<1>7. UserSound(u)'
    BY <1>3, <1>4, <1>5 DEF UserSound, ShutFor
<1>8. WorkSound(i)'
    BY <1>3, <1>4, <1>5, <1>6 DEF WorkSound, Traceless
<1>. QED
    BY <1>2, <1>3, <1>4, <1>6, <1>7, <1>8, OthersUndisturbed

LEMMA CommitHeldKeepsInv ==
    ASSUME Inv, MarginCovers, NEW i \in Instance, CommitHeld(i),
           NEW u \in User, u = work[i].user
    PROVE  Inv'
<1>. DEFINE r == [row[u] EXCEPT !.wait = Recheck, !.attempts = 0]
<1>1. Busy(i) /\ Commits(i, r) /\ work[i].stage = "held"
    BY DEF CommitHeld, At, Row
<1>2. /\ realm' = realm /\ token' = token /\ banned' = banned /\ request' = request
      /\ cache' = cache /\ pass' = pass /\ trace' = trace /\ identity' = identity
      /\ profile' = [profile EXCEPT ![u] = Erased(profile[u])]
    BY DEF CommitHeld, readerVars, ProfileGoes
<1>3. /\ identity \in [User -> {"open", "closed", "gone"}]
      /\ profile \in [User -> {"kept", "gone", "again"}]
      /\ row[u] \in Rows /\ row[u] # None /\ UserSound(u) /\ WorkSound(i)
    BY <1>1, OnHand
<1>4. Recheck \in Waits /\ 0 \in 0..RetryCap
    BY DurationFacts DEF Waits
<1>5. r \in Rows /\ r # None /\ r.closed = row[u].closed
    <2>1. r \in Rows /\ r.closed = row[u].closed
        BY <1>3, <1>4 DEF Rows
    <2>. QED
        BY <2>1, NoneIsNoRow
<1>. HIDE DEF r
<1>6. /\ row' \in [User -> Rows \cup {None}] /\ row'[u] = r
      /\ \A v \in User \ {u} : row'[v] = row[v]
      /\ work' \in [Instance -> Works \cup {None}]
      /\ \A j \in Instance \ {i} : work'[j] = work[j]
      /\ ~Busy(i)'
    BY <1>1, <1>5, CommitTyped
<1>7. Traceless(u)'
    BY <1>1, <1>2, <1>3 DEF WorkSound, Traceless
<1>8. /\ profile' \in [User -> {"kept", "gone", "again"}] /\ profile'[u] = "gone"
      /\ \A v \in User \ {u} : profile'[v] = profile[v]
    BY <1>2, <1>3 DEF Erased, UserSound
<1>9. UserSound(u)'
    BY <1>2, <1>3, <1>5, <1>6, <1>7, <1>8 DEF UserSound, ShutFor
<1>. QED
    BY <1>1, <1>2, <1>3, <1>6, <1>8, <1>9, OthersUndisturbed

LEMMA DeleteIdentityKeepsInv ==
    ASSUME Inv, MarginCovers, NEW i \in Instance, DeleteIdentity(i),
           NEW u \in User, u = work[i].user
    PROVE  Inv'
<1>1. Busy(i) /\ Goes(i, "deleted") /\ work[i].stage = "erased"
    BY DEF DeleteIdentity, At
<1>2. /\ realm' = realm /\ token' = token /\ banned' = banned /\ request' = request
      /\ cache' = cache /\ pass' = pass /\ profile' = profile /\ row' = row
      /\ trace' = trace /\ identity' = [identity EXCEPT ![u] = "gone"]
    BY DEF DeleteIdentity, readerVars
<1>3. /\ identity \in [User -> {"open", "closed", "gone"}]
      /\ profile \in [User -> {"kept", "gone", "again"}]
      /\ row \in [User -> Rows \cup {None}] /\ row[u] # None
      /\ UserSound(u) /\ WorkSound(i) /\ pass[i] \in Passes
    BY <1>1, OnHand
<1>4. /\ identity'[u] = "gone" /\ identity' \in [User -> {"open", "closed", "gone"}]
      /\ \A v \in User \ {u} : identity'[v] = identity[v]
    BY <1>2, <1>3
<1>5. Traceless(u)'
    BY <1>1, <1>2, <1>3, <1>4 DEF WorkSound, Traceless
<1>6. /\ work' \in [Instance -> Works \cup {None}]
      /\ \A j \in Instance \ {i} : work'[j] = work[j]
      /\ work'[i].user = u /\ work'[i].stage = "deleted"
    BY <1>1, StageTyped
<1>7. UserSound(u)'
    BY <1>2, <1>3, <1>4, <1>5 DEF UserSound, ShutFor
<1>8. WorkSound(i)'
    BY <1>2, <1>3, <1>4, <1>5, <1>6 DEF WorkSound
<1>. QED
    BY <1>1, <1>2, <1>3, <1>4, <1>6, <1>7, <1>8, OthersUndisturbed

LEMMA CommitDoneKeepsInv ==
    ASSUME Inv, MarginCovers, NEW i \in Instance, CommitDone(i),
           NEW u \in User, u = work[i].user
    PROVE  Inv'
<1>1. Busy(i) /\ Commits(i, None) /\ work[i].stage = "deleted"
    BY DEF CommitDone, At
<1>2. /\ realm' = realm /\ token' = token /\ banned' = banned /\ request' = request
      /\ cache' = cache /\ pass' = pass /\ trace' = trace /\ identity' = identity
      /\ profile' = [profile EXCEPT ![u] = Erased(profile[u])]
    BY DEF CommitDone, readerVars, ProfileGoes
<1>3. /\ identity \in [User -> {"open", "closed", "gone"}]
      /\ profile \in [User -> {"kept", "gone", "again"}]
      /\ UserSound(u) /\ WorkSound(i)
    BY <1>1, OnHand
<1>4. /\ row' \in [User -> Rows \cup {None}] /\ row'[u] = None
      /\ \A v \in User \ {u} : row'[v] = row[v]
      /\ work' \in [Instance -> Works \cup {None}]
      /\ \A j \in Instance \ {i} : work'[j] = work[j]
      /\ ~Busy(i)'
    BY <1>1, CommitTyped
<1>5. Traceless(u)' /\ identity[u] = "gone"
    BY <1>1, <1>2, <1>3 DEF WorkSound, Traceless
<1>6. /\ profile' \in [User -> {"kept", "gone", "again"}] /\ profile'[u] = "gone"
      /\ \A v \in User \ {u} : profile'[v] = profile[v]
    BY <1>2, <1>3 DEF Erased, UserSound
<1>7. UserSound(u)'
    BY <1>2, <1>3, <1>4, <1>5, <1>6 DEF UserSound, ShutFor
<1>. QED
    BY <1>1, <1>2, <1>3, <1>4, <1>6, <1>7, OthersUndisturbed

LEMMA FailKeepsInv ==
    ASSUME Inv, MarginCovers, NEW i \in Instance, Fail(i),
           NEW u \in User, u = work[i].user
    PROVE  Inv'
<1>1. PICK n : n = Lesser(row[u].attempts + 1, RetryCap)
    OBVIOUS
<1>. DEFINE r == [row[u] EXCEPT !.attempts = n, !.wait = n]
<1>2. Busy(i) /\ Commits(i, r)
    BY <1>1 DEF Fail, Outcome, At, Row
<1>3. /\ realm' = realm /\ token' = token /\ banned' = banned /\ request' = request
      /\ cache' = cache /\ pass' = pass
    BY DEF Fail, readerVars
<1>4. /\ identity \in [User -> {"open", "closed", "gone"}]
      /\ profile \in [User -> {"kept", "gone", "again"}]
      /\ row[u] \in Rows /\ row[u] # None /\ UserSound(u) /\ WorkSound(i)
    BY <1>2, OnHand
<1>5. r \in Rows /\ r # None /\ r.closed = row[u].closed
    <2>1. n \in 0..RetryCap
        <3>1. row[u].attempts \in 0..RetryCap
            BY <1>4 DEF Rows
        <3>. QED
            BY <1>1, <3>1, DurationFacts DEF Lesser
    <2>2. n \in Waits
        BY <2>1, DurationFacts DEF Waits
    <2>3. r \in Rows /\ r.closed = row[u].closed
        BY <1>4, <2>1, <2>2 DEF Rows
    <2>. QED
        BY <2>3, NoneIsNoRow
<1>. HIDE DEF r
<1>6. /\ row' \in [User -> Rows \cup {None}] /\ row'[u] = r
      /\ \A v \in User \ {u} : row'[v] = row[v]
      /\ work' \in [Instance -> Works \cup {None}]
      /\ \A j \in Instance \ {i} : work'[j] = work[j]
      /\ ~Busy(i)'
    BY <1>2, <1>5, CommitTyped
\* What the failed call may have done
<1>7. /\ identity' \in [User -> {"open", "closed", "gone"}]
      /\ profile' \in [User -> {"kept", "gone", "again"}]
      /\ trace' \subseteq trace
      /\ \A v \in User \ {u} : identity'[v] = identity[v] /\ profile'[v] = profile[v]
      /\ identity[u] # "open" => identity'[u] # "open"
      /\ \/ profile'[u] = profile[u]
         \/ profile'[u] = "gone" /\ Traceless(u)
    <2>1. CASE /\ identity' \in {identity, [identity EXCEPT ![u] = Closed(@)]}
               /\ profile' = profile /\ trace' = trace
        BY <1>4, <2>1 DEF Closed
    <2>2. CASE /\ trace' \in {trace, trace \ {u}}
               /\ profile' = profile /\ identity' = identity
        BY <1>4, <2>2
    <2>3. CASE /\ identity' \in {identity, [identity EXCEPT ![u] = "gone"]}
               /\ ProfileGoes(i) /\ trace' = trace /\ work[i].stage = "erased"
        <3>1. Traceless(u) /\ profile' = [profile EXCEPT ![u] = Erased(profile[u])]
            BY <1>4, <2>3 DEF WorkSound, ProfileGoes
        <3>. QED
            BY <1>4, <2>3, <3>1 DEF Erased, UserSound
    <2>. QED
        BY <2>1, <2>2, <2>3 DEF Fail, Outcome, At
<1>8. UserSound(u)'
    <2>1. Traceless(u) => Traceless(u)'
        BY <1>3, <1>7 DEF Traceless
    <2>. QED
        BY <1>3, <1>4, <1>5, <1>6, <1>7, <2>1 DEF UserSound, ShutFor
<1>. QED
    BY <1>2, <1>3, <1>6, <1>7, <1>8, OthersUndisturbed

\* The steps of the scheduler: accounts stay as they are, and an account taken on is on record
LEMMA SchedulerStepsKeepInv ==
    ASSUME Inv, MarginCovers, NEW i \in Instance,
           \/ StartPass(i) \/ EndPass(i) \/ \E u \in User : Claim(i, u)
           \/ Rollback(i) \/ Restart(i)
    PROVE  Inv'
<1>1. /\ realm' = realm /\ token' = token /\ banned' = banned /\ identity' = identity
      /\ profile' = profile /\ trace' = trace /\ row' = row /\ request' = request
    BY DEF StartPass, EndPass, Claim, Rollback, Restart, readerVars
<1>2. /\ cache \in [Instance -> [lifespan : Lifespans, age : 0..(CacheFor + 1)] \cup {None}]
      /\ pass \in [Instance -> Passes \cup {None}]
      /\ work \in [Instance -> Works \cup {None}]
      /\ realm \in Lifespans
    BY TypeFacts, DurationFacts DEF Inv
<1>3. cache' \in [Instance -> [lifespan : Lifespans, age : 0..(CacheFor + 1)] \cup {None}]
    <2>1. CASE StartPass(i)
        <3>1. [lifespan |-> realm, age |-> 0] \in [lifespan : Lifespans, age : 0..(CacheFor + 1)]
            BY <1>2, DurationFacts
        <3>. QED
            BY <1>2, <2>1, <3>1 DEF StartPass
    <2>2. CASE Restart(i)
        BY <1>2, <2>2 DEF Restart
    <2>3. CASE EndPass(i) \/ (\E u \in User : Claim(i, u)) \/ Rollback(i)
        BY <1>2, <2>3 DEF EndPass, Claim, Rollback
    <2>. QED
        BY <2>1, <2>2, <2>3
\* Whoever is busy afterwards has a pass to be busy in
<1>4. /\ pass' \in [Instance -> Passes \cup {None}]
      /\ \A j \in Instance : Busy(j)' => pass'[j] \in Passes
    <2>1. \A j \in Instance : Busy(j) => pass[j] \in Passes
        BY DEF Inv, WorkSound
    <2>2. CASE StartPass(i)
        <3>1. PICK c \in [lifespan : Lifespans, age : 0..(CacheFor + 1)] : cache'[i] = c
            <4>1. [lifespan |-> realm, age |-> 0]
                  \in [lifespan : Lifespans, age : 0..(CacheFor + 1)]
                BY <1>2, DurationFacts
            <4>. QED
                BY <1>2, <2>2, <4>1 DEF StartPass
        <3>. DEFINE due == {u \in User : row[u] # None /\ Due(row[u])}
                    p == [grace |-> c.lifespan + Margin, left |-> due]
        <3>2. p \in Passes
            BY DEF Passes
        <3>3. pass' = [pass EXCEPT ![i] = p] /\ work' = work
            BY <2>2, <3>1 DEF StartPass
        <3>. HIDE DEF p
        <3>. QED
            BY <1>2, <2>1, <3>2, <3>3 DEF Busy
    <2>3. CASE EndPass(i)
        BY <1>2, <2>1, <2>3 DEF EndPass, Busy
    <2>4. CASE \E u \in User : Claim(i, u)
        <3>1. PICK u \in User : Claim(i, u)
            BY <2>4
        <3>2. pass[i] \in Passes /\ pass' = [pass EXCEPT ![i].left = @ \ {u}]
            BY <1>2, <3>1 DEF Claim
        <3>3. PICK p \in Passes : p = [pass[i] EXCEPT !.left = @ \ {u}]
            BY <3>2 DEF Passes
        <3>4. pass' = [pass EXCEPT ![i] = p]
            BY <3>2, <3>3
        <3>5. \A j \in Instance \ {i} : work'[j] = work[j]
            BY <1>2, <3>1 DEF Claim
        <3>. QED
            BY <1>2, <2>1, <3>4, <3>5 DEF Busy
    <2>5. CASE Rollback(i)
        BY <1>2, <2>1, <2>5 DEF Rollback, Busy
    <2>6. CASE Restart(i)
        BY <1>2, <2>1, <2>6 DEF Restart, Busy
    <2>. QED
        BY <2>2, <2>3, <2>4, <2>5, <2>6
\* An account is taken on when it is on record and nobody else's
<1>5. /\ work' \in [Instance -> Works \cup {None}]
      /\ \A j \in Instance :
            \/ work'[j] = work[j] \/ work'[j] = None
            \/ /\ j = i /\ work'[i].stage = "step"
               /\ work'[i].user \in User /\ row[work'[i].user] # None
               /\ ~Claimed(work'[i].user)
    <2>1. CASE StartPass(i) \/ EndPass(i)
        BY <1>2, <2>1 DEF StartPass, EndPass
    <2>2. CASE Rollback(i) \/ Restart(i)
        BY <1>2, <2>2 DEF Rollback, Restart
    <2>3. CASE \E u \in User : Claim(i, u)
        <3>1. PICK u \in User : Claim(i, u)
            BY <2>3
        <3>. DEFINE w == [user |-> u, since |-> 0, stage |-> "step"]
        <3>2. w \in Works /\ w.user = u /\ w.stage = "step"
            BY DurationFacts DEF Works
        <3>3. \/ work' = work
              \/ work' = [work EXCEPT ![i] = w] /\ row[u] # None /\ ~Claimed(u)
            BY <3>1 DEF Claim
        <3>. HIDE DEF w
        <3>. QED
            BY <1>2, <3>2, <3>3
    <2>. QED
        BY <2>1, <2>2, <2>3
<1>6. TypeOK'
    <2>1. ASSUME NEW j \in Instance, NEW k \in Instance,
                 Busy(j)', Busy(k)', work'[j].user = work'[k].user
          PROVE  j = k
        BY <1>5, <2>1 DEF Inv, TypeOK, Busy, Claimed
    <2>2. /\ realm \in Lifespans /\ token \in [User -> 0..MaxLifespan]
          /\ trace \subseteq User /\ banned \subseteq User
          /\ identity \in [User -> {"open", "closed", "gone"}]
          /\ profile \in [User -> {"kept", "gone", "again"}]
          /\ row \in [User -> Rows \cup {None}]
          /\ request \in [User -> {"none", "recorded", "closed", "noted"}]
        BY DEF Inv, TypeOK
    <2>. QED
        BY <1>1, <1>3, <1>4, <1>5, <2>1, <2>2 DEF TypeOK, Busy
<1>7. ASSUME NEW v \in User PROVE UserSound(v)'
    BY <1>1, <1>7 DEF Inv, UserSound, ShutFor, Traceless
<1>8. ASSUME NEW j \in Instance, Busy(j)' PROVE WorkSound(j)'
    <2>1. CASE work'[j] = work[j]
        <3>1. Busy(j) /\ WorkSound(j)
            BY <1>8, <2>1 DEF Inv, Busy
        <3>. QED
            BY <1>1, <1>4, <1>8, <2>1, <3>1 DEF WorkSound, ShutFor, Traceless
    <2>2. CASE work'[j] # work[j]
        <3>1. work'[j].stage = "step" /\ row[work'[j].user] # None
            BY <1>5, <1>8, <2>2 DEF Busy
        <3>. QED
            BY <1>1, <1>4, <1>8, <3>1 DEF WorkSound
    <2>. QED
        BY <2>1, <2>2
<1>. QED
    BY <1>6, <1>7, <1>8 DEF Inv

\* A row grows older: what had its type keeps it, and its age grows by one at most
LEMMA AgedTyped ==
    ASSUME MarginCovers, NEW r \in Rows
    PROVE  /\ Aged(r) \in Rows /\ Aged(r) # None
           /\ Aged(r).closed # None =>
                 /\ r.closed # None /\ r.closed \in Ages
                 /\ Aged(r).closed \in Nat /\ Aged(r).closed <= r.closed + 1
<1>1. r # None
    BY NoneIsNoRow
<1>2. PICK w : w = Rest(r.wait - 1)
    OBVIOUS
<1>3. PICK c : c = IF r.closed = None THEN None ELSE Lesser(r.closed + 1, Enough)
    OBVIOUS
<1>4. Aged(r) = [r EXCEPT !.wait = w, !.closed = c]
    BY <1>1, <1>2, <1>3 DEF Aged
<1>5. w \in Waits
    <2>1. r.wait \in Waits
        BY DEF Rows
    <2>. QED
        BY <1>2, <2>1, DurationFacts DEF Waits, Ages, Rest
<1>6. r.closed \in Ages \cup {None}
    BY DEF Rows
<1>7. c \in Ages \cup {None}
    BY <1>3, <1>6, DurationFacts DEF Ages, Lesser
<1>8. c # None => r.closed # None /\ r.closed \in Ages /\ c \in Nat /\ c <= r.closed + 1
    BY <1>3, <1>6, DurationFacts DEF Ages, Lesser
<1>9. Aged(r) \in Rows /\ Aged(r).closed = c
    BY <1>4, <1>5, <1>7 DEF Rows
<1>. QED
    BY <1>8, <1>9, NoneIsNoRow

\* Time that goes by takes from the tokens what it adds to the ages
LEMMA TickKeepsInv ==
    ASSUME Inv, MarginCovers, Tick
    PROVE  Inv'
<1>1. /\ realm' = realm /\ banned' = banned /\ identity' = identity
      /\ profile' = profile /\ trace' = trace /\ request' = request /\ pass' = pass
    BY DEF Tick
<1>2. /\ token \in [User -> 0..MaxLifespan] /\ MaxLifespan \in Nat /\ Slack \in Nat
      /\ row \in [User -> Rows \cup {None}]
      /\ cache \in [Instance -> [lifespan : Lifespans, age : 0..(CacheFor + 1)] \cup {None}]
      /\ work \in [Instance -> Works \cup {None}]
    BY TypeFacts, DurationFacts DEF Inv
<1>3. /\ token' \in [User -> 0..MaxLifespan]
      /\ \A v \in User :
            /\ token[v] = 0 => token'[v] = 0
            /\ token'[v] > 0 => token'[v] = token[v] - 1
    BY <1>2 DEF Tick, Rest
<1>4. /\ row' \in [User -> Rows \cup {None}]
      /\ \A v \in User :
            /\ row[v] = None <=> row'[v] = None
            /\ row[v] # None => row[v] \in Rows /\ row'[v] = Aged(row[v])
    <2>1. \A v \in User : row'[v] = Aged(row[v])
        BY DEF Tick
    <2>2. Aged(None) = None
        BY DEF Aged
    <2>3. \A v \in User : row[v] \in Rows => row'[v] \in Rows /\ row'[v] # None
        BY <2>1, AgedTyped
    <2>4. row' = [v \in User |-> Aged(row[v])]
        BY DEF Tick
    <2>. QED
        BY <1>2, <2>1, <2>2, <2>3, <2>4, NoneIsNoRow
<1>5. cache' \in [Instance -> [lifespan : Lifespans, age : 0..(CacheFor + 1)] \cup {None}]
    <2>1. ASSUME NEW c \in [lifespan : Lifespans, age : 0..(CacheFor + 1)]
          PROVE  [c EXCEPT !.age = Lesser(@ + 1, CacheFor + 1)]
                 \in [lifespan : Lifespans, age : 0..(CacheFor + 1)]
        <3>1. PICK n \in 0..(CacheFor + 1) : n = Lesser(c.age + 1, CacheFor + 1)
            BY DurationFacts DEF Lesser
        <3>2. [c EXCEPT !.age = n] \in [lifespan : Lifespans, age : 0..(CacheFor + 1)]
            OBVIOUS
        <3>. QED
            BY <3>1, <3>2
    <2>. QED
        BY <1>2, <2>1 DEF Tick
<1>6. /\ work' \in [Instance -> Works \cup {None}]
      /\ \A j \in Instance : Busy(j)' =>
            /\ Busy(j) /\ work'[j].user = work[j].user /\ work'[j].stage = work[j].stage
            /\ work[j].since \in Nat /\ work'[j].since = work[j].since + 1
    <2>1. ASSUME NEW w \in Works, w.since < Slack
          PROVE  /\ [w EXCEPT !.since = @ + 1] \in Works
                 /\ [w EXCEPT !.since = @ + 1].user = w.user
                 /\ [w EXCEPT !.since = @ + 1].stage = w.stage
                 /\ [w EXCEPT !.since = @ + 1].since = w.since + 1
                 /\ w.since \in Nat
        <3>1. PICK n \in 0..Slack : n = w.since + 1 /\ w.since \in Nat
            BY <1>2, <2>1 DEF Works
        <3>2. [w EXCEPT !.since = n] \in Works
            BY DEF Works
        <3>. QED
            BY <3>1, <3>2 DEF Works
    <2>2. \A j \in Instance : work[j] # None => work[j] \in Works /\ work[j].since < Slack
        BY <1>2 DEF Tick, Busy
    <2>3. work' = [j \in Instance |->
                     IF work[j] # None THEN [work[j] EXCEPT !.since = @ + 1] ELSE None]
        BY DEF Tick, Busy
    <2>. QED
        BY <2>1, <2>2, <2>3 DEF Busy
<1>7. TypeOK'
    <2>1. ASSUME NEW j \in Instance, NEW k \in Instance,
                 Busy(j)', Busy(k)', work'[j].user = work'[k].user
          PROVE  j = k
        BY <1>6, <2>1 DEF Inv, TypeOK
    <2>2. /\ realm \in Lifespans /\ trace \subseteq User /\ banned \subseteq User
          /\ identity \in [User -> {"open", "closed", "gone"}]
          /\ profile \in [User -> {"kept", "gone", "again"}]
          /\ request \in [User -> {"none", "recorded", "closed", "noted"}]
          /\ pass \in [Instance -> Passes \cup {None}]
        BY DEF Inv, TypeOK
    <2>. QED
        BY <1>1, <1>3, <1>4, <1>5, <1>6, <2>1, <2>2 DEF TypeOK, Busy
<1>8. \A v \in User : Traceless(v) => Traceless(v)'
    BY <1>1, <1>3 DEF Traceless
<1>9. ASSUME NEW v \in User PROVE UserSound(v)'
    <2>1. UserSound(v)
        BY DEF Inv
    <2>2. (row[v] # None /\ row[v].closed # None => ShutFor(v, row[v].closed))'
        <3>. SUFFICES ASSUME row'[v] # None, row'[v].closed # None
                      PROVE  ShutFor(v, row[v].closed)'
            OBVIOUS
        <3>1. /\ row[v] # None /\ row[v].closed # None /\ row[v].closed \in Nat
              /\ row'[v].closed \in Nat /\ row'[v].closed <= row[v].closed + 1
            BY <1>4, AgedTyped, DurationFacts DEF Ages
        <3>2. ShutFor(v, row[v].closed)
            BY <2>1, <3>1 DEF UserSound
        <3>. QED
            BY <1>1, <1>2, <1>3, <3>1, <3>2 DEF ShutFor
    <2>. QED
        BY <1>1, <1>4, <1>8, <2>1, <2>2 DEF UserSound
<1>10. ASSUME NEW j \in Instance, Busy(j)' PROVE WorkSound(j)'
    <2>1. /\ WorkSound(j) /\ work[j].user \in User
          /\ work'[j].user = work[j].user /\ work'[j].stage = work[j].stage
          /\ work[j].since \in Nat /\ work'[j].since = work[j].since + 1
        BY <1>6, <1>10, InHand DEF Inv
    <2>2. PICK u \in User : u = work[j].user
        BY <2>1
    <2>3. work[j].stage = "closed" => ShutFor(work[j].user, work[j].since)'
        BY <1>1, <1>2, <1>3, <2>1, <2>2 DEF WorkSound, ShutFor
    <2>4. Traceless(u) => Traceless(work[j].user)'
        BY <1>8, <2>1, <2>2 DEF Traceless
    <2>. QED
        BY <1>1, <1>4, <2>1, <2>2, <2>3, <2>4 DEF WorkSound
<1>. QED
    BY <1>7, <1>9, <1>10 DEF Inv

-----------------------------------------------------------------------------
LEMMA InitInv ==
    ASSUME MarginCovers, Init
    PROVE  Inv
<1>1. realm \in Lifespans /\ MaxLifespan \in Nat
    BY DurationFacts DEF Init
<1>2. TypeOK
    BY <1>1 DEF Init, TypeOK, Busy
<1>3. ASSUME NEW u \in User PROVE UserSound(u)
    BY DEF Init, UserSound
<1>4. ASSUME NEW i \in Instance PROVE ~Busy(i)
    BY DEF Init, Busy
<1>. QED
    BY <1>2, <1>3, <1>4 DEF Inv

\* Tokens that are good, clocks and passes stay as they are when the realm gives out others
LEMMA LifespanChangeKeepsInv ==
    ASSUME Inv, MarginCovers, NEW n \in Lifespans, SetLifespan(n)
    PROVE  Inv'
<1>1. /\ realm' \in Lifespans /\ token' = token /\ identity' = identity /\ profile' = profile
      /\ trace' = trace /\ banned' = banned /\ row' = row /\ request' = request
      /\ cache' = cache /\ pass' = pass /\ work' = work
    BY DEF SetLifespan, jobVars
<1>2. TypeOK'
    BY <1>1 DEF Inv, TypeOK, Busy
<1>3. ASSUME NEW u \in User PROVE UserSound(u)'
    BY <1>1, <1>3 DEF Inv, UserSound, ShutFor, Traceless
<1>4. ASSUME NEW i \in Instance, Busy(i)' PROVE WorkSound(i)'
    <2>1. WorkSound(i)
        BY <1>1, <1>4 DEF Inv, Busy
    <2>. QED
        BY <1>1, <2>1 DEF WorkSound, ShutFor, Traceless
<1>. QED
    BY <1>2, <1>3, <1>4 DEF Inv

LEMMA StepInv ==
    ASSUME Inv, MarginCovers, [Next]_vars
    PROVE  Inv'
<1>1. ASSUME NEW u \in User, TokenNext(u) PROVE Inv'
    BY <1>1, TokenStepsKeepInv
<1>2. ASSUME NEW u \in User, RequestNext(u) PROVE Inv'
    BY <1>2, RequestStepsKeepInv
<1>3. ASSUME NEW n \in Lifespans, SetLifespan(n) PROVE Inv'
    BY <1>3, LifespanChangeKeepsInv
<1>4. ASSUME NEW i \in Instance, JobNext(i) PROVE Inv'
    <2>1. CASE \/ StartPass(i) \/ EndPass(i) \/ \E u \in User : Claim(i, u)
               \/ Rollback(i) \/ Restart(i)
        BY <2>1, SchedulerStepsKeepInv
    <2>2. CASE Advance(i)
        <3>1. Busy(i)
            BY <2>2 DEF Advance, CloseIdentity, CommitClosed, PutDown, EraseTrace, CommitHeld,
                        DeleteIdentity, CommitDone, Fail, Outcome, At
        <3>2. PICK u \in User : u = work[i].user
            BY <3>1, InHand
        <3>. QED
            BY <2>2, <3>2, CloseIdentityKeepsInv, CommitClosedKeepsInv, PutDownKeepsInv,
               EraseTraceKeepsInv, CommitHeldKeepsInv, DeleteIdentityKeepsInv,
               CommitDoneKeepsInv, FailKeepsInv DEF Advance
    <2>. QED
        BY <1>4, <2>1, <2>2 DEF JobNext
<1>5. CASE UNCHANGED vars
    <2>1. /\ realm' = realm /\ token' = token /\ identity' = identity /\ profile' = profile
          /\ trace' = trace /\ banned' = banned /\ row' = row /\ request' = request
          /\ cache' = cache /\ pass' = pass /\ work' = work
        BY <1>5 DEF vars
    <2>2. TypeOK'
        BY <2>1 DEF Inv, TypeOK, Busy
    <2>3. ASSUME NEW u \in User PROVE UserSound(u)'
        BY <2>1, <2>3 DEF Inv, UserSound, ShutFor, Traceless
    <2>4. ASSUME NEW i \in Instance, Busy(i)' PROVE WorkSound(i)'
        <3>1. WorkSound(i)
            BY <2>1, <2>4 DEF Inv, Busy
        <3>. QED
            BY <2>1, <3>1 DEF WorkSound, ShutFor, Traceless
    <2>. QED
        BY <2>2, <2>3, <2>4 DEF Inv
<1>. QED
    BY <1>1, <1>2, <1>3, <1>4, <1>5, TickKeepsInv DEF Next, QuietNext

\* As long as the margin covers the lifespans, the invariant holds
LEMMA Invariance ==
    ASSUME MarginCovers
    PROVE  Spec => []Inv
<1>1. Init => Inv
    BY InitInv
<1>2. Inv /\ [Next]_vars => Inv'
    BY StepInv
<1>. QED
    BY <1>1, <1>2, PTL DEF Spec

\* However the realm's lifespan is changed, within what the margin covers, no token is good when
\* the profile goes, so none brings the profile back: the wait of AccountErasure.advance is long
\* enough, clock drift and a lifespan read long ago included.
THEOREM DeletionIsFinal ==
    ASSUME MarginCovers
    PROVE  Spec => []GoneStaysGone
<1>1. Inv => GoneStaysGone
    BY DEF Inv, UserSound, GoneStaysGone
<1>. QED
    BY <1>1, Invariance, PTL

\* The trace has gone before the profile does, and nobody can leave another behind it, however
\* the calls of AccountErasure.step fail and its transactions are rolled back.
THEOREM TraceIsErased ==
    ASSUME MarginCovers
    PROVE  Spec => []TraceGoesFirst
<1>1. Inv => TraceGoesFirst
    BY DEF Inv, UserSound, Traceless, TraceGoesFirst
<1>. QED
    BY <1>1, Invariance, PTL

\* An account that has been shut is on record until the last of it has gone, so no crash
\* between the steps of a request or a deletion leaves one half deleted for good.
THEOREM NoAccountIsForgotten ==
    ASSUME MarginCovers
    PROVE  Spec => []NothingIsForgotten
<1>1. Inv => NothingIsForgotten
    BY DEF Inv, UserSound, Traceless, NothingIsForgotten
<1>. QED
    BY <1>1, Invariance, PTL

-----------------------------------------------------------------------------
\* A step of the job or the request moves one account along, or wipes its trace, or shows nothing
Onward(u) ==
    \/ StageOf(u) = "open" /\ StageOf(u)' = "shut"
    \/ StageOf(u) = "shut" /\ StageOf(u)' = "emptied" /\ Traceless(u)
    \/ StageOf(u) \in {"shut", "emptied"} /\ StageOf(u)' = "gone" /\ Traceless(u)

LEMMA StageStep ==
    ASSUME NEW u \in User, token' = token, trace' = trace,
           \A v \in User \ {u} : StageOf(v)' = StageOf(v),
           StageOf(u)' = StageOf(u) \/ Onward(u)
    PROVE  [Promise!Next]_(Promise!promised)
<1>. DEFINE stages == [v \in User |-> StageOf(v)]
            holders == {v \in User : token[v] > 0}
<1>1. holders' = holders /\ stages \in [User -> {"open", "shut", "emptied", "gone"}]
    BY DEF StageOf
<1>2. stages' = [stages EXCEPT ![u] = StageOf(u)']
    <2>1. stages' = [v \in User |-> StageOf(v)']
        OBVIOUS
    <2>2. \A v \in User : [stages EXCEPT ![u] = StageOf(u)'][v] = StageOf(v)'
        OBVIOUS
    <2>. QED
        BY <2>1, <2>2
<1>3. CASE StageOf(u)' = StageOf(u)
    <2>1. stages' = stages
        BY <1>3, SMT
    <2>. QED
        BY <1>1, <2>1 DEF Promise!promised
<1>4. CASE Onward(u)
    <2>1. Traceless(u) => u \notin trace /\ u \notin holders
        BY DEF Traceless
    <2>2. stages[u] = StageOf(u)
        OBVIOUS
    <2>3. Promise!Shut(u) \/ Promise!Empty(u) \/ Promise!Finish(u)
        BY <1>1, <1>2, <1>4, <2>1, <2>2 DEF Onward, Promise!Shut, Promise!Empty, Promise!Finish
    <2>. QED
        BY <2>3 DEF Promise!Next
<1>. QED
    BY <1>3, <1>4

LEMMA TraceStep ==
    ASSUME NEW u \in User, token' = token, identity' = identity, profile' = profile,
           trace' = trace \/ trace' = trace \ {u}
    PROVE  [Promise!Next]_(Promise!promised)
<1>1. \A v \in User : StageOf(v)' = StageOf(v)
    BY DEF StageOf
<1>2. [v \in User |-> StageOf(v)]' = [v \in User |-> StageOf(v)]
    BY <1>1, SMT
<1>3. Promise!Wipe(u) \/ UNCHANGED Promise!promised
    BY <1>2 DEF Promise!Wipe, Promise!promised
<1>. QED
    BY <1>3 DEF Promise!Next

LEMMA TokenStepsKeepPromise ==
    ASSUME Inv, MarginCovers, NEW u \in User, TokenNext(u)
    PROVE  [Promise!Next]_(Promise!promised)
<1>1. /\ token \in [User -> 0..MaxLifespan] /\ MaxLifespan \in Nat /\ realm \in 0..MaxLifespan
      /\ profile \in [User -> {"kept", "gone", "again"}]
    BY TypeFacts, DurationFacts DEF Inv
<1>2. CASE Login(u)
    <2>1. [v \in User |-> StageOf(v)]' = [v \in User |-> StageOf(v)]
        BY <1>2 DEF Login, StageOf
    <2>2. {v \in User : token[v] > 0}' = {v \in User : token[v] > 0} \cup {u}
        BY <1>1, <1>2 DEF Login
    <2>3. Promise!Login(u)
        BY <1>2, <2>1, <2>2 DEF Login, StageOf, Promise!Login
    <2>. QED
        BY <2>3 DEF Promise!Next
<1>3. CASE Comment(u)
    <2>1. profile[u] = "kept"
        BY <1>1, <1>3 DEF Comment, Inv, UserSound, Traceless
    <2>2. profile' = profile
        BY <1>1, <1>3, <2>1 DEF Comment, Resolved
    <2>3. [v \in User |-> StageOf(v)]' = [v \in User |-> StageOf(v)]
        BY <1>3, <2>2 DEF Comment, StageOf
    <2>4. {v \in User : token[v] > 0}' = {v \in User : token[v] > 0}
        BY <1>3 DEF Comment, readerVars
    <2>5. Promise!Post(u)
        BY <1>1, <1>3, <2>3, <2>4 DEF Comment, Promise!Post
    <2>. QED
        BY <2>5 DEF Promise!Next
<1>. QED
    BY <1>2, <1>3 DEF TokenNext

LEMMA RequestStepsKeepPromise ==
    ASSUME Inv, MarginCovers, NEW u \in User, RequestNext(u)
    PROVE  [Promise!Next]_(Promise!promised)
<1>1. identity \in [User -> {"open", "closed", "gone"}]
    BY TypeFacts DEF Inv
<1>2. CASE CloseNow(u)
    <2>1. token' = token /\ trace' = trace /\ profile' = profile
        BY <1>2 DEF CloseNow, readerVars
    <2>2. identity' = identity \/ identity' = [identity EXCEPT ![u] = Closed(@)]
        BY <1>2 DEF CloseNow
    <2>3. \A v \in User \ {u} : StageOf(v)' = StageOf(v)
        BY <1>1, <2>1, <2>2 DEF StageOf
    <2>4. profile[u] = "gone" => identity[u] # "open"
        BY DEF Inv, UserSound, Traceless
    <2>5. StageOf(u)' = StageOf(u) \/ Onward(u)
        BY <1>1, <2>1, <2>2, <2>4 DEF StageOf, Onward, Closed
    <2>. QED
        BY <2>1, <2>3, <2>5, StageStep
<1>3. CASE BanOrLift(u) \/ Ask(u) \/ MarkClosed(u) \/ StartTrace(u) \/ RequestLost(u)
    <2>1. /\ token' = token /\ identity' = identity /\ profile' = profile
          /\ trace' = trace \/ trace' = trace \ {u}
        BY <1>3 DEF BanOrLift, Ask, MarkClosed, StartTrace, RequestLost, readerVars
    <2>. QED
        BY <2>1, TraceStep
<1>. QED
    BY <1>2, <1>3 DEF RequestNext

LEMMA JobStepsKeepPromise ==
    ASSUME Inv, MarginCovers, NEW i \in Instance, JobNext(i)
    PROVE  [Promise!Next]_(Promise!promised)
<1>1. /\ identity \in [User -> {"open", "closed", "gone"}]
      /\ profile \in [User -> {"kept", "gone", "again"}]
    BY TypeFacts DEF Inv
<1>2. CASE StartPass(i) \/ EndPass(i) \/ (\E u \in User : Claim(i, u)) \/ Rollback(i) \/ Restart(i)
    <2>1. UNCHANGED <<token, identity, profile, trace>>
        BY <1>2 DEF StartPass, EndPass, Claim, Rollback, Restart, readerVars
    <2>2. [v \in User |-> StageOf(v)]' = [v \in User |-> StageOf(v)]
        BY <2>1 DEF StageOf
    <2>. QED
        BY <2>1, <2>2 DEF Promise!promised
<1>3. CASE Advance(i)
    <2>1. Busy(i)
        BY <1>3 DEF Advance, CloseIdentity, CommitClosed, PutDown, EraseTrace, CommitHeld,
                    DeleteIdentity, CommitDone, Fail, Outcome, At
    <2>2. PICK u \in User : u = work[i].user
        BY <2>1, InHand
    <2>3. WorkSound(i) /\ UserSound(u) /\ profile[u] \in {"kept", "gone"}
        BY <1>1, <2>1, <2>2 DEF Inv, UserSound
    <2>4. CASE EraseTrace(i) \/ CommitClosed(i) \/ PutDown(i)
        <3>1. /\ token' = token /\ identity' = identity /\ profile' = profile
              /\ trace' = trace \/ trace' = trace \ {u}
            BY <2>2, <2>4 DEF EraseTrace, CommitClosed, PutDown, readerVars
        <3>. QED
            BY <3>1, TraceStep
    <2>5. CASE Fail(i) /\ At(i, "step") /\ trace' # trace
        <3>1. /\ token' = token /\ identity' = identity /\ profile' = profile
              /\ trace' = trace \/ trace' = trace \ {u}
            BY <2>2, <2>5 DEF Fail, Outcome, At, readerVars
        <3>. QED
            BY <3>1, TraceStep
    <2>6. CASE \/ CloseIdentity(i) \/ CommitHeld(i) \/ DeleteIdentity(i) \/ CommitDone(i)
               \/ Fail(i) /\ trace' = trace
        <3>1. token' = token /\ trace' = trace
            BY <2>6 DEF CloseIdentity, CommitHeld, DeleteIdentity, CommitDone, Fail, readerVars
        <3>2. /\ identity' = identity \/ identity' = [identity EXCEPT ![u] = Closed(@)]
                    \/ (Traceless(u) /\ identity' = [identity EXCEPT ![u] = "gone"])
              /\ profile' = profile \/ (Traceless(u) /\ profile' = [profile EXCEPT ![u] = Erased(@)])
            <4>1. CASE CloseIdentity(i) \/ CommitHeld(i) \/ DeleteIdentity(i) \/ CommitDone(i)
                BY <2>2, <2>3, <4>1 DEF CloseIdentity, CommitHeld, DeleteIdentity, CommitDone,
                                        ProfileGoes, At, WorkSound
            <4>2. CASE Fail(i)
                BY <2>2, <2>3, <4>2 DEF Fail, Outcome, ProfileGoes, At, WorkSound
            <4>. QED
                BY <2>6, <4>1, <4>2
        <3>3. \A v \in User \ {u} : StageOf(v)' = StageOf(v)
            BY <1>1, <3>2 DEF StageOf
        <3>4. profile[u] = "gone" => identity[u] # "open" /\ Traceless(u)
            BY <2>3 DEF UserSound, Traceless
        <3>5. StageOf(u)' = StageOf(u) \/ Onward(u)
            <4>1. identity[u]' \in {identity[u], Closed(identity[u])} \/ (Traceless(u) /\ identity[u]' = "gone")
                BY <1>1, <3>2
            <4>2. profile[u]' = profile[u] \/ (Traceless(u) /\ profile[u]' = Erased(profile[u]))
                BY <1>1, <3>2
            <4>3. identity[u] \in {"open", "closed", "gone"} /\ (Traceless(u) => identity[u] # "open")
                BY <1>1 DEF Traceless
            <4>. QED
                BY <2>3, <3>4, <4>1, <4>2, <4>3 DEF StageOf, Onward, Closed, Erased
        <3>. QED
            BY <3>1, <3>3, <3>5, StageStep
    <2>7. Fail(i) /\ trace' # trace => At(i, "step")
        BY DEF Fail, Outcome
    <2>. QED
        BY <1>3, <2>4, <2>5, <2>6, <2>7 DEF Advance
<1>. QED
    BY <1>2, <1>3 DEF JobNext

LEMMA TickKeepsPromise ==
    ASSUME Inv, MarginCovers, Tick
    PROVE  [Promise!Next]_(Promise!promised)
<1>1. token \in [User -> 0..MaxLifespan] /\ MaxLifespan \in Nat
    BY TypeFacts, DurationFacts DEF Inv
<1>2. [v \in User |-> StageOf(v)]' = [v \in User |-> StageOf(v)] /\ trace' = trace
    BY DEF Tick, StageOf
<1>3. {v \in User : token[v] > 0}' \subseteq {v \in User : token[v] > 0}
    BY <1>1 DEF Tick, Rest
<1>4. Promise!TokensRunOut
    BY <1>2, <1>3 DEF Promise!TokensRunOut
<1>. QED
    BY <1>4 DEF Promise!Next

\* The request, the job and the failures of AccountErasure implement the promise that
\* AccountPromise makes to the reader, for any number of readers and instances: every step of
\* theirs is one of its steps or shows nothing.  This whatever the realm is set to between, as
\* long as the margin covers the lifespans.
THEOREM PromiseIsKept ==
    ASSUME MarginCovers
    PROVE  Spec => KeepsItsPromise
<1>1. Init => Promise!Init
    BY DEF Init, Promise!Init, StageOf
<1>2. Inv /\ [Next]_vars => [Promise!Next]_(Promise!promised)
    <2>1. ASSUME Inv, Next PROVE [Promise!Next]_(Promise!promised)
        <3>1. ASSUME NEW n \in Lifespans, SetLifespan(n) PROVE UNCHANGED Promise!promised
            BY <3>1 DEF SetLifespan, Promise!promised, StageOf
        <3>. QED
            BY <2>1, <3>1, TokenStepsKeepPromise, RequestStepsKeepPromise, JobStepsKeepPromise,
               TickKeepsPromise DEF Next, QuietNext
    <2>2. ASSUME UNCHANGED vars PROVE UNCHANGED Promise!promised
        <3>1. UNCHANGED <<token, identity, profile, trace>>
            BY <2>2 DEF vars
        <3>. QED
            BY <3>1 DEF Promise!promised, StageOf
    <2>. QED
        BY <2>1, <2>2
<1>. QED
    BY <1>1, <1>2, Invariance, PTL DEF Spec, KeepsItsPromise, Promise!Spec

-----------------------------------------------------------------------------
(***************************************************************************)
(* The clock of an account needs no margin: whatever the realm is set to,  *)
(* the row of an account that is being shut by the job has no time in it   *)
(* yet, since nobody else writes a row that is claimed.                    *)
(***************************************************************************)
\* Types, and what an instance has in hand: a row, and when it has just shut the identity one that
\* has no time in it yet
ClockInv ==
    /\ TypeOK
    /\ \A i \in Instance : Busy(i) =>
        /\ pass[i] \in Passes /\ row[work[i].user] # None
        /\ work[i].stage = "closed" => row[work[i].user].closed = None

\* What a step makes of the time in a row
KeepsTime(u) ==
    row[u] # None /\ row'[u] # None /\ row[u].closed # None =>
        row'[u].closed # None /\ row'[u].closed >= row[u].closed

\* What an instance that advances an account has in hand, whatever the lifespans
LEMMA InHandAnyway ==
    ASSUME ClockInv, HasLongest, NEW i \in Instance, Busy(i), NEW u, u = work[i].user
    PROVE  /\ work[i] \in Works /\ u \in User /\ work[i].since \in 0..Slack
           /\ row[u] \in Rows /\ row[u] # None
           /\ pass[i].grace \in Nat /\ pass[i].grace >= Margin
           /\ pass[i].grace <= MaxLifespan + Margin
           /\ work[i].stage = "closed" => row[u].closed = None
<1>1. work[i] \in Works
    BY DEF ClockInv, TypeOK, Busy
<1>2. u \in User /\ work[i].since \in 0..Slack
    BY <1>1 DEF Works
<1>3. row[u] \in Rows \cup {None} /\ row[u] # None
    BY <1>2 DEF ClockInv, TypeOK
<1>4. PICK n \in Lifespans : pass[i].grace = n + Margin
    BY DEF ClockInv, Passes
<1>5. n \in Nat /\ n <= MaxLifespan
    BY BoundFacts
<1>. QED
    BY <1>1, <1>2, <1>3, <1>4, <1>5, BoundFacts DEF ClockInv

\* A row that is put down keeps its type as long as what is put into it is a number
LEMMA TimesTyped ==
    ASSUME HasLongest
    PROVE  /\ 0..(MaxLifespan + Margin) \subseteq Waits /\ 0..RetryCap \subseteq Waits
           /\ Recheck \in Waits /\ 0..Slack \subseteq Ages /\ 0 \in Ages /\ 0 \in Waits
           /\ Ages = 0..Enough
<1>1. Ages = 0..Enough
    BY DEF Ages
<1>. QED
    BY <1>1, BoundFacts DEF Waits

\* The readers and their requests: a row is made, or gets its first time when nobody has it
LEMMA ReaderStepsKeepTime ==
    ASSUME ClockInv, HasLongest,
           \/ \E u \in User : TokenNext(u) \/ RequestNext(u)
           \/ \E n \in Lifespans : SetLifespan(n)
    PROVE  ClockInv' /\ \A u \in User : KeepsTime(u)
<1>1. /\ cache' = cache /\ pass' = pass /\ work' = work
    BY DEF TokenNext, Login, Comment, SetLifespan, RequestNext, BanOrLift, Ask, CloseNow,
           MarkClosed, StartTrace, RequestLost, jobVars, readerVars
<1>2. /\ realm \in Lifespans /\ token \in [User -> 0..MaxLifespan]
      /\ identity \in [User -> {"open", "closed", "gone"}]
      /\ profile \in [User -> {"kept", "gone", "again"}]
      /\ trace \subseteq User /\ banned \subseteq User
      /\ row \in [User -> Rows \cup {None}]
      /\ request \in [User -> {"none", "recorded", "closed", "noted"}]
    BY DEF ClockInv, TypeOK
<1>3. /\ row' \in [User -> Rows \cup {None}]
      /\ \A v \in User :
            \/ row'[v] = row[v]
            \/ row[v] = None
            \/ row[v] # None /\ row[v].closed = None /\ row'[v] # None /\ ~Claimed(v)
    <2>1. ASSUME NEW u \in User, Ask(u)
          PROVE  /\ row' \in [User -> Rows \cup {None}]
                 /\ \A v \in User : row'[v] = row[v] \/ row[v] = None
        <3>1. NewRow \in Rows
            BY TimesTyped, BoundFacts DEF NewRow, Rows
        <3>. QED
            BY <1>2, <2>1, <3>1 DEF Ask
    <2>2. ASSUME NEW u \in User, MarkClosed(u)
          PROVE  /\ row' \in [User -> Rows \cup {None}]
                 /\ \A v \in User :
                      \/ row'[v] = row[v]
                      \/ row[v] # None /\ row[v].closed = None /\ row'[v] # None /\ ~Claimed(v)
        <3>1. CASE row[u] # None /\ row[u].closed = None
            <4>1. PICK r : r = [row[u] EXCEPT !.closed = 0]
                OBVIOUS
            <4>2. row[u] \in Rows
                BY <1>2, <3>1
            <4>3. r \in Rows /\ r # None
                BY <4>1, <4>2, TimesTyped, NoneIsNoRow DEF Rows
            <4>4. row' = [row EXCEPT ![u] = r] /\ ~Claimed(u)
                BY <2>2, <3>1, <4>1 DEF MarkClosed
            <4>. QED
                BY <1>2, <3>1, <4>3, <4>4
        <3>2. CASE ~(row[u] # None /\ row[u].closed = None)
            <4>1. row' = [row EXCEPT ![u] = row[u]]
                BY <2>2, <3>2 DEF MarkClosed
            <4>. QED
                BY <1>2, <4>1
        <3>. QED
            BY <3>1, <3>2
    <2>3. CASE row' = row
        BY <1>2, <2>3
    <2>. QED
        BY <2>1, <2>2, <2>3 DEF TokenNext, Login, Comment, SetLifespan, RequestNext, BanOrLift,
           CloseNow, StartTrace, RequestLost
<1>4. /\ realm' \in Lifespans /\ token' \in [User -> 0..MaxLifespan]
      /\ identity' \in [User -> {"open", "closed", "gone"}]
      /\ profile' \in [User -> {"kept", "gone", "again"}]
      /\ trace' \subseteq User /\ banned' \subseteq User
      /\ request' \in [User -> {"none", "recorded", "closed", "noted"}]
    <2>1. ASSUME NEW u \in User, TokenNext(u) PROVE <1>4!:
        <3>1. realm \in 0..MaxLifespan
            BY <1>2, BoundFacts
        <3>2. CASE Login(u)
            BY <1>2, <3>1, <3>2 DEF Login
        <3>3. CASE Comment(u)
            BY <1>2, <3>3 DEF Comment, readerVars, Resolved
        <3>. QED
            BY <2>1, <3>2, <3>3 DEF TokenNext
    <2>2. ASSUME NEW u \in User, RequestNext(u) PROVE <1>4!:
        <3>1. CASE BanOrLift(u)
            BY <1>2, <3>1 DEF BanOrLift
        <3>2. CASE CloseNow(u)
            BY <1>2, <3>2 DEF CloseNow, readerVars, Closed
        <3>3. CASE Ask(u) \/ MarkClosed(u) \/ StartTrace(u) \/ RequestLost(u)
            BY <1>2, <3>3 DEF Ask, MarkClosed, StartTrace, RequestLost, readerVars
        <3>. QED
            BY <2>2, <3>1, <3>2, <3>3 DEF RequestNext
    <2>3. ASSUME NEW n \in Lifespans, SetLifespan(n) PROVE <1>4!:
        BY <1>2, <2>3 DEF SetLifespan
    <2>. QED
        BY <2>1, <2>2, <2>3
<1>5. TypeOK'
    BY <1>1, <1>3, <1>4 DEF ClockInv, TypeOK, Busy
<1>6. ASSUME NEW i \in Instance, Busy(i)'
      PROVE  /\ pass'[i] \in Passes /\ row'[work'[i].user] # None
             /\ work'[i].stage = "closed" => row'[work'[i].user].closed = None
    <2>1. PICK u : u = work[i].user
        OBVIOUS
    <2>2. Busy(i)
        BY <1>1, <1>6 DEF Busy
    <2>3. u \in User /\ row[u] # None /\ (work[i].stage = "closed" => row[u].closed = None)
          /\ pass[i] \in Passes
        BY <2>1, <2>2, InHandAnyway DEF ClockInv
    <2>4. row'[u] = row[u]
        BY <1>3, <2>1, <2>2, <2>3 DEF Claimed
    <2>. QED
        BY <1>1, <2>1, <2>3, <2>4
<1>7. ASSUME NEW u \in User PROVE KeepsTime(u)
    <2>1. row[u] # None /\ row[u].closed # None => row[u].closed \in Int
        <3>. SUFFICES ASSUME row[u] # None, row[u].closed # None PROVE row[u].closed \in Int
            OBVIOUS
        <3>1. row[u] \in Rows
            BY <1>2
        <3>2. row[u].closed \in Ages
            BY <3>1 DEF Rows
        <3>. QED
            BY <3>2, TimesTyped, BoundFacts
    <2>. QED
        BY <1>3, <2>1 DEF KeepsTime
<1>. QED
    BY <1>5, <1>6, <1>7 DEF ClockInv

\* What a step of the job on one account has to show
LEMMA JobStepKeepsTime ==
    ASSUME ClockInv, HasLongest, NEW i \in Instance, Busy(i), NEW u \in User, u = work[i].user,
           realm' = realm, token' = token, banned' = banned, request' = request,
           cache' = cache, pass' = pass,
           identity' \in [User -> {"open", "closed", "gone"}],
           profile' \in [User -> {"kept", "gone", "again"}],
           trace' \subseteq trace,
           NEW r \in Rows \cup {None}, row' = [row EXCEPT ![u] = r],
           r # None /\ row[u].closed # None => r.closed = row[u].closed,
           NEW w \in Works \cup {None}, work' = [work EXCEPT ![i] = w],
           w # None => w.user = u /\ r = row[u] /\ (w.stage = "closed" => r.closed = None)
    PROVE  ClockInv' /\ \A v \in User : KeepsTime(v)
<1>1. /\ realm \in Lifespans /\ token \in [User -> 0..MaxLifespan]
      /\ trace \subseteq User /\ banned \subseteq User
      /\ row \in [User -> Rows \cup {None}]
      /\ request \in [User -> {"none", "recorded", "closed", "noted"}]
      /\ cache \in [Instance -> [lifespan : Lifespans, age : 0..(CacheFor + 1)] \cup {None}]
      /\ pass \in [Instance -> Passes \cup {None}]
      /\ work \in [Instance -> Works \cup {None}]
    BY DEF ClockInv, TypeOK
<1>2. /\ row' \in [User -> Rows \cup {None}] /\ row'[u] = r
      /\ \A v \in User \ {u} : row'[v] = row[v]
      /\ work' \in [Instance -> Works \cup {None}] /\ work'[i] = w
      /\ \A j \in Instance \ {i} : work'[j] = work[j]
    BY <1>1
<1>3. \A j \in Instance \ {i} : Busy(j) => work[j].user \in User \ {u}
    <2>. SUFFICES ASSUME NEW j \in Instance \ {i}, Busy(j) PROVE work[j].user \in User \ {u}
        OBVIOUS
    <2>1. work[j].user \in User
        BY InHandAnyway
    <2>2. work[j].user # u
        BY DEF ClockInv, TypeOK
    <2>. QED
        BY <2>1, <2>2
<1>4. TypeOK'
    <2>1. ASSUME NEW j \in Instance, NEW k \in Instance,
                 Busy(j)', Busy(k)', work'[j].user = work'[k].user
          PROVE  j = k
        <3>1. \A l \in Instance : Busy(l)' => Busy(l) /\ work'[l].user = work[l].user
            BY <1>2 DEF Busy
        <3>. QED
            BY <2>1, <3>1 DEF ClockInv, TypeOK
    <2>. QED
        BY <1>1, <1>2, <2>1 DEF TypeOK
<1>5. ASSUME NEW j \in Instance, Busy(j)'
      PROVE  /\ pass'[j] \in Passes /\ row'[work'[j].user] # None
             /\ work'[j].stage = "closed" => row'[work'[j].user].closed = None
    <2>1. CASE j = i
        <3>1. w # None /\ w.user = u /\ r = row[u] /\ (w.stage = "closed" => r.closed = None)
            BY <1>2, <1>5, <2>1 DEF Busy
        <3>2. row[u] # None /\ pass[i] \in Passes
            BY DEF ClockInv
        <3>. QED
            BY <1>2, <2>1, <3>1, <3>2
    <2>2. CASE j # i
        <3>1. Busy(j) /\ work'[j] = work[j]
            BY <1>2, <1>5, <2>2 DEF Busy
        <3>2. PICK v \in User : v = work[j].user /\ v # u
            BY <1>3, <2>2, <3>1
        <3>3. row'[v] = row[v]
            BY <1>2, <3>2
        <3>4. /\ pass[j] \in Passes /\ row[v] # None
              /\ work[j].stage = "closed" => row[v].closed = None
            BY <3>1, <3>2 DEF ClockInv
        <3>. QED
            BY <3>1, <3>2, <3>3, <3>4
    <2>. QED
        BY <2>1, <2>2
<1>6. ASSUME NEW v \in User PROVE KeepsTime(v)
    <2>. SUFFICES ASSUME row[v] # None, row'[v] # None, row[v].closed # None
                  PROVE  row'[v].closed # None /\ row'[v].closed >= row[v].closed
        BY DEF KeepsTime
    <2>1. row[v] \in Rows
        BY <1>1
    <2>2. row[v].closed \in Ages
        BY <2>1 DEF Rows
    <2>3. row[v].closed \in Int
        BY <2>2, TimesTyped, BoundFacts
    <2>4. row'[v].closed = row[v].closed
        <3>1. CASE v = u
            BY <1>2, <3>1
        <3>2. CASE v # u
            BY <1>2, <3>2
        <3>. QED
            BY <3>1, <3>2
    <2>. QED
        BY <2>3, <2>4
<1>. QED
    BY <1>4, <1>5, <1>6 DEF ClockInv

\* The job's steps on an account write a time only where there is none
LEMMA AdvanceKeepsTime ==
    ASSUME ClockInv, HasLongest, NEW i \in Instance, Advance(i)
    PROVE  ClockInv' /\ \A v \in User : KeepsTime(v)
<1>1. Busy(i)
    BY DEF Advance, CloseIdentity, CommitClosed, PutDown, EraseTrace, CommitHeld, DeleteIdentity,
           CommitDone, Fail, Outcome, At
<1>2. PICK u : u = work[i].user
    OBVIOUS
<1>3. /\ work[i] \in Works /\ u \in User /\ work[i].since \in 0..Slack
      /\ row[u] \in Rows /\ row[u] # None
      /\ pass[i].grace \in Nat /\ pass[i].grace >= Margin
      /\ pass[i].grace <= MaxLifespan + Margin
      /\ work[i].stage = "closed" => row[u].closed = None
    BY <1>1, <1>2, InHandAnyway
<1>4. /\ identity \in [User -> {"open", "closed", "gone"}]
      /\ profile \in [User -> {"kept", "gone", "again"}]
      /\ row \in [User -> Rows \cup {None}]
      /\ work \in [Instance -> Works \cup {None}]
    BY DEF ClockInv, TypeOK
<1>5. /\ realm' = realm /\ token' = token /\ banned' = banned /\ request' = request
      /\ cache' = cache /\ pass' = pass
    BY DEF Advance, CloseIdentity, CommitClosed, PutDown, EraseTrace, CommitHeld, DeleteIdentity,
           CommitDone, Fail, readerVars
<1>6. /\ identity' \in [User -> {"open", "closed", "gone"}]
      /\ profile' \in [User -> {"kept", "gone", "again"}]
      /\ trace' \subseteq trace
    <2>1. [identity EXCEPT ![u] = Closed(@)] \in [User -> {"open", "closed", "gone"}]
        BY <1>4 DEF Closed
    <2>2. [identity EXCEPT ![u] = "gone"] \in [User -> {"open", "closed", "gone"}]
        BY <1>4
    <2>3. [profile EXCEPT ![u] = Erased(@)] \in [User -> {"kept", "gone", "again"}]
        BY <1>4 DEF Erased
    <2>. QED
        BY <1>2, <1>4, <2>1, <2>2, <2>3 DEF Advance, CloseIdentity, CommitClosed, PutDown, EraseTrace,
           CommitHeld, DeleteIdentity, CommitDone, Fail, Outcome, ProfileGoes
\* Either the work goes to another stage, or a row is committed
<1>7. ASSUME NEW s \in {"closed", "erased", "held", "deleted"}, Goes(i, s), row' = row,
             s = "closed" => row[u].closed = None
      PROVE  ClockInv' /\ \A v \in User : KeepsTime(v)
    <2>1. PICK w : w = [work[i] EXCEPT !.stage = s]
        OBVIOUS
    <2>2. w \in Works /\ w.user = u /\ w.stage = s
        BY <1>2, <1>3, <2>1 DEF Works
    <2>3. work' = [work EXCEPT ![i] = w]
        BY <1>7, <2>1 DEF Goes
    <2>4. row' = [row EXCEPT ![u] = row[u]]
        BY <1>3, <1>4, <1>7
    <2>. QED
        BY <1>1, <1>2, <1>3, <1>5, <1>6, <1>7, <2>2, <2>3, <2>4, JobStepKeepsTime
<1>8. ASSUME NEW r \in Rows \cup {None}, Commits(i, r),
             r # None /\ row[u].closed # None => r.closed = row[u].closed
      PROVE  ClockInv' /\ \A v \in User : KeepsTime(v)
    <2>1. row' = [row EXCEPT ![u] = r] /\ work' = [work EXCEPT ![i] = None]
        BY <1>2, <1>8 DEF Commits
    <2>. QED
        BY <1>1, <1>2, <1>3, <1>5, <1>6, <1>8, <2>1, JobStepKeepsTime
<1>9. row[u].attempts \in 0..RetryCap /\ row[u].closed \in Ages \cup {None}
    BY <1>3 DEF Rows
<1>10. CASE CloseIdentity(i)
    BY <1>2, <1>7, <1>10 DEF CloseIdentity, Row
<1>11. CASE CommitClosed(i)
    <2>1. PICK n : n = pass[i].grace - work[i].since
        OBVIOUS
    <2>2. n \in Waits
        BY <1>3, <2>1, BoundFacts, TimesTyped
    <2>3. work[i].since \in Ages
        BY <1>3, TimesTyped
    <2>4. PICK r : r = [closed |-> work[i].since, wait |-> n, attempts |-> 0]
        OBVIOUS
    <2>5. r \in Rows
        BY <2>2, <2>3, <2>4, BoundFacts DEF Rows
    <2>6. Commits(i, r) /\ row[u].closed = None
        BY <1>3, <1>11, <2>1, <2>4 DEF CommitClosed, At
    <2>. QED
        BY <1>8, <2>5, <2>6
<1>12. CASE PutDown(i)
    <2>1. PICK n : n = Rest(pass[i].grace - row[u].closed)
        OBVIOUS
    <2>2. row[u].closed \in Nat
        BY <1>2, <1>9, <1>12, TimesTyped, BoundFacts DEF PutDown, Row
    <2>3. n \in Waits
        BY <1>3, <2>1, <2>2, BoundFacts, TimesTyped DEF Rest
    <2>4. PICK r : r = [row[u] EXCEPT !.wait = n]
        OBVIOUS
    <2>5. r \in Rows /\ r.closed = row[u].closed
        BY <1>3, <2>3, <2>4 DEF Rows
    <2>6. Commits(i, r)
        BY <1>2, <1>12, <2>1, <2>4 DEF PutDown, Row
    <2>. QED
        BY <1>8, <2>5, <2>6
<1>13. CASE EraseTrace(i)
    BY <1>7, <1>13 DEF EraseTrace
<1>14. CASE CommitHeld(i)
    <2>1. PICK r : r = [row[u] EXCEPT !.wait = Recheck, !.attempts = 0]
        OBVIOUS
    <2>2. r \in Rows /\ r.closed = row[u].closed
        <3>1. Recheck \in Waits /\ 0 \in 0..RetryCap
            BY TimesTyped, BoundFacts
        <3>. QED
            BY <1>3, <2>1, <3>1 DEF Rows
    <2>3. Commits(i, r)
        BY <1>2, <1>14, <2>1 DEF CommitHeld, Row
    <2>. QED
        BY <1>8, <2>2, <2>3
<1>15. CASE DeleteIdentity(i)
    BY <1>7, <1>15 DEF DeleteIdentity
<1>16. CASE CommitDone(i)
    BY <1>8, <1>16 DEF CommitDone
<1>17. CASE Fail(i)
    <2>1. PICK n : n = Lesser(row[u].attempts + 1, RetryCap)
        OBVIOUS
    <2>2. n \in 0..RetryCap /\ n \in Waits
        BY <1>9, <2>1, BoundFacts, TimesTyped DEF Lesser
    <2>3. PICK r : r = [row[u] EXCEPT !.attempts = n, !.wait = n]
        OBVIOUS
    <2>4. r \in Rows /\ r.closed = row[u].closed
        BY <1>3, <2>2, <2>3 DEF Rows
    <2>5. Commits(i, r)
        BY <1>2, <1>17, <2>1, <2>3 DEF Fail, Row
    <2>. QED
        BY <1>8, <2>4, <2>5
<1>. QED
    BY <1>10, <1>11, <1>12, <1>13, <1>14, <1>15, <1>16, <1>17 DEF Advance

\* The scheduler's steps write no row, and take on an account that is on record and nobody's
LEMMA SchedulerKeepsTime ==
    ASSUME ClockInv, HasLongest, NEW i \in Instance,
           \/ StartPass(i) \/ EndPass(i) \/ \E u \in User : Claim(i, u)
           \/ Rollback(i) \/ Restart(i)
    PROVE  ClockInv' /\ \A v \in User : KeepsTime(v)
<1>1. /\ realm' = realm /\ token' = token /\ banned' = banned /\ identity' = identity
      /\ profile' = profile /\ trace' = trace /\ row' = row /\ request' = request
    BY DEF StartPass, EndPass, Claim, Rollback, Restart, readerVars
<1>2. /\ cache \in [Instance -> [lifespan : Lifespans, age : 0..(CacheFor + 1)] \cup {None}]
      /\ pass \in [Instance -> Passes \cup {None}]
      /\ work \in [Instance -> Works \cup {None}]
      /\ realm \in Lifespans
    BY DEF ClockInv, TypeOK
<1>3. [lifespan |-> realm, age |-> 0] \in [lifespan : Lifespans, age : 0..(CacheFor + 1)]
    BY <1>2, BoundFacts
<1>4. cache' \in [Instance -> [lifespan : Lifespans, age : 0..(CacheFor + 1)] \cup {None}]
    BY <1>2, <1>3 DEF StartPass, EndPass, Claim, Rollback, Restart
<1>5. /\ pass' \in [Instance -> Passes \cup {None}]
      /\ \A j \in Instance : Busy(j)' => pass'[j] \in Passes
    <2>1. \A j \in Instance : Busy(j) => pass[j] \in Passes
        BY DEF ClockInv
    <2>2. CASE StartPass(i)
        <3>1. PICK c \in [lifespan : Lifespans, age : 0..(CacheFor + 1)] : cache'[i] = c
            BY <1>2, <1>3, <2>2 DEF StartPass
        <3>. DEFINE due == {u \in User : row[u] # None /\ Due(row[u])}
                    p == [grace |-> c.lifespan + Margin, left |-> due]
        <3>2. p \in Passes
            BY DEF Passes
        <3>3. pass' = [pass EXCEPT ![i] = p] /\ work' = work
            BY <2>2, <3>1 DEF StartPass
        <3>. HIDE DEF p
        <3>. QED
            BY <1>2, <2>1, <3>2, <3>3 DEF Busy
    <2>3. CASE EndPass(i)
        BY <1>2, <2>1, <2>3 DEF EndPass, Busy
    <2>4. CASE \E u \in User : Claim(i, u)
        <3>1. PICK u \in User : Claim(i, u)
            BY <2>4
        <3>2. pass[i] \in Passes /\ pass' = [pass EXCEPT ![i].left = @ \ {u}]
            BY <1>2, <3>1 DEF Claim
        <3>3. PICK p \in Passes : p = [pass[i] EXCEPT !.left = @ \ {u}]
            BY <3>2 DEF Passes
        <3>4. pass' = [pass EXCEPT ![i] = p]
            BY <3>2, <3>3
        <3>5. \A j \in Instance \ {i} : work'[j] = work[j]
            BY <1>2, <3>1 DEF Claim
        <3>. QED
            BY <1>2, <2>1, <3>4, <3>5 DEF Busy
    <2>5. CASE Rollback(i)
        BY <1>2, <2>1, <2>5 DEF Rollback, Busy
    <2>6. CASE Restart(i)
        BY <1>2, <2>1, <2>6 DEF Restart, Busy
    <2>. QED
        BY <2>2, <2>3, <2>4, <2>5, <2>6
<1>6. /\ work' \in [Instance -> Works \cup {None}]
      /\ \A j \in Instance :
            \/ work'[j] = work[j] \/ work'[j] = None
            \/ /\ j = i /\ work'[i].stage = "step"
               /\ work'[i].user \in User /\ row[work'[i].user] # None
               /\ ~Claimed(work'[i].user)
    <2>1. CASE StartPass(i) \/ EndPass(i)
        BY <1>2, <2>1 DEF StartPass, EndPass
    <2>2. CASE Rollback(i) \/ Restart(i)
        BY <1>2, <2>2 DEF Rollback, Restart
    <2>3. CASE \E u \in User : Claim(i, u)
        <3>1. PICK u \in User : Claim(i, u)
            BY <2>3
        <3>. DEFINE w == [user |-> u, since |-> 0, stage |-> "step"]
        <3>2. w \in Works /\ w.user = u /\ w.stage = "step"
            BY BoundFacts DEF Works
        <3>3. \/ work' = work
              \/ work' = [work EXCEPT ![i] = w] /\ row[u] # None /\ ~Claimed(u)
            BY <3>1 DEF Claim
        <3>. HIDE DEF w
        <3>. QED
            BY <1>2, <3>2, <3>3
    <2>. QED
        BY <2>1, <2>2, <2>3
<1>7. TypeOK'
    <2>1. ASSUME NEW j \in Instance, NEW k \in Instance,
                 Busy(j)', Busy(k)', work'[j].user = work'[k].user
          PROVE  j = k
        BY <1>6, <2>1 DEF ClockInv, TypeOK, Busy, Claimed
    <2>2. /\ realm \in Lifespans /\ token \in [User -> 0..MaxLifespan]
          /\ trace \subseteq User /\ banned \subseteq User
          /\ identity \in [User -> {"open", "closed", "gone"}]
          /\ profile \in [User -> {"kept", "gone", "again"}]
          /\ row \in [User -> Rows \cup {None}]
          /\ request \in [User -> {"none", "recorded", "closed", "noted"}]
        BY DEF ClockInv, TypeOK
    <2>. QED
        BY <1>1, <1>4, <1>5, <1>6, <2>1, <2>2 DEF TypeOK, Busy
<1>8. ASSUME NEW j \in Instance, Busy(j)'
      PROVE  /\ row'[work'[j].user] # None
             /\ work'[j].stage = "closed" => row'[work'[j].user].closed = None
    <2>1. CASE work'[j] = work[j]
        BY <1>1, <1>8, <2>1 DEF ClockInv, Busy
    <2>2. CASE work'[j] # work[j]
        BY <1>1, <1>6, <1>8, <2>2 DEF Busy
    <2>. QED
        BY <2>1, <2>2
<1>9. ASSUME NEW v \in User, row[v] # None, row[v].closed # None PROVE row[v].closed >= row[v].closed
    <2>1. row[v] \in Rows
        BY <1>9 DEF ClockInv, TypeOK
    <2>2. row[v].closed \in Ages
        BY <1>9, <2>1 DEF Rows
    <2>. QED
        BY <2>2, TimesTyped, BoundFacts
<1>. QED
    BY <1>1, <1>5, <1>7, <1>8, <1>9 DEF ClockInv, KeepsTime

\* A row grows older, and stops counting only where it is old enough
LEMMA AgedKeepsTime ==
    ASSUME HasLongest, NEW r \in Rows
    PROVE  /\ Aged(r) \in Rows /\ Aged(r) # None
           /\ r.closed = None => Aged(r).closed = None
           /\ r.closed # None => Aged(r).closed # None /\ Aged(r).closed >= r.closed
<1>1. r # None
    BY NoneIsNoRow
<1>2. PICK w : w = Rest(r.wait - 1)
    OBVIOUS
<1>3. PICK c : c = IF r.closed = None THEN None ELSE Lesser(r.closed + 1, Enough)
    OBVIOUS
<1>4. Aged(r) = [r EXCEPT !.wait = w, !.closed = c]
    BY <1>1, <1>2, <1>3 DEF Aged
<1>5. w \in Waits
    <2>1. r.wait \in Waits
        BY DEF Rows
    <2>. QED
        BY <1>2, <2>1, BoundFacts DEF Waits, Ages, Rest
<1>6. r.closed \in Ages \cup {None}
    BY DEF Rows
<1>7. r.closed # None => c \in Ages /\ c >= r.closed
    BY <1>3, <1>6, TimesTyped, BoundFacts DEF Lesser
<1>8. r.closed = None => c = None
    BY <1>3
<1>9. Aged(r) \in Rows /\ Aged(r).closed = c
    BY <1>4, <1>5, <1>7, <1>8 DEF Rows
<1>10. r.closed # None => c # None
    BY <1>7, NoneIsNoRow
<1>. QED
    BY <1>7, <1>8, <1>9, <1>10, NoneIsNoRow

\* Time goes by for all rows and all steps under way at once
LEMMA TickKeepsTime ==
    ASSUME ClockInv, HasLongest, Tick
    PROVE  ClockInv' /\ \A v \in User : KeepsTime(v)
<1>1. /\ realm' = realm /\ banned' = banned /\ identity' = identity
      /\ profile' = profile /\ trace' = trace /\ request' = request /\ pass' = pass
    BY DEF Tick
<1>2. /\ token \in [User -> 0..MaxLifespan]
      /\ row \in [User -> Rows \cup {None}]
      /\ cache \in [Instance -> [lifespan : Lifespans, age : 0..(CacheFor + 1)] \cup {None}]
      /\ work \in [Instance -> Works \cup {None}]
    BY DEF ClockInv, TypeOK
<1>3. token' \in [User -> 0..MaxLifespan]
    BY <1>2, BoundFacts DEF Tick, Rest
<1>4. /\ row' \in [User -> Rows \cup {None}]
      /\ \A v \in User :
            /\ row[v] = None <=> row'[v] = None
            /\ row[v] # None => row[v] \in Rows /\ row'[v] = Aged(row[v])
    <2>1. row' = [v \in User |-> Aged(row[v])] /\ \A v \in User : row'[v] = Aged(row[v])
        BY DEF Tick
    <2>2. Aged(None) = None
        BY DEF Aged
    <2>3. \A v \in User : row[v] \in Rows => row'[v] \in Rows /\ row'[v] # None
        BY <2>1, AgedKeepsTime
    <2>. QED
        BY <1>2, <2>1, <2>2, <2>3, NoneIsNoRow
<1>5. cache' \in [Instance -> [lifespan : Lifespans, age : 0..(CacheFor + 1)] \cup {None}]
    <2>1. ASSUME NEW c \in [lifespan : Lifespans, age : 0..(CacheFor + 1)]
          PROVE  [c EXCEPT !.age = Lesser(@ + 1, CacheFor + 1)]
                 \in [lifespan : Lifespans, age : 0..(CacheFor + 1)]
        <3>1. PICK n \in 0..(CacheFor + 1) : n = Lesser(c.age + 1, CacheFor + 1)
            BY BoundFacts DEF Lesser
        <3>2. [c EXCEPT !.age = n] \in [lifespan : Lifespans, age : 0..(CacheFor + 1)]
            OBVIOUS
        <3>. QED
            BY <3>1, <3>2
    <2>. QED
        BY <1>2, <2>1 DEF Tick
<1>6. /\ work' \in [Instance -> Works \cup {None}]
      /\ \A j \in Instance : Busy(j)' =>
            Busy(j) /\ work'[j].user = work[j].user /\ work'[j].stage = work[j].stage
    <2>1. ASSUME NEW w \in Works, w.since < Slack
          PROVE  /\ [w EXCEPT !.since = @ + 1] \in Works
                 /\ [w EXCEPT !.since = @ + 1].user = w.user
                 /\ [w EXCEPT !.since = @ + 1].stage = w.stage
        <3>1. PICK n \in 0..Slack : n = w.since + 1
            BY <2>1, BoundFacts DEF Works
        <3>2. [w EXCEPT !.since = n] \in Works
            BY DEF Works
        <3>. QED
            BY <3>1, <3>2 DEF Works
    <2>2. \A j \in Instance : work[j] # None => work[j] \in Works /\ work[j].since < Slack
        BY <1>2 DEF Tick, Busy
    <2>3. work' = [j \in Instance |->
                     IF work[j] # None THEN [work[j] EXCEPT !.since = @ + 1] ELSE None]
        BY DEF Tick, Busy
    <2>. QED
        BY <2>1, <2>2, <2>3 DEF Busy
<1>7. TypeOK'
    <2>1. ASSUME NEW j \in Instance, NEW k \in Instance,
                 Busy(j)', Busy(k)', work'[j].user = work'[k].user
          PROVE  j = k
        BY <1>6, <2>1 DEF ClockInv, TypeOK
    <2>2. /\ realm \in Lifespans /\ trace \subseteq User /\ banned \subseteq User
          /\ identity \in [User -> {"open", "closed", "gone"}]
          /\ profile \in [User -> {"kept", "gone", "again"}]
          /\ request \in [User -> {"none", "recorded", "closed", "noted"}]
          /\ pass \in [Instance -> Passes \cup {None}]
        BY DEF ClockInv, TypeOK
    <2>. QED
        BY <1>1, <1>3, <1>4, <1>5, <1>6, <2>1, <2>2 DEF TypeOK, Busy
<1>8. ASSUME NEW j \in Instance, Busy(j)'
      PROVE  /\ pass'[j] \in Passes /\ row'[work'[j].user] # None
             /\ work'[j].stage = "closed" => row'[work'[j].user].closed = None
    <2>1. Busy(j) /\ work'[j].user = work[j].user /\ work'[j].stage = work[j].stage
        BY <1>6, <1>8
    <2>2. PICK u : u = work[j].user
        OBVIOUS
    <2>3. /\ u \in User /\ row[u] \in Rows /\ row[u] # None /\ pass[j] \in Passes
          /\ work[j].stage = "closed" => row[u].closed = None
        BY <2>1, <2>2, InHandAnyway DEF ClockInv
    <2>4. row'[u] = Aged(row[u]) /\ row'[u] # None
        BY <1>4, <2>3
    <2>5. work[j].stage = "closed" => row'[u].closed = None
        BY <2>3, <2>4, AgedKeepsTime
    <2>. QED
        BY <1>1, <2>1, <2>2, <2>3, <2>4, <2>5
<1>9. ASSUME NEW v \in User PROVE KeepsTime(v)
    BY <1>4, AgedKeepsTime DEF KeepsTime
<1>. QED
    BY <1>7, <1>8, <1>9 DEF ClockInv

\* So the clock is kept, whatever the lifespans, and with it the times in the rows
LEMMA ClockInvHolds ==
    ASSUME HasLongest
    PROVE  Spec => []ClockInv /\ [][\A u \in User : KeepsTime(u)]_vars
<1>1. Init => ClockInv
    <2>. SUFFICES ASSUME Init PROVE ClockInv
        OBVIOUS
    <2>1. /\ realm \in Lifespans /\ token \in [User -> 0..MaxLifespan]
          /\ row \in [User -> Rows \cup {None}]
        BY BoundFacts DEF Init
    <2>2. \A i \in Instance : ~Busy(i)
        BY DEF Init, Busy
    <2>. QED
        BY <2>1, <2>2 DEF Init, ClockInv, TypeOK
<1>2. ClockInv /\ Next => ClockInv' /\ \A u \in User : KeepsTime(u)
    <2>. SUFFICES ASSUME ClockInv, Next PROVE ClockInv' /\ \A u \in User : KeepsTime(u)
        OBVIOUS
    <2>1. ASSUME NEW i \in Instance, JobNext(i) PROVE ClockInv' /\ \A u \in User : KeepsTime(u)
        BY <2>1, AdvanceKeepsTime, SchedulerKeepsTime DEF JobNext
    <2>. QED
        BY <2>1, ReaderStepsKeepTime, TickKeepsTime DEF Next, QuietNext
<1>3. ClockInv /\ UNCHANGED vars => ClockInv'
    BY DEF ClockInv, TypeOK, Busy, vars
<1>4. ClockInv /\ [Next]_vars => ClockInv' /\ [\A u \in User : KeepsTime(u)]_vars
    BY <1>2, <1>3
<1>. QED
    BY <1>1, <1>4, PTL DEF Spec

\* The time since an account was shut is never counted anew, whoever starts the clock, however
\* requests, passes and failures interleave, and whatever lifespans the realm is set to.
THEOREM ClockStands ==
    ASSUME HasLongest
    PROVE  Spec => ClockIsNotReset
<1>1. (\A u \in User : KeepsTime(u)) =>
        \A u \in User : row[u] # None /\ row'[u] # None /\ row[u].closed # None =>
            row'[u].closed # None /\ row'[u].closed >= row[u].closed
    BY DEF KeepsTime
<1>. QED
    BY <1>1, ClockInvHolds, PTL DEF ClockIsNotReset

\* Everything keeps its type, and no account is ever advanced by two instances at once, under any
\* lifespans: the lock each takes on the row (claim) is the only thing between them.
THEOREM AccountTypeCorrect ==
    ASSUME HasLongest
    PROVE  Spec => []TypeOK
<1>1. ClockInv => TypeOK
    BY DEF ClockInv
<1>. QED
    BY <1>1, ClockInvHolds, PTL
=============================================================================
