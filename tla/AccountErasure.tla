--------------------------- MODULE AccountErasure ---------------------------
(***************************************************************************)
(* How a reader's account goes.  The request writes the account down as on *)
(* its way out and shuts the identity in Keycloak; the job does the rest,  *)
(* one account at a time, each in a transaction of its own: it outwaits    *)
(* the tokens that are still good, has discussion-service erase the trace, *)
(* deletes the profile, and deletes the identity unless a ban holds the    *)
(* address.  Three services keep a part of the account, any call may fail  *)
(* with its work done or not, and a transaction may be rolled back after   *)
(* its calls have had their effect.                                        *)
(*                                                                         *)
(* Time is counted down to what is awaited and up from what has happened,  *)
(* and stops counting where the code stops caring.  Between taking the     *)
(* time of a step and the end of its calls, clock drift included, no more  *)
(* than Slack goes by.  The page of due accounts is taken to hold them     *)
(* all.                                                                    *)
(***************************************************************************)
EXTENDS Integers, FiniteSets

CONSTANTS
    User,
    Instance,    \* of user-service, each with a scheduler
    None,
    Lifespans,   \* what the realm's accessTokenLifespan may be set to
    CacheFor,    \* lifespan-cache
    Margin,      \* grace-margin
    Slack,
    Recheck,     \* how soon a banned account is asked about again
    RetryCap     \* the longest wait after a failure, in steps of retry-backoff

Highest(S) == CHOOSE n \in S : \A m \in S : m <= n
MaxLifespan == Highest(Lifespans)
Enough == MaxLifespan + Margin + Slack   \* bound: where an age stops being counted

ASSUME Durations ==
    /\ Lifespans \subseteq Nat /\ Lifespans # {}
    /\ {CacheFor, Margin, Slack, Recheck, RetryCap} \subseteq Nat
    /\ Slack <= Margin /\ RetryCap > 0 /\ Recheck > 0

VARIABLES
    realm,     \* the lifespan of the tokens the realm gives out
    token,     \* for how long the last token of each reader is still accepted
    identity,  \* his Keycloak account: "open", "closed" or "gone"
    profile,   \* "kept", "gone", or "again": made anew after it had gone
    trace,     \* whom discussion-service holds anything of
    banned,    \* whom it holds banned
    row,       \* his pending_identity_delete row, or None
    request,   \* how far the request to delete him has come
    cache,     \* the lifespan each instance has read, and how long ago
    pass,      \* the pass each instance is making: its grace and the accounts left
    work       \* the account each instance is advancing, in a transaction

readerVars == <<realm, token, banned>>
jobVars == <<cache, pass, work>>
vars == <<realm, token, identity, profile, trace, banned, row, request, cache, pass, work>>

-----------------------------------------------------------------------------
Lesser(m, n) == IF m < n THEN m ELSE n
Rest(n) == IF n > 0 THEN n ELSE 0

Busy(i) == work[i] # None
Claimed(u) == \E i \in Instance : Busy(i) /\ work[i].user = u
Row(i) == row[work[i].user]
At(i, stage) == Busy(i) /\ work[i].stage = stage

Closed(id) == IF id = "open" THEN "closed" ELSE id
Erased(p) == IF p = "kept" THEN "gone" ELSE p
Resolved(p) == IF p = "gone" THEN "again" ELSE p

\* Mutant of Due: an account that keeps failing is given up
DueUnlessGivenUp(r) == r.wait = 0 /\ r.attempts < RetryCap

\* An account is due when its wait is over
Due(r) == r.wait = 0

\* Mutant of Outwaited: the job goes on as soon as the identity is shut
OutwaitedAnyhow(i) == Row(i).closed # None

\* The rule, asked with the time taken when the step began
Outwaited(i) == Row(i).closed # None /\ Row(i).closed - work[i].since >= pass[i].grace

-----------------------------------------------------------------------------
Init ==
    /\ realm \in Lifespans
    /\ token = [u \in User |-> 0]
    /\ identity = [u \in User |-> "open"]
    /\ profile = [u \in User |-> "kept"]
    /\ trace = {} /\ banned = {}
    /\ row = [u \in User |-> None]
    /\ request = [u \in User |-> "none"]
    /\ cache = [i \in Instance |-> None]
    /\ pass = [i \in Instance |-> None]
    /\ work = [i \in Instance |-> None]

Aged(r) == IF r = None THEN None
           ELSE [r EXCEPT !.wait = Rest(@ - 1),
                          !.closed = IF @ = None THEN None ELSE Lesser(@ + 1, Enough)]

Tick ==
    /\ \A i \in Instance : Busy(i) => work[i].since < Slack
    /\ token' = [u \in User |-> Rest(token[u] - 1)]
    /\ row' = [u \in User |-> Aged(row[u])]
    /\ cache' = [i \in Instance |-> IF cache[i] = None THEN None
                                    ELSE [cache[i] EXCEPT !.age = Lesser(@ + 1, CacheFor + 1)]]
    /\ work' = [i \in Instance |-> IF Busy(i) THEN [work[i] EXCEPT !.since = @ + 1] ELSE None]
    /\ UNCHANGED <<realm, identity, profile, trace, banned, request, pass>>

-----------------------------------------------------------------------------
\* Keycloak gives out tokens as long as the account is open, by login or by refresh
Login(u) ==
    /\ identity[u] = "open" /\ token[u] < realm
    /\ token' = [token EXCEPT ![u] = realm]
    /\ UNCHANGED <<realm, identity, profile, trace, banned, row, request, jobVars>>

\* With a token that is good he leaves a trace.  discussion-service may have his subject
\* cached; where it has to ask, resolving the subject makes a profile if there is none.
Comment(u) ==
    /\ token[u] > 0
    /\ trace' = trace \cup {u}
    /\ profile' \in {profile, [profile EXCEPT ![u] = Resolved(@)]}
    /\ UNCHANGED <<readerVars, identity, row, request, jobVars>>

BanOrLift(u) ==
    /\ profile[u] = "kept" \/ u \in banned
    /\ banned' = IF u \in banned THEN banned \ {u} ELSE banned \cup {u}
    /\ UNCHANGED <<realm, token, identity, profile, trace, row, request, jobVars>>

SetLifespan(n) ==
    /\ realm' = n
    /\ UNCHANGED <<token, identity, profile, trace, banned, row, request, jobVars>>

-----------------------------------------------------------------------------
NewRow == [closed |-> None, wait |-> 0, attempts |-> 0]

\* Mutant of Ask: nothing is written down before Keycloak is called
AskUnrecorded(u) ==
    /\ request[u] = "none" /\ profile[u] = "kept"
    /\ row[u] # None => row[u].closed = None
    /\ request' = [request EXCEPT ![u] = "recorded"]
    /\ UNCHANGED <<readerVars, identity, profile, trace, row, jobVars>>

\* The request is written down, or found written down
Ask(u) ==
    /\ request[u] = "none" /\ profile[u] = "kept"
    /\ row[u] # None => row[u].closed = None
    /\ row' = [row EXCEPT ![u] = IF @ = None THEN NewRow ELSE @]
    /\ request' = [request EXCEPT ![u] = "recorded"]
    /\ UNCHANGED <<readerVars, identity, profile, trace, jobVars>>

\* Keycloak is called; when it fails the account may have been disabled all the same
CloseNow(u) ==
    /\ request[u] = "recorded"
    /\ \/ /\ identity' = [identity EXCEPT ![u] = Closed(@)]
          /\ request' = [request EXCEPT ![u] = "closed"]
       \/ /\ identity' \in {identity, [identity EXCEPT ![u] = Closed(@)]}
          /\ request' = [request EXCEPT ![u] = "noted"]
    /\ UNCHANGED <<readerVars, profile, trace, row, jobVars>>

\* Mutant of the next: the clock starts although it has started
RestartClock(u) ==
    /\ request[u] = "closed" /\ ~Claimed(u)
    /\ row' = [row EXCEPT ![u] = IF @ # None THEN [@ EXCEPT !.closed = 0] ELSE @]
    /\ request' = [request EXCEPT ![u] = "noted"]
    /\ UNCHANGED <<readerVars, identity, profile, trace, jobVars>>

\* The clock starts unless it has started, once nobody holds the row
MarkClosed(u) ==
    /\ request[u] = "closed" /\ ~Claimed(u)
    /\ row' = [row EXCEPT ![u] = IF @ # None /\ @.closed = None THEN [@ EXCEPT !.closed = 0]
                                 ELSE @]
    /\ request' = [request EXCEPT ![u] = "noted"]
    /\ UNCHANGED <<readerVars, identity, profile, trace, jobVars>>

\* The trace is asked to go at once, on another thread, and nobody waits for an answer
StartTrace(u) ==
    /\ request[u] = "noted"
    /\ trace' \in {trace, trace \ {u}}
    /\ request' = [request EXCEPT ![u] = "none"]
    /\ UNCHANGED <<readerVars, identity, profile, row, jobVars>>

\* The instance that serves the request stops
RequestLost(u) ==
    /\ request[u] # "none"
    /\ request' = [request EXCEPT ![u] = "none"]
    /\ UNCHANGED <<readerVars, identity, profile, trace, row, jobVars>>

-----------------------------------------------------------------------------
\* The lifespan of tokens, cached or read from the realm, and who is due
StartPass(i) ==
    /\ pass[i] = None
    /\ cache' = [cache EXCEPT ![i] = IF @ # None /\ @.age <= CacheFor THEN @
                                     ELSE [lifespan |-> realm, age |-> 0]]
    /\ LET due == {u \in User : row[u] # None /\ Due(row[u])}
       IN  /\ due # {}
           /\ pass' = [pass EXCEPT ![i] = [grace |-> cache'[i].lifespan + Margin, left |-> due]]
    /\ UNCHANGED <<readerVars, identity, profile, trace, row, request, work>>

EndPass(i) ==
    /\ pass[i] # None /\ pass[i].left = {} /\ ~Busy(i)
    /\ pass' = [pass EXCEPT ![i] = None]
    /\ UNCHANGED <<readerVars, identity, profile, trace, row, request, cache, work>>

\* The row is locked, unless it is gone or another instance has it
Claim(i, u) ==
    /\ pass[i] # None /\ ~Busy(i) /\ u \in pass[i].left
    /\ pass' = [pass EXCEPT ![i].left = @ \ {u}]
    /\ work' = IF row[u] = None \/ Claimed(u) THEN work
               ELSE [work EXCEPT ![i] = [user |-> u, since |-> 0, stage |-> "step"]]
    /\ UNCHANGED <<readerVars, identity, profile, trace, row, request, cache>>

Goes(i, stage) == work' = [work EXCEPT ![i].stage = stage]
Commits(i, r) ==
    /\ row' = [row EXCEPT ![work[i].user] = r]
    /\ work' = [work EXCEPT ![i] = None]
ProfileGoes(i) == profile' = [profile EXCEPT ![work[i].user] = Erased(@)]

\* The request could not reach Keycloak, so this step does
CloseIdentity(i) ==
    /\ At(i, "step") /\ Row(i).closed = None
    /\ identity' = [identity EXCEPT ![work[i].user] = Closed(@)]
    /\ Goes(i, "closed")
    /\ UNCHANGED <<readerVars, profile, trace, row, request, cache, pass>>

CommitClosed(i) ==
    /\ At(i, "closed")
    /\ Commits(i, [closed |-> work[i].since, wait |-> pass[i].grace - work[i].since,
                   attempts |-> 0])
    /\ UNCHANGED <<readerVars, identity, profile, trace, request, cache, pass>>

\* Put down until the tokens have run out
PutDown(i) ==
    /\ At(i, "step") /\ Row(i).closed # None /\ ~Outwaited(i)
    /\ Commits(i, [Row(i) EXCEPT !.wait = Rest(pass[i].grace - Row(i).closed)])
    /\ UNCHANGED <<readerVars, identity, profile, trace, request, cache, pass>>

\* Mutant of the next: what the request started is taken to have done it
TakeTraceForErased(i) ==
    /\ At(i, "step") /\ Outwaited(i)
    /\ Goes(i, IF work[i].user \in banned THEN "held" ELSE "erased")
    /\ UNCHANGED <<readerVars, identity, profile, trace, row, request, cache, pass>>

\* The trace goes, and the answer says whether a ban stands
EraseTrace(i) ==
    /\ At(i, "step") /\ Outwaited(i)
    /\ trace' = trace \ {work[i].user}
    /\ Goes(i, IF work[i].user \in banned THEN "held" ELSE "erased")
    /\ UNCHANGED <<readerVars, identity, profile, row, request, cache, pass>>

\* The profile goes, the address stays taken; asked about again later
CommitHeld(i) ==
    /\ At(i, "held")
    /\ ProfileGoes(i)
    /\ Commits(i, [Row(i) EXCEPT !.wait = Recheck, !.attempts = 0])
    /\ UNCHANGED <<readerVars, identity, trace, request, cache, pass>>

DeleteIdentity(i) ==
    /\ At(i, "erased")
    /\ identity' = [identity EXCEPT ![work[i].user] = "gone"]
    /\ Goes(i, "deleted")
    /\ UNCHANGED <<readerVars, profile, trace, row, request, cache, pass>>

CommitDone(i) ==
    /\ At(i, "deleted")
    /\ ProfileGoes(i)
    /\ Commits(i, None)
    /\ UNCHANGED <<readerVars, identity, trace, request, cache, pass>>

\* What a call that failed may have done all the same
Outcome(i) ==
    LET u == work[i].user
    IN  \/ /\ At(i, "step") /\ Row(i).closed = None
           /\ identity' \in {identity, [identity EXCEPT ![u] = Closed(@)]}
           /\ UNCHANGED <<profile, trace>>
        \/ /\ At(i, "step") /\ Outwaited(i)
           /\ trace' \in {trace, trace \ {u}}
           /\ UNCHANGED <<identity, profile>>
        \/ /\ At(i, "erased")
           /\ identity' \in {identity, [identity EXCEPT ![u] = "gone"]}
           /\ ProfileGoes(i)
           /\ UNCHANGED trace

\* A failed call is recorded on the row, and what the step had done until then is committed
Fail(i) ==
    /\ Outcome(i)
    /\ LET n == Lesser(Row(i).attempts + 1, RetryCap)
       IN  Commits(i, [Row(i) EXCEPT !.attempts = n, !.wait = n])
    /\ UNCHANGED <<readerVars, request, cache, pass>>

\* The transaction is rolled back; its calls are not
Rollback(i) ==
    /\ Busy(i)
    /\ work' = [work EXCEPT ![i] = None]
    /\ UNCHANGED <<readerVars, identity, profile, trace, row, request, cache, pass>>

Restart(i) ==
    /\ cache[i] # None
    /\ work' = [work EXCEPT ![i] = None]
    /\ pass' = [pass EXCEPT ![i] = None]
    /\ cache' = [cache EXCEPT ![i] = None]
    /\ UNCHANGED <<readerVars, identity, profile, trace, row, request>>

-----------------------------------------------------------------------------
TokenNext(u) == Login(u) \/ Comment(u)

RequestNext(u) ==
    \/ BanOrLift(u)
    \/ Ask(u) \/ CloseNow(u) \/ MarkClosed(u) \/ StartTrace(u) \/ RequestLost(u)

Advance(i) ==
    \/ CloseIdentity(i) \/ CommitClosed(i) \/ PutDown(i) \/ EraseTrace(i)
    \/ CommitHeld(i) \/ DeleteIdentity(i) \/ CommitDone(i) \/ Fail(i)

JobNext(i) ==
    \/ StartPass(i) \/ EndPass(i) \/ \E u \in User : Claim(i, u)
    \/ Advance(i) \/ Rollback(i) \/ Restart(i)

QuietNext ==
    \/ Tick
    \/ \E u \in User : RequestNext(u)
    \/ \E n \in Lifespans \ {realm} : SetLifespan(n)
    \/ \E i \in Instance : JobNext(i)

Next == QuietNext \/ \E u \in User : TokenNext(u)

Spec == Init /\ [][Next]_vars

\* The realm is only ever set to longer-lived tokens, or to shorter-lived ones
LongerSpec == Init /\ [][Next /\ realm' >= realm]_vars
ShorterSpec == Init /\ [][Next /\ realm' <= realm]_vars

\* Time goes by and the scheduler runs its passes; every call ends one way or the other, and
\* the services answer about an account that is asked about again and again, now and then
\* with a commit to follow.  What readers do with their tokens is left out: no step of the
\* request or the job looks at it.
For(i, u) == Busy(i) /\ work[i].user = u
JobFairness(i) ==
    /\ WF_vars(StartPass(i)) /\ WF_vars(EndPass(i)) /\ WF_vars(Advance(i))
    /\ \A u \in User :
        /\ SF_vars(Claim(i, u))
        /\ SF_vars(For(i, u) /\ CloseIdentity(i)) /\ SF_vars(For(i, u) /\ CommitClosed(i))
        /\ SF_vars(For(i, u) /\ EraseTrace(i)) /\ SF_vars(For(i, u) /\ CommitHeld(i))
        /\ SF_vars(For(i, u) /\ DeleteIdentity(i)) /\ SF_vars(For(i, u) /\ CommitDone(i))

FairSpec ==
    Init /\ [][QuietNext]_vars /\ SF_vars(Tick) /\ \A i \in Instance : JobFairness(i)

-----------------------------------------------------------------------------
Ages == 0..Enough
Waits == Ages \cup 0..(Recheck + RetryCap)
Rows == [closed : Ages \cup {None}, wait : Waits, attempts : 0..RetryCap]
Passes == [grace : {n + Margin : n \in Lifespans}, left : SUBSET User]
Works == [user : User, since : 0..Slack,
          stage : {"step", "closed", "erased", "held", "deleted"}]

ASSUME NoneIsNoRow == None \notin Rows \cup Ages

\* Everything has its type; an account is advanced by one instance at a time.
TypeOK ==
    /\ realm \in Lifespans
    /\ token \in [User -> 0..MaxLifespan]
    /\ identity \in [User -> {"open", "closed", "gone"}]
    /\ profile \in [User -> {"kept", "gone", "again"}]
    /\ trace \subseteq User /\ banned \subseteq User
    /\ row \in [User -> Rows \cup {None}]
    /\ request \in [User -> {"none", "recorded", "closed", "noted"}]
    /\ cache \in [Instance -> [lifespan : Lifespans, age : 0..(CacheFor + 1)] \cup {None}]
    /\ pass \in [Instance -> Passes \cup {None}]
    /\ work \in [Instance -> Works \cup {None}]
    /\ \A i, j \in Instance : Busy(i) /\ Busy(j) /\ work[i].user = work[j].user => i = j

\* A reader whose profile has gone is not made a new one by a token that was still good.
GoneStaysGone == \A u \in User : profile[u] # "again"

\* Nothing of a reader is left in the discussions once his profile has gone.
TraceGoesFirst == \A u \in User : profile[u] # "kept" => u \notin trace

\* From the moment an account is shut until the last of it is gone, the record of it stays.
NothingIsForgotten ==
    \A u \in User : identity[u] # "open" =>
        \/ row[u] # None
        \/ identity[u] = "gone" /\ profile[u] # "kept" /\ u \notin trace

\* An identity is not deleted while its reader is banned: that would free the address.
BanIsNotShed ==
    [][\A u \in User : identity[u] # "gone" /\ identity'[u] = "gone" => u \notin banned]_vars

\* The time since an account was shut is never counted anew, whether the request starts the
\* clock or the job does, and whatever lifespans the realm is set to meanwhile.
ClockIsNotReset ==
    [][\A u \in User : row[u] # None /\ row'[u] # None /\ row[u].closed # None =>
            row'[u].closed # None /\ row'[u].closed >= row[u].closed]_vars

\* Where an account stands for its reader: a profile made anew is a step back
StageOf(u) ==
    CASE identity[u] = "open" -> "open"
      [] identity[u] # "open" /\ profile[u] # "gone" -> "shut"
      [] identity[u] = "closed" /\ profile[u] = "gone" -> "emptied"
      [] OTHER -> "gone"

Promise == INSTANCE AccountPromise WITH
    stage <- [u \in User |-> StageOf(u)], traces <- trace, able <- {u \in User : token[u] > 0}

\* Request, job and the services together keep the promise: an account is shut, emptied and gone in
\* that order and never back, and by the time it is emptied no trace is left and no token that could
\* leave one, however calls fail, transactions are rolled back and instances restart.
KeepsItsPromise == Promise!Spec

\* An account on its way out is gone in the end, however often calls fail, transactions are
\* rolled back and instances restart, unless bans keep standing.
EveryAccountGoes ==
    \A u \in User : <>[](u \notin banned) => (row[u] # None ~> row[u] = None)
=============================================================================
