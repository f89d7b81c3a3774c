----------------------------- MODULE ReaderSession -----------------------------
(* How a reader stays signed in. In the browser the session is a sealed       *)
(* cookie (lib/auth, app/api/auth, gateway/proxy.ts) that any answer may set  *)
(* or clear, and answers come in any order; he may also delete his account    *)
(* there, which takes a fresh login (DeleteAccount.tsx, deletion.ts). In the  *)
(* app it is kept in the keychain and in memory (ReaderSessionProvider.tsx).  *)
(* The two machines share no state.                                           *)
EXTENDS Integers, FiniteSets

CONSTANTS
    Accounts,
    Noone,
    MaxLogins,      \* bound: logins
    MaxTrips        \* bound: requests of the browser, the rest of the app's steps

ASSUME NooneAssumption == Noone \notin Accounts
ASSUME MaxLoginsAssumption == MaxLogins \in Nat /\ MaxTrips \in Nat

NoSeal == [who |-> Noone, login |-> 0, stale |-> FALSE]
NewPage == [knows |-> FALSE, who |-> Noone, step |-> "idle", deleting |-> FALSE]
NoFlow == [open |-> FALSE, left |-> Noone, marked |-> FALSE]

VARIABLES
    jar,            \* the session cookie; a seal is known by its login, and goes stale
    flow,           \* the cookie of a login begun, and whether it is to come back to the deletion
    page,           \* what the open page knows of its session, and how far the deletion is
    trips,          \* requests under way
    keys,           \* the logins whose refresh token Keycloak takes
    logins,         \* logins so far
    sent,           \* requests so far
    deleted,        \* accounts deleted
    current,        \* the last login that was delivered and not logged out of
    raced,          \* an answer set or cleared a cookie that was no longer the one it was asked under
    spare           \* logins whose token was to be revoked and was not, or that were never delivered
bvars == <<jar, flow, page, trips, keys, logins, sent, deleted, current, raced, spare>>

\* A page is opened by a reader who signed in before, or by one who has not
BrowserInit ==
    /\ jar \in {NoSeal} \union {[who |-> a, login |-> 1, stale |-> FALSE] : a \in Accounts}
    /\ current = jar.login /\ logins = jar.login /\ sent = 1 /\ keys = {jar.login} \ {0}
    /\ flow = NoFlow /\ page = NewPage /\ trips = {} /\ deleted = {} /\ raced = FALSE /\ spare = {}

\* A request leaves with the cookies as they are
Leaves(kind, who, here) ==
    /\ sent < MaxTrips
    /\ sent' = sent + 1
    /\ trips' = trips \union {[n |-> sent', kind |-> kind, seal |-> jar, flow |-> IF kind = "callback" THEN flow ELSE NoFlow, who |-> who, here |-> here,
                              answer |-> "none", sets |-> jar]}
AskSession == ~page.knows /\ Leaves("session", Noone, TRUE) /\ UNCHANGED <<jar, flow, page, keys, logins, deleted, current, raced, spare>>
AskThrough ==   \* a read or a write of the page
    /\ Leaves("call", Noone, TRUE)
    /\ UNCHANGED <<jar, flow, page, keys, logins, deleted, current, raced, spare>>
LogOut(here) == (here => page.who # Noone) /\ Leaves("logout", Noone, here) /\ UNCHANGED <<jar, flow, page, keys, logins, deleted, current, raced, spare>>
\* To the login page of Keycloak, and from the deletion with the mark
LeaveForLogin(marked) ==
    /\ IF marked THEN page.step = "login" ELSE page.step = "idle"
    /\ flow' = [open |-> TRUE, left |-> jar.who, marked |-> marked]
    /\ UNCHANGED <<jar, page, trips, keys, logins, sent, deleted, current, raced, spare>>
\* Keycloak sends him back, here or in another tab, with a code that is good once
ComeBack(who, here) ==
    /\ flow.open /\ (\A t \in trips : t.kind # "callback") /\ logins < MaxLogins /\ who \notin deleted
    /\ Leaves("callback", who, here)
    /\ logins' = logins + 1
    /\ UNCHANGED <<jar, flow, page, keys, deleted, current, raced, spare>>

\* Time
Expire == jar # NoSeal /\ jar' = [jar EXCEPT !.stale = TRUE] /\ UNCHANGED <<flow, page, trips, keys, logins, sent, deleted, current, raced, spare>>
KeyDies == \E n \in keys : keys' = keys \ {n} /\ UNCHANGED <<jar, flow, page, trips, logins, sent, deleted, current, raced, spare>>

\* A stale seal is refreshed; only "invalid_grant" says it is spent
Freshness(s) ==
    IF ~s.stale THEN {"usable"}
    ELSE IF s.login \in keys THEN {"usable", "unavailable"} ELSE {"signed-out", "unavailable"}
Answer(t, answer, seal) ==
    trips' = (trips \ {t}) \union {[t EXCEPT !.answer = IF t.kind = "call" THEN "done" ELSE answer, !.sets = seal]}
Still == UNCHANGED <<jar, flow, page, logins, sent, current, raced>>

\* The server of the site: the session route, and the proxy that sends on to the gateway
SessionServed(t) ==
    /\ t.kind = "session" /\ t.answer = "none"
    /\ IF t.seal = NoSeal THEN Answer(t, "out", t.seal)
       ELSE \E f \in Freshness(t.seal) :
            IF f = "signed-out" THEN Answer(t, "out", NoSeal)
            ELSE Answer(t, "in", [t.seal EXCEPT !.stale = f = "unavailable"])
    /\ Still /\ UNCHANGED <<keys, deleted, spare>>
\* A session that is over takes its cookie with it: a write is turned down, a read goes on without one.
\* Where the gateway cannot be reached nothing is sealed, and a read clears nothing
ProxyServed(t) ==
    /\ t.kind \in {"call", "delete"} /\ t.answer = "none"
    /\ \E f \in IF t.seal = NoSeal THEN {"nobody"} ELSE Freshness(t.seal) :
        \/ f \in {"nobody", "signed-out"} /\ Answer(t, "401", NoSeal) /\ UNCHANGED deleted
        \/ f # "nobody" /\ (f = "signed-out" => t.kind = "call") /\ Answer(t, "failed", t.seal) /\ UNCHANGED deleted
        \* a deletion is taken after a fresh login
        \/ /\ f = "usable"
           /\ \E answer \in IF t.kind = "delete" THEN {"done", "401", "failed"} ELSE {"done"} :
                /\ Answer(t, answer, [t.seal EXCEPT !.stale = FALSE])
                /\ deleted' = IF t.kind = "delete" /\ answer = "done" THEN deleted \union {t.seal.who} ELSE deleted
    /\ Still /\ UNCHANGED <<keys, spare>>
\* Slip: the login the new one replaces is left alone
CallbackLeavesOld(t) ==
    /\ t.kind = "callback" /\ t.answer = "none" /\ t.flow.open
    /\ keys' = keys \union {t.n}
    /\ Answer(t, "in", [who |-> t.who, login |-> t.n, stale |-> FALSE])
    /\ Still /\ UNCHANGED <<deleted, spare>>
\* The code is exchanged, and only then the session replaced is revoked, if Keycloak answers
CallbackServed(t) ==
    /\ t.kind = "callback" /\ t.answer = "none" /\ t.flow.open
    /\ \E revoked \in BOOLEAN :
        /\ keys' = (IF revoked THEN keys \ {t.seal.login} ELSE keys) \union {t.n}
        /\ spare' = IF revoked THEN spare ELSE spare \union {t.seal.login}
    /\ Answer(t, "in", [who |-> t.who, login |-> t.n, stale |-> FALSE])
    /\ Still /\ UNCHANGED deleted
CallbackFails(t) ==
    /\ t.kind = "callback" /\ t.answer = "none"
    /\ Answer(t, "failed", t.seal)
    /\ Still /\ UNCHANGED <<keys, deleted, spare>>
LogoutServed(t) ==
    /\ t.kind = "logout" /\ t.answer = "none"
    /\ \E revoked \in BOOLEAN :
        /\ keys' = IF revoked THEN keys \ {t.seal.login} ELSE keys
        /\ spare' = IF revoked THEN spare ELSE spare \union {t.seal.login}
    /\ Answer(t, "out", NoSeal)
    /\ Still /\ UNCHANGED deleted

\* An answer arrives, and its cookie with it, whatever the browser holds by now
SetCookie(t) ==
    LET sets == t.sets # t.seal
    IN /\ jar' = IF sets THEN t.sets ELSE jar
       /\ raced' = (raced \/ (sets /\ t.seal.login # jar.login))
       /\ trips' = trips \ {t}
SessionHeard(t) ==
    /\ t.kind = "session" /\ t.answer # "none" /\ SetCookie(t)
    /\ page' = IF t.here THEN [page EXCEPT !.knows = TRUE, !.who = IF t.answer = "in" THEN t.seal.who ELSE Noone] ELSE page
    /\ UNCHANGED <<flow, keys, logins, sent, deleted, current, spare>>
AnswerHeard(t) ==
    /\ t.kind = "call" /\ t.answer # "none" /\ SetCookie(t)
    /\ UNCHANGED <<flow, page, keys, logins, sent, deleted, current, spare>>
TripLost(t) ==
    /\ trips' = trips \ {t}
    /\ page' = IF t.here /\ t.kind = "delete" THEN [page EXCEPT !.deleting = FALSE]
               ELSE IF t.here /\ t.kind = "session" THEN [page EXCEPT !.knows = TRUE] ELSE page
    /\ spare' = IF t.kind = "callback" /\ t.answer = "in" THEN spare \union {t.sets.login} ELSE spare
    /\ UNCHANGED <<jar, flow, keys, logins, sent, deleted, current, raced>>

\* A navigation ends in a page that knows nothing yet; the requests of the page before are not heard there
Reload(step) == page' = [NewPage EXCEPT !.step = step]
Unheard(ts) == {[t EXCEPT !.here = FALSE] : t \in ts}
Navigated(step, t) ==
    IF t.here THEN Reload(step) /\ trips' = Unheard(trips \ {t}) ELSE trips' = trips \ {t} /\ UNCHANGED page
\* Slip: the mark is kept whoever came back
MarkKept(t) == t.flow.marked
\* The mark is for the account that left for the login
Marked(t) == t.flow.marked /\ t.seal.who = t.who
LoggedIn(t) ==
    /\ t.kind = "callback" /\ t.answer = "in"
    /\ jar' = t.sets /\ flow' = NoFlow /\ current' = t.sets.login
    /\ raced' = (raced \/ t.seal.login # jar.login)
    /\ Navigated(IF Marked(t) THEN "last" ELSE "idle", t)
    /\ UNCHANGED <<keys, logins, sent, deleted, spare>>
LoginFailed(t) ==
    /\ t.kind = "callback" /\ t.answer = "failed"
    /\ flow' = NoFlow /\ Navigated("idle", t)
    /\ UNCHANGED <<jar, keys, logins, sent, deleted, current, raced, spare>>
LoggedOut(t) ==
    /\ t.kind = "logout" /\ t.answer = "out"
    /\ jar' = NoSeal /\ raced' = (raced \/ t.seal.login # jar.login)
    /\ current' = IF current = t.seal.login THEN 0 ELSE current
    /\ Navigated("idle", t)
    /\ UNCHANGED <<flow, keys, logins, sent, deleted, spare>>
OpenAnew ==     \* at an address without the mark
    /\ page # NewPage /\ Reload("idle") /\ trips' = Unheard(trips)
    /\ UNCHANGED <<jar, flow, keys, logins, sent, deleted, current, raced, spare>>

\* The deletion: the row, the login, the last button
GoTo(step) == page' = [page EXCEPT !.step = step]
AskDeletion ==
    /\ page.who # Noone /\ ~page.deleting
    /\ \/ page.step = "idle" /\ GoTo("login")
       \/ page.step \in {"login", "last"} /\ GoTo("idle")
    /\ UNCHANGED <<jar, flow, trips, keys, logins, sent, deleted, current, raced, spare>>
DeleteAccount ==
    /\ page.who # Noone /\ page.step = "last" /\ ~page.deleting
    /\ Leaves("delete", page.who, TRUE)
    /\ page' = [page EXCEPT !.deleting = TRUE]
    /\ UNCHANGED <<jar, flow, keys, logins, deleted, current, raced, spare>>
DeletionHeard(t) ==
    /\ t.kind = "delete" /\ t.answer # "none"
    /\ jar' = IF t.sets # t.seal THEN t.sets ELSE jar
    /\ raced' = (raced \/ (t.sets # t.seal /\ t.seal.login # jar.login))
    /\ IF t.here /\ t.answer = "done"
       THEN \* signed out at once, with whatever is in the jar
            /\ trips' = (trips \ {t}) \union {[t EXCEPT !.kind = "logout", !.answer = "none", !.seal = jar', !.sets = jar']}
            /\ UNCHANGED page
       ELSE /\ trips' = trips \ {t}
            /\ page' = IF ~t.here THEN page
                       ELSE [page EXCEPT !.deleting = FALSE, !.step = IF t.answer = "401" THEN "login" ELSE @]
    /\ UNCHANGED <<flow, keys, logins, sent, deleted, current, spare>>

BrowserNext ==
    \/ AskSession \/ AskThrough \/ Expire \/ KeyDies \/ OpenAnew \/ AskDeletion \/ DeleteAccount
    \/ \E here \in BOOLEAN : LogOut(here)
    \/ \E marked \in BOOLEAN : LeaveForLogin(marked)
    \/ \E who \in Accounts, here \in BOOLEAN : ComeBack(who, here)
    \/ \E t \in trips : SessionServed(t) \/ ProxyServed(t) \/ CallbackServed(t) \/ CallbackFails(t) \/ LogoutServed(t)
          \/ SessionHeard(t) \/ AnswerHeard(t) \/ TripLost(t) \/ LoggedIn(t) \/ LoginFailed(t) \/ LoggedOut(t) \/ DeletionHeard(t)
BrowserSpec == BrowserInit /\ [][BrowserNext]_bvars

----------------------------------------------------------------------------
(* The app: the tokens in the keychain and in memory, and what it shows.    *)

Idle == [shows |-> "nothing", hands |-> 0, profile |-> FALSE, coding |-> FALSE, naming |-> FALSE]

VARIABLES
    app,            \* what it shows, the login in memory, and what it waits for
    chain,          \* the login in the keychain, 0 for none
    chainStale,
    appKeys,        \* as keys
    appLogins,
    appCurrent,     \* as current
    appSteps,
    outage,         \* a refresh failed though the token was good
    lateName        \* a name was saved after the reader had left
avars == <<app, chain, chainStale, appKeys, appLogins, appCurrent, appSteps, outage, lateName>>

AppInit ==
    /\ chain \in {0, 1} /\ chainStale = FALSE /\ app = Idle
    /\ appKeys = {chain} \ {0} /\ appLogins = 1 /\ appCurrent = chain /\ appSteps = 0
    /\ outage = FALSE /\ lateName = FALSE

\* The start: what the keychain holds is refreshed if it is stale, and dropped if that fails for
\* whatever reason
AppRestore ==
    /\ app = Idle
    /\ \/ chain = 0 /\ app' = [app EXCEPT !.shows = "out"] /\ UNCHANGED <<chain, chainStale, outage>>
       \/ /\ chain # 0 /\ (chainStale => chain \in appKeys)
          /\ app' = [app EXCEPT !.hands = chain, !.profile = TRUE] /\ chainStale' = FALSE
          /\ UNCHANGED <<chain, outage>>
       \/ /\ chain # 0 /\ chainStale
          /\ app' = [app EXCEPT !.shows = "out"] /\ chain' = 0 /\ chainStale' = FALSE
          /\ outage' = (outage \/ chain \in appKeys)
    /\ UNCHANGED <<appKeys, appLogins, appCurrent, appSteps, lateName>>
ProfileCame ==  \* or failed to: the session is drawn with no name then
    /\ app.profile /\ app' = [app EXCEPT !.profile = FALSE, !.shows = "in"]
    /\ UNCHANGED <<chain, chainStale, appKeys, appLogins, appCurrent, appSteps, outage, lateName>>
\* The way in is offered to one who is signed out; a code comes back, or he gives it up
AppLogin ==
    /\ app.shows = "out" /\ ~app.coding /\ appLogins < MaxLogins
    /\ appLogins' = appLogins + 1 /\ app' = [app EXCEPT !.coding = TRUE]
    /\ UNCHANGED <<chain, chainStale, appKeys, appCurrent, appSteps, outage, lateName>>
Exchanged ==
    /\ app.coding
    /\ appKeys' = appKeys \union {appLogins} /\ appCurrent' = appLogins
    /\ chain' = appLogins /\ chainStale' = FALSE
    /\ app' = [app EXCEPT !.coding = FALSE, !.hands = appLogins, !.profile = TRUE]
    /\ UNCHANGED <<appLogins, appSteps, outage, lateName>>
ExchangeFails ==
    /\ app.coding
    /\ app' = [app EXCEPT !.coding = FALSE, !.shows = "out"]
    /\ UNCHANGED <<chain, chainStale, appKeys, appLogins, appCurrent, appSteps, outage, lateName>>
\* The memory and the keychain are emptied, then the token is revoked, if that can be done
AppLogout ==
    /\ app.shows = "in"
    /\ app' = [app EXCEPT !.shows = "out", !.hands = 0, !.profile = FALSE]
    /\ chain' = 0 /\ chainStale' = FALSE /\ appCurrent' = 0
    /\ appKeys' \in {appKeys, appKeys \ {app.hands}}
    /\ UNCHANGED <<appLogins, appSteps, outage, lateName>>
\* A write was turned down for want of a session: the screen says he is out, the tokens stay
AppTurnedDown ==
    /\ app.shows = "in" /\ app' = [app EXCEPT !.shows = "out"]
    /\ UNCHANGED <<chain, chainStale, appKeys, appLogins, appCurrent, appSteps, outage, lateName>>
AskName ==
    /\ app.shows = "in" /\ app.hands # 0 /\ ~app.naming
    /\ app' = [app EXCEPT !.naming = TRUE]
    /\ UNCHANGED <<chain, chainStale, appKeys, appLogins, appCurrent, appSteps, outage, lateName>>
\* A name that is taken goes into the session as it was when the name was sent
NameAnswered ==
    /\ app.naming
    /\ \E done \in BOOLEAN :
        /\ app' = [app EXCEPT !.naming = FALSE, !.shows = IF done THEN "in" ELSE @]
        /\ lateName' = (lateName \/ (done /\ app.shows # "in"))
    /\ UNCHANGED <<chain, chainStale, appKeys, appLogins, appCurrent, appSteps, outage>>
AppTurn ==      \* the app is closed and opened, the token grows old or is revoked
    /\ appSteps < MaxTrips /\ appSteps' = appSteps + 1
    /\ \/ app' = Idle /\ UNCHANGED <<chainStale, appKeys>>
       \/ chain # 0 /\ chainStale' = TRUE /\ UNCHANGED <<app, appKeys>>
       \/ appKeys' = appKeys \ {chain} /\ UNCHANGED <<app, chainStale>>
    /\ UNCHANGED <<chain, appLogins, appCurrent, outage, lateName>>

AppNext ==
    \/ AppRestore \/ ProfileCame \/ AppLogin \/ Exchanged \/ ExchangeFails \/ AppLogout \/ AppTurnedDown
    \/ AskName \/ NameAnswered \/ AppTurn
AppSpec == AppInit /\ [][AppNext]_avars

----------------------------------------------------------------------------
(* Properties.                                                              *)

\* A reader is signed out by logging out or by Keycloak, never by an outage of it: while Keycloak takes
\* the token of his last login, the cookie holds it. And no token works with nobody holding it, as one
\* of a login replaced or logged out of would, but one Keycloak did not revoke when asked and one whose
\* answer was lost. Both but for an answer that set or cleared a cookie that was no longer the one it
\* was asked under.
CookieIsKept ==
    ~raced =>
        /\ current \in keys => jar.login = current
        /\ \A n \in keys : n \in spare \union {jar.login} \union {t.sets.login : t \in trips}

\* The last step of a deletion opens for the account that left for the login, and no other: not for
\* one that came back instead, nor where the session was changed meanwhile in another tab.
MarkStaysWithItsAccount ==
    [][page.step # "last" /\ page'.step = "last" /\ ~raced' =>
          \E t \in trips : t.kind = "callback" /\ t.flow.marked /\ t.flow.left = t.who /\ t.who = jar'.who]_bvars

\* The app holds the last login while Keycloak takes its token, unless a refresh failed; it uses what it
\* holds; and it shows the reader signed in only with a token at hand, but for one who left before the
\* name he sent was taken.
AppSessionStands ==
    /\ appCurrent \in appKeys /\ ~outage => chain = appCurrent
    /\ app.hands \in {0, chain}
    /\ app.shows = "in" => app.hands # 0 \/ lateName

\* In the browser and in the app alike a reader stays signed in until he or Keycloak ends it, and is not
\* shown signed in with nothing to show for it.
SessionsAreKept == CookieIsKept /\ AppSessionStands

\* As refresh.ts of the app has it: nothing but a spent token signs the reader out.
SpentTokenSignsOut == appCurrent \in appKeys => chain = appCurrent
=============================================================================
