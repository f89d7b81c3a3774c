------------------------------- MODULE ReaderMenu -------------------------------
(* The menu of one comment (CommentMenu.tsx in the browser and in the app):   *)
(* the reader takes down his own comment, reports another's, ignores its      *)
(* author or stops. The device remembers what it reported (reported.ts); the  *)
(* app's store takes its time to say so.                                      *)
(* Shutting the menu takes nothing back that is on its way.                   *)
EXTENDS Integers, FiniteSets

CONSTANT MaxMenuAsks    \* bound: requests in all

ASSUME MaxMenuAsksAssumption == MaxMenuAsks \in Nat

Closed == [kind |-> "closed", busy |-> FALSE]
Panel(kind) == [kind |-> kind, busy |-> FALSE]

VARIABLES
    onApp,          \* the menu of the app, not of the browser
    lookup,         \* what the app's store is about to say of the comment: "none", "known", "unknown"
    own,            \* the reader wrote the comment
    drawn,          \* the comment is on the page and readable, its menu with it
    panel,          \* what the menu shows
    reported,       \* ... and whether it says the comment was reported
    drawnAs,        \* the reader's ignore of the author, as the page has it: "none" or "soft"
    signedUp,       \* the page holds a session
    marked,         \* the device remembers it reported the comment
    menuAsks,       \* requests under way, given up or not
    menuSent,       \* requests so far
    filed,          \* the service took a report
    removed,        \* the comment is down
    ignoredAs,      \* the reader's ignore of the author, as the service has it
    tokenOk,        \* the service takes the session
    menuUnsure,     \* a request about the ignore was given up, or two were out together
    mixed           \* the panel was shut and opened again with a request under way
uvars == <<onApp, lookup, own, drawn, panel, reported, drawnAs, signedUp, marked, menuAsks, menuSent, filed, removed, ignoredAs, tokenOk,
           menuUnsure, mixed>>
menuService == <<filed, removed, ignoredAs, tokenOk>>

MenuInit ==
    /\ onApp \in BOOLEAN /\ lookup = IF onApp THEN "unknown" ELSE "none"
    /\ own \in BOOLEAN /\ signedUp \in BOOLEAN
    /\ drawn = TRUE /\ panel = Closed /\ reported = FALSE /\ drawnAs = "none"
    /\ marked = FALSE /\ menuAsks = {} /\ menuSent = 0 /\ filed = FALSE /\ removed = FALSE
    /\ ignoredAs = "none" /\ tokenOk = signedUp /\ menuUnsure = FALSE /\ mixed = FALSE

Show(kind) ==
    /\ panel' = Panel(kind)
    /\ UNCHANGED <<onApp, lookup, own, drawn, reported, drawnAs, signedUp, marked, menuAsks, menuSent, menuService, menuUnsure, mixed>>
Toggle ==   \* the dots, or a press elsewhere while it is open
    /\ drawn
    /\ panel' = IF panel.kind = "closed" THEN Panel("menu") ELSE Closed
    /\ mixed' = (mixed \/ (panel.kind = "closed" /\ \E m \in menuAsks : m.awaited))
    /\ UNCHANGED <<onApp, lookup, own, drawn, reported, drawnAs, signedUp, marked, menuAsks, menuSent, menuService, menuUnsure>>
OpenRemove == drawn /\ panel.kind = "menu" /\ own /\ Show("remove")
OpenReport == drawn /\ panel.kind = "menu" /\ ~own /\ ~reported /\ Show(IF signedUp THEN "report" ELSE "sign-in")
OpenIgnore ==
    /\ drawn /\ ~own
    /\ panel.kind = "menu" \/ (panel.kind = "reported" /\ drawnAs = "none")
    /\ Show(IF signedUp THEN "ignore" ELSE "sign-in")

\* A request goes out and its panel is shut to clicks
Ask_(what, mode) ==
    /\ drawn /\ panel = Panel(what) /\ menuSent < MaxMenuAsks
    /\ menuSent' = menuSent + 1
    /\ menuAsks' = menuAsks \union {[n |-> menuSent', what |-> what, mode |-> mode, answer |-> "none", awaited |-> TRUE]}
    /\ panel' = [kind |-> what, busy |-> TRUE]
    /\ menuUnsure' = (menuUnsure \/ (what = "ignore" /\ \E m \in menuAsks : m.what = "ignore"))
    /\ UNCHANGED <<onApp, lookup, own, drawn, reported, drawnAs, signedUp, marked, menuService, mixed>>
AskRemove == Ask_("remove", "none")
AskReport == Ask_("report", "none")
\* Collapsed already and asked to stay so: the panel is shut
AskIgnore(mode) ==
    IF drawnAs = "soft" /\ mode = "soft" THEN drawn /\ panel = Panel("ignore") /\ Show("closed")
    ELSE Ask_("ignore", mode)
AskUnignore == drawnAs = "soft" /\ Ask_("ignore", "none")

\* The service
MenuAnswers(m) ==
    IF ~tokenOk THEN {"401"}
    ELSE IF m.what = "remove" THEN IF removed THEN {"404"} ELSE {"done", "refused"}
    ELSE IF m.what = "report" THEN IF removed THEN {"404", "refused"} ELSE {"done", "refused"}
    ELSE IF m.mode = "none" THEN {"done", "refused"}
    ELSE {"done", "refused", "404"}
MenuServed(m) ==
    /\ m.answer = "none"
    /\ \E answer \in MenuAnswers(m) :
        /\ menuAsks' = (menuAsks \ {m}) \union {[m EXCEPT !.answer = answer]}
        /\ LET done == answer = "done"
           IN /\ removed' = (removed \/ (done /\ m.what = "remove"))
              /\ filed' = (filed \/ (done /\ m.what = "report"))
              /\ ignoredAs' = IF done /\ m.what = "ignore" THEN m.mode ELSE ignoredAs
    /\ UNCHANGED <<onApp, lookup, own, drawn, panel, reported, drawnAs, signedUp, marked, menuSent, tokenOk, menuUnsure, mixed>>
MenuTurn ==     \* taken down by someone else; the session ends
    /\ \/ removed' = TRUE /\ UNCHANGED tokenOk
       \/ tokenOk' = FALSE /\ UNCHANGED removed
    /\ UNCHANGED <<onApp, lookup, own, drawn, panel, reported, drawnAs, signedUp, marked, menuAsks, menuSent, filed, ignoredAs, menuUnsure, mixed>>

Hears(m, answers) ==
    /\ m.awaited /\ m.answer \in answers
    /\ menuAsks' = menuAsks \ {m}
    /\ UNCHANGED <<onApp, own, menuSent, menuService, mixed>>
\* The comment is a placeholder or gone, and the menu with it
GoneFromPage(m) ==
    /\ Hears(m, IF m.what = "remove" THEN {"done", "404"} ELSE {"404"})
    /\ drawn' = FALSE /\ panel' = Closed /\ lookup' = "none"
    /\ UNCHANGED <<reported, drawnAs, signedUp, marked, menuUnsure>>
\* Slip: whatever is answered, the report is done with
ReportClosed(m) ==
    /\ m.what = "report" /\ Hears(m, {"done", "refused"})
    /\ marked' = TRUE /\ reported' = TRUE /\ panel' = Panel("reported")
    /\ UNCHANGED <<lookup, drawn, drawnAs, signedUp, menuUnsure>>
ReportTaken(m) ==
    /\ m.what = "report" /\ Hears(m, {"done"})
    /\ marked' = TRUE
    /\ reported' = drawn
    /\ panel' = IF drawn THEN Panel("reported") ELSE panel
    /\ UNCHANGED <<lookup, drawn, drawnAs, signedUp, menuUnsure>>
\* A menu is drawn anew: the browser knows at once what the device reported, the app asks its store
MenuMounts ==
    /\ reported' = (drawn' /\ marked /\ ~onApp)
    /\ lookup' = IF onApp /\ drawn' THEN IF marked THEN "known" ELSE "unknown" ELSE "none"
\* The store answers with what it held when asked
LookedUp ==
    /\ lookup # "none"
    /\ reported' = (lookup = "known") /\ lookup' = "none"
    /\ UNCHANGED <<onApp, own, drawn, panel, drawnAs, signedUp, marked, menuAsks, menuSent, menuService, menuUnsure, mixed>>
\* The comment collapses, hides or opens; opened again it has a menu of its own
IgnoreTaken(m) ==
    /\ m.what = "ignore" /\ Hears(m, {"done"})
    /\ drawnAs' = IF m.mode = "hard" THEN drawnAs ELSE m.mode
    /\ drawn' = (drawn /\ m.mode # "hard")
    /\ panel' = Closed
    /\ MenuMounts
    /\ UNCHANGED <<signedUp, marked, menuUnsure>>
\* The panel of what failed says so, whatever the reader has open by now
Back(m) == panel' = IF drawn THEN Panel(m.what) ELSE panel
MenuRefused(m) ==
    /\ Hears(m, {"refused"}) /\ Back(m)
    /\ UNCHANGED <<lookup, drawn, reported, drawnAs, signedUp, marked, menuUnsure>>
MenuGivenUp(m) ==
    /\ m.awaited
    /\ menuAsks' = (menuAsks \ {m}) \union (IF m.answer = "none" THEN {[m EXCEPT !.awaited = FALSE]} ELSE {})
    /\ Back(m)
    /\ menuUnsure' = (menuUnsure \/ m.what = "ignore")
    /\ UNCHANGED <<onApp, lookup, own, drawn, reported, drawnAs, signedUp, marked, menuSent, menuService, mixed>>
MenuSignedOut(m) ==
    /\ Hears(m, {"401"})
    /\ signedUp' = FALSE /\ panel' = Closed
    /\ UNCHANGED <<lookup, drawn, reported, drawnAs, marked, menuUnsure>>
\* The page is opened again, and the menu asks the device what it reported
MenuPageAgain ==
    /\ signedUp /\ ~removed /\ ignoredAs # "hard"
    /\ drawn' = TRUE /\ panel' = Closed /\ drawnAs' = ignoredAs /\ MenuMounts
    /\ menuUnsure' = (menuUnsure \/ \E m \in menuAsks : m.what = "ignore")
    /\ menuAsks' = {[m EXCEPT !.awaited = FALSE] : m \in {r \in menuAsks : r.answer = "none"}}
    /\ UNCHANGED <<onApp, own, signedUp, marked, menuSent, menuService, mixed>>

\* What the menu offers, and what its answers come to
MenuOpens == Toggle \/ OpenRemove \/ OpenReport \/ OpenIgnore
MenuSends == AskRemove \/ AskReport \/ AskUnignore \/ \E mode \in {"soft", "hard"} : AskIgnore(mode)
MenuHears ==
    \E m \in menuAsks :
        GoneFromPage(m) \/ ReportTaken(m) \/ IgnoreTaken(m) \/ MenuRefused(m) \/ MenuGivenUp(m) \/ MenuSignedOut(m)
WebMenu == ~onApp /\ (MenuOpens \/ MenuSends)
AppMenu == onApp /\ (MenuOpens \/ MenuSends)
AppMenuHears == onApp /\ (LookedUp \/ MenuHears)

MenuNext ==
    \/ WebMenu
    \/ ~onApp /\ MenuHears
    \/ AppMenu \/ AppMenuHears
    \/ MenuTurn \/ MenuPageAgain
    \/ \E m \in menuAsks : MenuServed(m)
MenuSpec == MenuInit /\ [][MenuNext]_uvars

\* The menu tells the truth: what it or the device calls reported the service has taken; with nothing
\* on its way the comment is drawn under the ignore the service holds, two requests out together and
\* one given up excepted; a panel shut to clicks waits for an answer; and unless the reader shut the
\* menu over a request under way, he never has two out.
MenuTellsTheTruth ==
    /\ marked \/ reported \/ panel.kind = "reported" => filed
    /\ drawn /\ menuAsks = {} /\ ~menuUnsure => drawnAs = ignoredAs
    /\ panel.busy => \E m \in menuAsks : m.awaited /\ m.what = panel.kind
    /\ ~mixed => \A m, n \in menuAsks : m.awaited /\ n.awaited => m = n
=============================================================================
