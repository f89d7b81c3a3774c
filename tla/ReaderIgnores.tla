----------------------------- MODULE ReaderIgnores -----------------------------
(* Where a reader changes whom he ignores: the list in his settings           *)
(* (IgnoreList.tsx, ignoreList.ts), the branch his ignores hide               *)
(* (HiddenBranch.tsx), the page of another reader (ReaderIgnore.tsx). The app *)
(* has the first two, built alike.                                            *)
EXTENDS Integers, FiniteSets

CONSTANTS
    Persons,        \* people he may ignore
    Nobody,
    MaxChanges      \* bound: changes asked here and elsewhere

ASSUME NobodyAssumption == Nobody \notin Persons
ASSUME MaxChangesAssumption == MaxChanges \in Nat

Modes == {"soft", "hard"}
NoRow == [state |-> "unread", mode |-> "none", lifted |-> FALSE, busy |-> FALSE]

VARIABLES
    place,          \* "list", "branch" or "profile"
    rows,           \* what it shows of each person
    editing,        \* whose mode is being chosen
    busyId,         \* the branch: whose change is out, as far as it remembers
    shut,           \* the session is over and the place gone
    changes,        \* requests under way, given up or not
    ignores,        \* the modes the service holds
    asks,           \* changes so far
    unsure,         \* people whose mode changed elsewhere since it was read, or whose change was given up
    doubled         \* people two changes of whom were out together
ivars == <<place, rows, editing, busyId, shut, changes, ignores, asks, unsure, doubled>>

Busy(p) == IF place = "branch" THEN busyId = p ELSE rows[p].busy
UnderWay(p) == {c \in changes : c.person = p /\ c.awaited}
Out(p) == {c \in UnderWay(p) : c.here}      \* by what is drawn now
Ready(p) == ~shut /\ rows[p].state = "ready"
Unread == [p \in Persons |-> NoRow]

IgnoresInit ==
    /\ place \in {"list", "branch", "profile"}
    /\ ignores \in [Persons -> Modes \union {"none"}]
    /\ rows = Unread /\ editing = Nobody /\ busyId = Nobody /\ shut = FALSE
    /\ changes = {} /\ asks = 0 /\ unsure = {} /\ doubled = {}

\* The page of the list, or the entry of one person, comes or does not. Only a page of another reader
\* shows one that is not ignored
ReadRow(p) ==
    /\ ~shut /\ rows[p].state \in {"unread", "failed"}
    /\ \E failed \in BOOLEAN :
        rows' = [rows EXCEPT ![p] =
            IF failed THEN [NoRow EXCEPT !.state = "failed"]
            ELSE [NoRow EXCEPT !.state = IF ignores[p] = "none" /\ place # "profile" THEN "absent" ELSE "ready",
                               !.mode = ignores[p]]]
    /\ unsure' = unsure \ {p}
    /\ UNCHANGED <<place, editing, busyId, shut, changes, ignores, asks, doubled>>
\* The picker opens under the row, and any other is closed
Edit(p) ==
    /\ Ready(p) /\ editing # p /\ ~Busy(p) /\ ~rows[p].lifted
    /\ editing' = p
    /\ UNCHANGED <<place, rows, busyId, shut, changes, ignores, asks, unsure, doubled>>
CancelEdit(p) ==
    /\ editing = p /\ ~Busy(p) /\ ~shut
    /\ editing' = Nobody
    /\ UNCHANGED <<place, rows, busyId, shut, changes, ignores, asks, unsure, doubled>>
\* A change goes out: a PUT of a mode, or the DELETE
Send(p, to) ==
    /\ asks < MaxChanges
    /\ asks' = asks + 1
    /\ changes' = changes \union {[n |-> asks', person |-> p, to |-> to, answer |-> "none",
                                     awaited |-> TRUE, here |-> TRUE]}
    /\ rows' = [rows EXCEPT ![p].busy = TRUE]
    /\ busyId' = IF place = "branch" THEN p ELSE busyId
    /\ doubled' = IF UnderWay(p) = {} THEN doubled ELSE doubled \union {p}
    /\ UNCHANGED <<place, shut, ignores, unsure>>
Save(p, mode) ==
    /\ Ready(p) /\ editing = p /\ ~Busy(p)
    /\ IF mode = rows[p].mode    \* the same mode: no change
       THEN editing' = Nobody /\ UNCHANGED <<place, rows, busyId, shut, changes, ignores, asks, unsure, doubled>>
       ELSE Send(p, mode) /\ UNCHANGED editing
Restore(p) == Ready(p) /\ rows[p].lifted /\ ~Busy(p) /\ Send(p, rows[p].mode) /\ UNCHANGED editing
Lift(p) ==
    /\ Ready(p) /\ editing # p /\ ~Busy(p) /\ ~rows[p].lifted /\ rows[p].mode # "none"
    /\ Send(p, "none") /\ UNCHANGED editing

\* The service. A change given up may get there at any time, or never
ChangeServed(c) ==
    /\ c.answer = "none" /\ ~shut
    /\ \E answer \in {"done", "refused", "401"} \union (IF c.to = "none" THEN {} ELSE {"404"}) :
        /\ changes' = (changes \ {c}) \union {[c EXCEPT !.answer = answer]}
        /\ ignores' = IF answer = "done" THEN [ignores EXCEPT ![c.person] = c.to]
                      ELSE IF answer = "404" THEN [ignores EXCEPT ![c.person] = "none"]  \* his account is deleted
                      ELSE ignores
        /\ unsure' = IF answer \in {"done", "404"} /\ ~(c.awaited /\ c.here) THEN unsure \union {c.person} ELSE unsure
    /\ UNCHANGED <<place, rows, editing, busyId, shut, asks, doubled>>
ChangedElsewhere(p, mode) ==
    /\ asks < MaxChanges /\ mode # ignores[p] /\ ~shut
    /\ asks' = asks + 1
    /\ ignores' = [ignores EXCEPT ![p] = mode]
    /\ unsure' = unsure \union {p}
    /\ UNCHANGED <<place, rows, editing, busyId, shut, changes, doubled>>

Heard(c, answers) == c.awaited /\ c.answer \in answers /\ ~shut
\* The view of a branch is asked for again, by whichever block for the branch sent the change: the one
\* that is drawn goes, and what it waits for is no longer heard of there
AskAgain(c) ==
    /\ place = "branch"
    /\ rows' = Unread /\ editing' = Nobody /\ busyId' = Nobody
    /\ changes' = {[d EXCEPT !.here = FALSE] : d \in changes \ {c}}
    /\ UNCHANGED unsure
Taken(c) ==
    /\ Heard(c, {"done"})
    /\ \/ AskAgain(c)
       \/ /\ place # "branch"
          /\ changes' = changes \ {c}
          /\ rows' = [rows EXCEPT ![c.person] =
                IF c.to = "none" /\ place = "list" THEN [@ EXCEPT !.lifted = TRUE, !.busy = FALSE]
                ELSE [NoRow EXCEPT !.state = "ready", !.mode = c.to]]
          \* a save closes the picker, whosever is open by now
          /\ editing' = IF c.to = "none" /\ place = "list" THEN editing ELSE Nobody
          /\ UNCHANGED <<busyId, unsure>>
    /\ UNCHANGED <<place, shut, ignores, asks, doubled>>
\* The row says why and takes clicks again, and in the branch all of them do, whosever change is out by now
Says(c) ==
    IF c.here
    THEN rows' = [rows EXCEPT ![c.person].busy = FALSE] /\ busyId' = Nobody
    ELSE UNCHANGED <<rows, busyId>>
\* Slip: what a refusal leaves behind is not looked at
RefusedQuietly(c) ==
    /\ Heard(c, {"refused"})
    /\ changes' = changes \ {c}
    /\ UNCHANGED <<place, rows, editing, busyId, shut, ignores, asks, unsure, doubled>>
ChangeRefused(c) ==
    /\ Heard(c, {"refused"})
    /\ changes' = changes \ {c} /\ Says(c)
    /\ UNCHANGED <<place, editing, shut, ignores, asks, unsure, doubled>>
ChangeGivenUp(c) ==
    /\ c.awaited /\ ~shut
    /\ changes' = (changes \ {c}) \union (IF c.answer = "none" THEN {[c EXCEPT !.awaited = FALSE]} ELSE {})
    /\ Says(c)
    /\ unsure' = unsure \union {c.person}
    /\ UNCHANGED <<place, editing, shut, ignores, asks, doubled>>
\* The person's account is gone: his row goes, the branch is asked for again, the page says it failed
PersonGone(c) ==
    /\ Heard(c, {"404"})
    /\ \/ AskAgain(c)
       \/ /\ place = "list"
          /\ changes' = changes \ {c}
          /\ rows' = [rows EXCEPT ![c.person] = [NoRow EXCEPT !.state = "absent"]]
          /\ UNCHANGED <<editing, busyId, unsure>>
       \/ /\ place = "profile"
          /\ changes' = changes \ {c} /\ Says(c)
          /\ unsure' = unsure \union {c.person}
          /\ UNCHANGED editing
    /\ UNCHANGED <<place, shut, ignores, asks, doubled>>
\* The session is over: the place goes back to offering a sign-in
IgnoresSessionOver(c) ==
    /\ Heard(c, {"401"})
    /\ changes' = changes \ {c}
    /\ shut' = TRUE /\ rows' = Unread /\ editing' = Nobody /\ busyId' = Nobody
    /\ UNCHANGED <<place, ignores, asks, unsure, doubled>>

\* What a row offers, and what the answers come to
RowOffers(p) ==
    \/ ReadRow(p) \/ Edit(p) \/ CancelEdit(p) \/ Restore(p) \/ Lift(p)
    \/ \E mode \in Modes : Save(p, mode)
ChangeHeard(c) == Taken(c) \/ ChangeRefused(c) \/ ChangeGivenUp(c) \/ PersonGone(c) \/ IgnoresSessionOver(c)
ListRows == place = "list" /\ \E p \in Persons : RowOffers(p)
BranchRows == place = "branch" /\ \E p \in Persons : RowOffers(p)
ProfileRow == place = "profile" /\ \E p \in Persons : RowOffers(p)
ListHears == place = "list" /\ \E c \in changes : ChangeHeard(c)
BranchHears == place = "branch" /\ \E c \in changes : ChangeHeard(c)
ProfileHears == place = "profile" /\ \E c \in changes : ChangeHeard(c)

IgnoresNext ==
    \/ ListRows \/ ListHears \/ BranchRows \/ BranchHears \/ ProfileRow \/ ProfileHears
    \/ \E p \in Persons, mode \in Modes \union {"none"} : ChangedElsewhere(p, mode)
    \/ \E c \in changes : ChangeServed(c)
IgnoresSpec == IgnoresInit /\ [][IgnoresNext]_ivars

\* A row with no change out says what the service holds, unless the mode changed elsewhere, a change of
\* it was given up, or the place let two changes of one person out together; and outside the branch,
\* which remembers one change for all its rows, no place does. A row that takes no clicks waits for an
\* answer: nothing leaves it shut for good.
RowsTellTheTruth ==
    /\ \A p \in Persons : Ready(p) /\ Out(p) = {} /\ p \notin unsure \union doubled =>
          ignores[p] = IF rows[p].lifted THEN "none" ELSE rows[p].mode
    /\ place # "branch" => doubled = {}
    /\ \A p \in Persons : Ready(p) /\ Busy(p) => Out(p) # {}
=============================================================================
