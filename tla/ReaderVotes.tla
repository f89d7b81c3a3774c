------------------------------ MODULE ReaderVotes ------------------------------
(* A reader's vote in a poll of an article (PollWidget.tsx, polls.ts) and his *)
(* reaction to a comment (ReactionBar.tsx, useDiscussion.ts, reactions.ts).   *)
(* Both draw a click at once, send it later and take it back when the service *)
(* will not have it. The two share no state: each has an Init and a Next.     *)
EXTENDS Integers, FiniteSets

CONSTANTS
    Options,        \* the options of the poll
    MaxClicks       \* bound: clicks of the reader

ASSUME OptionsAssumption == IsFiniteSet(Options)
ASSUME MaxClicksAssumption == MaxClicks \in Nat

NotFetched == [fetched |-> FALSE, choice |-> {}, closed |-> FALSE]
NoLoad == [state |-> "none", choice |-> {}, closed |-> FALSE]

VARIABLES
    multipleChoice,     \* of the poll
    poll,               \* the poll as drawn
    confirmed,          \* what the service holds of the choice, as far as the widget knows
    desired,            \* ... and what the clicks have made of it
    sending,            \* the loop that sends is running
    load,               \* the last load asked; what comes of those before it is dropped
    known,              \* what the page knows of its session: "nothing", "in", "out"
    expired,            \* a write was turned down for want of one
    cookie,             \* the session, as the services see it
    ballot,             \* the vote the service holds
    over,               \* the service takes no more votes
    votes,              \* writes under way, given up or not
    clicks,             \* clicks so far
    last,               \* the choice the last click made
    crossed,            \* a load was out at a click
    lost                \* what became of writes that failed: "nothing", "refused", "unheard"
pvars == <<multipleChoice, poll, confirmed, desired, sending, load, known, expired, cookie, ballot, over, votes, clicks, last, crossed, lost>>
serverSide == <<cookie, ballot, over>>

Choices == IF multipleChoice THEN SUBSET Options ELSE {c \in SUBSET Options : Cardinality(c) <= 1}

PollInit ==
    /\ multipleChoice \in BOOLEAN
    /\ cookie \in BOOLEAN
    /\ ballot \in {c \in Choices : cookie \/ c = {}}
    /\ poll = NotFetched /\ confirmed = {} /\ desired = {} /\ sending = FALSE
    /\ load = [NoLoad EXCEPT !.state = "out"]
    /\ known = "nothing" /\ expired = FALSE /\ over = FALSE
    /\ votes = {} /\ clicks = 0 /\ last = {} /\ crossed = FALSE /\ lost = "nothing"

CanVote == poll.fetched /\ known = "in" /\ ~expired /\ ~poll.closed
Toggled(o) ==
    IF ~multipleChoice THEN IF o \in poll.choice THEN {} ELSE {o}
    ELSE IF o \in poll.choice THEN poll.choice \ {o} ELSE poll.choice \union {o}
Vote(to) == [n |-> clicks, to |-> to, answer |-> "none", awaited |-> TRUE]

\* A click is drawn at once; the loop is started unless it runs, and goes for the latest click
Choose(o) ==
    /\ CanVote /\ clicks < MaxClicks
    /\ LET to == Toggled(o)
       IN /\ desired' = to /\ last' = to
          /\ poll' = [poll EXCEPT !.choice = to]
          /\ IF sending \/ to = confirmed THEN UNCHANGED <<votes, sending>>
             ELSE votes' = votes \union {Vote(to)} /\ sending' = TRUE
    /\ clicks' = clicks + 1
    /\ crossed' = (crossed \/ load.state # "none")
    /\ UNCHANGED <<multipleChoice, confirmed, load, known, expired, serverSide, lost>>
\* The service: a write replaces the whole choice; one given up may get there at any time, or never
VoteServed(v) ==
    /\ v.answer = "none"
    /\ \E answer \in IF ~cookie THEN {"401"} ELSE IF over THEN {"closed"} ELSE {"done", "failed"} :
        /\ votes' = (votes \ {v}) \union {[v EXCEPT !.answer = answer]}
        /\ ballot' = IF answer = "done" THEN v.to ELSE ballot
    /\ UNCHANGED <<multipleChoice, poll, confirmed, desired, sending, load, known, expired, cookie, over, clicks, last, crossed, lost>>
LoadServed ==
    /\ load.state = "out"
    /\ load' = [state |-> "served", choice |-> IF cookie THEN ballot ELSE {}, closed |-> over]
    /\ UNCHANGED <<multipleChoice, poll, confirmed, desired, sending, known, expired, serverSide, votes, clicks, last, crossed, lost>>
PollTurn ==     \* the poll closes, the session ends
    /\ \/ over' = TRUE /\ UNCHANGED <<cookie, ballot>>
       \/ known # "nothing" /\ cookie' = FALSE /\ UNCHANGED <<over, ballot>>
    /\ UNCHANGED <<multipleChoice, poll, confirmed, desired, sending, load, known, expired, votes, clicks, last, crossed, lost>>

\* Slip: the vote taken is taken for the latest
VoteTakenForLatest(v) ==
    /\ v.awaited /\ v.answer = "done"
    /\ confirmed' = desired
    /\ votes' = votes \ {v}
    /\ sending' = FALSE
    /\ UNCHANGED <<multipleChoice, poll, desired, load, known, expired, serverSide, clicks, last, crossed, lost>>
\* The vote is in: on to the latest click, if there has been one since
VoteTaken(v) ==
    /\ v.awaited /\ v.answer = "done"
    /\ confirmed' = v.to
    /\ votes' = (votes \ {v}) \union (IF desired = v.to THEN {} ELSE {Vote(desired)})
    /\ sending' = (desired # v.to)
    /\ UNCHANGED <<multipleChoice, poll, desired, load, known, expired, serverSide, clicks, last, crossed, lost>>
\* What was drawn is taken back to what is known to be there
TakeBack ==
    /\ desired' = confirmed
    /\ sending' = FALSE
    /\ UNCHANGED <<multipleChoice, confirmed, load, known, serverSide, clicks, last, crossed>>
VoteRefused(v) ==
    /\ v.awaited /\ v.answer \in {"401", "closed", "failed"}
    /\ TakeBack
    /\ lost' = IF lost = "unheard" THEN lost ELSE "refused"
    /\ poll' = [poll EXCEPT !.choice = confirmed, !.closed = @ \/ v.answer = "closed"]
    /\ votes' = votes \ {v}
    /\ expired' = (expired \/ v.answer = "401")
VoteGivenUp(v) ==
    /\ v.awaited
    /\ TakeBack
    /\ lost' = "unheard"
    /\ poll' = [poll EXCEPT !.choice = confirmed]
    /\ votes' = (votes \ {v}) \union (IF v.answer = "none" THEN {[v EXCEPT !.awaited = FALSE]} ELSE {})
    /\ UNCHANGED expired
\* A load is taken for what is there, and for what the reader wants
PollLoaded ==
    /\ load.state = "served"
    /\ poll' = [fetched |-> TRUE, choice |-> load.choice, closed |-> load.closed]
    /\ confirmed' = load.choice /\ desired' = load.choice
    /\ load' = NoLoad
    /\ UNCHANGED <<multipleChoice, sending, known, expired, serverSide, votes, clicks, last, crossed, lost>>
PollLoadFails ==
    /\ load.state \in {"out", "served"}
    /\ load' = NoLoad
    /\ UNCHANGED <<multipleChoice, poll, confirmed, desired, sending, known, expired, serverSide, votes, clicks, last, crossed, lost>>
\* The page learns of its session, or the reader asks again where there is no poll yet: a load
\* asked before no longer counts
LoadAgain ==
    /\ load' = [NoLoad EXCEPT !.state = "out"]
    /\ UNCHANGED <<multipleChoice, poll, confirmed, desired, sending, expired, serverSide, votes, clicks, last, crossed, lost>>
SessionKnown == known = "nothing" /\ known' = (IF cookie THEN "in" ELSE "out") /\ LoadAgain
RetryPoll == ~poll.fetched /\ load.state = "none" /\ LoadAgain /\ UNCHANGED known

PollNext ==
    \/ \E o \in Options : Choose(o)
    \/ \E v \in votes : VoteServed(v) \/ VoteTaken(v) \/ VoteRefused(v) \/ VoteGivenUp(v)
    \/ LoadServed \/ PollTurn \/ PollLoaded \/ PollLoadFails \/ SessionKnown \/ RetryPoll
PollSpec == PollInit /\ [][PollNext]_pvars

----------------------------------------------------------------------------
(* A reaction: one slot of one comment, which holds one value or none.      *)

Values == {"like", "dislike"}
NoTap == [on |-> FALSE, to |-> "none", confirmed |-> "none"]

VARIABLES
    mark,           \* the slot as drawn
    tap,            \* the tap that waits for the taps to settle, and what to put back if it fails
    reactionsOut,   \* requests under way, given up or not
    taps,           \* taps so far
    stored,         \* the slot as the service holds it
    tangled,        \* a request failed after a later tap was made, or was overtaken
    unheard         \* a request was given up
mvars == <<mark, tap, reactionsOut, taps, stored, tangled, unheard>>

ReactInit ==
    /\ stored \in Values \union {"none"}
    /\ mark = stored /\ tap = NoTap /\ reactionsOut = {} /\ taps = 0
    /\ tangled = FALSE /\ unheard = FALSE

\* What a run of taps goes back to is what was drawn before its first
React(v) ==
    /\ taps < MaxClicks
    /\ LET to == IF mark = v THEN "none" ELSE v
       IN /\ mark' = to
          /\ tap' = [on |-> TRUE, to |-> to, confirmed |-> IF tap.on THEN tap.confirmed ELSE mark]
    /\ taps' = taps + 1
    /\ UNCHANGED <<reactionsOut, stored, tangled, unheard>>
\* SETTLE_MS without a tap: one request for the last of them
Settle ==
    /\ tap.on
    /\ reactionsOut' = reactionsOut \union
           {[n |-> taps, to |-> tap.to, back |-> tap.confirmed, answer |-> "none", awaited |-> TRUE]}
    /\ tap' = NoTap
    /\ UNCHANGED <<mark, taps, stored, tangled, unheard>>
ReactionServed(q) ==
    /\ q.answer = "none"
    /\ \E answer \in {"done", "failed"} :
        /\ reactionsOut' = (reactionsOut \ {q}) \union {[q EXCEPT !.answer = answer]}
        /\ stored' = IF answer = "done" THEN q.to ELSE stored
    /\ tangled' = (tangled \/ \E p \in reactionsOut : p.n < q.n /\ p.answer = "none")
    /\ UNCHANGED <<mark, tap, taps, unheard>>
PutBack(q) ==
    /\ mark' = q.back
    /\ tangled' = (tangled \/ taps # q.n)
    /\ UNCHANGED <<tap, taps, stored>>
ReactionAnswered(q) ==
    /\ q.awaited /\ q.answer # "none"
    /\ reactionsOut' = reactionsOut \ {q}
    /\ IF q.answer = "failed" THEN PutBack(q) ELSE UNCHANGED <<mark, tap, taps, stored, tangled>>
    /\ UNCHANGED unheard
ReactionGivenUp(q) ==
    /\ q.awaited
    /\ reactionsOut' = (reactionsOut \ {q}) \union
           (IF q.answer = "none" THEN {[q EXCEPT !.awaited = FALSE]} ELSE {})
    /\ PutBack(q)
    /\ unheard' = TRUE

ReactNext ==
    \/ \E v \in Values : React(v)
    \/ Settle
    \/ \E q \in reactionsOut : ReactionServed(q) \/ ReactionAnswered(q) \/ ReactionGivenUp(q)
ReactSpec == ReactInit /\ [][ReactNext]_mvars

----------------------------------------------------------------------------
(* Properties.                                                              *)

\* With nothing sent and the session standing, the poll is drawn with the vote the service holds, and
\* that is the last click unless it was turned down: quick clicks neither get lost nor land out of
\* order (PollWidget.tsx). Two cases are excepted: a write given up, which may land at any time, and a
\* load that was out at a click, which is taken for what the reader wants although asked before.
LatestVoteStands ==
    clicks > 0 /\ ~sending /\ load.state = "none" /\ ~expired /\ ~crossed /\ lost # "unheard" =>
        /\ poll.choice = ballot
        /\ lost = "nothing" => ballot = last

\* As the comment over the widget has it: quick clicks neither get lost nor land out of order. With
\* every write taken, the service ends up with the last click.
QuickClicksStand == clicks > 0 /\ ~sending /\ load.state = "none" /\ lost = "nothing" => ballot = last

\* With no tap to send and no request out, the slot is drawn as the service holds it, taps undone by a
\* refusal included: a refusal puts back what was there before the run of taps. Excepted are a request
\* given up, one overtaken on the way, and one that failed when a later tap was already made.
ReactionSettles ==
    ~tap.on /\ (\A q \in reactionsOut : ~q.awaited) /\ ~tangled /\ ~unheard => mark = stored

\* Quick clicks settle on what the service holds, on a poll and on a comment alike.
ClicksSettle == LatestVoteStands /\ ReactionSettles
=============================================================================
