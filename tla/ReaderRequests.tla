---------------------------- MODULE ReaderRequests ----------------------------
(* How the clients read from the discussion service (queue.ts, api.ts,        *)
(* endpoints.ts, the same in the browser and in the mobile app): a few at a   *)
(* time in the order they were asked, each with a timeout and one retry after *)
(* a pause. What the code does between two awaits is one step; what it leaves *)
(* to be done at once after such a step is done before anything else happens. *)
EXTENDS Integers, Sequences, FiniteSets

CONSTANTS
    Concurrency,    \* reads that are out together
    MaxReads        \* bound: reads asked in all

ASSUME ConcurrencyAssumption == Concurrency \in Nat \ {0}
ASSUME MaxReadsAssumption == MaxReads \in Nat

Reads == 1..MaxReads        \* named in the order they are asked
Retries == 1                \* silent retries of a read

VARIABLES
    read,       \* where each read is
    tries,      \* how often it has been sent
    status,     \* what the headers of its answer said
    asked,      \* how many have been asked
    running,    \* slots taken
    line,       \* reads that wait for a slot
    soon        \* continuations that run before anything else does

rvars == <<read, tries, status, asked, running, line, soon>>

Stages == {"unasked", "line", "sent", "body", "pause", "ended"}
Resume(r) == [does |-> "resume", read |-> r]
Return(r) == [does |-> "return", read |-> r]
Going == {r \in Reads : read[r] \in {"sent", "body", "pause"}}

RequestsInit ==
    /\ read = [r \in Reads |-> "unasked"]
    /\ tries = [r \in Reads |-> 0]
    /\ status = [r \in Reads |-> "none"]
    /\ asked = 0 /\ running = 0
    /\ line = <<>> /\ soon = <<>>

\* The task starts, in a slot it has or takes
Start(r) ==
    /\ read' = [read EXCEPT ![r] = "sent"]
    /\ tries' = [tries EXCEPT ![r] = 1]
    /\ running' = running + 1
\* A read is asked: sent when a slot is free, put in line when none is
Enqueue ==
    /\ asked < MaxReads
    /\ asked' = asked + 1
    /\ IF running >= Concurrency
       THEN /\ line' = Append(line, asked + 1)
            /\ read' = [read EXCEPT ![asked + 1] = "line"]
            /\ UNCHANGED <<running, tries>>
       ELSE /\ Start(asked + 1)
            /\ UNCHANGED line
    /\ UNCHANGED status
\* Slips: the first in line is called as something to be done later, or not at all
CallsLate(r) == <<Return(r)>> \o (IF line = <<>> THEN <<>> ELSE <<Resume(Head(line))>>)
\* The first in line is called before the caller of the read that ended goes on
Calls(r) == (IF line = <<>> THEN <<>> ELSE <<Resume(Head(line))>>) \o <<Return(r)>>
\* The task of a read is over, well or not: its slot is free and the first in line is called
End(r) ==
    /\ read' = [read EXCEPT ![r] = "ended"]
    /\ running' = running - 1
    /\ line' = IF line = <<>> THEN <<>> ELSE Tail(line)
    /\ soon' = soon \o Calls(r)
    /\ UNCHANGED <<tries, status, asked>>
\* Something a second try can help with: once more after a pause, and the slot is kept
Retry(r) ==
    IF tries[r] <= Retries
    THEN /\ read' = [read EXCEPT ![r] = "pause"]
         /\ UNCHANGED <<tries, status, asked, running, line, soon>>
    ELSE End(r)

----------------------------------------------------------------------------
(* What runs at once.                                                       *)

\* The first in line is awake, and takes a slot without looking
ResumeStep ==
    /\ soon # <<>> /\ Head(soon).does = "resume"
    /\ Start(Head(soon).read)
    /\ soon' = Tail(soon)
    /\ UNCHANGED <<status, asked, line>>
\* The caller has its answer; it may ask for more there and then
ReturnStep ==
    /\ soon # <<>> /\ Head(soon).does = "return"
    /\ soon' = Tail(soon)
    /\ \/ Enqueue
       \/ UNCHANGED <<read, tries, status, asked, running, line>>

(* What waits for that: a click or an effect, an answer, a timer.           *)

Ask == soon = <<>> /\ Enqueue /\ UNCHANGED soon
\* Headers within TIMEOUT_MS; the body is read without a timer, whether the answer is good or not
Answered(r) ==
    /\ soon = <<>> /\ read[r] = "sent"
    /\ read' = [read EXCEPT ![r] = "body"]
    /\ \E s \in {"ok", "refused", "overloaded"} : status' = [status EXCEPT ![r] = s]
    /\ UNCHANGED <<tries, asked, running, line, soon>>
Unanswered(r) ==    \* the timeout, or no connection
    /\ soon = <<>> /\ read[r] = "sent" /\ Retry(r)
\* The body is there, or what came of it is no JSON: an error with a status stands as that error, a
\* good answer whose body breaks off is an error that is not retried
BodyRead(r) ==
    /\ soon = <<>> /\ read[r] = "body"
    /\ IF status[r] = "overloaded" THEN Retry(r) ELSE End(r)
PauseOver(r) ==
    /\ soon = <<>> /\ read[r] = "pause"
    /\ read' = [read EXCEPT ![r] = "sent"]
    /\ tries' = [tries EXCEPT ![r] = @ + 1]
    /\ UNCHANGED <<status, asked, running, line, soon>>

RequestsNext ==
    \/ Ask \/ ResumeStep \/ ReturnStep
    \/ \E r \in Reads : Answered(r) \/ Unanswered(r) \/ BodyRead(r) \/ PauseOver(r)
RequestsSpec == RequestsInit /\ [][RequestsNext]_rvars

----------------------------------------------------------------------------
(* Properties.                                                              *)

RequestsTypeOK ==
    /\ read \in [Reads -> Stages]
    /\ tries \in [Reads -> 0..(Retries + 1)]
    /\ status \in [Reads -> {"none", "ok", "refused", "overloaded"}]
    /\ asked \in 0..MaxReads
    /\ running \in Int
    /\ line \in Seq(Reads)
    /\ soon \in Seq([does : {"resume", "return"}, read : Reads])

\* No more than Concurrency reads are out together, pauses before a retry included, although one that
\* is called takes its slot without looking whether another took it since.
TwoAtATime == Cardinality(Going) <= Concurrency

\* A read waits in line only while as many are out as may be, or the one called last has yet to take
\* its slot: each that waits will be called by one that ends.
LineIsCalled == line # <<>> => Cardinality(Going) + Cardinality({i \in DOMAIN soon : soon[i].does = "resume"}) >= Concurrency

\* None that is out or over was asked after one that waits.
InTheOrderAsked ==
    \A i, j \in Reads : i < j /\ read[i] = "line" => read[j] \in {"line", "unasked"}

\* Never more than two out, in the order they were asked, and each that waits is called by one that ends.
ReadsTakeTurns == TwoAtATime /\ LineIsCalled /\ InTheOrderAsked
=============================================================================
