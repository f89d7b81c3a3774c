----------------------------- MODULE EditorDialogs -----------------------------
(* The tools that stand beside the text in the editor: transcription of a     *)
(* recording (TranscribeDialog.tsx), the conversation with the assistant      *)
(* (AIChatPanel.tsx), translation (TranslateDialog.tsx) and a new poll        *)
(* (PollDialog.tsx). Each asks a service and may be closed, stopped or        *)
(* changed while the answer travels. The four share no state.                 *)
EXTENDS Integers, FiniteSets, SequencesExt

CONSTANTS
    MaxJobs,        \* bound: transcriptions started
    MaxQuestions,   \* bound: questions asked of the assistant
    MaxWordings,    \* bound: changes of what is to be translated
    MaxHours        \* bound: hours that pass over the poll

ASSUME DialogsAssumption == MaxJobs \in Nat /\ MaxQuestions \in Nat /\ MaxWordings \in Nat /\ MaxHours \in Nat

\* -- Transcription -------------------------------------------------------------

VARIABLES
    dialog,         \* open, the job it knows, its status and the result it shows
    polls,          \* the loops that ask for a job's status: each under way, or waiting for its timer
    timer,          \* the job whose timer can be cleared (0: none)
    jobs,           \* the jobs the service has: what is stored of each, and how far the worker is with it
    starts,         \* starts under way
    cancels         \* cancellations under way
tvars == <<dialog, polls, timer, jobs, starts, cancels>>

NoDialog == [open |-> FALSE, job |-> 0, status |-> "idle", result |-> 0]
\* Downloading counts as processing
Processing == {"pending", "processing"}
NewJob == [status |-> "pending", worker |-> "queued"]
TranscriptionInit == dialog = NoDialog /\ polls = {} /\ timer = 0 /\ jobs = <<>> /\ starts = 0 /\ cancels = {}

OpenTranscription == ~dialog.open /\ dialog' = [dialog EXCEPT !.open = TRUE] /\ UNCHANGED <<polls, timer, jobs, starts, cancels>>
\* A job is started from an idle dialog; a failed one has to be closed first
StartJob ==
    /\ dialog.open /\ dialog.status = "idle" /\ dialog.result = 0 /\ Len(jobs) + starts < MaxJobs
    /\ dialog' = [dialog EXCEPT !.status = "pending", !.result = 0]
    /\ starts' = starts + 1
    /\ UNCHANGED <<polls, timer, jobs, cancels>>
\* The answer is taken whatever became of the dialog meanwhile
Started ==
    /\ starts > 0 /\ starts' = starts - 1
    /\ jobs' = Append(jobs, NewJob)
    /\ dialog' = [dialog EXCEPT !.job = Len(jobs')]
    /\ polls' = polls \union {[job |-> Len(jobs'), at |-> "asking"]}
    /\ UNCHANGED <<timer, cancels>>
StartFails ==
    /\ starts > 0 /\ starts' = starts - 1
    /\ dialog' = [dialog EXCEPT !.status = "failed"]
    /\ UNCHANGED <<polls, timer, jobs, cancels>>
\* A job cancelled before the worker takes it is let go
WorkerTakes == \E j \in DOMAIN jobs :
    /\ jobs[j].worker = "queued"
    /\ jobs' = [jobs EXCEPT ![j] = IF @.status = "failed" THEN [@ EXCEPT !.worker = "over"] ELSE [status |-> "processing", worker |-> "running"]]
    /\ UNCHANGED <<dialog, polls, timer, starts, cancels>>
\* The worker has a copy of its own, and stores it over whatever was stored meanwhile, a cancellation too
WorkerSaves == \E j \in DOMAIN jobs :
    /\ jobs[j].worker = "running"
    /\ \/ jobs[j].status # "processing" /\ jobs' = [jobs EXCEPT ![j].status = "processing"]
       \/ \E s \in {"completed", "failed"} : jobs' = [jobs EXCEPT ![j] = [status |-> s, worker |-> "over"]]
    /\ UNCHANGED <<dialog, polls, timer, starts, cancels>>

\* What the status says: done, and the result is fetched; failed; or the timer is set for the next look
Polled(p) ==
    /\ p.at = "asking"
    /\ dialog' = [dialog EXCEPT !.status = jobs[p.job].status]
    /\ CASE jobs[p.job].status = "completed" -> polls' = (polls \ {p}) \union {[p EXCEPT !.at = "fetching"]} /\ UNCHANGED timer
         [] jobs[p.job].status = "failed" -> polls' = polls \ {p} /\ UNCHANGED timer
         [] OTHER -> polls' = (polls \ {p}) \union {[p EXCEPT !.at = "timer"]} /\ timer' = p.job
    /\ UNCHANGED <<jobs, starts, cancels>>
Fetched(p) ==
    /\ p.at = "fetching" /\ polls' = polls \ {p}
    /\ dialog' = [dialog EXCEPT !.result = p.job]
    /\ UNCHANGED <<timer, jobs, starts, cancels>>
PollFails(p) ==
    /\ p.at \in {"asking", "fetching"} /\ polls' = polls \ {p}
    /\ dialog' = [dialog EXCEPT !.status = "failed"]
    /\ UNCHANGED <<timer, jobs, starts, cancels>>
TimerFires(p) ==
    /\ p.at = "timer"
    /\ polls' = (polls \ {p}) \union {[p EXCEPT !.at = "asking"]}
    /\ UNCHANGED <<dialog, timer, jobs, starts, cancels>>
Cleared_ == {p \in polls : ~(p.at = "timer" /\ p.job = timer)}

\* The dialog turns idle when the service has answered, whatever it said; at once where no job is known yet
CancelJob ==
    /\ dialog.open /\ dialog.status \in Processing
    /\ polls' = Cleared_
    /\ IF dialog.job = 0 THEN dialog' = [dialog EXCEPT !.status = "idle"] /\ UNCHANGED cancels
       ELSE cancels' = cancels \union {dialog.job} /\ UNCHANGED dialog
    /\ UNCHANGED <<timer, jobs, starts>>
Idles == [dialog EXCEPT !.status = "idle", !.job = 0]
\* Slip: a cancellation that fails leaves the dialog as it was
CancelUncaught == \E j \in cancels :
    /\ cancels' = cancels \ {j}
    /\ \/ jobs[j].status \in Processing /\ jobs' = [jobs EXCEPT ![j].status = "failed"] /\ dialog' = Idles
       \/ UNCHANGED <<jobs, dialog>>
    /\ UNCHANGED <<polls, timer, starts>>
CancelHeard == \E j \in cancels :
    /\ cancels' = cancels \ {j}
    /\ jobs' \in {jobs} \union IF jobs[j].status \in Processing THEN {[jobs EXCEPT ![j].status = "failed"]} ELSE {}
    /\ dialog' = Idles
    /\ UNCHANGED <<polls, timer, starts>>
\* Closing forgets the job and leaves it running
CloseTranscription ==
    /\ dialog.open /\ dialog' = NoDialog
    /\ polls' = Cleared_
    /\ UNCHANGED <<timer, jobs, starts, cancels>>

TranscriptionNext ==
    \/ OpenTranscription \/ StartJob \/ Started \/ StartFails \/ WorkerTakes \/ WorkerSaves \/ CancelJob \/ CancelHeard \/ CloseTranscription
    \/ \E p \in polls : Polled(p) \/ Fetched(p) \/ PollFails(p) \/ TimerFires(p)
TranscriptionSpec == TranscriptionInit /\ [][TranscriptionNext]_tvars

\* -- The conversation ----------------------------------------------------------

VARIABLES
    messages,       \* what the panel shows, by question
    loading,        \* a question is under way, as the panel sees it
    stopper,        \* the question the stop button reaches (0: none)
    questions,      \* the questions under way, those already stopped included
    questioned,     \* questions asked so far
    crossed         \* a question stopped while its token was renewed has ended under a later one
cvars == <<messages, loading, stopper, questions, questioned, crossed>>

ChatInit == messages = <<>> /\ loading = FALSE /\ stopper = 0 /\ questions = {} /\ questioned = 0 /\ crossed = FALSE

Message(role, n) == [role |-> role, n |-> n, says |-> IF role = "user" THEN "text" ELSE "nothing"]
SendQuestion ==
    /\ ~loading /\ questioned < MaxQuestions
    /\ questioned' = questioned + 1
    /\ messages' = messages \o <<Message("user", questioned'), Message("assistant", questioned')>>
    /\ loading' = TRUE /\ stopper' = questioned'
    /\ questions' = questions \union {[n |-> questioned', at |-> "sent", stopped |-> FALSE]}
    /\ UNCHANGED crossed
\* The token has run out: it is renewed, once for all requests, and nothing interrupts that
TokenSpent(a) ==
    /\ a.at = "sent" /\ ~a.stopped
    /\ questions' = (questions \ {a}) \union {[a EXCEPT !.at = "renewing"]}
    /\ UNCHANGED <<messages, loading, stopper, questioned, crossed>>
Chunk(a) ==
    /\ a.at \in {"sent", "streaming"} /\ ~a.stopped
    /\ messages' = [i \in DOMAIN messages |-> IF messages[i] = Message("assistant", a.n) THEN [messages[i] EXCEPT !.says = "text"] ELSE messages[i]]
    /\ questions' = (questions \ {a}) \union {[a EXCEPT !.at = "streaming"]}
    /\ UNCHANGED <<loading, stopper, questioned, crossed>>
\* However a question ends, the panel is free again
Ends(a) ==
    /\ questions' = questions \ {a}
    /\ loading' = FALSE /\ stopper' = 0
    /\ crossed' = (crossed \/ stopper \notin {0, a.n})
    /\ UNCHANGED questioned
\* An error takes the answer's place, at the end
WithError(a) ==
    Append(SelectSeq(messages, LAMBDA m : ~(m.role = "assistant" /\ m.n = a.n)), [role |-> "assistant", n |-> a.n, says |-> "error"])
Completed(a) == a.at \in {"sent", "streaming"} /\ ~a.stopped /\ Ends(a) /\ UNCHANGED messages
Errs(a) == a.at \in {"sent", "streaming"} /\ ~a.stopped /\ Ends(a) /\ messages' = WithError(a)
\* No new token: the answer 401 stands, an error even for a question that was stopped. With one the request
\* goes again, and one that was stopped ends there, in silence
Renewed(a) ==
    /\ a.at = "renewing"
    /\ \/ Ends(a) /\ messages' = WithError(a)
       \/ a.stopped /\ Ends(a) /\ UNCHANGED messages
       \/ /\ ~a.stopped /\ questions' = (questions \ {a}) \union {[a EXCEPT !.at = "streaming"]}
          /\ UNCHANGED <<messages, loading, stopper, questioned, crossed>>
Stopped == {IF a.n = stopper THEN [a EXCEPT !.stopped = TRUE] ELSE a : a \in questions}
Halts(left) ==
    /\ loading' = FALSE
    /\ questions' = {a \in left : ~a.stopped \/ a.at = "renewing"}
    /\ stopper' = IF \E a \in questions' : a.n = stopper THEN stopper ELSE 0
    /\ UNCHANGED <<questioned, crossed>>
Stop == loading /\ Halts(Stopped) /\ UNCHANGED messages
ClearChat == messages # <<>> /\ messages' = <<>> /\ Halts(Stopped)

ChatNext ==
    \/ SendQuestion \/ Stop \/ ClearChat
    \/ \E a \in questions : TokenSpent(a) \/ Chunk(a) \/ Completed(a) \/ Errs(a) \/ Renewed(a)
ChatSpec == ChatInit /\ [][ChatNext]_cvars

\* -- Translation ---------------------------------------------------------------

VARIABLES
    wording,        \* the text and the languages, as one number that a change makes anew
    translating,    \* the wording that was sent and is not answered (0: none)
    shown,          \* the wording whose translation is shown (0: none)
    overtaken       \* changed while it was translated, or filled from the editor over a translation
xvars == <<wording, translating, shown, overtaken>>

TranslationInit == wording = 0 /\ translating = 0 /\ shown = 0 /\ overtaken = FALSE
\* Typing, another language or the two swapped take the translation away
Reword ==
    /\ wording < MaxWordings /\ wording' = wording + 1 /\ shown' = 0
    /\ overtaken' = (overtaken \/ translating # 0)
    /\ UNCHANGED translating
\* The selection, or the whole text, put in by a button: the translation stands as it was
Fill ==
    /\ wording < MaxWordings /\ wording' = wording + 1
    /\ overtaken' = (overtaken \/ translating # 0 \/ shown # 0)
    /\ UNCHANGED <<translating, shown>>
Translate == wording > 0 /\ translating = 0 /\ translating' = wording /\ shown' = 0 /\ UNCHANGED <<wording, overtaken>>
Translated == translating # 0 /\ shown' = translating /\ translating' = 0 /\ UNCHANGED <<wording, overtaken>>
TranslationFails == translating # 0 /\ translating' = 0 /\ UNCHANGED <<wording, shown, overtaken>>
\* Every opening has a dialog of its own
ReopenTranslation == wording > 0 /\ wording' = 0 /\ translating' = 0 /\ shown' = 0 /\ overtaken' = FALSE

TranslationNext == Reword \/ Fill \/ Translate \/ Translated \/ TranslationFails \/ ReopenTranslation
TranslationSpec == TranslationInit /\ [][TranslationNext]_xvars

\* -- A new poll ----------------------------------------------------------------

VARIABLES
    hour,           \* the time
    draftPoll,      \* the form: filled in, its deadline (0: none), what the last render made of it
    posted,         \* the deadline of each poll sent, and when
    posting         \* one is under way
qvars == <<hour, draftPoll, posted, posting>>

NoPoll == [open |-> FALSE, filled |-> FALSE, closes |-> 0, ready |-> FALSE]
PollDialogInit == hour = 1 /\ draftPoll = NoPoll /\ posted = {} /\ posting = FALSE
Ahead(f) == f.closes = 0 \/ f.closes > hour
\* A render looks at the clock; nothing renders because an hour has passed
Drawn(f) == [f EXCEPT !.ready = f.filled /\ Ahead(f)]
HourPasses == hour < MaxHours /\ hour' = hour + 1 /\ UNCHANGED <<draftPoll, posted, posting>>
OpenPoll == ~draftPoll.open /\ draftPoll' = [NoPoll EXCEPT !.open = TRUE] /\ UNCHANGED <<hour, posted, posting>>
FillPoll == draftPoll.open /\ draftPoll' = Drawn([draftPoll EXCEPT !.filled = TRUE]) /\ UNCHANGED <<hour, posted, posting>>
\* A deadline is offered a day ahead, and may be picked; one still ahead is kept
ChooseDeadline ==
    /\ draftPoll.open
    /\ \E closes \in {0} \union (hour + 1)..MaxHours + 1 : draftPoll' = Drawn([draftPoll EXCEPT !.closes = closes])
    /\ UNCHANGED <<hour, posted, posting>>
Posts ==
    /\ posting' = TRUE /\ posted' = posted \union {[closes |-> draftPoll.closes, at |-> hour]}
    /\ UNCHANGED <<hour, draftPoll>>
InsertPoll == draftPoll.open /\ draftPoll.ready /\ ~posting /\ Ahead(draftPoll) /\ Posts
InsertTooLate == draftPoll.open /\ draftPoll.ready /\ ~posting /\ ~Ahead(draftPoll) /\ draftPoll' = Drawn(draftPoll) /\ UNCHANGED <<hour, posted, posting>>
\* Made: the form is emptied and closed. Not made: it stands, to be sent again
PollMade == posting /\ posting' = FALSE /\ draftPoll' = NoPoll /\ UNCHANGED <<hour, posted>>
PollNotMade == posting /\ posting' = FALSE /\ draftPoll' = Drawn(draftPoll) /\ UNCHANGED <<hour, posted>>
ClosePoll == draftPoll.open /\ ~posting /\ draftPoll' = NoPoll /\ UNCHANGED <<hour, posted, posting>>

PollDialogNext ==
    \/ HourPasses \/ OpenPoll \/ FillPoll \/ ChooseDeadline \/ InsertPoll \/ InsertTooLate \/ PollMade \/ PollNotMade \/ ClosePoll
PollDialogSpec == PollDialogInit /\ [][PollDialogNext]_qvars

\* -----------------------------------------------------------------------------

\* A dialog that says a job is running will hear how it ends: something asks for its status, or is about to.
\* One that nothing watches shows a progress bar for ever
RunningIsWatched == dialog.status \in Processing => starts > 0 \/ polls # {} \/ cancels # {}

\* The question under way is the one the stop button reaches, and the panel takes no other meanwhile
RunningCanBeStopped == ~crossed => \A a \in questions : a.stopped \/ (loading /\ stopper = a.n)

\* A translation that stands beside a text is of that text, into that language
TranslationMatches == (shown # 0 /\ ~overtaken) => shown = wording

\* No poll goes out with a deadline that is past, however long its dialog has stood open
DeadlinesAreAhead == \A p \in posted : p.closes = 0 \/ p.closes > p.at

\* What each of the four shows is so, or will be heard of
ToolsKeepTheirWord == RunningIsWatched /\ RunningCanBeStopped /\ TranslationMatches /\ DeadlinesAreAhead
================================================================================
