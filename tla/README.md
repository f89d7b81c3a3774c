# Tennis Wire, specified and checked

Tennis Wire is a tennis news site: a newsroom that collects items from other sites
and writes articles, a public site with discussions under them, and the accounts of
readers and staff. This directory holds TLA+ specifications of the parts of it where
the order of things matters, the configurations TLC checks them with, and proofs the
TLA+ proof system checks.

Each definition that models code is translated from the source; `PROJECT.json`
(`map`) names the file and the lines it stands for. Paths below are relative to
`src/`. `D/` stands for
`discussion-service/src/main/java/com/tenniswire/discussion_service/service/`,
`U/` for the same directory of user-service, `C/` of content-service, `A/` of
aggregator-service, `P/` for `parsing-service/src/parsing/`, `W/` for
`apps/public-web/`, `M/` for `apps/mobile/` and `E/` for `apps/editorial-ui/src/features/`.

Contents: [the system](#the-system) ·
[modules](#modules-and-what-they-stand-for) · [runs](#what-the-runs-show) ·
[bounds](#bounds-and-why-they-are-enough) · [fairness](#fairness) ·
[proofs](#what-is-proved) · [what is left out](#what-is-not-modelled) ·
[plan](#plan)

## Running

    tlc -workers 2 -config CommentTree.cfg MCCommentTree.tla
    tlapm CommentTreeProofs.tla

Every passing run ends within four minutes. The proofs of a service take half a
minute to a minute and a half each, those of the clients up to five minutes.

## The system

Services of their own databases call one another over HTTP; browsers and the mobile
app reach them through a gateway; Keycloak holds identities.

| Component | State it keeps | Operations | Talks to |
|---|---|---|---|
| discussion-service: comment tree | comments with parent, path, reply count, marks of removal | post, reply, delete, remove, collapse | its own reports and reactions; user-service for subjects |
| discussion-service: reactions | a row per reader, comment and slot; counts on comments; totals of authors | put, change, take back, clear a reader's, absorb at removal | the comment rows that carry the counts |
| discussion-service: polls | polls, options, votes, counts | vote, edit, clear a reader's votes | comments, erasure |
| discussion-service: posting gate | last posts of an author, idempotency keys | let a post through, answer a resend | comment tree |
| discussion-service: reports and moderation | reports, cards in a queue, settled times | report, resolve, reopen after an edit | comment tree |
| discussion-service: expiry of kept text | text of removed comments with a date | wipe it in batches | reports, tree locks |
| discussion-service: restrictions and ignores | bans with an end; ignored authors | ban, lift, sweep, clear | comment tree, reactions, user-service's job |
| discussion-service: locks between trees | advisory locks per tree, row locks for counters | taken by all of the above | the database |
| user-service: deletion of accounts | `pending_identity_delete`, cached token lifespan | ask, close, wait, erase, delete, retry | Keycloak, discussion-service |
| user-service: profiles, display names, avatars | profiles, names held after deletion, picture files | make, rename, delete | Keycloak, the object store |
| content-service: articles and edits | articles with a version, one pending edit each | save, publish, apply, drop, delete, unpublish | editorial-ui |
| content-service: tags, media, pages | tags and their rows | rename, delete, attach | articles |
| aggregator-service: items | items by address, catalog of sources | ingest, update, delete, expire | parsing-service, the desk |
| parsing-service: runs of a source | in Redis: validators, memory, pages to ask again | a run per source and tick | sites, aggregator-service |
| transcription-service | jobs in Redis, pictures and sound in a store | submit, cancel, work | editorial-bff |
| editorial-bff, api-gateway, auth-support | none | pass on, limit, map roles | everything |
| public-web | the comments of a page as drawn, drafts, keys, the session cookie | load, re-root, write, vote, ignore, report, sign in and out, delete the account | the gateway, Keycloak |
| mobile | the same on a screen, tokens in the keychain | the same | the gateway, Keycloak |
| editorial-ui | the form of an article and its buffer of unsaved text, dialogs, the feed, lists of work | save, publish, leave, transcribe, ask, translate, remove and undo, decide | the gateway |

What is hard about them, and so what the properties are for (`PROJECT.json`,
`hazards`, has each at its line):

- **Numbers kept beside what they count.** Reply counts, reaction counts and totals are
  moved by the transaction that changes the rows and never counted again. An error
  stays for good, and a reply count of zero takes a whole branch off the page.
- **Reads before locks.** A persistence context hands back what it read first; a list
  is taken before the locks of what it lists. Each such transaction has a moment where
  another gets in.
- **Work in steps over several systems.** An account goes in five steps over three
  services, a run of the collector is any number of requests to two: any may fail with
  its work done, and a process may stop between any two.
- **Two people on one text.** Versions guard saves, and different rows guard each other.
- **Answers that come late.** A client goes on while its request travels: the page may
  show something else by then, the form may be gone, another request may have overtaken
  this one, or the client may have given up on it while the service carries it out.
- **Clocks.** A token outlives the account it was given out for; the memory of an
  article must outlive its being news.

What would make each right:

| Component | Properties |
|---|---|
| comment tree | stored counts are those of what is shown; all that stands is reachable; nothing stays without a reason; nothing recorded is lost; one takedown takes down one |
| reactions | counts match rows; a comment that is down is bare; totals lose nothing; a clearing leaves nothing |
| deletion of accounts | deleted profiles stay deleted; the trace goes before the profile; no half-closed account is forgotten; every account goes in the end; a ban is not shed |
| articles and edits | nobody overwrites what he was not shown; what was on the site keeps its row; a draft has no edit |
| runs and items | nothing is remembered that did not arrive; a 304 hides nothing; what editors deleted stays so; titles do not go back; news arrives |
| clients: what is drawn | it answers what was asked last; nothing says it loads when no answer is to come; at rest it is what the service holds |
| clients: what is written | nothing typed is lost, written twice, or published in another form than it was seen in |
| clients: sessions | nobody is signed out by an outage; no token is left working with nobody holding it; a deletion is of the account that asked for it |
| the desk | what was removed is deleted, what was undone is not; a feed has no holes |
| cards, gate, names, locks | see [plan](#plan) |

## Modules and what they stand for

| Module | Models | Extends |
|---|---|---|
| `CommentTree` | comments of a discussion, what a page shows of them, how a row goes | instantiates `DiscussionPromise` |
| `DiscussionPromise` | what a discussion shows those who read it: the abstract page | |
| `ReaderErasure` | the erasure of an account and the sweep of a ban over the same tree | `CommentTree` |
| `Reactions` | reactions, counts, totals, and the transactions that read before they lock | |
| `ArticleEditing` | one article, its pending edit, the tabs that work on it | |
| `AccountErasure` | an account on its way out of three services and an identity provider | instantiates `AccountPromise` |
| `AccountPromise` | what a reader who leaves is promised: the abstract account | |
| `NewsFlow` | one source, the collector's runs and memory, the items and their editors | |
| `DiscussionPage` | the comments of a page in the browser: what is drawn, what is asked, what arrives | |
| `MobilePage` | the same on a screen of the app, where it differs | `DiscussionPage` |
| `ReaderWriting` | forms for comments, replies and corrections, drafts, keys | |
| `ReaderRequests` | reads that take turns, with timeouts and a retry | |
| `ReaderVotes` | the vote in a poll and the reaction to a comment, under quick clicks | |
| `ReaderIgnores` | the places where a reader changes whom he ignores | |
| `ReaderMenu` | the menu of a comment: take down, report, ignore | |
| `ReaderSession` | the session in the browser with the deletion of an account; the session of the app | |
| `EditorBuffer` | the form of an article, its buffer in the browser, leaving and publishing | |
| `EditorDialogs` | transcription, assistant, translation and poll beside the text | |
| `EditorDesk` | the feed with removals that can be undone; the lists of drafts, reports and avatars | |
| `MC…` | instances for TLC: model values, symmetry | the module they name |
| `…Proofs` | theorems and the inductive invariants they rest on; `CommentTreeProofs` is about `ReaderErasure` as well, `ReaderPageProofs` about `DiscussionPage` and `MobilePage`, `ReaderClientProofs` about the six modules of `MCReaderClient`, `EditorClientProofs` about the three of `MCEditorClient` | the modules they are about, TLAPS |

`MCReaderClient` and `MCEditorClient` put machines side by side that share no state: a
variable `part` chooses one at the start, and it alone moves. A run therefore explores
the sum of them, and its bounds are those of each.

Operators whose comment begins "Mutant" or "Slip" are not part of a specification: each is one
definition with a plausible mistake, kept to show which property notices it
(`PROJECT.json`, `mutants`).

**`CommentTree`** — `D/CommentService.java`, `D/CommentCollapse.java`. State is the
`comment` table column by column, and whether a report points at a row. An action is a
transaction: it holds the tree's lock from its first read to its commit
(`D/TreeLock.java`). `Create`, `Reply`, `DeleteOwn`, `Hide` are the operations of
`CommentService`; `FileReport` and `CountViolation` are what `D/ReportService.java` and
`D/ModerationQueueService.java` do that the tree depends on. `Collapse` is
`CommentCollapse.of`: the walk up from what was taken down, which decides what leaves
view, which rows go, and what each parent's count loses. The walk goes deepest first and
updates tallies as it goes; `GoFromView` and `RowsGo` say the same as the one set that
agrees with its own judgement. TLC evaluates the set, and the walk's order is what makes it one.

**`DiscussionPromise`** — the page as its readers see it: what stands, what is above each
comment on it, the number beside each. A comment on the page stands or has something
standing under it, and its number is the count of what is shown directly under it; a step
adds a comment, or takes down one that stands (`Next`) or many (`SweepingNext`).
`CommentTree!Promise` maps the rows that are not out of view (`OnPage`), their paths and
stored counts to it. `KeepsThePage` says the specification implements it: the service
counts and collapses row by row, and the page comes out as if it were worked out anew.

**`ReaderErasure`** — `EraseBatch` is a transaction of `D/ErasedReaderWriter.java`,
called in batches by `D/ReaderErasure.java` until nothing is left; since every call may
fail and is repeated, any sequence of batches is possible. `Sweep` is `hideAllBy`. Both
hand the collapse many comments at once, some of them out of view before.

**`Reactions`** — `D/ReactionService.java`, `D/AuthorTotals.java`. A transaction that
takes the counter lock before reading is one action (`Set`, `Clear`, `Remove`). Four that
read first are cut at each such point: `ResolveRead/Hide` (a removal from the queue),
`EraseRead/Rows/Comment` (an erasure of a comment), `ClearRead/Lock/Finish` (the clearing
of a reader), the last also with entities a sweep has left in the context. A row that one
transaction has deleted and not committed blocks another that wants it; where both wait,
the database fails one (`EraseFail`, `ClearFail`).

**`ArticleEditing`** — `C/EditorialArticleService.java` and the tab of
`apps/editorial-ui/src/features/editor/hooks/useArticleSession.ts`. A request is
`Send` (the article is read), `ReadEdit` (its edit is read), and the action that writes;
the write goes through only if the row has the version that was read, as `@Version` has it.
What is written is known by the number of the save that wrote it, so "overwrote what he
was not shown" can be said. `Answered` lets the answer be lost.

**`AccountErasure`** — `U/AccountDeletionService.java` (`Ask` … `StartTrace`),
`U/ErasureJob.java` (`StartPass`, `EndPass`), `U/AccountErasure.java` (`Claim` and the
steps, each commit an action), Keycloak and discussion-service as the code calls them.
Any call may fail with its work done (`Outcome`), any transaction roll back after its
calls (`Rollback`), any instance stop (`Restart`). Time is counted up to where the code
stops caring.

**`AccountPromise`** — the account as its reader can tell: open, shut, emptied (a ban
keeps the address) or gone; what is left of him in discussions; whether he can still act.
`AccountErasure!Promise` maps identity and profile to the stage (`StageOf`), the trace to
the trace, a good token to the ability to act. `KeepsItsPromise` says the specification
implements it.

**`NewsFlow`** — `P/pipeline.py`, `P/state.py`, `P/worker.py`, `A/IngestService.java`,
`A/EditorialItemService.java`. A run is one action per call of Redis or the aggregator:
`StartRun` (feed or 304), then for each entry `Pass`, `TurnAway`, or `Take`, `Send`,
`Mark`, `Queue`, or `SendChange`, `Mark`; then `SaveValidators` and the retries
(`Reread`, `Resend`, `Remark`, `Drop`, `FailAgain`). `Cut` may come between any two.
Of dates there remains where an article's is found (feed, page, nowhere) and whether it
is news or old; an item may be known under the address of the feed or the one its page names.
Assumed of the surroundings: a request without an answer is carried out, if at all, before
the source's next run, and a title that was replaced does not come back.

**Clients in general.** A request is asked, served and answered in steps of its own, so
that an answer meets whatever the page has become, and one the client gave up on may
still be carried out. The service's side is as simple as its answers allow.

**`DiscussionPage`, `MobilePage`** — `W/lib/discussion/tree.ts` (the reducer, an operator
per action), `W/components/discussion/useDiscussion.ts` (the loaders) and the components
that decide what there is to press (`Offers…`, `Readable`). The service's answers follow the
listing and the branches of discussion-service, as they were when it was asked: `Shown` is
what anyone is shown (`D/CommentTree.java`, by the counts it reads), a page and its cursor are cut
from that (`RowPage`), and `Stands`, `CountFor` and `Visibility` apply the reader's ignores to it
afterwards (`D/BlockRenderPolicy.java`), so that a page may come with fewer comments than it has
rows and still go on. Rows that are out of everyone's view and kept for moderation's
record take a place in the real pages and none in these. `generation` drops answers to earlier
full loads; the address changes first and the event that says so loads. `MobilePage`
has the same reducer but for the check against duplicates, and its own way back to the list.

**`ReaderWriting`** — `W/components/discussion/ComposeForm.tsx`, `EditForm.tsx`,
`W/lib/discussion/drafts.ts`, `compose.ts` and the app's. A text is its own class of what
leaves the device; a key goes with a text until it is answered; a form that goes leaves a
draft. **`ReaderRequests`** — `W/lib/discussion/queue.ts`, `api.ts`: what runs between two
awaits is a step, and the continuations it leaves run before anything else (`soon`).

**`ReaderVotes`** — `W/components/content/PollWidget.tsx` and the reactions of
`useDiscussion.ts`: clicks while a write is out, refused, given up or overtaken.
**`ReaderIgnores`** — `IgnoreList.tsx`, `HiddenBranch.tsx`, `ReaderIgnore.tsx`.
**`ReaderMenu`** — `CommentMenu.tsx` in the browser and in the app.

**`ReaderSession`** — `W/lib/auth`, `W/app/api/auth`, `W/lib/gateway/proxy.ts`: any answer
may set or clear the cookie as it was when it was asked for (`raced` remembers that one
did); `W/components/auth/DeleteAccount.tsx`. For the app,
`M/components/auth/ReaderSessionProvider.tsx` and `M/lib/auth`.

**`EditorBuffer`** — `E/editor/hooks/useArticleSession.ts`, `useLeaveGuard.ts`,
`E/editor/lib/draftBuffer.ts`. A text stands for all the form edits. Requests belong to
the page they left from, so an answer may come to a page that was left. `behind` says
that such an answer has taken the buffer or the page of what was typed since.
The rules of the service are those of `ArticleEditing`, as far as one tab sees them.

**`EditorDialogs`** — `TranscribeDialog.tsx` with the routes and the worker of
transcription-service (`tasks.py` saves its own copy of a job), `AIChatPanel.tsx`,
`TranslateDialog.tsx`, `PollDialog.tsx`. **`EditorDesk`** — `E/desk`: `useFeed.ts`,
`useUndoableDelete.ts`, `WorkList.tsx`; `E/moderation`.

## What the runs show

Passing runs. Distinct states are those TLC reports.

| Run | Properties | Shows | States |
|---|---|---|---|
| `comment_tree` | `ReplyCountIsShown`, `StandingIsReachable`, `NoEmptyPlaceholder`, `RecordsStay`, `KeepsThePage` | single posts, deletions, removals, reports and counted violations in any order leave the tree whole, and the page is the one of `DiscussionPromise` | 78,862 |
| `reader_erasure` | `RecordsOfOthersStay`, `PlainTakedownsAreSound` | erasures and sweeps keep other people's records; counts stay right, and the page within what `DiscussionPromise` allows, as long as nothing taken hangs off anything else taken or out of view | 5,769 |
| `reactions` | `TypeOK`, `OnlyStaleCopiesDoHarm` | with every early reader at work, the numbers of a comment go wrong only in a step that ends on a copy of that comment changed since, and an author's total only there or with it | 398,082 |
| `article_editing` | `DraftWorkIsNotLost`, `EditWorkIsNotLost`, `PublishedIsNeverDeleted` | versions keep every draft, every edit within its life, and every id that was on the site | 4,336,380 |
| `account_erasure` | `TraceGoesFirst`, `NothingIsForgotten`, `ClockIsNotReset`, `KeepsItsPromise` | with token lifespans that change by no more than the margin covers, nothing comes back, is left behind or is forgotten: the account is the one of `AccountPromise` | 2,022,988 |
| `erasure_ends` | `EveryAccountGoes` | every account asked away goes in the end, unless bans keep standing | 18,620 |
| `news_flow` | `RememberedHasArrived`, `DeletedStaysDeleted`, `NothingBehindA304`, `OnlyRetriesTurnTitlesBack`, `NewsArrives` | runs cut anywhere lose no news and bring nothing back that was deleted and dated | 345,296 |
| `reader_page` | `ViewFollowsAddress`, `NothingTwice`, `LoadingIsAsked`, `OnlyLatePagesMixOrders` | whatever order answers come in, the block shows what its address asks for, never says it loads for nothing, shows no comment twice (browser), and mixes two orders only by a page asked before a full load | 1,147,355 |
| `reader_client` | `RetryWritesOnce`, `DraftsAreKept`, `ShownIsHeld`, `ReadsTakeTurns`, `ClicksSettle`, `RowsTellTheTruth`, `MenuTellsTheTruth`, `SessionsAreKept`, `MarkStaysWithItsAccount` | a retry writes nothing twice, drafts outlive their forms, reads take turns, the last click stands, ignores and reports are shown as the service holds them, a reader stays signed in until he or Keycloak ends it, and the last step of a deletion opens for the account that asked | 3,703,371 |
| `editor_client` | `WorkIsKept`, `GoesOutAsShown`, `ToolsKeepTheirWord`, `RemovedIsDeleted`, `DeskIsInOrder` | nothing typed leaves both screen and browser unsaved but by the answer to a page left before; what is published is what was shown; dialogs hear of what they say runs; removals, undone or not, come out as said; feed and lists answer what was asked last | 3,298,126 |

Type invariants, `PathsFollowParents`, `AuthorlessIsDown`, `OneComesDownAtATime`,
`OnlyOnesOwnComeDown` and `GoneStaysGone` are in the modules and proved (see below), and
are not run again. `OrderOn` of `Reactions` is `CountsMatchRows` and
`DownIsBare` of one comment, `InOrder` that of all with `TotalIsCollected` of every author; `ClicksSettle` is `LatestVoteStands` (the poll) and
`ReactionSettles` (reactions).

Properties of clients name their exceptions, and each exception is a way things go wrong
that the code does not close: a request given up and carried out late (`unsure`, `lost`,
`unheard`), an answer that sets a cookie which has changed since (`raced`), a load that was
out at a click (`crossed` of `ReaderVotes`), a page of an earlier showing of the same
query (`returned`), an avatar decided upon during a load (`overlapped`), a question
stopped before its request has left (`crossed` of `EditorDialogs`), a text changed while
its translation travels (`overtaken`), a correction sent over another that is still under way
(`over`).

Runs that end in a violation: the code does otherwise than a comment or test beside it
says (`PROJECT.json`, `findings`, quotes them).

| Run | Statement refuted | What happens |
|---|---|---|
| `erasure_loses_standing` | `StandingIsReachable` | a reported comment is down and out of view; its parent no longer counts it. An erasure below walks over it again, `CommentCollapse:94` counts it out of its parent a second time, and the parent drops out of the page with a live reply under it |
| `late_create_takes_work` | `AsksBeforeLeaving` | a new article is saved, its page left and another new article begun. The answer to the save removes the buffer of "new" and moves the browser to the first article (`E/editor/hooks/useArticleSession.ts:255`) past the guard (`useLeaveGuard.ts:11`): the second is neither on screen nor in the browser |

Further statements that do not hold. Those named are in the modules; to see a trace, put
the statement in the place of the properties of the run's configuration, with the change
said:

| Statement | Run | What the trace shows |
|---|---|---|
| `ReaderErasure`, `NoEmptyPlaceholder` | `erasure_loses_standing` | an account answered itself twice and is erased. The one in the middle still has its stored count when the tally is read, so the first comment is judged to hold something (`D/CommentCollapse.java:85`, against its comment at 82-83); both answers go and it stays, without author, reply or record |
| `DraftHasNoEdit` | `article_editing` | `unpublish` looks for an edit and writes the article; the first save of an edit reads the article and inserts elsewhere; both commit (`C/EditorialArticleService.java:234`; 224-225 says "Not while someone holds an edit") |
| `EditsReplaceWhatWasSeen` | `article_editing` | versions of edits start at `e:0` with every new edit; a tab left open through one passes for up to date in the next (`C/EditorialArticleService.java:293`) |
| `SiteIsStillUnderAnEdit` | `article_editing` | an edit begun from one live copy is applied over another: its first save had read the article before another edit was applied |
| `EditKeepsItsHolder` | `article_editing`, 3 saves | the whole row of an edit is written, its owner as read; a later edit with the same version takes the earlier one's owner |
| `GoneStaysGone` | `account_erasure`, `LongerSpec`, margin 1 | the realm is set to longer tokens and the wait is still worked out from the cached lifespan (`U/ErasureJob.java:65`; the comment at `U/AccountErasure.java:110` says a longer-lived token must not be outrun) |
| `GoneStaysGone` | `account_erasure`, `ShorterSpec`, margin 1 | the realm is set to shorter tokens while a long one is still good; the wait goes by the shorter |
| `BanIsNotShed` | `account_erasure` | a ban placed after discussion-service has answered "not banned" is not looked at before the identity goes (`U/AccountErasure.java:132`) |
| `TitlesGoForward` | `news_flow` | a page asked again carries the title first sent (`P/pipeline.py:236`) over a newer one |
| `DeletedNeverReturns` | `news_flow` | an undated article returns once the memory of it has ended; an article whose page gives the date, once that page fails (`architecture/aggregator.md:213` says it does not) |
| `RejectionsLast` | `news_flow` | the tick queues the runs of a new source before it sends the catalog (`P/worker.py:63-69`): its first items are turned down and remembered as delivered |
| `ChangesReachTheirItem` | `news_flow` | a changed title goes under the feed's address while the item is under the page's (`P/pipeline.py:274`): ignored and remembered as delivered |
| `InOrder`, `ClearedHaveNothing` | `reactions` | the early readers' harm: a vote changed between the listing of a reader's reactions and the locks (`D/ReactionService.java:117`), one put while its comment is erased (`D/ErasedReaderWriter.java:67`), one `resolve` did not read (`D/ModerationQueueService.java:76`), one put after the listing |
| `HandOverReplacesOnce` | `reader_client` | the text handed over from a reply whose parent is gone is never cleared (`W/components/discussion/useDiscussion.ts:130,278`): the next form for a comment is filled with it again |
| `QuickClicksStand` | `reader_client` | a poll that loads late turns back the vote just cast (`W/components/content/PollWidget.tsx:89-90`) |
| `OrderFits` | `reader_page` | a page asked in one order is answered after the other was chosen: it is appended and its cursor kept, for `loadMore` does not look at the generation |
| `SpentTokenSignsOut` | `reader_client` | the app's `refresh.ts:35` answers null for every error, an outage included, where line 15 says null means a spent token; the provider empties the keychain (`M/components/auth/ReaderSessionProvider.tsx:75`) |

Seen in the clients and reduced to an exception of a property, or left out of the models:
in the app the stored draft may arrive after typing has begun and replaces it
(`M/components/discussion/ComposeForm.tsx:88`), and drafts are not cleared with the account;
the late answer of a form that is gone closes another reply form and drops its draft;
in the editor, two tabs share a buffer, a crash between the answer to a create and the next
buffering loses what was typed during the save, and `create` has no key, so a lost answer and
a retry make two articles, and in `PollDialog.tsx` two polls; stopping the assistant before its first chunk leaves an
empty message that editorial-bff's `@NotBlank` refuses with every later question; the
worker of transcription-service saves its own copy of a job over a cancellation
(`transcription-service/src/transcription/worker/tasks.py:82`, modelled), and a job that outlives its time
keeps the status it had (`:137`); a failed deletion is unheard once the page was left.

Seen while reading and not yet in a module: `hideAllBy` takes counter locks in the order
Java compares UUIDs, signed, and `clearAllBy` in the order the database does, unsigned
(`D/CommentService.java:277`), so two transactions may each wait for the other; a run
that is cut between `mark_seen` and `schedule_retry` never asks for the text of that
article again (`architecture/aggregator.md:106-110` says it does).

## Bounds and why they are enough

| Run | Bounds | Why |
|---|---|---|
| `comment_tree` | 4 comments, 2 readers; ids and accounts symmetric | a chain of four has a leaf, a placeholder that goes, one that is pinned and a standing root: every case of the walk. Ids come free again, so histories are unbounded. The run may stop when every id is taken by a row that nothing removes, so deadlock is not checked |
| `reader_erasure` | 3 comments, 2 readers, batches of up to 4 | sets that hold parent and child, siblings, and a comment out of view already |
| `reactions` | 2 comments of one author and 3 readers for those that lock first; 1 comment and 2 readers for all the others beside them; 2 values, `MostCount` 2 | a total collects from two comments; the author and one who reacts are enough for every pair of early readers on one comment, among them the deadlocks. `MostCount` stops counts a stale copy has put ahead of the rows |
| `article_editing` | the author with 2 tabs (symmetric), a chief editor with 1; 2 saves, article versions up to 3 | two saves of different people make an edit and a later one; publishing, unpublishing and applying each take a version. Nobody can open a deleted article, so deadlock is not checked |
| `account_erasure` | 1 reader, 2 instances (symmetric), lifespans 1 and 2, cache and margin 2, slack and recheck 1, retries up to 2 | accounts do not interact but through the page of due ones, taken to hold them all; durations are small multiples of a tick, in the order the configuration has them; the margin just covers the difference of the lifespans and the slack |
| `erasure_ends` | 1 reader, 1 instance, lifespans 1 and 2, nothing cached | the lifespan may change for ever; the pass reads it each time |
| `news_flow` | 1 article whose page names another address, its date found anywhere, 2 retries, 2 titles | articles meet only in what a run has left to do, so that one that is in the feed or not, remembered or not, asked again or not, has every case the code tells apart. The invariants are proved for any number of articles; with two, TLC went through 30 million states to depth 20 without finding anything and without coming to an end |
| `reader_page` | 3 comments, one of them a reply and one by a person to ignore, and one more written; pages of 1; 3 full loads, 3 requests, 2 under way | a page of one makes every listing have a next page; two under way are enough to overtake; the third is the one asked after. The browser and the app each from its own start. After the last request only what is under way goes on (`Winds`): there is nothing left a step of the reader could load |
| `reader_client` | per machine: 2 sends and 3 moves of the writer; 4 reads over 2 slots; 3 clicks on 2 options; 2 people and 2 changes; 2 requests of a menu; 2 accounts, 2 logins, 4 trips | a retry needs two sends, overtaking two requests, a line two slots and two that wait; a session is lost between an old login and a new one |
| `editor_client` | per machine: 2 texts, 2 pages, 3 requests, 1 step of a colleague; 2 jobs; 3 questions; 3 wordings; 3 hours; 3 items, 3 turns, 2 removals; 2 cards, 4 loads, 3 decisions | two texts tell the saved from the typed, two pages the left from the open; a removal is overtaken by a second; a third item makes a hole possible |
| `late_create_takes_work` | 2 texts, 2 pages, 1 request | the shortest history |

The runs of clients end where the bounds are used up, so deadlock is not checked there.
Every bound that stops a counter is a constant named in its module (`MostCount`,
`MaxSaves`, `MaxVersion`, `Enough`, `LastTitle`) and is named in a guard there, or where an
age stops being counted because nothing tells larger ones apart.

## Fairness

Only two runs assume any. The clients promise nothing that has to come: a request may stay
out for ever, and their liveness is stated as safety instead — whatever says it loads, runs
or waits has something under way that ends it (`LoadingIsAsked`, `ReadsTakeTurns`,
`RowsTellTheTruth`, `ToolsKeepTheirWord`, `DeskIsInOrder`).

`AccountErasure!FairSpec`: time goes by (`SF(Tick)`: strong, since a step under way
holds time back until it ends); the scheduler starts a pass when accounts are due and ends
it (`WF`); a transaction that is under way ends one way or the other (`WF(Advance)`); and a
call that is made again and again succeeds now and then, and so does the commit after it
(`SF` on claims, calls and commits, per instance and account). The last is what
`ErasureJob` is written for: it retries without end and backs off up to a limit. Failures,
rollbacks and restarts have no fairness: they may come as often as they like, short of
always. What readers do with tokens is left out of this specification's steps, since no
guard of the request or the job looks at it.

`NewsFlow!FairSpec`: the collector takes its steps (`WF(Collector)`: the worker's
cron runs every minute), and an article is not one before which every run is cut (`SF` on
coming to it, on sending and on marking): cuts come from restarts, time limits and
services that do not answer, none of which singles out an article.

## What is proved

TLC looks at small instances; the theorems hold for every value of the constants.
`PROJECT.json` (`theorems`) says which property each is about.

| Module | Theorems | Assumptions |
|---|---|---|
| `CommentTreeProofs` | `TypeCorrect`, `PathsCorrect`, `ReplyCountsCorrect`, `NothingStandingIsLost`, `NothingEmptyIsKept`, `OneAtATime`, `RecordsAreKept`, `PageIsKept`; of `ReaderErasure`: `ErasureTypeCorrect`, `ErasurePathsCorrect`, `StandingIsSigned`, `OthersStayUp`, `OthersRecordsAreKept`, `PlainTakedownsKeepSound`, `PlainErasuresKeepThePage` | `IdsAreFinite`, `NullsAreApart`, for the latter also `BatchesTakeSome` |
| `ReactionsProofs` | `ReactionTypeCorrect`, `LockingFirstKeepsOrder`, `StaleCopiesAlone` | `ReadersAreFinite`, `AuthorsAreReaders`, `NoneIsNoValue` |
| `ArticleEditingProofs` | `ArticleTypeCorrect`, `DraftsAreSafe`, `EditsAreSafe`, `SiteIdsStay` | `BoundsAreNatural`, `NoneIsNoRow` |
| `AccountErasureProofs` | `AccountTypeCorrect`, `ClockStands`; `DeletionIsFinal`, `TraceIsErased`, `NoAccountIsForgotten`, `PromiseIsKept` | `Durations`, `NoneIsNoRow`; of the first two the hypothesis `HasLongest` (the lifespans have a longest), of the others `MarginCovers` (no two lifespans differ by more than the margin exceeds the slack) |
| `NewsFlowProofs` | `FlowTypeCorrect`, `MemoryIsEarned`, `UnmodifiedHidesNothing`, `DeletionLasts`, `TitlesGoBackByRetries` | `NoneIsApart`, `MovedAreEntries`, `BoundsAreNatural` |
| `ReaderPageProofs` | `PageIsInOrder`, `ViewsFollowTheAddress`, `ListsShowEachOnce`, `WhatLoadsIsAsked`, `OnlyLatePagesDo`, `ThePageIsServed` | `BoundsAssumption`, `OldAssumption` |
| `ReaderClientProofs` | `RequestsAreWellTyped`, `ReadsTakeTheirTurns`, `RetriesWriteOnce`, `DraftsStay`, `CorrectionsAreShown`, `BothSettle`, `RowsAreTrue`, `MenusAreTrue`, `SessionsStand`, `MarksStay` | `ConcurrencyAssumption`, `MaxReadsAssumption`, `NobodyAssumption`, `NooneAssumption` |
| `EditorClientProofs` | `WorkStays`, `PublishedAsShown`, `ToolsAreTrue`, `RemovalsComeOut`, `DesksAreInOrder` | `EditorAssumption` |

All but the action properties follow from one inductive invariant per machine; those follow from
it and one step. Four properties are of two or more machines that share no state
(`ClicksSettle`, `SessionsAreKept`, `ToolsKeepTheirWord`, `DeskIsInOrder`): their
theorems take the specifications of all of them together.

- **Tree.** `TreeInv` is the run's invariants and three facts it does not name: ids
  without a row carry nothing, paths run without a gap from the root to their comment,
  and every row is signed. The gap matters: a
  standing comment stays reachable because, if anything on its path left view, then so
  did what is below it on the path, one after another down to the comment itself
  (`PathDescent`, by well-founded reasoning over a finite path), which stands. A count
  that reaches zero means all that was counted has gone (`AsManyIsAll`), the next one on
  the path included.
  `CollapseKeepsTable` is about any set taken, so it serves single takedowns, batches
  and sweeps alike.
- **Erasure.** Counts and reachability do not survive every batch (see
  `erasure_loses_standing`), so `ErasureInv` is the table's part of `TreeInv` with
  `AuthorlessIsDown`; who comes down and whose record stays follow from each step alone.
  A plain batch keeps them: the walk of any number of comments is fair to each it comes by
  (`PlainWalk`), a comment that survives is shown afterwards exactly when it was shown
  before and not passed, and from there the argument is that of the tree. A specification all
  of whose takedowns are plain therefore keeps them for ever (`PlainErasuresKeepThePage`).
- **The page of a discussion.** `PageIsKept` is a refinement. A step of `DiscussionPromise`
  says what the page is afterwards, worked out from what stands; the tree keeps rows, paths and
  counts up to date piece by piece. In between stands one fact about a state (`PageShows`): if counts are
  right, everything standing can be reached and nothing empty is kept in view, then what is not
  out of view is exactly what stands and what is above it, and the stored count is that of its children
  on the page. It holds before and after every step, so what is left to show of a step
  is what comes to stand or ceases to, and that the paths of the others stay.
  The clients are checked against a service of their own, which works out what is shown from
  parents and takedowns. `ThePageIsServed` ties the two: it shows what `DiscussionPromise` says as well, whatever
  its readers ask in whatever order. The fact in between is again about a state: in threads
  whose comments are later than what they answer (`Threads`, true of the first ones by `OldAssumption`), the
  comments directly under one are those whose chain, without themselves, is its own (`UnderIsDirect`). A
  reply on its way keeps its place in a thread until it is served (`Fits`), for no parent changes.
  It speaks of comments without a bound, so no run has it as a property; `comment_tree` checks the same
  promise of the tree.
- **Reactions.** `ReactionTypeCorrect` says what each transaction has in hand at each of its
  stops, the locks it holds included. Harm is local: a step about one comment leaves the rows and
  counts of all others and the totals of all other authors alone (`OthersStand`), and keeps
  the order of its own comment whatever is wrong elsewhere, unless a count or a row of it
  has changed since the transaction read it (`StaleOn`). A transaction that locks first ends on nothing
  stale, whoever else is half way through (`LockedIsFresh`). A total needs more: that the author's
  comments are in order when their counts are moved, so what has gone wrong on a comment reaches
  its author's total with the removal, and nothing else.
- **Articles.** A version binds a copy: a tab or transaction that has the current version
  of the article has its current copy (`ArticleVersionsBind`), for an edit only while it is
  the same edit (`EditVersionsBind`). The second half of that sentence is where
  `EditsReplaceWhatWasSeen` fails.
- **Accounts.** The invariant is a sum: the time a token still has and the time since the
  identity was shut never exceed the longest lifespan and the slack of one step
  (`ShutFor`). The rule waits for a lifespan the realm had when it was read, now or as long ago as the cache
  keeps it, and the margin. If the margin covers what lifespans differ by and the slack, that is
  the longest and the slack at least, so
  when it lets the profile go no token is good, and nobody can leave a trace or be made a
  profile again. The hypothesis is needed: `LongerSpec` and `ShorterSpec` are what happens
  with a margin one smaller. Nothing else is asked of the lifespans; that those covered have a
  longest is proved (`CoveredHasLongest`). `PromiseIsKept` is the
  refinement: under the same invariant every action is a step of `AccountPromise` or leaves
  what it speaks of alone — a profile that goes empties or ends the account because the
  sum says no token is good, and the trace went before it.
  The clock needs no margin (`ClockInv`): a row that is claimed is written by nobody
  but the instance that has it, and the row of an account the job has just shut has no time in
  it yet, so the time it puts there replaces none.
- **News.** The invariant follows an article through a run: sent before it is remembered
  (`SentHasArrived`), remembered before the run is done with it, all of the feed done with
  before its validators are saved (`AnswersAreHandled`), and not taken while a deletion of
  it could be undone (`DeletedIsNotTaken`).
  For the titles: nothing the aggregator has of an article, and nothing that waits to be asked
  again, is ahead of the feed or of the answer the run goes by (`NothingIsAhead`), so whatever
  a run sends for the first time is as new as all that was sent before.
- **The page.** `PageInv` says of every request under way what is still so when it is answered:
  it was asked in no later generation than the page is in, a full load of the present one is for
  the address, a written comment hangs where its request says, and a list or page asked since the
  last full load is in the order chosen. Of what is drawn it says that items hang under nothing and
  replies under the comment they are drawn below (`PageOK`). An answer then either draws the page anew, from what the service holds, or
  changes it in a way that leaves list, address and cursor alone (`SameList`) and brings nothing
  that loads (`Follows`). `NothingTwice` needs that a page's items differ among themselves, which is
  so for any order by rank, and that those already shown are left out. Orders are
  written by rank (`Nth`, the k-th of a set) and not with the recursive filters of the library,
  about which the prover knows nothing; that a rank below the cardinality has exactly one
  holder is proved first, by well-founded reasoning over the naturals.
- **Reads.** The line is the last of those asked, in the order they were asked, and a read
  that was called out of the line has its slot kept for it until it runs: so slots taken and
  slots kept never exceed the limit, and with one free the line is empty.
- **Writing.** What the service wrote or has under way is recorded among what left the device,
  under the key it left with (`Recorded`). A form that keeps a key keeps that of the last text
  it sent and was told nothing of; one that keeps none has been told of everything it sent, or
  was made since (`Remembered`). Two sends of a form with the same text, no other between and
  nothing heard, then have one key (`Keyed`), and a key is written once. For corrections
  (`Corrected`): unless one was sent over another, one is under way at most, and where page and
  service differ it has been done and not answered.
- **Votes and reactions.** The poll sends one write at a time, and until it is taken what the
  widget believes confirmed is so (`OneVoteAtATime`). Reactions may have several out: each goes
  back to what the one before was for (`Chained`), so a refusal of the last leaves the page
  with what the service holds.
- **Ignores, the menu.** A row, or the comment as drawn, is right but for the change that is
  out, and there is one out per person unless the branch was drawn anew (`Told`, `Drawing`);
  who takes no clicks waits for an answer (`Waits`, `Awaiting`).
- **Sessions.** A login is known by the number of the request that came back with it
  (`Numbered`) and by nobody before its code is exchanged (`NotBefore`). An answer changes the
  cookie it was asked under in few ways (`AnswersTo`); so while none has been set over a later
  one the cookie holds the last login and every good token is held or about to be (`Kept_`).
- **The buffer.** Versions bind texts, as they do in the service (`Versions`); requests belong
  to their page, and one that awaits an answer blocks what would overtake it (`Pages`); texts
  come from the service or from his typing (`Origins`). With these, what is his and unsaved is
  on the screen he writes on, and in its buffer when the timer has gone off or he does not
  write on it (`Rest`), unless an answer came to a page that was left.
- **The desk.** Removals are numbered; the one that can still be undone is meant and not
  sent, and every other that is meant has left for the service, whatever page it was made on.
  A page of the feed that was served holds the newest below its cursor and says whether there
  is more, and a page that goes on does so from where the feed ends (`PagesHold`,
  `GoesOnFrom`). A list answers the load asked last, and a card decided and confirmed since
  is in no answer still to come (`Decided`, `BringsNothing`).
- **Dialogs.** A job that is said to run has a request to start it, a poll or a cancellation
  under way; questions are numbered and every one but the latest is stopped.

Only model-checked: the two liveness properties (`EveryAccountGoes`, `NewsArrives`), which the
prover does not reach: it has no rule for `ENABLED`, on which fairness rests. What a recursive definition computes for every input
is out of reach as well; the modules have none.

## What is not modelled

Within the modelled components:

- texts, titles, slugs, tags, embeds and pictures, formats of feeds and pages;
- who may post at all, and how often; edits of comments and what they do to reports;
- the emoji slot of reactions, which works as the vote does; ignored authors, who only
  make a request be refused;
- a ban that is read before a reaction is written, and the write, are one step;
- the page of due accounts: it is taken to hold them all. Hazard
  `U/AccountErasure.java:64` says what could go wrong with a full one;
- dates that change in a feed, the limit of retries per run, pauses after a block,
  the health of sources, and `run-once`;
- in the clients: layout and wording, the content of texts, pictures and embeds, edits and
  reactions inside a page of comments (they change no comment's place), the settings of a profile, pages without a
  discussion, and the credentials' way through the gateway; two tabs of one reader share
  nothing but the cookie;
- a client and a service are never composed in full: the service's side of a client's module
  is what its answers can be, and the service's own module goes into how it comes to them.

Components left out, with reasons (`PROJECT.json` says more): the posting gate, the cards
of reports, the expiry of text, the locks between trees, display names, avatars and tags
are described below. The gateway and auth-support keep no state. Fetching, robots.txt and adapters are I/O
and parsing. Keycloak is modelled as far as the code calls it. Of transcription-service,
polls and editorial-bff there is what the clients meet.

Hazards of those parts, seen while reading and covered by no property: a person's votes
are listed before the locks of their polls (`D/PollService.java:182`); a tag is looked for
in articles and then deleted, and the rows that tie it go with it
(`C/TagService.java:112`); the name to be held is read before the profile is deleted
(`U/AccountErasure.java:148`); the comments of a banned author are listed before their
trees are locked (`D/CommentService.java:270`); one page of due accounts is read per pass,
and enough rows whose failure could not be committed fill it (`U/AccountErasure.java:64`).

## Plan

In the order of what they would find.

1. `ReportCards` — a card settled, a comment edited and reported again; which came first is
   told by times taken when transactions began (`D/ReportService.java:107`), and the two may
   commit the other way round. With `D/TextExpiryWriter.java`, which closes cards. Abstract:
   a report that is accepted is looked at by someone.
2. `PostingGate` — pace and repeats under an author's lock, and a resend under the same key
   compared with what the comment says now (`D/CommentService.java:120`). Abstract: a key
   makes one comment and always the same answer.
3. `TreeLocking` — tree locks, posting locks, counter locks and row locks as sets a
   transaction holds, so that `CommentTree` is refined by transactions that are not whole
   (`INSTANCE CommentTree WITH` a mapping that shows uncommitted work to nobody); freedom
   from deadlock, or the circles there are; the sweep that lists ids before it has locks.
4. `ErasureQueue`, the page of due accounts and who starves in it, and
   `DisplayNames`, the name held after a deletion against a rename meanwhile
   (`U/AccountErasure.java:148`).
5. `Polls`, votes and counts under the lock of a poll, with the clearing that lists first
   (`D/PollService.java:182`), composed with `ReaderVotes`.
6. `TranscriptionJobs` — the queue and the worker's time limit
   (`transcription-service/src/transcription/worker/tasks.py:137`).
7. `EditorBuffer` in two tabs, composed with `ArticleEditing`; avatars and tags.
8. Proofs: refinement theorems for 2 and 3.
