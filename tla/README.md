# RecruitIntel in TLA+

RecruitIntel collects recruiting data (ATS boards, GitHub lists, public web pages, Google
Calendar), derives opportunities and alerts from it, and serves them to students. PostgreSQL is
its only coordinator: work is a row, a lock is a unique index or `FOR UPDATE`, a worker is any
Python process that holds an unexpired lease token, and a request is a handler of
`packages/db/src` that reads, awaits and writes beside others. These modules specify the work in
the background, the handlers behind a candidate's records, and the calendar page that calls them.

Paths below are relative to the repository root. `0007` stands for
`packages/db/migrations/0007_durable_orchestration_source_governance.sql`, and so on; Python paths
are below `services/collectors/src/recruitintel_collectors/`.

## 1. Inventory

| Component | State it keeps | Operations | Talks to | Module |
|---|---|---|---|---|
| **Work ledger** (0007, 0012, `orchestration/repository.py`, `packages/db/src/orchestration.ts`) | `work_items`, `work_attempts`, `dead_letters`, request statuses | request triggers, direct enqueue, claim, start, heartbeat, finish, reap, cancel, requeue; the handlers' writes of their requests | everything in the background | `WorkLedger` |
| **Workers and scheduler** (`orchestration/runner.py`, `dispatcher.py`) | only their coroutines | poll, execute a batch, heartbeat, reap, tick | ledger, handlers | `AtsCollection` |
| **Schedules** (0009) | `schedules` | due tick, enable/disable | ledger, request tables | - |
| **Source policies and health** (0007, `orchestration.ts`) | `source_policies`, samples, incidents | policy review, roll-up | gates enqueue, claim, execution | `WorkLedger` (policies) |
| **ATS collection** (`pipeline/`, `infrastructure/postgres.py`) | `collector_runs`, `jobs`, snapshots, events | open run, fetch, persist a batch, close, fail | provider HTTP, opportunity graph | `AtsCollection` |
| **GitHub sync** (`github/`, `github_postgres.py`, `github.ts`) | links, sync requests and runs, repositories | attach, ask, read, open a run, compare, persist, fail | GitHub API, ledger | `GithubSync` |
| **Public web and search budgets** (`public_web/`, `public-web.ts`, 0009) | work requests, queries, candidates, usage per day | request, claim, reserve, search, fetch, retry | search APIs | `WebSearch` |
| **Rate limits** (`repository.py`) | next allowed time per host | acquire | all HTTP clients | - |
| **Calendar and plans** (`calendar.ts`) | `calendar_items`, `application_plans` | materialise dates, edit, complete, delete, plan, archive | calendar page | `CalendarPlanning` |
| **Google Calendar** (`google-calendar-oauth.ts`, `calendar.ts`, `calendar/`) | authorization states, connections | authorize, callback, refresh, disconnect, sync | Google | `GoogleConnection` |
| **Opportunity graph** (0010, `opportunities.ts`, `resolver.py`) | memberships, supersession, keys, reviews | resolve, merge, split, review; the paged list | ATS, GitHub, alerts | `OpportunityGraph`, `OpportunityListing` |
| **Alert fan-out** (0011-0013, 0017, `personalization/alerts.py`) | `alert_evaluation_requests`, alerts | triggers, due scan, fan-out, evaluate | ledger, mailbox | `AlertFanout` |
| **Watchlists, recommendations, mailbox** (`personalization.ts`, `recommendation-scoring.ts`) | watches, preferences, dismissals, alerts | owner-scoped updates; rank and score | alert fan-out | `Watchlists`, `Recommendations`, `RecommendationScoring` |
| **Resume and matching** (`resume.ts`, 0019-0031) | documents, versions, evidence, matches | upload, parse, review, correct, match, bind, delete | applications | `ResumeMatching` |
| **Applications** (`applications.ts`, 0014) | applications, events | create, import, change status, assessment, archive | resume, calendar | `ApplicationTracking` |
| **Interviews and preparation** (`applications.ts`, `interview-prep.ts`) | interviews, their calendar items, checklists | schedule, update, prepare, complete | calendar, connection pool | `InterviewTracking` |
| **Outreach** (`outreach.ts`) | contacts, drafts, sends | draft, edit, approve, record a manual send | - | `Outreach` |
| **Browser companion** (`browser-companion.ts`) | scans, candidates, decisions | upload, select, ingest, link | applications, opportunities | `BrowserCompanion` |
| **Recruiters and campus** (`recruiter-campus.ts`) | profiles, evidence, summary rows | create, add evidence, refresh | - | `RecruiterDirectory` |
| **Identity, privacy, beta access** (`identity.ts`, `beta-access.ts`, `authorization.ts`) | users, grants, privacy requests | authorize, grant, refresh, revoke, delete | everything owner-scoped | `UserAccounts` |
| **Calendar page** (`apps/web/components/calendar`, `apps/web/lib/api/calendar.ts`) | the items it shows, the open form, requests under way | list, toggle, edit, add, delete; convert times | routes of the calendar | `CalendarPage`, `WallClock` |
| **Model gateway**, **analytics and operations**, **other pages**, **extension**, **normalisation** | derived rows or none | pure functions, read queries, rendering | - | - |

### Where it is hard, and what correctness means

* **Leases** (ledger). A worker may stall for longer than its lease and come back. Correct: a
  token that was superseded changes nothing; every claim is charged; every item settles; an
  exclusive target never has two active items.
* **Two writers of a request** (ledger and handlers). A trigger projects the status of the work onto
  its request; the handler that serves the request sets it as well, in a transaction of its own,
  with or without a look at what it says by then, and also after its lease was lost. Correct: an
  open request is never forgotten, and none is opened beside another.
* **Side effects outside the fence** (ATS, GitHub, web, calendar). Domain tables are written in
  transactions of their own, before `finish`. Correct: an older result never overwrites a newer
  one, success implies persisted effects, a run is closed when its attempt is.
* **Unique indexes as locks** (fan-out, schedules). A conflict is swallowed, or aborts everything
  in its transaction, depending on the `ON CONFLICT` target. Correct: nothing is lost silently.
* **Retries of handlers that already committed** (fan-out, calendar, web). Correct: idempotent.
* **Bounds** (attempts, search budget, batch of 250, connection pool): off-by-one, races, deadlock.
* **Reads without locks** (every handler of the API). Transactions run at READ COMMITTED; many
  handlers read in one statement and write in another. Correct: what was read may be stale when it
  is used, yet histories, counters, approvals and deletions stay what they claim to be.
* **Deletion** (resumes, accounts, calendar items). Correct: it goes through, leaves nothing behind
  and nothing that was under way brings anything back.
* **Times** (calendar page, paged lists). Zones change their offset, and precision is lost between
  PostgreSQL, JavaScript and a form. Correct: an untouched form moves nothing off its minute, a page
  skips nothing.

`PROJECT.json` lists these hazards at the lines where they bite, with the properties that cover them.

## 2. The modules

| Module | What it is |
|---|---|
| `WorkLedger` | The ledger: one action per database function. Callers are unconstrained. |
| `ExclusiveWork` | What the ledger promises, without leases, tokens, workers and time. |
| `WorkLedgerProofs`, `WorkLedgerLifeProofs` | Proofs about `WorkLedger`: types, budget and the fence; exclusive keys, dead letters, requests and the refinement of `ExclusiveWork`. |
| `AtsCollection` | Extends `WorkLedger` with worker processes and the ATS handler. |
| `AtsCollectionProofs` | Proofs about `AtsCollection`, on top of the ledger's, about `InterviewTracking`, and about the two side by side (`MCCollectionAndInterviews`). |
| `AlertFanout`, `GithubSync`, `WebSearch` | The other work of the collectors, over the indexes and leases of the ledger. |
| `ApiRequests` | What the handlers of the API have in common: requests that may stop between any two steps. |
| `ApplicationTracking`, `ResumeMatching`, `InterviewTracking`, `CalendarPlanning`, `Outreach`, `BrowserCompanion`, `Watchlists`, `Recommendations`, `RecruiterDirectory` | One component of the API each, over `ApiRequests`. |
| `UserAccounts`, extended by `GoogleConnection` | The account, and Google's rows that the deletion of the account meets. |
| `OpportunityGraph`, `OpportunityListing` | Which posting belongs to which opportunity; the pages of their list. |
| `RecommendationScoring` | The scoring function, as operators over the facts and the wishes. |
| `WallClock`, extended by `CalendarPage` | Local times and instants; the calendar page as a client of the server. |
| `CollectorProofs` | Proofs about `AlertFanout`, `RecruiterDirectory`, `GithubSync`, `WebSearch` and `CalendarPlanning`, and about all of them side by side (`MCCollectorsAndCalendar`). |
| `ClientRequestProofs` | Proofs about `Outreach`, `BrowserCompanion`, `ApplicationTracking`, `Recommendations`, `OpportunityGraph`, `RecommendationScoring`, `OpportunityListing` and `Watchlists`. |
| `CandidateRecordProofs` | Proofs about `GoogleConnection` with `UserAccounts`, `ResumeMatching`, and `CalendarPage` with `WallClock`. |
| `RecordProofs` | Proofs about the components of the API side by side (`MCCandidateRecords`). |
| `FiniteFacts` | Lemmas the proofs share: maxima, least sets, sums, injections, induction. |
| `MCWorkLedger`, `MCAtsCollection`, `MCAlertFanout`, `MCCollectorsAndCalendar`, `MCCollectionAndInterviews`, `MCCandidateRecords` | Instances for TLC. |

**WorkLedger.** `work`, `attempt`, `letters`, `request` are the tables, `executable` the value of
`source_policy_is_executable` per target. A *target* is what an exclusive key names. Timestamps are
countdowns: `lease = 0` is `lease_expires_at <= now()`, and `Tick` is the passing of time. A lease
token is the number of the claim that drew it, since `attempt_count` and `lease_generation` are
incremented by the same update. `HoldsLease` is the fence; `w` may try any attempt it was ever
given, so a zombie worker needs no action of its own. `Finish` does not look at the expiry, as in
the code. Principals, scopes and bindings are abstracted: a worker whose principal is revoked is
one that takes no more steps. Health samples are left out. The alert work types have request rules
of their own (no one-active index, continuations that share a request) and live in `AlertFanout`.

The database functions are the only writers of the ledger, not of a request's status: the handler
of an attempt writes that too. `serving[i][n]` says how far it is. `TakeRequest` sets the request
`RUNNING` where the handler sees it `PENDING` (`MayTake`); `CloseRequest` is its last write, in the
statuses and under the conditions of its kind: GitHub's handlers settle a request that is still
`RUNNING` (`github_postgres.py`), those of the public web and the calendar write whatever it says by
then (`Overwrites`), and so may set it back. Both are possible while the attempt runs and after it
was abandoned (`MayRun`). `IndexKept` is the one-active index of the request tables: the projecting
trigger is refused with the transaction it belongs to (a guard of `Finish`, `Reap` and so on), a
handler's write by itself.

Two consequences of these writes are not stated as properties. GitHub's handler settles its request
before the item is finished: an occurrence due in between passes the index of the requests, and its
item violates the exclusive key, which aborts that tick of the schedules. And `fail_run` of the
public web may re-open the request of a lost lease beside newer work, whose own expired lease the
reaper then cannot give back: its whole call is refused by the index, each time, until somebody
settles one of the two requests.

**ExclusiveWork.** An item is absent, queued, held, settled; each hand-out costs a try; one
transaction may submit several items, but none for an exclusive subject that another live item has.
`ImplementsExclusiveWork` is the ledger's refinement, with the phase derived from the status and the
target as the subject; `AlertsImplementExclusiveWork` that of the alerts, whose subject is the
exclusive key: a user's lane, or an event's.

**AtsCollection.** `handler[i][n]` is the coroutine that executes attempt `n` of item `i`, as the
next call it will make; `runs[i][n]` the `collector_runs` row of that attempt. A step is one
transaction or one HTTP exchange. `BeatFails` is `_execute_handler` cancelling the handler;
`Rejected` is the stale-lease error that leaves `gather` and ends the process with its whole
batch; `Crash` is the same from outside. `board[t]` counts the provider's changes; a batch is the
version it was fetched at, `stored[t]` the version last persisted, so "an older batch overwrites a
newer one" is a decrease of `stored`. What `persist_complete_batch` does per job is abstracted.

**AlertFanout.** `fanout[e][a]` is the ALERT_FANOUT item of event `e` that continues after user
`a`, `evaluation[e][u]` the ALERT_EVALUATE item of a user; both are keyed as their idempotency
fingerprints are. `Conflict` says when an insert runs into an exclusive index that its
`ON CONFLICT` clause does not name, which aborts the whole batch. The handlers' commit and the
ledger's finish are separate steps, and an attempt can be lost before, between or after them.

**GithubSync.** `syncs[w]` is the run of a worker, as the call it makes next; what it read before
its run (`previous`, the watched files) stays with it. `parsed[f]` is the commit a file's records
come from, so "a file was skipped" is a difference between `parsed` and the last change before
`processed`. The branch is linear. A worker whose lease was reaped goes on beside its successor.

**WebSearch.** `lookups` is the latest request of each target, as its unique index allows; a
reservation is three steps (the transaction and its day begin, the budget row is locked and read,
the day is charged), so that another search and midnight may come in between. What the ledger makes of a failed run is `TakeBack`.

**The API.** In every module of the API a variable such as `tracking`, `resuming` or `planning`
holds, per request, what a handler has read and what it will do next (`Idle` when it does nothing).
A handler that is one transaction under one lock, or one statement, is one action; a transaction
that reads first and writes later is two, whose second re-checks exactly what the code re-checks
(a row lock, a `where version = ...`, a unique index). `Abandon...` is a request that stops half
way. Ids are given out by the handlers; idempotency keys are chosen by the client, so they may be
used again for something else. Where one representative suffices the module says so: one skill in
`ResumeMatching`, one task per plan in `CalendarPlanning`, one key in `OpportunityGraph`.

**InterviewTracking** counts connections: `createInterviewPrepPlan` holds one and asks the pool for
another, so `FreeConnection` is a guard of its steps.

**OpportunityGraph** has the row locks and the company's advisory lock as the order in which a
correction checks and writes; an opportunity is named by the posting it came from.

**RecommendationScoring** computes the nine factors and the weighted score, rounded where the code
rounds, but exactly, where the code's product is a float (next to a half the two may differ by one;
both are monotonic, and no property depends on more);
its "steps" change one fact or one wish, so that a property can compare two scores.

**WallClock** has instants and local times as integers, finer than a minute, and zones with one
change of offset, which suffices: `zonedDateTimeToIso` looks at instants less than two days apart.
`ToMinute` is where the page loses the rest: `zonedTime` shows HH:MM, and `zonedDateTimeToIso`
compares and sends times whose seconds are 0. So a form that is saved untouched stores
`OnTheMinute(t)` of an item `t` with seconds, which the API accepts. **CalendarPage** has the
messages between page and server as `calls`, which are served and answered in any order or lost;
`shown` is the page's copy, `board` the server's rows.

**OpportunityListing** has time in microseconds and `Timestamp` as the truncation to milliseconds.

## 3. The runs

All `pass` runs finish; all bounds are constants of the configurations or constraints named here.

| Run | Shows | Bounds and why they are enough |
|---|---|---|
| `ledger_repository` | leases match attempts, one active item and one open request per target, no open request is forgotten and a `RUNNING` one has a handler that took it, history is final, tokens grow | 3 items of one repository, 2 attempts: an original, its requeued successor and a new occurrence; one worker, which may present its superseded tokens (two contend in `ledger_mixed`), and a handler per attempt. `RepoBounds` below |
| `ledger_mixed` | attempt budget, dead letters, refinement of `ExclusiveWork` | 2 items over 3 kinds of work: one with `NO_RETRY`, one owner-scoped whose handler writes its request unconditionally, one unkeyed |
| `collection_and_interviews` | one writer per source, no older batch over a newer, success means persisted, items settle; an interview has one calendar item, a checklist one task per entry, and preparing ends | 1 item, 2 attempts, 2 workers: a zombie beside its successor; 2 board changes, so that both may have fetched different boards. 2 requests, 1 interview, 3 calendar items (one more than one interview with one checklist entry needs), a pool of 3, the code's size outside production |
| `collectors_and_calendar` | fan-out skips nobody, no child is stranded, success means evaluated; a sync skips no watched file; no budget is exceeded; a summary covers all its evidence; what was deleted stays deleted | 3 users in batches of 2, an event, a calendar item and a two-batch scan, one lost attempt. 2 workers, 2 commits after the first, 2 files, changing watched paths. 2 queries and a budget of 1 over 2 days. 2 requests on one subject from 2 pages. 1 source date, 1 plan, 1 entry, 2 days |
| `candidate_records` | the other components, listed below | 2 requests; two of everything that may be mixed up, three postings, three candidates of two scans. A minute of 2 instants (its start and a later second), a day of 6 minutes, zones that skip minutes or show them twice |

The properties of `candidate_records`: an application's status is the target of one of its events
(`ProjectionRecorded`); a deleted resume leaves nothing derived from it
(`NothingOutlivesItsDocument`); an authorization code is exchanged once (`CallbackOnce`); nothing
of a deleted user exists or comes back (`NothingOfADeletedUser`); a draft is sent once, in the
version approved (`OneSendPerApproval`); a selection counts once (`SelectedOnce`); the listings miss
no posting (`PostingsAreListed`) and postings found distinct stay apart (`DistinctStayApart`);
stored preferences were sent by somebody (`NoMixedPreferences`); what was dismissed on its present
facts is not shown (`DismissedStaysAway`); learning something favourable demotes nothing
(`LearningNeverDemotes`); a local time is stored as the first instant of a minute that shows it
(`LocalTimesConverted`); an untouched form keeps an item's times but for the seconds, which the page
drops (`UntouchedFormKeepsTimes`); an opportunity that stays where it is is shown once, and skipped only within the millisecond of a
page's last row (`SteadyRowsComeOnce`).

**Components side by side.** `candidate_records`, `collectors_and_calendar` and
`collection_and_interviews` put components that share no variable into one run. A property of one
of them depends on that one's variables only, and any behaviour of all together is for it a
behaviour of that one that stutters; so it is enough that one component moves. `focus` says which:
TLC explores the sum of the state spaces and not their product. Components that do share rows are
composed by `EXTENDS` instead (`AtsCollection` and the ledger, `GoogleConnection` and the account,
`CalendarPage` and the conversions).

**Constraints.** `RepoBounds`: an operator or a policy stops one item; two attempts are abandoned
whose handlers may still write, and one of these handlers takes its request. `RecordBounds`: one pair of postings under review or found distinct, three events
per ledger of applications, no form for a new item while an item is selected. `SyncBounds`: a file
changes once after the first commit; the repository is not disabled once it was read; watched paths
differ from those of the first sync while at most one worker is busy; a worker without its lease
stops before a report that would be refused. A state beyond a constraint is checked but not
followed, so longer histories than these are not covered. No constraint cuts a component whose
liveness is checked.

Runs that must find a violation, each of one sentence of the documentation or code comments:

| Run | What the code does instead |
|---|---|
| `ledger_suppression` | cancelling an unclaimed item leaves its request `PENDING`, which suppresses the target's later occurrences although nothing is active |
| `ats_orphan_runs` | a failed heartbeat call cancels the handler, nobody closes its run, and the source answers `RunAlreadyActive` until an operator steps in. The same happens when a worker that was reaped before `create_run` opens its run afterwards and dies |
| `alert_fanout_large` | a fan-out of more than a batch can never insert its continuation, and dies with all its attempts |
| `alert_second_event` | a second calendar event of a busy user is recorded and never evaluated |
| `resume_deletion` | a resume whose evidence a match cites, or whose match an application names, cannot be deleted: `on delete set null` of the composite keys nulls a `NOT NULL` user id |
| `account_deletion` | an account whose work a worker holds cannot be deleted: the work is cancelled with its lease columns in place, which a `CHECK` refuses |
| `opportunity_pages` | the cursor of the opportunity list has milliseconds and the column microseconds; all postings of a board are seen at one instant, so the page after one that ends inside a board skips the rest of it. With `Milli = 1` the same property holds, which is proved (section 4) |

Symmetry (items, workers) is used only in runs without liveness. `CHECK_DEADLOCK FALSE` is said
where the system may come to rest: events, versions, days or ids are finite there. In the ledger
runs policy changes or time can always happen.

The ATS instance with 3 attempts and one board change (466,360 states) was checked as well; it is
not a configured run because it takes too long.

**Fairness.** `WorkLedger` has none: its callers are unconstrained, and liveness is asked of it
under the worker loops of `AtsCollection`. `CFairness`: time passes, `run_scheduler` reaps on every
turn of its loop, `run_worker` polls whenever its last batch has returned, and the event loop runs
each coroutine, whose HTTP calls have timeouts. Neither heartbeats nor crashes are fair.
`PrepFairness` is strong for each step of a preparation: the pool of `postgres.js` and PostgreSQL's
row locks serve those who wait in their order, and a running transaction goes on. Two requests and
three connections satisfy the condition under which preparation cannot deadlock (fewer preparing
requests than connections); as many requests as connections would wait for each other for ever.
`AlertFanout`'s two violation runs assume that the personalization worker keeps working.
A handler that succeeds at heartbeating for ever without returning is excluded by the client
timeouts, not by the ledger: there is no limit on the number of heartbeats.

## 4. The proofs

The theorems hold for any sets of items, targets, workers, requests, users, postings, drafts,
documents and so on, and for any budget, lease length, batch size, limit and clock that satisfy
the assumptions; in particular for any number of concurrent requests and repetitions, where the
runs have two. Each rests on an inductive invariant; the table says what it adds to the property
and why that is needed.

**The ledger, ATS collection and interviews** (`WorkLedgerProofs`, `WorkLedgerLifeProofs`, `AtsCollectionProofs`)

| Theorem | Says | Argument |
|---|---|---|
| `TypeCorrect`, `BudgetSafe` | `Spec => []TypeOK`, `[]ClaimableHasBudget` | `Budgeted`, their conjunction, is inductive: a claim stays in the type of `attempts` only because a claimable item has an attempt left |
| `LeaseSafe` | `[]AttemptsMatchLease` | `Fenced` = `Budgeted` and `Matches(work[i], attempt[i])` for every item. `Matches` adds that an absent row was never claimed (an insert resets nothing) and that a settled row waits for nothing (time leaves history alone) |
| `HistorySafe`, `TokensSafe` | `HistoryIsFinal`, `TokensOnlyGrow` | each action, from a `Fenced` state, moves every item `Forward`; both action properties are parts of that relation |
| `KeySafe` | `[]OneActivePerTarget` | every step is one insert, which looks at the key, or `Advances` the items there are, which activates none |
| `LettersSafe` | `[]LettersMatchStatus` | `LettersKept`: what is buried is settled and stays, and only finish and reap bury |
| `RequestsSafe`, `RequestsAreWorkedOn` | `[]OneOpenRequestPerTarget`, `[]OpenRequestsHaveWork` | `Carried`: an item carries a request of its own target that was inserted with it or before it, so with `KeySafe` a request has one active carrier at most; and, for handlers that look before they write, a request that is `RUNNING` was taken by one handler that has not closed it, one that is open has an item that is active or was cancelled unclaimed, and no request of the target but its own is open beside an active item. `IndexKept` holds for every kind, since what would break it is refused |
| `LedgerImplementsExclusiveWork` | `Spec => Life!Spec` | the same case split: an insert is `Submit`, `Advances` is `Advance`; `Aimed` (items have targets) makes the requeue's subject one. `CollectionIsExclusiveWork`: so does the ledger with the ATS handlers on top of it |
| `CollectionUsesLedger` | `CSpec => Spec` | each handler step is a ledger step or leaves the ledger alone; it hands the ledger's invariants to the proofs below |
| `CollectionTypeCorrect`, `WritersExclusive`, `StoredMonotonic` | `[]CollectionTypeOK`, `[]OneWriterPerSource`, `StoredNeverRegresses` | `Collecting`: one open run per source, handlers only of items that exist, and every batch that may still be persisted is between `stored` and `board`. Most steps are `Quiet`; opening a run, collecting and persisting have lemmas of their own |
| `SuccessIsPersisted` | `[]SucceededMeansPersisted` | `Earning`: a coroutine about to report success has a run that succeeded, and no execution has a number beyond its item's attempts, so a new claim finds no run of its own |
| `InterviewTypeCorrect`, `InterviewItemsMadeOnce` | `[]InterviewTypeOK`, `[]ItemsMadeOnce` | `Arranging`: a task of a checklist and its item name each other, a plan that was made has all its tasks, and the meeting or the item a request works for exists |
| `PreparingNeverStuck`, `PreparingNeverHalts` | `[]PreparingMoves`, with `[]FreeConnection` when there are fewer requests than connections | `RoomLeft`: ids are left for every task that has none yet, so the statement that makes them always finds some. A request that prepares goes on when its statement's condition holds (`GoesOn`, on TLC's instances the same as `ENABLED PrepStep(r)`); only the lock of a plan can make it wait, and who holds that lock waits for nobody but the pool |
| `BothAreComponents`, `BothTypeCorrect` | `BothSpec => CSpec /\ ISpec`, `[]BothTypeOK` | a step of the run is for each component a step of its own or a stutter |

`WritersExclusive` and `StoredMonotonic` do *not* use leases. The one-running index and the run
check of `persist_complete_batch` alone keep stale batches out, which is why a worker whose lease
was lost may still persist, harmlessly.

**The other collectors and the calendar** (`CollectorProofs`)

| Theorem | Says | Argument |
|---|---|---|
| `FanoutTypeCorrect`, `RequestsSucceedEvaluated`, `PendingChildrenHaveWork`, `ExpansionReachesEveryCandidate` | `[]TypeOK`, `[]SucceededIsEvaluated`, `[]ChildrenHaveWork`, `[]ExpansionComplete` | `Fanning`: an item that committed has inserted the work of its whole batch and its continuation. Every candidate is reached: if one were missed, the continuations that start before him would have no last one |
| `AlertsAreExclusiveWork`, `OneLiveItemPerLane` | `Spec => Jobs!Spec`, `[]Jobs!OneLive` | from `Fanning` and `EventsAreAsked` (no item before its request): a fan-out is a `Submit` of the batch that is not there yet, and `Conflict` is just what that needs to keep lanes apart; recording an event is one too, or a stutter when its lane is busy; claims, failures and finishes are `Advance` |
| `DirectoryTypeCorrect`, `FocusSumsUpEvidence` | `[]DirectoryTypeOK`, `[]FocusMatchesEvidence` | `Summing`: one request at a time holds a profile and subject's row, and what it has read under that lock is still all the evidence there is |
| `GithubTypeCorrect`, `SyncsSkipNothing` | `[]GithubTypeOK`, `[]NothingSkipped` | `Syncing`: what a sync read before its run is not after `processed` and has the files that were always watched; while its run is the repository's, nothing newer than what it looked at was processed. A file that no commit of a comparison changed has the same newest change at both ends |
| `SearchTypeCorrect`, `BudgetIsKept` | `[]SearchTypeOK`, `[]BudgetKept` | `Budgeting`: one search at a time is between its locked read and its charge, and what it read still holds; a month's usage is a sum over its days, which a charge raises by one |
| `CalendarTypeCorrect`, `DeletedEntriesStay` | `[]CalendarTypeOK`, `DeletedStaysDeleted` | `Keeping`: a deleted entry is cancelled, and an update holds the row of an entry that was live when it was read; its write asks again |
| `CollectorsAreComponents`, `TablesTypeCorrect` | `AllSpec =>` each component's specification, `[]TablesTypeOK` | as for `BothAreComponents` |

**Requests of clients** (`ClientRequestProofs`)

| Theorem | Says | Argument |
|---|---|---|
| `OutreachTypeCorrect`, `SentOnce` | `[]OutreachTypeOK`, `[]OneSendPerApproval` | `Sending`: a draft is eligible in the very version that was approved, is sent exactly when a key records it, and by one key |
| `CompanionTypeCorrect`, `SelectionsCountOnce` | `[]CompanionTypeOK`, `[]SelectedOnce` | `Choosing`: one request at a time is between its lock on a scan and its decision, and no two decisions of it share a key; a count is the size of a finite set |
| `TrackingTypeCorrect`, `ProjectionsAreRecorded` | `[]TrackingTypeOK`, `[]ProjectionRecorded` | `Tracked`: what each handler will still write, it has an event for |
| `RecommendationsTypeCorrect`, `PreferencesNeverMixed` | `[]RecommendationsTypeOK`, `[]NoMixedPreferences` | `Preferring`: while a patch has deleted the list it read, nobody else replaces it |
| `DismissalsHold` | `DismissedStaysAway` | `Suppressing`: the open suppression is of the facts as they are, until a ranking that saw other facts releases it |
| `GraphTypeCorrect`, `DistinctOnlyMerged` | `[]GraphTypeOK`, `DistinctStayApart` | `Correcting`: transactions hold disjoint rows, so what a correction read is so when it writes; postings with a key are collected, those found distinct are pinned |
| `PostingsInActive` | `[]PostingsAreListed` | adds `Redirected`: no set of opportunities redirects into itself, and redirects lead to what was collected. A step redirects to an active opportunity or not at all, so it closes no round. The walks that end within n redirects are then at least n, or all there are: as many redirects as postings suffice |
| `ScoringTypeCorrect`, `LearningDemotesNone` | `[]ScoringTypeOK`, `LearningNeverDemotes` | each factor earns at most its weight, and nothing while it is unknown; with points p of weight q, a factor that matches makes it (p + w) of (q + w), or raises p alone, and rounding is monotonic |
| `ListingTypeCorrect`, `PagesRepeatNothing` | `[]ListingTypeOK`, `[]SteadyRowsComeOnce` | `Leafing`: what was shown once is not before the cursor again. The rows can be ordered since the number of newer ones is a place for each; what a page does not show is older than its last row, and time cut to the millisecond is older than that only within the millisecond |
| `PagesSkipOnlyAtEdges` | `[]SkippedOnlyAtEdges` | `Leafing` as well: a row that a page passed over lies between its last row and the cursor made of it, so it was seen in the same millisecond. `WholeCursorsReachEverything` is its consequence for a cursor as precise as the column (`Milli = 1`): the lost microseconds are all that the run `opportunity_pages` finds |
| `WatchlistsTypeCorrect`, `WatchedOnce` | `[]WatchlistsTypeOK`, `[]OneWatchEach` | the rows' `CHECK`s are inductive; one watch each since the trigger of a merge makes one only where there is none. TLC runs the first as part of `RecordsTypeOK`; the second is stated here only |

**A candidate's records** (`CandidateRecordProofs`)

| Theorem | Says | Argument |
|---|---|---|
| `GoogleTypeCorrect`, `CodesGoOutOnce` | `[]GoogleTypeOK`, `[]CallbackOnce` | `OneExchange`: a state has one request that exchanges its code, only after it was consumed and before the code went out |
| `DeletionIsComplete` | `[]NothingOfADeletedUser` | inductive as it stands: a handler's write asks for the user's row or for one that the deletion took, so what it remembers does not matter |
| `ResumeTypeCorrect`, `DeletedResumesLeaveNothing` | `[]ResumeTypeOK`, `[]NothingOutlivesItsDocument` | `Held`: what is derived belongs to a version that is stored, and if the rows a request has read are still there, so is what it read with them |
| `PageTypeCorrect`, `LocalTimesAreConverted`, `UntouchedFormsKeepTimes` | `[]PageTypeOK`, `[]LocalTimesConverted`, `[]UntouchedFormKeepsTimes` | `Paging`: panels and messages hold forms made of stored items. That four corrections find the instant is arithmetic on the two offsets of a zone (`LocalTimesFound`), done for whole minutes: a clock shows an instant in the minute in which it shows the first instant of its minute (`RenderedMinute`). That a form gives an item its times back, to the minute, is a case split on all-day, end and dates (`FormKeepsTimes`) |
| `RecordsAreComponents`, `RecordsTypeCorrect` (`RecordProofs`) | `Spec =>` each component's specification, `[]RecordsTypeOK` | as for `BothAreComponents` |

**Assumptions.** Every named `ASSUME` is evaluated by TLC in the runs. They say that numbers are
naturals, that bounds are positive where the schema has a `CHECK`, and that functions have the
domains they are used with. Those that are not about types of constants:

* `...RowAssumption`, `...IdAssumption`, `...StatusAssumption`, `ListingAssumption`: SQL null is
  neither a row, an id, a status nor a cursor; TLA+ does not say that a model value differs from a record.
* `AssessmentKeyAssumption`: a client's idempotency key is not that of an assessment; the page
  draws it with `crypto.randomUUID` (`applications-panel.tsx:80`).
* `PostingAssumption`, `ResumeIdAssumption`, `ListingAssumption`: tables are finite.
* `WallClockAssumption`: a day, 09:00 and 10:00 are whole minutes; so are the offsets of a `Zone` and
  the instant at which it changes them, as of every zone since 1972.
* `PageAssumption`: the items start out in the form `normalizedTiming` stores.
* `ScoringAssumption`: facts and preferences have the types of `RecommendationOpportunityFacts` and
  `RecruitingPreferenceSnapshot`.
* `WorkerNameAssumption`: no worker is called like the mark of a run without one.

**Induction** over data is done by well-foundedness, since the library's induction theorems take an
operator: the least number, or the least set, that is a counterexample does not exist
(`FiniteFacts`). So sums over sets have the laws one expects of them (`SumWithOneMore`,
`SumsCompare`, `SumOfPart`), and the function that follows redirects exists (`IterationExists`).

The last theorems of `AtsCollectionProofs` and `CollectorProofs`, and `RecordProofs`, are about the
specifications that the three large runs check: every component's theorem holds of its run, and the
composed type invariants are proved like those they consist of.

`PreparingNeverStuck` and `PreparingNeverHalts` assume `EnoughItems`: the sets of rows are finite,
and there are at least as many ids for calendar items as interviews have tasks. Ids are fresh
UUIDs in the code; that a model of finitely many does not run out of them is not the code's doing,
so it is an assumption of these two theorems and of no other. What they add to TLC's run is any
number of interviews, tasks, requests and connections; that a fair scheduler then finishes a
preparation is liveness, and stays with the run.

**Only model-checked.** Liveness under fairness: `EveryItemSettles` and `PreparingEnds`. It and
`ENABLED` are out of the provers' reach. Every invariant and every action property that a passing
run checks is proved. In the other direction, `OneWatchEach`, `SkippedOnlyAtEdges`,
`PreparingMoves` and `AlertsImplementExclusiveWork` are proved and not among the configured runs;
TLC agreed with each of them on the instance of its component before it was proved.

## 5. Not modelled

* **Text**: normalisation, classification and extraction, parsers, reason codes, fingerprints as
  strings. Matching and ranking by text appear only as the result they lead to.
* **Reads**: analytics, operations, the export of an account, lists by offset. Offsets repeat or
  skip rows when rows are inserted in between, as the roadmap says; no property is stated.
  `listApplications` returns a cursor and ignores the one it is given.
* **Schedules and rate limits**: both compute with wall clocks. In the other modules an occurrence
  may come at any time, which over-approximates them.
* **ATS batches per job**: a batch is its board's version; transitions, snapshots and events inside
  `persist_complete_batch` are not modelled. **Recruiter projection** of the collectors and campus
  events, **processing of fetched documents**, **removed files** of a repository: likewise.
* **Calendar sync** beyond the status of the connection: provider events and their mappings.
* **Model gateway**: no route calls it. **Browser extension and other pages**: rendering.
* Single statements on one's own row: `updateAssessment`, `createApplicationAlert`,
  `updateGoogleCalendarConnection`, `openRecommendation`.
* The reactivation of a split opportunity, as far as watches are concerned.
* The page cursor of the recommendations, which is looked up in a list that is ranked again.

Hazards of these parts that no property covers are in `PROJECT.json` with the reason.

## 6. Plan

Done: the ledger and ATS collection; the work of the collectors; the handlers of the API; the
calendar page; for each of them the proofs of section 4.

Next, in this order:

1. `Schedules`: `enqueue_due_schedules`, catch-up arithmetic and `next_daily_occurrence` as
   operators against reference definitions.
2. `JobBoard`: the per-job transitions of `persist_complete_batch`; `AtsCollection`'s `stored`
   becomes its abstract view (refinement: a board version is a set of job contents).
3. `CalendarSync`: provider events, mappings and retries, composed with `GoogleConnection`.
