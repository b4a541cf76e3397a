# jobcron in TLA+

Specifications of jobcron, a program that collects developer job postings from several
Korean job boards, scores them against each user's profile and shows one ranked list. The
modules are written from the Go, Python and JavaScript source; the lines that each
definition stands for are in `PROJECT.json` under "map". Line references below are to the
repository.

Contents: [the system](#the-system) ·
[components](#components) · [plan](#plan) · [modules and code](#modules-and-code) ·
[runs](#runs-what-they-check-and-show) · [bounds](#bounds-and-why-they-are-enough) ·
[fairness](#fairness) · [proofs](#proofs) ·
[disagreements with the documentation](#disagreements-with-the-documentation) ·
[what is not modelled](#what-is-not-modelled)

## The system

One Go process, `jobcron`, owns one database (PostgreSQL in production, SQLite on a
laptop). Inside it run

- HTTP handlers: pages, view requests, event streams, accounts, bookmarks, profile;
- the scheduler, one goroutine that starts a collection at a configured hour;
- a collection at a time: every job board in turn, then the sweep of postings that are
  gone, the marking of cross-board duplicates, and the AI analysis of each account;
- the rating pool of a pressed "re-rate" or of an analysis.

Three things tie these together. The **operation gate** (`singleflight.go`) lets one heavy
operation run at a time. The **posting barrier and hub** (`posting_updates.go`) order
writes of postings against the snapshots readers take, and tell every open page that
something changed. The **database** is what survives a restart. Next to the server, an
operator uses `jobcron-user` (accounts) and `scripts/app_release.py` (replacing the
deployed image), which act on the same database and host without asking the server.

```
 scheduler ──┐                              ┌── event streams ──> pages
 scrape SSE ─┤                              │
 rerate SSE ─┼─> operation gate ─> run ─> barrier + hub <── bookmarks, profile, accounts
 profile  ───┤    (SingleFlight)    │       (PostingHub)           (AccountSessions)
 deletion ───┘                      ├─> boards, sweep, duplicates  (Scrape)
                                    │     paced (Pacer), listed (Boards), filtered (BoardFilters)
                                    ├─> provider calls, budgets    (AIRuns)
                                    │     answers (ModelAnswers), readings (RatingCache),
                                    │     scores (Scoring)
                                    └─> status of the run          (RerateTracker)
 log in, sign up, account ─> limits, password slots ─> accounts    (LoginThrottle)

 operator ─> jobcron-user migrate ─> schema and ledger             (Migrations)
 operator ─> jobcron-import ─> one transaction, ledger             (LegacyImport)

 operator ─> app_release.py ─> lock, checkpoint, selector, container  (AppRelease)
```

## Components

Each with the state it keeps, its operations, whom it meets, what is hard about it, and
what makes it correct.

**Operation gate** — `internal/server/singleflight.go`. State: a channel with one token, a
count of goroutines blocked on it, the number of the lease that owns it. Operations:
`tryAcquire` (refuse at once), `acquire` (wait until served or cancelled), `release`.
Called by every heavy operation. Hard: the hand-over of the token runs outside the mutex
and can coincide with the cancellation of the one who receives it; a lease can be released
twice. Correct when one operation owns the gate, the token is never lost or doubled, the
count is exact, and those who wait go before those who do not.

**Posting hub** — `posting_updates.go`, `posting_view.go`, `posting_http.go`,
`web/posting-updates.js`. State: a read-write lock and 64 account locks, a global revision,
one revision per account that has listeners, a listener with a one-notice slot and a
one-token wake channel for each open page. Operations: begin and finish a write, subscribe,
read, receive, close, status notices. Hard: notices coalesce; a wake is received before its
slot is emptied; an idle account's record is evicted and comes back; a stream's first read
polls. Correct when nothing published is lost to an open page, a revision is never handed
out with older data, and no cursor goes backwards.

**Accounts and sessions** — `auth.go`, `signup.go`, `account.go`, `storage/sessions.go`,
`storage/users.go`, `observation_auth.go`, `cmd/jobcron-user`. State: account rows, session
rows, open streams of each session. Operations: sign up, log in, log out, change the
password, delete the account, the operator's reset and deletion, expiry, admission of a
stream or a view. Hard: a password is verified long before the row is written; operator
commands and lost commit answers tell the hub nothing. Correct when no session outlives the
password it proved and nothing newer than a session's end is sent to it.

**AI runs and budgets** — `rerate.go`, `server.go` (`aiBudget`, `analyzeUserCollection`),
`storage/ai_*.go`. State: the usage ledger per user and day, cached extractions, dealbreaker
checks, ratings and their outcomes; per run a budget, a call counter and a pool of workers.
Operations: press re-rate, analyse after a collection; Stage 1A on the sponsor's key, Stages
1B and 2 on the user's. Hard: workers check the budget before any of them has spent; every
write can fail after the provider was paid; a crash between payment and record. Correct when
the caps hold up to one call per worker, paid readings are kept and not bought twice, and
the run reports what is true.

**Rerate status tracker** — `rerate_status.go`. State: one entry per account and surface in
a bounded map. Operations: start, record, complete, invalidate, snapshot. Correct when an
entry says "running" exactly while its run does, and the live run is never evicted.

**Scrape, sweep, history and scheduler** — `server.go`, `scheduler.go`,
`storage/postings.go`, `storage/scrape_runs.go`. State: posting rows with three times
(first seen, last seen, detail fetched), the history of runs. Operations: list, touch,
insert, refresh, sweep, record. Hard: any source fails or lists nothing; the sweep deletes
statement by statement and may stop after any; the process dies between two writes. Correct
when a posting leaves only for its age or because a completed source no longer lists it, and
the history says "running" only of what runs or could not be written.

**Cross-board duplicates** — `dedup.go`, `scoring/dedup.go`. State: `duplicate_of`. A pass
clears all marks and sets them again, one row a write. Correct when the marks form stars
around stored rows at every moment and are exact after a completed pass.

**Login throttle and password slots** — `rate_limit.go`, `signup.go`, and the handlers of
`auth.go` and `account.go`. State: at each door counted attempts by address, and by address
and account, in a bounded map in order of creation; slots for password work shared by all
doors. Operations: reserve an attempt before the password is looked at, reset after success,
prune, evict. Hard: attempts that run together, windows that end in between, eviction at
capacity. Correct when a window lets no more than the limit through, and a full map forgets
the window that ends first.

**AI score cache and versions** — `storage/ai_scores.go`, `storage/ai_score_outcomes.go`,
`ai/version.go`, `score_projection.go`. State: readings and outcomes by posting, user, goal
and version. Operations: write a reading with its outcome, write a failure unless there is a
reading, prune, and three lookups of decreasing strictness. Hard: the goal and the version
change while a call is under way; results of two calls come back together, and with the dates
their runs began. Correct when a
reading survives a change of model and the change back, and no failure is told of a question
that has a reading.

**Profile and deterministic scores** — `profile.go`, `scoring/*.go`, `storage/scores.go`.
A function of posting, profile, reading, signals and verdicts, stored per account and computed
again after every change; saves meet the gate, the hub and the tracker. Hard: caps, defaults,
the sentinel of an exclusion, and years of experience from four readers. Correct when an
excluded posting and only it carries the sentinel, parts stay within their caps, a heavier
weight never costs points, and a newcomer is kept from a posting only by what it says.

**Bookmarks and hidden postings** — `bookmarks.go`, `not_interested.go`, `hidden.go`.
Single writes under the barrier; modelled as what protects a posting from the sweep.

**Provider clients** — `internal/ai`. A provider call has the outcomes the clients tell apart;
what is kept of an answer is decided by `parseExtraction`, `GateDelta` and
`parseDealbreakerValidations`. Hard: items in any order, repeated, contradicting one another,
citing what was not sent. Correct when only evidence of the posting counts, once, and in
whatever order it came.

**Request pacing** — `internal/pacing`. State: the last start. Operation: `Wait`. Hard:
callers that wake together, barge in, give up or are cancelled, while the wait of each is
computed again whenever it wakes. Correct when no caller outlives its context, and requests
keep starting as long as somebody waits.

**Board scrapers** — `internal/scraper`. State: the cached verdict of robots.txt. Operations:
check access, list page by page, tenant by tenant or at once, fetch details. Hard: the board
changes and fails between requests, verdicts age. Correct when a listing that reports success
is one the stale sweep may believe, and no listing starts on a host that forbade it.

**Credentials, CSRF, configuration, commands.** Credentials go with their account; tokens
are keyed hashes; flags and start-up are sequential.

**Database store and migrations** — `storage/store.go`, `jobcron-user migrate`. State: the
schema, the ledger of versions and digests, an advisory lock. Operations: migrate, with or
without the audited backfill of an old ledger; open for service. Hard: two builds migrate one
database and may die anywhere. Correct when the ledger is right about the schema, and a server
starts only on its own.

**Legacy importer** — `cmd/jobcron-import`, `internal/sqlitesnapshot`. State: the legacy
file, one serializable transaction, the import ledger. Operations: snapshot, plan, copy ten
tables, record the fingerprint, commit, read back. Hard: two importers, lost answers, an owner
deleted and made again, a legacy application that still writes. Correct when an import is all
or nothing, from one source, and reports truly.

**Release runner** — `scripts/app_release.py`. State: the target's kernel lock and
`lock.json`; `checkpoint.json`, `receipt.json`, `handoff.json` and `superseded.json` per
release; on the host the recovery points, the image selector, the environment file and the
container. Operations: preflight, release, resume, attended resolution, recover. Hard: it
may die between any two durable writes, and the native command it started lives on. Correct
when no effect is repeated, the recovery point comes first, whoever comes next can see that
something is pending, and only what is in place is accepted.

**Runtime scripts, local database helper, browser scripts, infrastructure tooling** —
`deploy/production/jobcron-runtime.sh`, `internal/localdb`, `web/*.js`, `scripts/*`.
Sequential programs around external services, except the page side of the update stream,
which is `PostingPage`: state what it shows, which process and context it trusts, and the reads,
timers and stream it has. Hard: answers and notices cross, contexts change while a read is under
way, the process restarts. Correct when a page neither stays behind for ever nor shows a read
that a notice has ruled out.

## Plan

Order: what everything else rests on first.

1. `OperationGate`, `SingleFlight`, proved about in `LivePartsProofs` — *done*.
2. `PostingHub`, `HubAndPageProofs` — *done*.
3. `AccountSessions`, `AccountSessionsProofs`; `LoginThrottle`, in `ListPartsProofs` — *done*.
4. `AIRuns`, `AIRunsProofs`; `RatingCache`, in `PartsProofs`; `ModelAnswers`, in
   `ListPartsProofs` — *done*.
5. `Scrape`, `ScrapeProofs`; `Boards`, `BoardFilters`, in `ListPartsProofs`; `Pacer` — *done*;
   the arithmetic of `nextScheduledRun` against a reference definition to come.
6. `RerateTracker`, in `LivePartsProofs` — *done*.
7. `AppRelease`, `AppReleaseProofs` — *done*.
8. `Scoring`, on top of `BoardFilters` and `ModelAnswers`, in `ListPartsProofs` — *done*.
9. `Migrations`, `LegacyImport`, in `PartsProofs` — *done*.
10. `PostingPage`, the page side of the stream, in `HubAndPageProofs` — *done*; the status
    recovery of the rerate popover (`web/ai-rerate.js`) to come.
11. `RuntimeArchive`: preparation of secrets and the recovery archive.

Abstract specifications: `OperationGate` is the first. Next, a *published register* (what a
page may show, without slots and wakes) for `PostingHub`, and a *spending account* (what a
day may cost) for `AIRuns`.

## Modules and code

| module | models | extends, instantiates |
| --- | --- | --- |
| `OperationGate` | what callers of the gate rely on | |
| `SingleFlight` | `singleflight.go` | implements `OperationGate` |
| `PostingHub` | barrier, hub, streams, views | |
| `PostingPage` | one open page: its stream, its reads, the views it admits | |
| `HubAndPageProofs` | theorems | `PostingHub`, `PostingPage` |
| `AccountSessions` | accounts, sessions, what streams and views still send | |
| `AccountSessionsProofs` | theorems | `AccountSessions` |
| `AIRuns` | a user's runs, budgets, ledger, caches | |
| `AIRunsProofs` | theorems | `AIRuns` |
| `Scrape` | collection, sweep, duplicates, history, bookmarks | |
| `ScrapeProofs` | theorems | `Scrape` |
| `RerateTracker` | the tracker and the operations that drive it | |
| `AppRelease` | the release runner and its host | |
| `AppReleaseProofs` | theorems | `AppRelease` |
| `Lists` | the loops over a list that three modules share | |
| `LoginThrottle` | the limits and slots in front of password work | `Lists` |
| `RatingCache` | readings and outcomes of one posting, their writers and what a page shows | |
| `Pacer` | the spacing of requests | |
| `Boards` | one collection from a board: robots.txt and the listing | `Lists` |
| `BoardFilters` | which rows a board's parser keeps, and their bounds of years | |
| `ModelAnswers` | what is kept of the model's answers | `Lists` |
| `Scoring` | the score of a posting for an account | `BoardFilters`, `ModelAnswers` |
| `Migrations` | migrating processes and servers on one schema | |
| `LegacyImport` | importers, their target and the legacy file | |
| `LivePartsProofs` | theorems | `SingleFlight`, `RerateTracker` |
| `PartsProofs` | theorems | `RatingCache`, `Migrations`, `LegacyImport` |
| `ListPartsProofs` | theorems | `LoginThrottle`, `Boards`, `Scoring` |
| `MCLiveParts` | instances of the gate, the tracker and the pacer | `SingleFlight`, `RerateTracker`, `Pacer` |
| `MCParts` | instances of the remaining small parts | `LegacyImport`, `Migrations`, `Boards`, `RatingCache`, `LoginThrottle`, `Scoring` |
| `MCHubAndPage` | two instances of the hub, and beside them one of the page | `MCPostingHub`, `PostingPage` |
| other `MC…` | instances for TLC | the module of that name |

Atomicity follows the code: a region under one mutex, one SQL statement or one committed
transaction, one durable file write, is one action; whatever runs between two of them is
two actions. In each module definitions marked "A bug for comparison" are plausible
mistakes in a definition that follows; nothing uses them, and every property
fails when one is put in its place.

**SingleFlight.** `pc` follows a goroutine through `acquire`: `enter` (before the first
`Lock`), `claimed` (fast path, before the context is looked at again), `waiting` (in the
`select`), `handed` and `gaveUp` (after it, before the second `Lock`), `pushBack` (a token
that came too late, before it is put back), `holding`. Lease numbers wrap and skip zero as
in the code. Handlers hold the gate from `holding` to `Release`. `ReleaseAgain` is a second
`release` of the same lease.

**PostingHub.** A writer goes through `wantGlobal` or `wantRead`, `wantUser`, `locked`,
`committed`; Go's rule that a pending `Lock` stops new readers is in `RLockGlobal` and
`CanRead`. Data is a version number per account and one for all. A mutation that fails publishes
nothing but may have changed the data (`MutateFails`): the sweep deletes statement by statement
(`server.go:609`), and the answer to a commit may be lost. A view holds the barrier from its
database snapshot (`BeginView`) until it took its revisions (`LoadView`), so a writer may wait for
it and a deadline may end it in between. A stream handler goes
through `subscribed` (its first read), `emit`, `loop`, `woken` (the wake token taken, the
slot not yet emptied). `heard` and `view` are the page.

**PostingPage.** The observer of `posting-updates.js` with its variables: `admission`,
`applied`, `want` (`dirty`, `forced`, `baseline`), `request` (`pending`), and the timers that
are armed instead of a clock. The server is a register, an epoch, two revisions, a context
and a version of the data, which `PostingHub` shows the hub to be for a reader; `wire` is the
slot of the listener and what is on its way. The cursors of a process are nanoseconds since it
started, so an account without a record has a cursor later than any before: `Cursor`.
`Obsolete`, `Supersedes` and `Authority` are the three parts of `hint`. `announced` remembers
the last change of context a notice told of, and whether it was measured by the clock of an
earlier process.

**AccountSessions.** A request reads and verifies (`verified`), passes the barrier, locks
rows (`locked`), commits, and tells the hub (`revoke`). A commit whose answer was lost does
not tell it. `frozen` remembers the data version at the end of a session, `sent` the newest
version written to its browser. PostgreSQL's row locks are modelled; SQLite, which has one
writer, is a special case.

**AIRuns.** `phase` follows a run; a worker of the pool goes through `lookup`, `spend`,
`reserve`, `call`, `ledger`, `write`, each a separate access to shared state in the code.
`Reads` opens a budget from the ledger, or blind when the ledger cannot be read. `EditGoal`
is a saved profile with another goal, `StartScrape` replaces texts, `Crash` forgets the run.

**Scrape.** Postings are source–number pairs; the three times are clock readings. The table is
`stored`, and the order of its row ids the relation `before`, which a posting enters last when
it is inserted (again). `left` are the sources of `SourceList` whose turn is still to come.
`List` is `CheckAccess`, `FetchListing` and `SeenDetail`; a listing is any subset. `Doomed` is
the `WHERE` of the sweep and `Delete` its cascades. `Fail` ends a run at any of its steps: a
profile or a setting that cannot be read, a write that is refused, a panic. `due` remembers which
postings the stale window was over for when the run began. `NextPair` is the pair of nested loops of
the duplicate pass. Likeness of two postings is a relation that any write may change.

**RerateTracker.** `Start`, `Report` and `Invalidate` are the tracker's critical sections;
`Press`, `Collect`, `Analyze`, `EndRerate`, `EndAnalysis`, `Save` are the operations that
call them, under the gate. A run that panics in an analysis is reported as "changed".

**AppRelease.** `proc` is the invocation that holds the kernel lock and where it is; `cp`
is `checkpoint.json`; `native` is the command that may still take effect after its runner is
gone. `Intend`, `SaveIntent`, `Submit`, then the effect, then `SaveResult`, `Commit`,
`Advance` are the durable steps of `effect`; the `Resume…` actions are `resume_pending`,
`Attend` the operator's disposition. `Fail` is every refusal (a `require`), `Crash` a kill.
Checks of things outside the model (the STOP file, approvals, custody, protected
configuration, the migration ledger) can only refuse, which is `Fail`. `start` looks for
`superseded.json` before it takes the lock; since any time may pass in between, that look is
no guard in the model and the properties hold without it. What replaces it in `AcceptedIsInPlace`
is `NotOvertaken`: a release that a recovery superseded is accepted only if none of the recovery's
effects has begun, or all of them had succeeded before, which takes a recovery that was first run
as a plain release.

**LoginThrottle.** `attempts` is the linked list of a limiter, in order of creation, with
windows counted down instead of a clock. A request goes through `ip`, `pair`, `slot`, `work`
and the resets of its door, each a critical section or a send on the channel of slots; login
resets after it gave the slot back, an account handler before. `tried` and `crowded` are
histories: how many attempts a window let through, and whether an eviction was unfair.

**RatingCache.** A writer fixes its question and its date when its run begins (`StartRun`, the one
`now` of `rateStage2`), asks (`Rated`), and goes through `begin` (the row lock), `score`, or `check`
and `outcome`, the statements of one transaction. So what it writes last may have an older date
than what is there, and two runs may have the same date, which leaves it to the row's physical
place which of two readings is pruned (`Pruned` gives both outcomes). `ChangeSettings` is a saved
goal, provider or model, at any time. `Composed` is what `composeStoredScore` finds, whose
statements see one snapshot; `made` remembers the date and the order of the last results.

**Pacer.** `since` is the time since the last start, capped at the spacing; `Refuse`, `Admit`
and `Reserve` are the three outcomes under the mutex, `Wake` and `GiveUp` those of the
`select`. When both are ready either happens. Callers come as often as they like (`CallWait`).

**Boards.** A row is an identity and what the board's parser makes of it. `Access` asks, or
remembers, `robots.txt` of each host; the six `…FetchListing` actions are one request each.
`Publish`, `Withdraw` and `Promote` are the board changing between two requests. What the
runner does with the result is `Scrape`.

**BoardFilters, ModelAnswers, Scoring.** Pure functions and the steps that use them. A text is
the sequence of the expressions of experience in it, so that the ladder of
`ParseExperienceText`, with its leftmost match and its fall-through, is the function of the
code. An internship is two things: the boards' filters match "intern" and "interns" as words
(`HasInternMarker`), `careerFacts` matches the Korean word anywhere in a title and "intern" or
"internship" as a token (`IsInternRole`), so a title carries the set of forms it has. A citation is a set of tokens in a spelling, so that two spellings of one piece of
evidence are the same evidence. `Scoring` collects a row, reads it, rates it, asks about
excluded phrases, changes the profile, and computes the score again after each.

**Migrations.** `mpc` follows `migratePostgres` from transaction to transaction; `PrepareLedger`
is the first, `CheckApplied` and `ApplyMigration` are the others. Statements of a migration are
its identity. The backfill of digests is asked for only where the operator's audit would be
right: `MigrateCommand` has that as its guard, the one assumption about people in the project.

**LegacyImport.** `base` is the snapshot that PostgreSQL fixes at the first statement of a
serializable transaction, `tx` what the transaction made of it. A write to a row that was
committed since fails, and of two importers that both read an empty ledger one is refused.
`src` stands for the fingerprint and the contents of a snapshot at once. `who` is `ownerID`,
looked up once: every later statement asks for the rows of that account, which may have been
deleted and replaced by another one since (`Visible`).

## Runs: what they check and show

| run | module, cfg | checks | shows |
| --- | --- | --- | --- |
| `live_parts` | `MCLiveParts`, `LiveParts.cfg` | `GateSound`, `ImplementsFairGate`, `EntriesExact`, `VerdictsStand`, `RunsReported`, `CallsEnd` | the gate: every behaviour of the channel and the counters is one of the fair abstract gate, one owner, queued callers first, each served or gone; the tracker: no entry is left running, the live run keeps its entry, verdicts stand, every run is reported; the pacer: callers come out with their context, and requests keep starting while somebody waits |
| `hub` | `MCHubAndPage`, `PostingHub.cfg` | `NoNoticeLost`, `PendingContextCurrent`, `RecordsExact`, `ViewCurrent` | two pages of one account, or one that also reads views: coalescing loses nothing, no replaced context token is delivered, listener counts are exact, an account that was evicted and returns is never rolled back, and a page that is as new as what it was told shows everything published |
| | | `PageSound`, `NoticesBind` | one page, a server that restarts, streams and reads that fail: an old view is never the last word, no process is gone back to, no read from before a context change is shown after its notice |
| `hub_live` | `MCPostingHub`, `PostingHubLive.cfg` | `WriterFinishes`, `EventuallyTold` | two competing writers and a page that reads: the barrier does not deadlock, what is published arrives |
| `sessions` | `MCAccountSessions`, `AccountSessions.cfg` | `SessionsProveThePassword`, `NothingAfterTheEnd`, `ChangesWhatWasVerified`, `StreamsOfEndedSessionsEnd` | no session survives its password, nothing newer than a session's end is sent, every stream of an ended session ends |
| `airuns` | `MCAIRuns`, `AIRuns.cfg` | `CapsHold`, `ReadingsKept`, `NoDoubleSpend` | caps hold up to one call per worker, paid readings are kept and merged, nothing stored is bought again |
| `airuns_month` | `MCAIRuns`, `AIRunsLive.cfg` | `MonthlyCapHolds`, `LimitBlamedRightly`, `RunsEnd` | runs over two days, some past midnight: the monthly cap, the reason a run gives, the end of every run |
| `airuns_same_sponsor` | `MCAIRuns`, `AIRunsSameSponsor.cfg` | `DocumentedDailyCap` (violated) | see [disagreements](#disagreements-with-the-documentation) |
| `scrape` | `MCScrape`, `Scrape.cfg` | `HistoryTold`, `DuplicatesExact`, `RemovedWithCause` | failing sources, runs that fail anywhere, and crashes: what leaves the table and why, what the history says, duplicates as stars |
| `scrape_stuck` | `MCScrape`, `ScrapeStuck.cfg` | `DocumentedRotation` (violated) | see below |
| `release` | `MCAppRelease`, `AppRelease.cfg` | `EffectsSound`, `MarkerCoversIntent`, `AcceptedIsInPlace` | a release and its recovery, killed and resumed anywhere |
| `release_stranded` | `MCAppRelease`, `AppReleaseStranded.cfg` | `DocumentedNoStranding` (violated) | see below |
| `parts` | `MCParts`, `Parts.cfg` | `TargetSound`, `ImportWhole` | two importers, two contents of the legacy database: one source, references whole, all or nothing, true reports |
| | | `MigrationsExact` | three builds and two migrating processes: the ledger is right about the schema, servers start on their own |
| | | `CollectionSound` | six boards that change while they are read: what a successful listing may lack, and why; no listing against a current verdict |
| | | `ReadingsExact` | two runs that write late while the settings change: what pruning keeps, when a failure is told |
| | | `ThrottleHolds` | two requests, three addresses, three doors: no window lets more through than its limit, eviction is fair |
| | | `ScoreSound`, `ScoreMonotone`, `AnswersGrounded` | rows, readings, signals, verdicts and profiles in every order: the sentinel, caps, newcomers, monotony, independence of order |

`live_parts` and `parts` hold the small components, three whose promise is progress and six of
which only safety is promised; `hub` holds the hub and the page. They share nothing that both
change: the variable `part` says which one moves in a behaviour, the others stay as they were
initialised. So the run is the union of their state spaces and not the product.

Deadlock is checked in the runs without `CHECK_DEADLOCK FALSE`: `live_parts`, `hub`, `hub_live`,
`sessions` and the release runs. It is not in the runs of `AIRuns` and `Scrape` and in `parts`,
where clocks, days and the numbers of commands are bounded and a behaviour really stops when
they are used up.

Some conjunctions group facts about one piece of state, the type invariant of the module first:
`GateSound` (`TypeOK`, `MutualExclusion`, `TokenConserved`, `WaitersExact`), `EntriesExact`
(`TrackerTypeOK`, `RunningIsLive`, `LiveIsKnown`, `Bounded`, `IdsDistinct`), `RecordsExact`
(`TypeOK`, `CountsExact`, `CursorNeverRollsBack`), `CapsHold` (`TypeOK`, call, run, day and month
caps), `ReadingsKept` (`AnalyzedIsDurable`, `PaidReadingsMerged`, `ProvenanceAgrees`),
`NothingAfterTheEnd` (`SentWhileLive`, `OneLateEvent`, `RevokedStreamsClosed`), `DuplicatesExact`
(`StarOfDuplicates`, `DedupExact`),
`EffectsSound` (`TypeOK`, `EffectsNotReplayed`, `RecoveryPointFirst`, `ReplacedWithWanted`),
`TargetSound` (`ImportTypeOK`, `OneSource`, `SequenceAhead`, `ReferencesWhole`), `ImportWhole`
(`ArrivesWhole`, `ReportsTruly`), `MigrationsExact` (`MigrationsTypeOK`, `SchemaRecorded`,
`ServesItsSchema`), `PageSound` (`PageTypeOK`, `NeverStranded`), `CollectionSound`
(`BoardsTypeOK`, `ListingSound`, `AccessHonoured`), `ReadingsExact` (`RatingTypeOK`,
`ReadingsSurvive`, `FailureAlone`), `ScoreSound` (`ScoringTypeOK`, `SentinelExact`, `PartsCapped`,
`NewcomersNotMisled`). TLC's trace tells which part fails.

## Bounds and why they are enough

- gate (`live_parts`): three goroutines, so that one can own the gate while two are queued or
  one carries a late token past another; three lease numbers, so that they wrap. Calls repeat
  for ever. The proofs lift both bounds.
- tracker (`live_parts`): two accounts, two surfaces, a map of two entries and four runs a
  process, so that eviction happens with the live run in the map; restarts are unbounded. The
  proofs lift these.
- pacer (`live_parts`): two callers that come again without end, a spacing of two ticks, deadlines
  shorter than, equal to and beyond a wait: two callers wake together, barge in and give up. Time
  is what is left of waits and deadlines, so no clock has a bound.

The theorems (below) hold for every value of the constants of their module, so they lift the
bounds of `hub`, `sessions`, `airuns`, `scrape`, `release`, the gate, the tracker and the readings
for every safety property but those of the page.

- `hub`: one writer of any kind, two changes of the data and any number of mutations that fail
  having changed nothing, three clock readings; every account hashes to one lock. One part has two
  pages of one account that share one change (or one page that sees two), which is what it takes to
  coalesce and to tell the last listener from another; the other has one page with a view request,
  two changes of which the second is of everybody's data, and none of the context, which a view
  does not carry. Three readings of the clock let an account be evicted and return twice, with a
  publication or a view read in between; beside a second change there are two in that part. Pages
  are permuted.
- page (`hub`): one notice on the way before they coalesce, two contexts, three revisions a
  process, one change of the data and one fault. A change of context, a read from before it
  and the notice that crosses it need no more; a restart and what a page keeps of the dead
  process neither. With two changes the same properties hold (2.9 million states, more than
  this run has time for).
- `hub_live`: two writers so that they wait for one another on both locks, one page with one
  read in flight that holds the barrier, one change of the data.
- `sessions`: one account, two sessions, two requests, a stream and a view, of which two at
  a time are at work (`MaxBusy`); two passwords, one publication. Every race in this code is
  between two handlers.
- `airuns`: two postings, two workers, calls of two tokens, caps of three tokens a run and a
  day and two calls a run: the third call is refused by the call cap, the second by the run
  cap, and a second run meets a partly used day. One of the postings has a dealbreaker to
  check and a reading from before outcomes were recorded. One ledger write may fail
  (`MaxUnrecorded`): with more the cap of the day bounds nothing, as in the code. Presses,
  crashes and changes of goal are unbounded.
- `airuns_month`: one posting and one worker, two days, five tokens a month. So no worker waits for
  the semaphore there; with two postings the liveness check does not finish in the time of a run.
  A worker ahead of one that waits comes out by the same steps.
- `scrape`: two boards, three postings of which two may be like the third, three runs, the third
  with postings of one board only and without bookmarks, one clock tick, windows of zero, so that one tick makes
  a posting stale; one new and one refreshed posting per source. The third run is for a
  posting that the second would have swept and did not reach. `scrape_stuck` uses one board, three runs and wide windows.
- `release`: a release and the recovery from it, two images, one death of the application
  (with or without a restart by Docker), any number of invocations, failures and kills, one
  retry of an effect that was proven not to be submitted, as in the code.
In `parts` the two importers, processes, writers and requests are interchangeable, and TLC
permutes them.

- importers (`parts`): two importers, three runs, two contents of the legacy file, one with a
  link to a later posting, two changes by the server or the operator: enough for two importers
  in one transaction each, for an import after another, and for an owner who is new.
- migrations: two processes, three commands, a build, its successor and a fork that differs in
  one digest; ledgers of an older release of up to two rows.
- boards: three rows, pages of one row and at most two pages, so that the cap of pages, the end
  of a board and a full page all occur; two hosts where the board has two; one change during a
  walk, which is what it takes to miss a row; verdicts that live one tick.
- readings: two writers, three results, three versions, two goals and two dates, failures of
  one question and beside at most one result: a third version is what makes pruning forget, and two dates
  what makes the last result written an older one.
- throttle: two requests, three knocks, limits of two, windows of two ticks, maps of two keys for
  three addresses: the limit is reached, the map is full, windows end in between.
- scores: rows chosen so that each filter and each reader of years decides some of them, and
  profiles on both sides of every cap; lists of signals with repetitions, contradictions,
  unsupported quotes and ties.

## Fairness

- gate (`live_parts`): weak fairness of the steps a goroutine takes once it has called `acquire` or
  owns the gate: goroutines run, and operations end (`scrapeMaxDuration`, request deadlines).
  Strong fairness of the receive: Go queues the receivers of a channel in order, so one that
  stays in the `select` is not passed over for ever. Nothing is assumed of callers.
- `hub_live`: strong fairness of taking a lock, because `sync.RWMutex` lets the waiting
  readers in when a writer leaves and a waiting writer stops new readers; weak fairness of
  the writer's other steps, of a view that holds the barrier (its reads have a deadline) and of a
  handler. The first read of a stream polls the barrier and
  may starve; its context ends it after ten seconds, which is the disjunct `Close` in
  `FirstReadEnds`.
- `sessions`: weak fairness of a stream's steps: its writes have deadlines and its heartbeat
  ticks. Requests may hang.
- `airuns_month`: weak fairness of a run's steps: every provider and database call is under
  the run's deadline. Nothing is assumed of presses, crashes or midnight.
- tracker (`live_parts`): weak fairness of the end of a run and of the release of the gate, both
  deferred by handlers that have a deadline.
- pacer (`live_parts`): weak fairness of time, of a caller at the mutex (Go's mutex hands itself
  to a waiter that starves) and of a timer that fired. Nothing is assumed of callers: new ones may
  come at any time and take the slot a waiter was about to have, so `CallsEnd` does not promise a
  caller without a deadline its own start, only that somebody starts.
- `hub`, `airuns`, `scrape`, `release` and `parts`: none; only safety is checked.

## Proofs

Proved by TLAPS for every set of goroutines and every width of the lease number
(`ProcAssumption`, `LeaseAssumption`), in `LivePartsProofs`:

- `TypeCorrect`, `Mutex`, `Conservation`, `CountExact`: `TypeOK`, `MutualExclusion`,
  `TokenConserved`, `WaitersExact` always hold, and so does `GateSound`, which is these
  together (`GateIsSound`);
- `QueuedFirst`: no caller that is not queued takes the gate while another is;
- `OwnerAlone`: only the owner's own step takes the gate from it, so a stale lease cannot;
- `Refinement`: `Spec` implements the safety part of `OperationGate`.

Mutual exclusion is not inductive. The invariant is `IInv`, the conjunction of `TypeOK`;
`OneOut`, at most one goroutine has the token and exactly when the channel is empty;
`OwnerLease`, the owner number is the lease of the goroutine that owns the gate, which is
what makes `release` by a stale lease harmless; `LeasesDistinct`, no two goroutines keep the
same lease number; and `WaitersExact`. Its preservation has one step per action; the counting
facts are the lemmas `CountUp`, `CountDown`, `CountSame`. Conservation is `OneOut` in terms
of cardinalities. The refinement maps the owner to the one goroutine in `Owning` and the
queue to those in `Queued`, and shows action by action that a step is a step of the gate or
leaves both unchanged.

For every set of accounts and surfaces and every size of the map (`TrackerAssumption`), in
`LivePartsProofs`:

- `TrackerInvariant`: `TypeOK` and `EntriesExact` always hold;
- `VerdictsStandAlways`: an entry's verdict stands until something replaces the entry.

The strengthening is `GateSaysRun`: a run is in progress only under a gate held for a
re-rate or a scrape, and its entry says "running" until it is over. The difficult step is
`Start`, which may evict: `LowestExists` finds the least RunID by well-founded induction on
the naturals, and `RoomMade` shows that removing its key makes room for the new one.

For any number of accounts, sessions, requests, streams and views, and any bounds
(`SessionAssumption`), in `AccountSessionsProofs`:

- `SessionInvariant`: `IInv` below always holds;
- `SessionsProveAlways`: `SessionsProveThePassword` always holds;
- `ChangesVerified`: `ChangesWhatWasVerified` holds.

That a live session's proof is the account's password is not inductive: when a login inserts
its session, what matters is that the password it verified long before is still the one in the
row. The strengthening is `LockedKnows`, a request that holds the account's row still knows
what it verified, with `OneHolder`, nobody else can hold that row and so change it, and
`RequestsNamed`, a request's session is of the account it names. `LockedKnows` is established by
the check under the lock (`LoginLock`, `AccountLock`) and disturbed only by the commits, whose
request is the one holder. The invariant is kept in two halves, `Secure` for accounts, sessions
and requests and `Handled` for streams and views, because no step of one half reads the other but
through the session's row.

- `NothingFollowsTheEnd`: `NothingAfterTheEnd` always holds.

For the last one every session has a *horizon*, the newest data it may be sent: the account's
while the session lives, and what the account had at its end from then on. Horizons only rise
(`HorizonRises`, for any step that lets a session age as `Ages` says), what a stream or a view has
in hand is within the horizon from its check on (`Bounded`), and a stream past its lookup, whose
session a request ended, is closed or named by a request that is about to close it (`Heard`).

For any number of writers, goals, versions, results and dates (`RatingAssumption`), in
`PartsProofs`:

- `RatingInvariant`, `ReadingsExactAlways`: `RatingTypeOK` and `ReadingsExact` always hold.

`ReadingsSurvive` is about the *latest* reading of a version: the one whose date no result of the
version exceeds and after which none of it was written (`LatestOf`). It is kept as long as at most
one other version has a result that came after it, by date or by writing (`Rivals`). Both
conditions are needed, since a run writes with the date it began: TLC finds a counterexample without
either. The strengthening is `LockHeld` and `Underway`, a writer between its statements has the row
lock and has looked at the cache before it says the posting failed, and `Dated`, every reading
carries the date of its question's last result. The difficult step is `WriteScore`, which prunes:
the version being written is a rival of the one whose reading is owed, so no third one is, and all
newest rows of the others are of that version and that date, whichever of equals is kept.

For any number of accounts, locks, writers and pages, any limits and any bounds, as long as there
is an account and the pages are finitely many, so that they can be counted (`HubAssumption`), in
`HubAndPageProofs`:

- `HubInvariant`: `HubIInv` always holds;
- `HubLosesNoNotice`, `HubTokensAreCurrent`, `HubRecordsAreExact`, `HubViewsAreCurrent`:
  `NoNoticeLost`, `PendingContextCurrent`, `RecordsExact` and `ViewCurrent` always hold.

A notice is not lost because the newest revisions are always somewhere on the way to each page:
in what it heard, in its handler's hand or in its slot (`AllTold`), and a slot that nothing
announces is empty (`SlotsEmpty`). `ViewCurrent` speaks of what was *published*, not of the data,
because a mutation that fails half way has changed the data and publishes nothing: a page that is as
new as everything it was told shows at least that. A view takes its data before its revisions, and
stands for them because no writer can be in its region meanwhile (`ViewsApart`). `AllBehind` bounds every
revision that was ever handed out by the record and, for an idle account without one, by the
clock that its next record comes from; that is why an evicted record does not roll a cursor back.

For any number of postings, users, workers and days and any caps, prices with a greatest one and
a pool of at least one worker (`AIRunsAssumption`), in `AIRunsProofs`:

- `RunInvariant`, `RunCapsHold`: types, the call cap, and the token cap of a run but for the calls
  of one pool;
- `RunsKeepReadings`, `RunsBlameRightly`, `RunsSpendOnce`: `ReadingsKept`, `LimitBlamedRightly` and
  `NoDoubleSpend`;
- `LedgerCapsHold`, `MonthlyCapAlwaysHolds`: `CapsHold` and `MonthlyCapHolds`, when the user who
  presses is not the sponsor. This hypothesis is needed: `airuns_same_sponsor` is the run in which
  it fails.

A cap holds "but for the calls of one pool" because every worker past its check may still spend the
most a call can: `Room` counts them, and the workers past the check are no more than the pool. The
daily and monthly caps are about the ledger, which follows the budget in memory. `Unledgered` says
that what the workers have debited and not recorded yet is a set of disjoint pieces of the budget's
total, so that the ledger stays at or under what was debited whatever order they are recorded in,
over crashes, failed writes and midnights. Readings are safe because what a worker knew of its
posting when the pool started is still so until that worker itself has written (`Known`).

For any postings, sources, caps, windows and likenesses of pairs from two sources
(`ScrapeAssumption`), in `ScrapeProofs`:

- `ScrapeInvariant`, `HistoryAlwaysTold`, `DuplicatesAlwaysExact`, `RemovedAlwaysWithCause`:
  `HistoryTold`, `DuplicatesExact` and `RemovedWithCause`.

The invariant follows a run through its writes. `RunningTold`: a row that says "running" is of the
run, of the tick being recorded, or one whose last write was lost. `Sighted`: what a completed
source listed has been seen by this run. `Baselines`: the newest sighting the sweep measures
against is that of a posting that is still stored when its source is swept, for the sweep of one
source deletes nothing of another. `Dated`: a posting that is missing beside another was so before
the run, or the run listed the other; this is what makes a source that answers with an empty listing
lose nothing that was not due before. `Passing`: no pair that is still
to be looked at comes before a posting that already hides another, which is what keeps the marks
stars.

For any releases, images and recoveries, also recoveries from recoveries and in a circle
(`ReleaseAssumption`), in `AppReleaseProofs`:

- `ReleaseInvariant`: `IInv` below always holds;
- `EffectsAreSound`, `MarkerAlwaysCovers`, `OnlyWhatIsInPlaceIsAccepted`: `EffectsSound`,
  `MarkerCoversIntent` and `AcceptedIsInPlace`.

No property of this module is inductive, since a process may die after any write and another one
starts from the files. `FilesOK` says what a checkpoint can look like: the stage goes with the
number of recorded effects and the pending one (`Place`), and whatever reached the host is recorded
or in doubt (`CountsOK`). `HostOK` ties the host to the checkpoints: as soon as the effect on the
selector is recorded and the selector is the release's own, the environment file has its image, so
the container that Compose makes from it does. `MarkOK`: a release between its first intent and the
known success of its last effect holds the marker, so two releases are never in between at once;
this is what makes a look at `superseded.json` before the lock harmless. `NativeOK`: a native
command at work belongs to the release that holds the marker and whose effect is in doubt, and
`Alongside` derives where the processes can be meanwhile. `ProcOK` says what a process knows at
each of its places, `Knows`. TLC checked the invariant first: completely for the run's instance,
for a recovery whose image is the deployed one and for two releases that recover from each other,
and for the first eight million states of three releases.

For any contexts of an account and any bounds (`PageAssumption`), in `HubAndPageProofs`:

- `PageInvariant`: `PageIInv` always holds;
- `PageAlwaysSound`, `NoticesAlwaysBind`: `PageSound` and `NoticesBind`.

A page may be behind only while something will make it read again. `ReadsAgain` lists what that
is: a notice still on the wire, a read under way that nothing has overtaken, or a wish to read
(`want.dirty`). It can be kept only because a notice is never taken for an obsolete one that it
is not, which is a matter of the two clocks that the observer compares: revisions of one process
order notices (`WireOrdered`), and what the page measures a notice by, `admission`, is of the
process that answers now and not ahead of it, or of one before (`AdmissionPast`, `AnnouncedPast`).
Views go forward because the read under way is never older than the view shown (`ReadsForward`),
which a restarted process is told from by its epoch. TLC checked this invariant first.

For any migrators, crashes, builds and ledgers of older releases (`MigrationsAssumption`), in
`PartsProofs`:

- `MigrationsInvariant`, `MigrationsAlwaysExact`: `MigrationsExact`, under the hypothesis
  `AppendOnly`, that the k-th migrations of two builds have the same number. `store.go` does not
  check it: the number is the prefix of the file's name, and a build adds files at the end. Their
  *contents* may differ, which is what the digests are for and what the run's fork does.

The schema is made of the builds' migrations, each at its place (`SchemaBuilt`), and the ledger
has exactly one row for each, with its digest or, in an old ledger, without (`LedgerRight`).
`LockAlone` and `Passed`: a migrator between its first and its last transaction re-reads the
ledger under the advisory lock each time, so what it is about to apply is not recorded, and it has
passed only what is. `ExactSchema` is the step from a full and matching ledger to the schema: with
numbers ascending in both, it can only be the build's own. The invariant was checked first for
three migrators, completely.

For any finite set of requests, any addresses, accounts and limits (`ThrottleAssumption`), in
`ListPartsProofs`:

- `ThrottleInvariant`, `ThrottleAlwaysHolds`: `ThrottleHolds` always holds.

The strengthening is `Sound`, of each limiter: entries stand in the order in which their windows
end, one for a key, and what a running window has let through is what its entry counts. This is
why the first entry is the right one to evict when the table is full. Entries are removed from the
middle of the list (`EntriesKept`), so the order must survive that: `WalkChooses` shows that what
is left are the entries at ascending places of the list, by the least place at which it would fail
(`LeastNumber`). `SlotsCounted` ties the slots to the requests at work. It was checked first, with
three requests and four names.

For any importers, sources and bounds, as long as what belongs to a posting refers to a posting of
its source (`ImportAssumption`: the foreign keys of the SQLite schema), in `PartsProofs`:

- `ImportInvariant`, `TargetAlwaysSound`, `ImportAlwaysWhole`: `TargetSound` always holds, and every
  step is one that `ImportWhole` allows.

Two importers cannot both bring a source because the one that decides has the lock
(`DecidesAlone`) and sees the target as it is, or else sees an empty ledger where another has
committed since, which makes its commit fail (`SeesTarget`). `HasCopied` is what its transaction
holds: the rows of the tables that come before the one it is at (`StepOrder`), in a target that was
empty, so that at the commit it is the source and nothing else. A report is right because an account
number is never used again (`AsksForItsOwner`): a run that still finds a ledger under the number
it looked up finds the rows it committed, or the entry it had found before (`MayVerify`). That is
why the model has `who`: without it, a run could report "complete" for the target of the next owner.
TLC checked the invariant first, completely for two importers, also with a source without postings,
and for the first 2.8 million states of three.

For any kinds of boards, rows, tenants, hosts and `robots.txt` files, any page size, caps, limits and
number of changes (`BoardsAssumption`), in `ListPartsProofs`:

- `BoardsInvariant`, `CollectionAlwaysSound`: `CollectionSound` always holds.

That access is honoured rests on `AccessInv`: a verdict that is kept is no older than the host's last
answer (`VerdictKept`), and a host that is no longer to be asked in this call has granted it. That a
successful listing is whole rests on what the walk has read so far: of the rows that were there from
the start and are wanted (`Lasting`), those that stand before the page to come have been collected
(`PagesRead`), and those of the tenants before the one to come (`TenantsRead`), unless one of the
causes that `ListingSound` names has happened (`Excused`). The difficult step is a change between two
requests (`ChangesInv`): a row that goes or moves up shifts the others towards the reader, which is
`walk.moved`; a new row shifts them away, so that none is passed over. `PageFacts` says what a
page that is not full means for the rows behind it.

For any rows, profiles, readings and answers of the model (`ScoringAssumption`: weights are any
integers, as `atoi` in `handlers.go` lets them be; texts and lists are of any length; two items of a
signal list with one wording are the same text), in `ListPartsProofs`:

- `ScoringInvariant`: `ScoringInv`, the score is that of the posting, profile, reading, delta and
  verdicts there are, and the delta is what the gate makes of the model's reply;
- `ScoresAlwaysSound`: `ScoreSound` always holds;
- `AnswersAlwaysGrounded`: `AnswersGrounded` always holds;
- `ScoresAlwaysMonotone`: `ScoreMonotone`.

Here the invariant is simple, and the work is in what the loops compute. `StacksWithin` carries the
cap through the walk over the stacks, and `HeavierStacks` compares the walks of two profiles: one
that adds more at a line leaves less of the cap, but what it has used is never less. For the
gate, `Exact` says what the groups are after the items read so far: one group for each evidence, its
item the one that `Preferred` puts first of all read, its signs those of all read. It describes
the groups by the *set* of items alone, which is why the order does not matter (`ReorderedSame`), and
it needs that `Preferred` is a strict order on items of one evidence (`PreferredOrder`), hence the
tie-break by wording in `score_delta.go`. `NoneMisled` follows a requirement of experience from the
board's text to the reason shown.

The loops of the last three modules are recursive functions over the length of a list (`Lists`).
No induction theorem of the library can be instantiated here, so what they return is proved by the
least counterexample: `LeastNumber` (well-founded induction on the naturals), `UpTo` and `Recursion`,
which gives a recursive function by its steps, and `KeptFacts`, what is left of a list.

Only model-checked: liveness, which needs `ENABLED` — `ImplementsFairGate` beyond `Refinement`,
`WriterFinishes`, `EventuallyTold`, `StreamsOfEndedSessionsEnd`, `RunsEnd`, `RunsReported`, `CallsEnd`.
Every other property of a passing run is stated by a theorem.

## Disagreements with the documentation

Three runs check what a comment says and find a behaviour of the code that differs.

- `airuns_same_sponsor` — the comments of `aiBudget` (`server.go:754`, `:776`) say that the
  daily cap holds across runs but for one call per worker. When the account that pays for
  Stage 1A presses re-rate itself, the run opens two budgets on the same ledger
  (`rerate.go:633`), which do not see each other's spending, and one press can pass the cap
  by nearly a second cap.
- `scrape_stuck` — `server.go:39` says that rotation rechecks every posting's detail within a
  bounded number of scrapes. A re-fetch that fails leaves the detail's age
  (`server.go:952`), so a posting whose page keeps failing stays the oldest and takes one of
  the places in every scrape.
- `release_stranded` — `app_release.py:181` says that failures without a native effect do not
  strand the target. A `resume` without a checkpoint, which is the situation after a release
  was killed before its first save, turns the marker into a mutation marker before it finds
  out, and from then on every command refuses the target.

Smaller observations that no run states:

- `tryAcquire` answers nil while the token is on its way from one goroutine to another
  although nobody owns the gate (`singleflight.go:32`, `:85`); `OperationGate` allows for it
  in `Queue`, and it only ever refuses.
- A sweep that fails half-way has deleted postings and publishes nothing (`server.go:611`), and a
  write whose commit answer was lost publishes nothing either: pages show the old data until the
  next publication or their next periodic read. `ViewCurrent` promises no more.
- A caller of the pacer that has no deadline may be overtaken for ever by callers that come while
  its timer runs (`pacing.go:53`): a waiter has no place in a queue. With the few callers of one
  collection this does not last.
- A result that comes back late has the date its run began (`rerate.go:768`). When the account has
  rated with a second model meanwhile, that result is the older one of the two, and the next rating
  with a third model prunes it although it was written last. `ReadingsSurvive` names both orders.
- `superseded.json` is read before the lock is taken (`app_release.py:1049`). A `resume` that
  has passed that look can still be accepted when the recovery dies before it takes the
  marker over. While the recovery is at work it cannot, which is part of
  `AcceptedIsInPlace`.
- An analysis that panics is reported as "changed" (`server.go:657`).
- Rallit and Worknet drop a row without an id before they compare the page with the page size
  (`rallit/parse.go`, `worknet/parse.go`), so such a row ends the walk early and what follows is
  missing from a listing that reports success; the blank-row disjunct of `ListingSound`. A
  Greeting collection whose tenants all fail reports success with no rows, and Demoday's answer is
  cut at what its server returns at most.
- Jumpit alone does not remember a `robots.txt` that could not be fetched. All readers take the
  lines after the last `User-agent` line, so of a group `User-agent: *` followed by another agent
  the rules are not read as the star's (`robots.go`).
- The cursors of a process count from its start (`posting_updates.go:61`). A page that a poll or
  a periodic read, and not a notice, takes to a new process keeps the larger cursor of the old
  one (`posting-updates.js:250`), finds the new one's notices of a changed context obsolete
  (`:260`), and may show a read that was under way with the old context, although
  `docs/architecture.md:497` says that such reads remain fenced to the announced context. It
  reads again soon (`NeverStranded`); `NoticesBind` excepts exactly this page.
- A page locked to a context of a process that has ended refuses every polled read of the next
  process until its stream reconnects: `viewAdmission` compares cursors of two processes
  (`posting-updates.js:22`).
- A reading survives a change of model and back, as `ai_scores.go` says; with a third model
  rated in between it does not; that is the bound `ReadingsSurvive` states.
- A title of "Interns" is an internship to the filters (`greenhouse/classify.go:184`), which keep it
  for a newcomer, and none to `careerFacts` (`rules.go:221`), so a reading of the model that asks for
  years still holds it against one. "dev_intern" is the other way round: a token to `isInternRole`,
  and no word to the filter. `NewcomersNotMisled` is about what `isInternRole` says.
- Krafton's filter keeps an internship that asks for two years and a title that says "junior",
  with bounds of 0 to 0 years; `careerFacts` reads the same text again, without the exception for
  internships, and holds the posting against a newcomer until there is a reading of the model
  (`greenhouse/classify.go`, `rules.go` `careerFacts`).

## What is not modelled

- HTML, JSON, prompt texts, wording and layout: nothing in the properties depends on them.
- When the next scheduled run is due (a tick may come at any time), the rerate popover's recovery
  of its status, and the preparation of secrets and the archive of the runtime script: planned,
  above.
- In the page: how cards are reconciled, the delays of its timers (a timer may fire at any time),
  and a notice of a dead process that arrives after the next one's.
- The SQLite schema and its upgrade in place, which one process performs before it serves.
- How a tag, a phrase or a quote is found in a text (`tokenmatch`, `match.go`): rows carry the
  sets that result.
- Local database helper, infrastructure and capture tooling: short sequential programs around an
  external daemon or a plan file.
- Cryptography (password hashes, the credential cipher, CSRF tokens): functions of a library.
- Two server processes on one database: the deployment has one.
- Provider, boards, Docker, Compose, Secrets Manager and PostgreSQL itself: external; they
  appear as the outcomes the code tells apart.
- Loss of the database or of the state directory, and clocks that go backwards.
