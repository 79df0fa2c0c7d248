# A TLA+ model of relay-monitor

relay-monitor watches accounts on upstream API relay stations and an own New API
site that resells them. Its core is bookkeeping under failure: it reads logs and
bills of sites that are slow, refuse, change their answers late or lie, and turns
them into figures that are fixed once and for all. This directory models the parts
in which order, failure and time matter, checks them with TLC, and proves the most
important invariants with TLAPS for every number of processes, logs, channels and
days.

## The system

One Node.js process (two for a while during a deployment) with a MySQL database.
Nothing runs in parallel inside it, but every `await` is a point where timers, API
handlers and other rounds run, and every write can fail, or fail after it was
committed. The key agent is a separate small process beside the own site.

| Component | State | Operations | What makes it hard | What makes it correct |
|---|---|---|---|---|
| **Own-log ingest** `server/own-log-ingest.js`, `own-log-store.js` | progress row, staged pages of one window with a random revision, hourly buckets; per round: window size, request budget | read a page, stage it, apply a full window, discard, skip the days the switch was off, delete, prune | two processes; a crash between staging and applying; logs that turn up late and shift pages; windows too full for a round | no log is added twice; what is covered is counted; progress moves forward only; the reader catches up |
| **Daily report** `server/report.js` | `lastSent` and `delivery` in the settings (memory and database), `_reportDelivery`, `_reportRunning` | a round of the timer: write the attempt, build, send, judge, write the result | restarts, writes that fail or only seem to, channels edited while sending, midnight | no second copy but for a crash; capped attempts; recorded only when all have it; every day ends |
| **Settlement** `lib/reconciliation-settlement.js`, `reconciliation-ledger.js`, `server/reconciliation.js`, `reconciliation-repository.js` | per binding and day: revisions in the ledger, a state row with reason, attempts, next time and a request; calls in flight, `recheckAt` | plan, local judgement, read and book, record a failure, delete a left-over row, request a settlement anew, prune | the poll and a person on the same day, the switching time moved while it is read, results arriving late, reasons that hide a day | a request is answered exactly once under the times in force; a fixed day changes only on request and with confirmation |
| Observation of today, snapshots | result cache, `latestToday`, snapshots | observe, evaluate, cache | shared reads, stale cache entries | never answers with another scope's figures |
| **Bindings and the Keys of a day** `server/reconciliation.js`, `reconciliation-repository.js`, `channel-profit.js` | rules, channels, rate segments, day keys | create, stop, reopen, change the Key for past days, settle | changes made days later and in any order, settling meanwhile | what a Key cost on a day is paid by one binding |
| **Store** `db/store.js`, with the operations of `channel-onboarding.js` and `upstream-merge.js` | stations and settings in memory, `_saveChain`, `_stationLocks` | edit, archive, confirm an account, update login information, merge and undo, bind | a write is published only after commit, tokens change in between, locks of several stations | memory and database agree on what people set; account and tokens belong to the login information; locks form no circle |
| **Refresh and alerts** `server/refresh.js`, `lib/alerts.js` | queries in flight, alert state and incidents with the channels still to be told | query, evaluate, deliver, record, retry | the setting, the channels or the station change between sending and recording | nobody is told twice; one reminder per round; an archived station is left alone |
| Login `lib/auth.js` | failures per source, site-wide window, session epoch | reserve, release, lock | the slow hash between reservation and release | no more attempts than the limit whatever runs at once |
| Key agent `agent/` | current and last good snapshot, read in flight, breaker | get | clock moving back, breaker, stale answers | one read at a time, never within the gap; no stale answer for an unsafe account |
| Request budget `lib/own-request-budget.js` | hits of the window, breaker level, floor | note, allow | results of requests sent before the breaker opened | a share is left to the other readers; the floor is kept |
| **Upstream spend, user operations** `server/upstream-spend.js`, `user-ops.js` and their stores | days and states of an upstream; balances, usage and progress of the own site | read, store, claim, forget when the address changes, purge | forgetting while reading, failure between two statements | nothing of another site is kept; what is claimed is stored |
| Upstream auto verification `server/upstream-auto-verify.js` | verifications in flight | tick, verify, forget | forgetting while verifying | a forgotten station stays forgotten |
| Channel onboarding wizard, own-site helpers, raw-row cache | wizard steps, shared reads | | retries of what was already done | |
| Providers, notification, database, pages, demo | – | network and database I/O, presentation | | |

They interact through calls (`refreshDue` runs planning, settling, pruning and the
ingest one after the other), through the store's settings (the switch of the
ingest, the report's progress), through tables (the settlement reads the buckets
and the gap the ingest recorded) and through maps of calls in flight that several
callers share.

`PROJECT.json` lists every component with its files, and under `hazards` each place
where the code could go wrong in a way a test would hardly reach.

## Modules

| Module | Contents |
|---|---|
| `OwnLogIngest` | the ingest round and the store's transactions, any number of processes |
| `LogCoverage` | what the store promises its readers: coverage growing at its end, each log counted once by the step that covers it |
| `MCOwnLogIngest` | instances for TLC |
| `OwnLogIngestProofs` | types, `CountedOnce`, `ForwardOnly`, `NothingLost`, `StagingOwned`, the refinement `ImplementsCoverage` |
| `ReportDelivery`, `MCReportDelivery` | the report scheduler and instances |
| `ReportDeliveryProofs` | types, cap, served channels, no second copy, recorded only when all have it, waiting times |
| `Settlement`, `MCSettlement` | one finished day of one binding, and an instance |
| `SettlementProofs` | types, failures and their requests, rows beside the ledger, moves booked, shrinking compared |
| `KeyDays`, `MCKeyDays` | which binding pays for a Key's day, and instances |
| `KeyDaysProofs` | types, `NothingDropped`, `PaidOnce` of two bindings |
| `StationStore`, `MCStationStore` | the stations in memory and database, the operations on them and their locks, and an instance |
| `StationStoreProofs`, `StationDocsProofs` | types, the order of the locks; accounts, tokens, memory and table, bindings, edits |
| `BalanceAlerts`, `MCBalanceAlerts` | refresh of one station and its alerts, and an instance |
| `BalanceAlertsProofs` | types and all six properties |
| `SiteData`, `MCSiteData` | what background work stores about a station, and forgetting it, and an instance |
| `SiteDataProofs` | `OnlyThisSite`, `Covered` |

Operators preceded by a comment that begins with "Mutant" are wrong versions of the
definition that follows. No specification uses them; putting one in the place of the
right definition must break the property named in `PROJECT.json`, which shows that
the property depends on the code it is about.

### OwnLogIngest

State: `cursor` is the row of `own_log_cursor` (range covered, gap skipped),
`pending` the row of `own_log_pending` (window, next page, ids seen, sums so far,
revision), `counted` the buckets, abstracted to how often each log was added. `wk`
holds each worker's locals: where its round stands, the staging it read, its draft,
budget and window size. `site` and `late` are the logs the site serves, `key` the
fingerprint under which rows are classified.

Every step between two awaits of `ingestOnce` is an action (`wk[w].pc` names the
await it waits for), every transaction of the store is one action, and it can fail
(`Fail`) or the process can die (`Crash`). `Tick` moves the clock, logs appear with or
without delay, and `Reclassify`, `DeleteStation`, `OldVersionAdvance` and `PruneBuckets` are
the other things that happen to the tables.

Simplified: the wall-clock deadline of a round is a choice to stop reading
(`StopReading`); the budget is any number up to `MaxBudget`; the site deletes no logs; the
clock is in whole seconds, the unit windows are aligned to.

`ImplementsCoverage` is the refinement: with `row <- cursor` every behaviour of the
reader is one of `LogCoverage`, in which windows, pages, staging and revisions do not
occur. The settlement relies on that abstraction when it takes sums from the buckets.

### ReportDelivery

State: `db` and `store` are the report's part of the settings in the database and in
memory, `held` is `_reportDelivery`, `run` the round under way, `plan` and `targets` the
settings that may be edited. `got`, `about` (which days' figures were sent), `rounds`, `ended`, `began` and `lost` are history.
The actions follow the awaits of the callback: `Start`, `SaveStart`, `Build`, `Deliver`/`Refuse`
per channel, `Judge`, `Record`, `SaveFailure` and their failing versions. A failed write leaves
memory as it was and the database either way (`Unsaved`), and once a failed write was
committed the copies stay different until the next write.

Simplified: one process; a channel that accepted a copy but whose answer was lost
counts as a refusal and its copy is not counted; the manual send keeps no state.

### Settlement

State: `row` is the day's row of `reconciliation_settlement_state`, `ledger` its newest
revision. Times of requests are numbers in order, `scope` is the number of the request
that came with the last move of a switching time, so that comparing it stands for the
comparison of the scope fingerprint. `round` is the planning half of a polling round,
`run[s]` the call of `settleDay` by the poll or by a person, `deleting` a delete that was
sent without waiting, `memo` the map `recheckAt`. `basis` (under which switching times the
newest figure was read), `swept` (the newest request that such a delete took away) and
`markedFor` are history.

Of a bill only the figure matters and that one figure may be less than half of
another, and whether it is below `ShrinkFloor`, from which on a fall needs no confirmation; of a failure only its class: `reading` is retried, `unanswered` is a manual
reason the local judgement sees, `unused` one that only reading the bill shows
(CHANNEL_KEY_NO_USAGE), `gap`, `shrunk` and `tooOld` are the sticky ones. Times are the outcomes of the
comparisons the code makes: `later` (the next attempt lies ahead), `age` (yesterday, a day
older than that, a week or a month old), `lapsed` (requests a week old). `edited` stands for settings
that are younger than the whole day and for the changed scope that comes with them.

The actions: `ReadStates`, `ReadDays`, `Plan` for `planSettlement`, whose two parallel queries see a
moment each; `Probe` and `Recheck` for
`settleDue`; `OpenByHand`, `Inspect`, `ReadSites`, `Judge`, `Book`, `LookAgain`, `Fails`, `Record` for `settleDay`,
`inspectRule`, `persistResult` and `saveSnapshotsForScope`; `MoveSwitch` and `CutRequest` for the two
callers of `requestResettle`; `Prune`; then the world. A call for the same request and
sources joins the one in flight and gets its answer; a change of the binding takes the
call off that list and makes it start again, at most `MaxTries` times.

A person reads the day again as yesterday or by its date, which the code treats
differently (`recent`), and may confirm a figure of a page loaded at any time.

Simplified: weeks pass only while nothing is in progress, since calls and rounds end or
time out in minutes; a day's window never changes; the lookback budget, days outside
the life of the binding and fixed-cost days are left out, each of which only keeps the
automatic settlement from a day.

### KeyDays

State: `bind` is the list of bindings in the order of `bound_at_ms`, `held` and `gave` are the
rows of `reconciliation_rule_day_keys` without and with `yielded`, `fixed` and `booked` the days in the
ledger and the Keys whose cost they contain, `queued` the requests to settle anew, `blocked`
the days put to a person as CHANNEL_KEY_NO_USAGE. `used` and `earned` are what the sites
know. `pick` holds what `changeRuleKeyManual` has read before its one transaction; `raced` and
`overtaken` are history, the days booked, or put to a person, between that reading and the
transaction.

Actions: `Create`, `Stop`, `Reopen` and `ReadPick`/`CommitPick` are the outcomes of `selectKey` and `stop`, which
wait for each other (`serialized`); `Settle` is the settlement of a day as far as its Keys go,
which does not wait for them. `FirstUse` is `findKeyFirstUseDay`, `Lost` is `lostKeyDays`, `NewHeld`,
`NewGave` and `StuckHeld` are the rows a change writes.

Simplified: one own site, one upstream, one channel per binding; Keys chosen by hand, not
recognised by the key agent; the 31 days of looking back are more than `MaxDay`; a reading of
the upstream gives what was used so far; a settlement reads and books in one step
(`Settlement` is about what comes in between), and waits longer after midnight than a change
takes (RECONCILIATION_SETTLE_DELAY_MS).

### StationStore

State: `mem` and `db` are the stations' documents in memory and in the table, `queue` and `writing`
are `_saveChain`: a change is computed from the memory when its turn comes, written, and only
the fields it changed are published. `lockq` are the station locks and the lock of the channel
sources (`Source`), `job` what each of the five operations has read and holds, `reader` the background
reader that changes tokens without a lock, `preview` an open preview of new login information.
`rule` and `merge` stand for one binding and one merge that can be undone. `shown` is history: the
settings that the preview showed, and those an update has saved since; and so is `unsaid`: the
writes that were stored although they were reported as failed.

Each operation is a start (reads and checks), the locks in their order, a held step that
checks again and queues its change, and the turn in the queue. A write is committed and then
published (`Commit`, `Publish`); or it is rolled back (`RollBack`); or its commit takes effect and
reports a failure (`CommitUnsaid`), and then the table, the binding and the merge log are new, the
memory is old and the caller is told that it failed, until the next write of anything
stores the memory's documents again. `Crash` loads the memory from the database.

Simplified: a document is its login information, its version, the confirmed account, the
tokens, archived or not and merged into which; tokens are the login information they came
from; of the tables a merge changes only one binding and the newest row of the merge log;
the refresh token of a station is taken for a login (`sub2apiRefresh`). Of updating login
information the lock of the own station (`channel-onboarding.js:610`) and the comparison of
relations and source version (`:615`) are left out: both only make it wait or be refused
more often. A kept station that is purged takes the
possibility to undo the merge with it.

### BalanceAlerts

State: `alert` is the station's `alertState` with its incidents, `sending` a refresh that waits for
its messages to be delivered, with the state computed before, `edit` a change of the
no-renewal setting waiting for its write. `got`, `told`, `reminder` and `round` are history: who got the
first message of an incident, what was told when, and the reminders of the present round.

`Answer` evaluates an answer and decides what to send (`Evaluated`), `Sent` delivers one message per
channel and records the outcome (`Outcome`, `Written`), with a crash possible in between;
`EditPrepare`/`EditPublish`, `Switch` and archiving are what people do meanwhile.

Simplified: one station; the texts and the channels per event are left out; times are
counted in the intervals the rules compare.

### SiteData

State: `up` is what is kept of an upstream's spend (table of days, state in table and memory, the
list shown), `read` the reading of days under way, `users` the tables of user operations, `run` their
round, `move` a change of address or a purge under way. Every stored value is the address it
was read from.

Each statement to the database and each request to the site is an action, so that a change
of address can come between any two of them. `Give` is the proxy that compares the generation
around each call of the store. A statement takes effect when it is sent; it works, fails, or
fails although it took effect (`Fates`). A write of rows takes `Chunks` statements, of which only
the first is sent with a comparison (`UserFurther` is each of the others). Forgetting goes through
the four tables of `deleteStation`, or the two of the spend and its memory; the station itself
goes last, and that can fail.

Simplified: one station that is an upstream or the own site; days of spend and of usage, not
hours; one user stands for all whose reminders are stored; a removal of the station that is
stored and reported as failed is a matter of `StationStore`.

## Runs

| Run | Instance | Shows |
|---|---|---|
| `ingest_two_workers` | two processes, two logs, one disturbance | `CountedOnce`, `StagingOwned` under every interleaving of two rounds with a crash, a deletion or an old version |
| `ingest_one_worker` | one process, switch on and off, answers with and without a total, two disturbances | `NothingLost`, `ForwardOnly` and the refinement `ImplementsCoverage`, which includes that a log is counted by the step that covers it |
| `ingest_liveness` | logs crowded in one second, one page a round | `CatchesUp`, `StagingEnds` |
| `report_delivery` | two channels, two attempts, two days, two upsets, one edit | the five safety properties of the scheduler, and `DayEnds` |
| `settlement_moves` | the poll and a person, one request of either kind, readings and queries that fail | `Rebooked`, `MarksOwnRequest`, `NoOrphan`, `ShrinkConfirmed` |
| `settlement_live` | the poll, two attempts, both kinds of manual reasons, an edit, changed sources, a month | `GetsSettled` |
| `key_days` | two bindings and Keys, three days, four things a person does | `PaidOnce`, `NothingDropped` |
| `store_operations` | two stations, two operations, one preview, the reader, one fault, which may be a stored write reported as failed | memory and database agree on settings but after such a write, account and tokens belong to the login information, merges leave no binding, no circle of locks, no overwritten edit |
| `balance_alerts` | one station, two channels, two flips of the setting, five moments | who is told what, how often, and that an archived station is left alone |
| `site_data` | five days, two changes of address or a purge, one fault, writes of two statements | `OnlyThisSite`, `Covered` |

Two further runs are expected to be violated (`PROJECT.json`, `findings`):

- `request_lost`: the poll alone violates `RequestKept`. A failure has left a row for the day. The plan of
  a round reads that row; then the call of the round before books the day, which takes the
  row away; then the plan reads that the day is booked, and sends the delete of a row it
  takes for left over. A switching time moved in the meantime has written a request into a
  new row, and the delete, which compares nothing but the day (`reconciliation.js:4035`), takes
  it away: the day stays booked under the old times.
- `key_paid_twice`: with three bindings `PaidOnce` does not hold. Binding 2 gives a day of Key k to
  binding 1, which had it; later binding 3, which has come to k by then, changes its Key for
  past days including this one: the code sees that k was given away on that day, takes it for
  given to binding 3 and books its cost there, while binding 1 keeps it. `key_days` has two
  bindings, with which there is no third to mistake for the other; `TwoDays` only narrows the
  search to schedules in which all bindings are made on the first day.

### Known limits

What else the code does otherwise than its comments say, or does not guard against. The
models show each of these when a bound or an exemption named here is lifted:

- With `TurnedOn = {TRUE}` and one log of the second day, `ingest_two_workers` violates
  `CountedOnce`: `skipCursor` (`own-log-store.js:149`) locks the progress row but does not compare
  what the round had read, so that a second process that sees the switch go on moves the
  progress back over a window applied in between. One process, as deployed, cannot.
- With `HasTotal = {FALSE}` and two logs in one second `StagingEnds` fails: a late log shifts the pages
  of a half-read window, the overlap throws and keeps the staging, and every later round asks
  for the same page again (`own-log-ingest.js:216`; the comment at line 206 says that the next
  round reads anew).
- A report round that begins just before midnight records the day before, and reads its
  figures after it (`report.js:459` and `:91`): `about` then holds another day than the one before.
- The figures that are booked anew are compared outside the transaction that books
  (`reconciliation.js:3789`): a call that compared with one revision may replace the next one by
  less than half of it, without anybody's confirmation. `ShrinkConfirmed` sets such a call apart
  (`compared`).
- A request that a plan has deleted (run `request_lost`) leaves its day under the old times;
  `Rebooked` sets that day apart (`swept`).
- A row without a request may stand beside a booked revision when the day is over a month old,
  until the cleaning takes it: a call has read an open request, which is then given up;
  another fails and records it, in a row without a request; then the first books, and its
  request being gone it leaves that row. `NoOrphan` is about the days before that age.
- The mark "too old to settle automatically" is protected only while it is the newest reason
  (`reconciliation.js:955`); a hand read that finds less than half, then one that fails, replace it.
- A settlement planned for a request which a person has had answered meanwhile still
  settles anew, and writes a further revision of a fixed day if the figures have changed
  (`reconciliation.js:934`): a new revision does not imply that a request is open.
- A day that is booked between the reading of the booked days (`reconciliation.js:1299`) and the
  transaction of a Key change is not settled anew. `PaidOnce` and `NothingDropped` leave these days
  out (`raced`).
- A day that is put to a person as not used between the reading of these days
  (`reconciliation.js:1310`) and the transaction stays with the person although the change has
  given it a Key that was used. The next change of the Key takes it for a day without use and
  replaces its Keys, so that the used one is in nobody's cost. Three Keys and two changes
  show it; `NothingDropped` leaves these days out (`overtaken`).
- `reconciliation.js:2111` says that reopening a binding sets `bound_at_ms`; only creating does.
- With `FlipsPerSend = 2` `NewRoundReminds` fails: when the no-renewal setting is switched off and on
  again while messages are being sent, the record of the old reminder is written back
  (`alerts.js:292` compares the value only), and the new round never reminds.
- A message that was sent and not recorded, because the process died, is sent again.
- An upstream whose address changes while its days are being read: the reading stores the old
  site's days after they were deleted (`upstream-spend.js:88`), although `upstream-spend.js:160`
  says that none may stay; a round of user operations that starts while the own site is purged
  stores rows for good. `OnlyThisSite` and `Covered` leave this out (`raced`).
- An address change that fails or crashes between its deletions is not taken up again
  (`broken`).
- A write of more than 2000 rows is sent in several statements, and the generation is compared
  before the first and after the last only (`user-ops-store.js:18-29`, `:49-55`), although
  `user-ops.js:48` says that a round writes no more once the generation has changed. The usage of
  a day is one row per user and hour, so that some 84 active users make such a write.
  A statement sent after the deletion stays; `OnlyThisSite` and `Covered` set apart the
  forgetting that meets one (`raced`).
- A commit that takes effect and reports a failure (`store.js:410-421`): people are told that their
  change was not saved while the table has it; a restart before the next write of
  the store makes it real, and the next write of anything takes it back. `PublishedIsStored` sets
  apart the time until then (`unsaid.now`). If it was a merge or its undoing, the bindings moved and stay
  so while the next write takes back what was done to the stations: after an undoing a
  binding points to a merged station. `NoBindingToMerged` sets this apart (`unsaid.by`).

### Bounds and why they are enough

*Ingest.* A page holds one log and a round reads one page per window before it halves
it, so that two logs already make a window that is staged over several rounds, is
halved, or shifts when a third turns up late. Two processes suffice for every race on
one row, because each transaction locks it and compares what it read with what is
there. `MaxUpsets` bounds crashes, reclassifications, deletions and old versions, `MaxTime`
the clock, `Revs` the revisions, which are taken from those nobody holds (a random UUID).

*Report.* Two attempts give a first and a last one; two channels a served and a refused
one; six instants of days of four make a second day that begins while a round of the
first is still open. `MaxUpsets` bounds crashes and failed writes, `MaxEdits` edits.

*Settlement.* The figures 1 and 3 are a figure and one of less than half of it, and the floor of
2 lies between them, so that the fall of the larger one needs a confirmation. One
request is enough for every race between a request and a call that did not read it, and
for a plan's delete of a row it did not read.
`MaxAttempts` is 1, or 2 in the liveness run, in
which the way to the last attempt matters; `MaxTries` is 2 (the code has a few more of the
same). `settlement_moves` has a person beside the poll while the day is yesterday (`MaxAge` 0), so that
every order of their steps with a moved time is met; `settlement_live` lets the day grow a month old
(`MaxAge` 3), with requests of the program's own, an edit and changed sources. `MayMove`,
`MayCut` and `MayEdit` name what is left out of a run. The theorems have none of these bounds.

*Keys.* Two bindings and two Keys suffice for a Key to go over, to come back, to be claimed
for past days and to be given away, with the earlier or the later binding as its owner; three
days have a blocked or booked day, the day before a change and the day of it. Four steps of a
person (`MaxOps`) are two bindings and two changes of them. Days with use are three of six.

*Store.* Two stations make a merge and both orders of two locks; two operations and the reader
make every race of two changes in the queue, a preview adds one that was read long before.
`FirstCreds` leaves out initial states that differ by a renaming. One fault is a failed write,
a write that is stored and reported as failed, a failed login or a crash.

*Alerts.* A threshold of two makes unconfirmed errors, a balance goes down, fails and
recovers; retries reach the second delay and the end of their window; `MaxFlips` 2 is off and
on again, at most one during each delivery (Known limits).

*Site data.* A station lives five days with two days to read back and two to keep, so that
days grow old and a reading covers several (`SiteAssumption` asks that a station lives longer than
`BackfillDays`, since a reading of days before day 0 has no meaning); the address changes twice, or changes and is
purged; a failed statement, with or without effect, or a crash comes at any of them. The
own site starts a day later than an upstream: a day of today's usage and one on which it has
become a day before are enough for its rounds. Two statements a write (`Chunks`) are a
first and a further one.

### Fairness

Each process goes on: the timers restart rounds, every query has a time limit, so weak
fairness of a worker's steps, of the report's rounds, of planning and of the poll's
settling is what the code does. The clock ticks. `CatchesUp` and `StagingEnds` suppose more of the site: strong
fairness of each request and each transaction of a round, that is, what is tried again and
again works in the end. A reader whose every page fails cannot catch up; the promise is that
no failure in between, and no staging it leaves, prevents it. Beyond that nothing is assumed of people, sites,
edits or crashes; those happen any number of times within the bounds, and where a
promise needs the site it says so: `GetsSettled` supposes that the sites answer for good
from some moment on, which includes that the process is not killed for ever (`Crash` is
one of the troubles), and its conclusion allows that the day was left to a person, or to
time, for a reason stated in the row.

## Proofs

Every safety invariant and action property that a passing run checks is also a theorem, for every
value of the constants; where a theorem needs a hypothesis beyond the assumptions of its module, it
is named below with what happens without it. Each proof has an inductive invariant, shown step
by step, one lemma or step per action; the histories and the larger invariants were
checked by TLC first.

`OwnLogIngestProofs` (no bound on workers, logs, windows or time). All but the types are under
`SkipsAlone`: the switch-on skip is judged by one process only, as deployed. Without it two
processes can count a log twice (Known limits).

- `TypeCorrect`: `Spec => []TypeOK`, without a hypothesis.
- `NeverCountedTwice`: `Spec => []CountedOnce`, and `CoverageForward`: `Spec => ForwardOnly`.
  `CountedOnce` is not inductive: a window may be applied only because its staging holds
  logs of that window, each at most once, and because the buckets hold nothing beyond
  the progress. `CountingInv` adds exactly that: `SoundStaging` (every staging, in the table,
  in a worker's hand or in its draft, lies in its window and adds a log once),
  `CountedBehind` (what is counted lies behind the progress) and `SkipsForward` (a worker about
  to skip goes forward). The lemmas follow a round: a draft of a sound staging is sound,
  each step of a round keeps its worker's data sound, each transaction keeps the store.
- `CoverageIsCounted`: `Spec => []NothingLost`. `ReadingInv` adds `Pages` and `Reads`: a staging that is complete
  holds all of its window but for late logs, and one that is not, on a site without totals,
  holds full pages. That full pages are all there is rests on the ranks of the logs in a
  window, which have no gap (the lemmas on pages). `OneGap` and `CoveredPast` say that the
  coverage has at most one gap and lies before the horizon, behind which a log that turns
  up is late.
- `StagingHasOwner`: `Spec => StagingOwned`, and `PromiseKept`: `Spec => ImplementsCoverage`. The refinement maps
  `row` to `cursor`; of its steps only a committed window, a skip and a deletion move `LogCoverage`,
  every other is a stutter.

`ReportDeliveryProofs` (any channels, attempts, days and upsets), under the three named
assumptions on the constants:

- `TypeCorrect`; `CapHolds`: `Spec => []AttemptsCapped`; `NoneLeftOut`: `Spec => []Served`; `NeverTwice`:
  `Spec => []SentOnce`.
  The strengthening has four parts: `DaysOrdered` (no copy of the progress is of a later day
  than the round's), `RoundsKnown` (each copy of the progress counts all rounds of its day,
  which is what makes the cap survive failed writes and restarts), `Learnt` (a round keeps
  what it has learnt and sends only to the others), `CopiesKnown` (a channel the newest copy
  does not count as served has at most the copies a crash made it forget).
- `RecordedWhenServed`: `Spec => RecordedWhenAllHaveIt`, from the same invariant.
- `RetriesWait`: `Spec => Waits`. `Timely` says from which moment each copy of the progress waits: the held one
  from the beginning of a round under way or the end of the last, a stored one at least
  from the last beginning that was stored.

`SettlementProofs` (any people, requests, figures, attempts and ages, and any moments at which the two
queries of a plan are answered; no theorem has a hypothesis):

- `TypeCorrect`: `Spec => []TypeOK`, and `FailuresOfOwnRequest`: `Spec => []MarksOwnRequest`.
- `NoRowBesideLedger`: `Spec => []NoOrphan`. The danger is a call that read an open request and books
  after the request is gone. `RequestInv` rules it out while the day is less than a month old: a day
  that is not booked loses its request by the cleaning only (`GivenUp`), since a plan deletes
  rows of booked days only, and what was booked stays so (`Planned`).
- `MovesAreBooked`: `Spec => []Rebooked`, by `Standing`: the request in the row is the newest, so that a booking
  that takes a row away has read the newest request, and `InScope` that it read the day under the
  times in force.
- `ShrinkingIsCompared`: `Spec => ShrinkConfirmed`. `Compared` says what stands before the booking: a figure that
  needs no comparison, one that was compared with what is booked now, or one that was
  compared with an older revision.

`KeyDaysProofs` (any channels, Keys, days and changes):

- `TypeCorrect`: `Spec => []TypeOK`.
- `UsedKeyIsPaid`: `Spec => []NothingDropped`, for any number of bindings. Of the bindings that have a used Key on a
  day the one made last pays; `DayInv` says that there is one. `Given`: a used Key that was
  given away is some binding's; `Carried`: a settled day of a binding that has a used Key has it
  in its cost, or a later binding has the Key; `Blocked`: the Keys of a day put to a person were not
  used, so that replacing them drops nothing, and what a change has read of its binding's days is
  still so or is recorded in the histories; `Calendar`: all that is said of a day is said of one that is
  over and in the range of the binding. Attempting the proof showed the case of `overtaken` days,
  for which the property is false and which the small instance of the run does not reach
  (Known limits).
- `OneBindingPays`: `Spec => []PaidOnce` for two bindings (`MaxBindings <= 2`). `Claimed`: the past days that a change
  claims for its Key were nobody else's; `Kept`: what a settled day has paid for is still its
  own, and no later binding's. The hypothesis is used in one place, where a change takes a
  Key back that "another" binding gave away: with two, it was given to this one.
  With three `PaidOnce` is false (run `key_paid_twice`).

`StationStoreProofs` and `StationDocsProofs` (any stations, operations and faults):

- `TypeCorrect`: `Spec => []TypeOK`. An entry of the save queue belongs to an operation that waits for it, once
  (`QueueInv`).
- `LocksNeverCircle`: `Spec => []NoLockCircle`. `LockInv`: the locks an operation has are smaller than those it still
  needs, it is first in their lines, and whoever stands in a line has the lock or needs it
  next. A circle of waiting operations would have a smallest lock among those waited for.
- `AccountOfLogin`: `Spec => []IdentityMatches`; `TokensOfLogin`: `Spec => []TokensMatch`; `SeenIsStored`: `Spec => []PublishedIsStored`. The invariant
  follows a document through the queue: `DocsOK` says what each kind of change may alter of
  what is in memory at that moment, and that memory and table differ only by the change being
  written, or since a write that was stored and reported as failed (`unsaid.now`); `ConfirmOK` that an account was asked with the login information of the version that
  was looked at.
- `BoundToLiving`: `Spec => []NoBindingToMerged`, by the locks: a binding and a merge of its station exclude
  each other; and by `BindingOK`: table and memory agree on what is merged as long as no merge was
  stored and reported as failed, whatever other writes were.
- `EditsRespected`: `Spec => AuthRespectsEdits`. `ShownInv`: a station that still has the version shown has the login
  information and the reference shown. The property is about what reaches the table, so
  that it covers a write that is stored and reported as failed.

`BalanceAlertsProofs` (any channels, delays and flips):

- `TypeCorrect`: `Spec => []TypeOK`.
- `NobodyTwice`: `Spec => []NoneTwice`, by `Twice`: in what is stored and in what a refresh is about to store, nobody
  who received a message still gets the first one.
- `ToldAgainOnlyLater`: `Spec => NotToldAgain`, by `Telling`; `IncidentsApart`: `Spec => NoEarlyRestart`, by `Beginnings`: an incident on record
  has not ended, and one that is gone began more than the gap ago.
- `OneReminderARound`: `Spec => []OneReminder`, by `Reminding`: a round of the setting that lacks a record of its
  reminder has sent none, and a refresh under way is of the present round or of one that
  was left. `NoOldReminder`: `Spec => []NewRoundReminds`, where the setting changes at most once while messages
  are sent (`FlipsPerSend <= 1`), by `RoundKept`; with two changes it fails (Known limits).
- `ArchivedIsLeftAlone`: `Spec => ArchivedLeftAlone`.

`SiteDataProofs` (any numbers of days, moves, faults and statements of a write):

- `OnlyThisSiteAlways`: `Spec => []OnlyThisSite`.
  `SiteInv` follows the forgetting table by table. `FromHere` is its core: once forgetting has
  begun a new generation, a round that is still alive has its figures from the present
  address, so `PointsHere` and `UsageHere` hold of each table from the moment it was emptied
  (`Past`), as does `AlertHere`, and `NoneAlive` says that a purge leaves no such round. For an upstream, which
  has no generations, `Reading` says that days are read only while nothing is forgotten
  unless `raced` records it, and `DaysHere` and `ShownHere` follow. `Split` keeps both halves
  apart. The proof takes a step of a round through one lemma, `UserGoes`: it ends and leaves
  everything as it is, or it is alive and adds figures of its own address only. A further
  statement of a write is not compared: that it keeps what the others need while the round
  is alive is `FurtherKeeps`, and otherwise `raced` records it.
- `CoveredAlways`: `Spec => []Covered`. `CoverInv` adds `Backfill` (the backfill of a round that is still alive is the one that
  is stored, unless the forgetting took it away), `Progress` (a reading of days fills the gap
  behind what the memory says was read, and the days it has read are stored before its
  state is), and the bounds on days and cursors (`Calendar`).

Only model-checked: liveness (`CatchesUp`, `StagingEnds`, `DayEnds`, `GetsSettled`), since fairness and ENABLED are out of
the prover's reach. No operator of the models is recursive, and no proof needs induction over
data.

## Not modelled

- The request budget of the own site: the ingest takes any budget as an input. The breaker's
  levels would only restrict it.
- Login: the reservation of an attempt and its release are in one process and meet no failure
  that the other modules do not have.
- The key agent, its client and the identification of channels by it: Key changes it recognises
  go the way of `KeyDays` without the person's part.
- Auto verification, the raw-row cache and the own-site helpers: reads that several callers share.
- The onboarding wizard beyond the operations on stations: most of its state is the New API
  site's.
- Providers, notification, encryption, migrations, routes and pages: network and database
  I/O and presentation; the modules see their outcome as an answer, a refusal or nothing.
- Figures: sums, ratios, forecasts, prices.

## Plan

1. *Done:* `OwnLogIngest` with `LogCoverage`, `ReportDelivery`, `Settlement`, `StationStore`, `BalanceAlerts`,
   `SiteData`, `KeyDays`.
2. Key changes recognised by the key agent in `KeyDays`, and rate segments (`RateSegments`): moved and
   split segments cover the time without overlap.
3. `AgentSnapshot`: gap, breaker, stale answers, clock moving back. Theorem: reads are apart.
4. `RequestBudget`: window, floor, breaker; composed with the ingest in place of the free
   choice of a budget. `OwnLogSwitch`: the installation-wide switch over several stations.
5. `AutoVerify` and the shared own-site reads: deduplicated calls with forgetting;
   `ExpectedCost`: filling a revision while it is replaced.

Proofs to come: `PaidOnce` for any number of bindings, setting apart the days that
were given to a third; and the theorems of the modules named above.
