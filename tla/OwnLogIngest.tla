---------------------------- MODULE OwnLogIngest ----------------------------
(***************************************************************************)
(* Incremental reading of an own station's consumption log into hourly     *)
(* buckets: server/own-log-ingest.js (the round a polling process runs)    *)
(* over server/own-log-store.js (one transaction per operation).           *)
(*                                                                         *)
(* One station.  Workers are processes that run ingestOnce; between two    *)
(* awaits of a round any other worker, the log site, the clock and the API *)
(* handlers may move.  Time is in whole seconds, the unit the windows are  *)
(* aligned to.  A bucket row is a sum over log rows, so the buckets are    *)
(* abstracted to how often each log was added to them (counted).           *)
(***************************************************************************)
EXTENDS Integers, FiniteSets

CONSTANTS
  Workers,         \* processes that run ingestOnce for this station
  Logs,            \* log ids (naturals: the site orders pages by time, then id)
  LogTime,         \* [Logs -> Nat], created_at of a log
  Revs,            \* revisions randomUUID() can return
  Keys,            \* classification fingerprints (admin directory, resold keys)
  HasTotal,        \* may an answer carry the number of matching logs, may it lack it
  TurnedOn,        \* values of justTurnedOn the polling round may pass
  DayLen, Lag, MinAdvance, Keep, Slot,
  PageSize, PagesPerWindow, WindowMin, WindowStart, WindowMax,
  MaxBudget,       \* most requests one round may send
  MaxTime,         \* bound of the clock
  MaxUpsets        \* bound of crashes, reclassifications, deletions and old versions

ASSUME WorkersAssumption == Workers # {}
ASSUME LogsAssumption == /\ Logs \subseteq Nat
                         /\ IsFiniteSet(Logs)
                         /\ LogTime \in [Logs -> Nat]
ASSUME TokenAssumption == "none" \notin Revs /\ "none" \notin Keys
ASSUME SwitchAssumption == HasTotal \subseteq BOOLEAN /\ TurnedOn \subseteq BOOLEAN
ASSUME TimeAssumption == /\ {DayLen, Slot} \subseteq Nat \ {0}
                         /\ {Lag, MinAdvance, Keep, MaxTime, MaxUpsets} \subseteq Nat
ASSUME PageAssumption ==
  /\ {PageSize, PagesPerWindow, WindowMin, WindowStart, WindowMax} \subseteq Nat \ {0}
  /\ MaxBudget \in Nat

VARIABLES
  now,       \* the clock all processes share
  site,      \* logs the station currently serves
  late,      \* history: logs that appeared more than Lag after their time
  key,       \* fingerprint of the station's current admin directory
  cursor,    \* row of own_log_cursor, or NoRow
  pending,   \* row of own_log_pending, or NoStaging
  counted,   \* how often each log is in own_log_buckets
  wk,        \* local state of each worker's round
  upsets     \* how many bounded disturbances have happened

vars == <<now, site, late, key, cursor, pending, counted, wk, upsets>>
env == <<now, site, late, key, upsets>>
db == <<cursor, pending, counted>>

NoRow == [from |-> 0, to |-> -1, disFrom |-> -1, disTo |-> -1]
NoGap == -1
NoTotal == -1
NoStaging == [from |-> 0, to |-> 0, page |-> 0, total |-> NoTotal, seen |-> {},
              adds |-> [l \in Logs |-> 0], complete |-> FALSE,
              key |-> "none", rev |-> "none"]

MaxOf(a, b) == IF a >= b THEN a ELSE b
MinOf(a, b) == IF a <= b THEN a ELSE b

-----------------------------------------------------------------------------
(* Pure parts of a round. *)

\* First reading position: yesterday 0:00 of the business day of `at'.
FirstFrom(at) == MaxOf(0, (at \div DayLen - 1) * DayLen)

Horizon(at) == at - Lag

InWindow(from, to) == {l \in Logs : from <= LogTime[l] /\ LogTime[l] < to}

\* /api/log/ returns page p of the matching logs, newest first.
NotOlder(a, b) == LogTime[a] > LogTime[b] \/ (LogTime[a] = LogTime[b] /\ a >= b)
PageOf(W, p) ==
  {l \in W : LET rank == Cardinality({m \in W : NotOlder(m, l)})
             IN  PageSize * (p - 1) < rank /\ rank <= PageSize * p}

TotalOf(W, given) == IF given THEN Cardinality(W) ELSE NoTotal
PagesFor(total) == (total + PageSize - 1) \div PageSize
NeedPages(items, total) ==
  IF total # NoTotal THEN PagesFor(total)
  ELSE IF Cardinality(items) < PageSize THEN 1 ELSE PagesPerWindow + 1

\* The window a request of this round asks for: the staged one, or a new one
\* of the adaptive length that starts where the coverage ends.
Ask(s) ==
  IF s.mine # NoStaging THEN [from |-> s.mine.from, to |-> s.mine.to, page |-> s.mine.page]
  ELSE [from |-> s.cov,
        to   |-> MaxOf(s.cov + 1, MinOf(s.cov + s.win, Horizon(s.at))),
        page |-> 1]

\* Adding the logs of a set to bucket sums.
Added(sums, S) == [l \in Logs |-> sums[l] + IF l \in S THEN 1 ELSE 0]

\* Mutant: the next page is not counted up.
DraftSamePage(s, ask, items, total) ==
  LET seen == s.mine.seen \cup items
  IN  [from |-> ask.from, to |-> ask.to, page |-> ask.page, total |-> total,
       seen |-> seen, adds |-> Added(s.mine.adds, items),
       complete |-> IF total = NoTotal THEN Cardinality(items) < PageSize
                    ELSE Cardinality(seen) = total,
       key |-> s.key, rev |-> s.mine.rev]

\* Mutant: every staging counts as complete.
DraftEarly(s, ask, items, total) ==
  LET seen == s.mine.seen \cup items
  IN  [from |-> ask.from, to |-> ask.to, page |-> ask.page + 1, total |-> total,
       seen |-> seen, adds |-> Added(s.mine.adds, items), complete |-> TRUE,
       key |-> s.key, rev |-> s.mine.rev]

\* What the round makes of an answer: the staging row it will try to save.
Draft(s, ask, items, total) ==
  LET seen == s.mine.seen \cup items
  IN  [from |-> ask.from, to |-> ask.to, page |-> ask.page + 1, total |-> total,
       seen |-> seen, adds |-> Added(s.mine.adds, items),
       complete |-> IF total = NoTotal THEN Cardinality(items) < PageSize
                    ELSE Cardinality(seen) = total,
       key |-> s.key, rev |-> s.mine.rev]

\* pending-page-overlap and the two pending-count-mismatch checks.
Unsafe(s, ask, items, total) ==
  LET d == Draft(s, ask, items, total)
  IN  \/ s.mine.seen \cap items # {}
      \/ /\ total # NoTotal
         /\ \/ Cardinality(d.seen) > total
            \/ Cardinality(items) < PageSize /\ Cardinality(d.seen) # total
            \/ ~d.complete /\ ask.page >= PagesFor(total)

-----------------------------------------------------------------------------
(* The rows and the round's local state. *)

Idle(win) == [pc |-> "idle", at |-> 0, on |-> FALSE, cov |-> 0, mine |-> NoStaging,
              draft |-> NoStaging, budget |-> 0, key |-> "none", win |-> win]

Step(w, s) == wk' = [wk EXCEPT ![w] = s]
Leave(w) == Step(w, Idle(wk[w].win))          \* return from ingestOnce

Init ==
  /\ now = DayLen
  /\ site = {} /\ late = {}
  /\ key \in Keys
  /\ cursor = NoRow /\ pending = NoStaging
  /\ counted = [l \in Logs |-> 0]
  /\ wk = [w \in Workers |-> Idle(WindowStart)]
  /\ upsets = 0

-----------------------------------------------------------------------------
(* Before the loop: own-log-ingest.js 112-160. *)

\* The round passed the request budget and read the admin directory (when it
\* could not it returned without a trace).
Begin(w) ==
  /\ wk[w].pc = "idle"
  /\ \E on \in TurnedOn, b \in 1..MaxBudget :
       Step(w, [Idle(wk[w].win) EXCEPT !.pc = "cursor", !.at = now, !.on = on,
                                       !.budget = b, !.key = key])
  /\ UNCHANGED <<env, db>>

\* Caught up: nothing to do.  Close to it: only a started window is continued.
Proceed(w, s, covered) ==
  LET gap == Horizon(s.at) - covered
  IN  IF gap <= 0 THEN Leave(w)
      ELSE Step(w, [s EXCEPT !.cov = covered,
                             !.pc = IF gap < MinAdvance THEN "probe" ELSE "staged"])

\* Mutant: fresh progress is skipped too.
NeedsSkipAlways(s) == s.on /\ cursor # NoRow

\* Only the switch going from off to on skips, and only stale progress.
NeedsSkip(s) == s.on /\ cursor # NoRow /\ cursor.to < FirstFrom(s.at)

ReadCursor(w) ==
  /\ wk[w].pc = "cursor"
  /\ LET s == wk[w]
     IN  CASE cursor = NoRow -> Step(w, [s EXCEPT !.pc = "start"])
           [] NeedsSkip(s) -> Step(w, [s EXCEPT !.pc = "skip"])
           [] OTHER -> Proceed(w, s, cursor.to)
  /\ UNCHANGED <<env, db>>

\* Mutant: the skipped stretch is not recorded.
SkippedUnrecorded(row, to) == IF row = NoRow THEN NoRow ELSE [row EXCEPT !.to = to]

\* skipCursor: the row is locked but covered_to_ms is not compared.
SkippedTo(row, to) ==
  IF row = NoRow THEN NoRow
  ELSE [row EXCEPT !.to = to, !.disTo = to,
                   !.disFrom = IF row.disFrom = NoGap THEN row.to ELSE row.disFrom]

SkipCursor(w) ==
  /\ wk[w].pc = "skip"
  /\ cursor' = SkippedTo(cursor, FirstFrom(wk[w].at))
  /\ pending' = NoStaging
  /\ Step(w, [wk[w] EXCEPT !.pc = "cursor", !.on = FALSE])
  /\ UNCHANGED <<env, counted>>

\* INSERT IGNORE: an existing row stays.
StartCursor(w) ==
  /\ wk[w].pc = "start"
  /\ LET first == FirstFrom(wk[w].at)
     IN  cursor' = IF cursor = NoRow
                   THEN [from |-> first, to |-> first, disFrom |-> NoGap, disTo |-> NoGap]
                   ELSE cursor
  /\ Step(w, [wk[w] EXCEPT !.pc = "started"])
  /\ UNCHANGED <<env, pending, counted>>

\* The row can be gone again: the round then fails on a null cursor.
ReadStarted(w) ==
  /\ wk[w].pc = "started"
  /\ IF cursor = NoRow THEN Leave(w) ELSE Proceed(w, wk[w], cursor.to)
  /\ UNCHANGED <<env, db>>

Probe(w) ==
  /\ wk[w].pc = "probe"
  /\ IF pending = NoStaging THEN Leave(w) ELSE Step(w, [wk[w] EXCEPT !.pc = "staged"])
  /\ UNCHANGED <<env, db>>

ReadStaging(w) ==
  /\ wk[w].pc = "staged"
  /\ Step(w, [wk[w] EXCEPT !.pc = "loop", !.mine = pending])
  /\ UNCHANGED <<env, db>>

-----------------------------------------------------------------------------
(* The loop: own-log-ingest.js 161-240. *)

Looping(w) == wk[w].pc = "loop" /\ wk[w].cov < Horizon(wk[w].at)
Foreign(s) == s.mine # NoStaging /\ s.mine.from # s.cov
TooLong(s) == s.mine # NoStaging /\ s.mine.to > Horizon(s.at)
Reclassified(s) == s.mine # NoStaging /\ s.mine.key # s.key
Usable(s) == ~Foreign(s) /\ ~TooLong(s) /\ ~Reclassified(s)

\* One transaction under the cursor lock; no write when anything moved.
DiscardPending(from, covered, rev) ==
  pending' = IF /\ cursor # NoRow /\ cursor.to = covered
                /\ pending # NoStaging /\ pending.from = from /\ pending.rev = rev
             THEN NoStaging ELSE pending

\* Staging that does not start at the coverage, or was classified otherwise.
DiscardStale(w) ==
  LET s == wk[w]
  IN  /\ Looping(w)
      /\ Foreign(s) \/ (~TooLong(s) /\ Reclassified(s))
      /\ DiscardPending(s.mine.from, s.cov, s.mine.rev)
      /\ Leave(w)
      /\ UNCHANGED <<env, cursor, counted>>

\* The staged window ends after this round's horizon: leave it alone.
KeepLonger(w) ==
  /\ Looping(w) /\ ~Foreign(wk[w]) /\ TooLong(wk[w])
  /\ Leave(w)
  /\ UNCHANGED <<env, db>>

\* Mutant: the staging and the progress are not compared.
CanApplyUnlocked(s) == cursor # NoRow

\* A complete window: buckets, progress and staging in one transaction.
CanApply(s) ==
  /\ cursor # NoRow /\ cursor.to = s.mine.from
  /\ pending # NoStaging /\ pending.rev = s.mine.rev
  /\ pending.from = s.mine.from /\ pending.to = s.mine.to /\ pending.complete

WinAfter(s) ==
  IF 2 * Cardinality(s.mine.seen) < PageSize /\ s.mine.to - s.mine.from >= s.win
  THEN MinOf(WindowMax, 2 * s.win) ELSE s.win

ApplyWindow(w) ==
  LET s == wk[w]
  IN  /\ Looping(w) /\ Usable(s) /\ s.mine # NoStaging /\ s.mine.complete
      /\ IF CanApply(s)
         THEN /\ counted' = [l \in Logs |-> counted[l] + s.mine.adds[l]]
              /\ cursor' = [cursor EXCEPT !.to = s.mine.to]
              /\ pending' = NoStaging
              /\ Step(w, [s EXCEPT !.cov = s.mine.to, !.win = WinAfter(s), !.mine = NoStaging])
         ELSE Leave(w) /\ UNCHANGED db
      /\ UNCHANGED env

MayRead(w) == Looping(w) /\ Usable(wk[w]) /\ ~wk[w].mine.complete

\* No budget left, the deadline has passed or the breaker is open.
StopReading(w) ==
  /\ MayRead(w)
  /\ Leave(w)
  /\ UNCHANGED <<env, db>>

\* Mutant: one request more than the budget.
HasBudgetOffByOne(s) == s.budget >= 0

\* Every request, failed ones too, is paid from the round's budget.
HasBudget(s) == s.budget > 0

\* Mutant: the window is not halved.
HalvedKept(ask) == ask.to - ask.from

\* A window with too many pages is halved, down to WindowMin.
Halved(ask) == MaxOf(WindowMin, (ask.to - ask.from) \div 2)

\* What follows from an answer; the page is the site's content at that moment.
Answered(w, given) ==
  LET s == wk[w]
      ask == Ask(s)
      window == site \cap InWindow(ask.from, ask.to)
      items == PageOf(window, ask.page)
      total == TotalOf(window, given)
      spent == [s EXCEPT !.budget = @ - 1]
  IN  CASE /\ s.mine = NoStaging
           /\ NeedPages(items, total) > PagesPerWindow
           /\ ask.to - ask.from > WindowMin -> Step(w, [spent EXCEPT !.win = Halved(ask)])
        [] s.mine # NoStaging /\ total # s.mine.total ->
             Step(w, [spent EXCEPT !.pc = "discard"])
        [] OTHER ->
             IF Unsafe(s, ask, items, total) THEN Leave(w)
             ELSE Step(w, [spent EXCEPT !.pc = "save",
                                        !.draft = Draft(s, ask, items, total)])

\* One page is read and judged.
Request(w) ==
  /\ MayRead(w) /\ HasBudget(wk[w])
  /\ \E given \in HasTotal : Answered(w, given)
  /\ UNCHANGED <<env, db>>

\* The site's total changed: drop the staging, the next round starts over.
DiscardChanged(w) ==
  /\ wk[w].pc = "discard"
  /\ DiscardPending(wk[w].cov, wk[w].cov, wk[w].mine.rev)
  /\ Leave(w)
  /\ UNCHANGED <<env, cursor, counted>>

HeldRevs == {pending.rev} \cup {wk[v].mine.rev : v \in Workers}

\* Mutant: the revision is not compared.
CanSaveAnyRevision(d) ==
  /\ cursor # NoRow /\ cursor.to = d.from
  /\ pending # NoStaging => pending.from = d.from /\ pending.to = d.to

CanSave(d) ==
  /\ cursor # NoRow /\ cursor.to = d.from
  /\ pending.rev = d.rev
  /\ pending # NoStaging => pending.from = d.from /\ pending.to = d.to

\* Compare-and-set on the revision, under the cursor lock.
SavePending(w) ==
  LET d == wk[w].draft
  IN  /\ wk[w].pc = "save"
      /\ IF CanSave(d)
         THEN \E r \in Revs \ HeldRevs :
                /\ pending' = [d EXCEPT !.rev = r]
                /\ Step(w, [wk[w] EXCEPT !.pc = "loop", !.mine = [d EXCEPT !.rev = r],
                                         !.draft = NoStaging])
         ELSE Leave(w) /\ UNCHANGED pending
      /\ UNCHANGED <<env, cursor, counted>>

\* The loop has read up to the round's horizon.
Finish(w) ==
  /\ wk[w].pc = "loop" /\ wk[w].cov >= Horizon(wk[w].at)
  /\ Leave(w)
  /\ UNCHANGED <<env, db>>

\* A query or a request throws; the caller logs it, the next poll starts over.
Fail(w) ==
  /\ wk[w].pc # "idle"
  /\ Leave(w)
  /\ UNCHANGED <<env, db>>

-----------------------------------------------------------------------------
(* What happens around the rounds. *)

Upset == upsets < MaxUpsets /\ upsets' = upsets + 1

\* The process restarts: the adaptive window length is gone too.
Crash(w) ==
  /\ Upset
  /\ Step(w, Idle(WindowStart))
  /\ UNCHANGED <<now, site, late, key, db>>

\* forgetOwnLog: the station is deleted or gets another address.
DeleteStation ==
  /\ Upset
  /\ cursor' = NoRow /\ pending' = NoStaging
  /\ counted' = [l \in Logs |-> 0]
  /\ UNCHANGED <<now, site, late, key, wk>>

\* An administrator is added or removed on the station.
Reclassify ==
  /\ Upset
  /\ key' \in Keys \ {key}
  /\ UNCHANGED <<now, site, late, db, wk>>

\* A rollback: while no current round runs, a process of an older version reads
\* a window; it knows the cursor only and leaves the staging where it is.
OldVersionAdvance ==
  /\ Upset
  /\ \A w \in Workers : wk[w].pc = "idle"
  /\ cursor # NoRow
  /\ \E to \in (cursor.to + 1)..Horizon(now) :
       LET read == site \cap InWindow(cursor.to, to)
       IN  /\ cursor' = [cursor EXCEPT !.to = to]
           /\ counted' = Added(counted, read)
  /\ UNCHANGED <<now, site, late, key, pending, wk>>

\* pruneBuckets: whole slots past Keep, batch by batch.
PruneBuckets ==
  LET before == ((now - Keep) \div Slot) * Slot
      old == {l \in Logs : LogTime[l] < before /\ counted[l] > 0}
  IN  /\ \E batch \in SUBSET old \ {{}} :
           counted' = [l \in Logs |-> IF l \in batch THEN 0 ELSE counted[l]]
      /\ UNCHANGED <<env, cursor, pending, wk>>

\* A log is written on the station; after Lag seconds it counts as late.
Arrive(l) ==
  /\ l \notin site /\ LogTime[l] <= now
  /\ site' = site \cup {l}
  /\ late' = IF LogTime[l] < now - Lag THEN late \cup {l} ELSE late
  /\ UNCHANGED <<now, key, upsets, db, wk>>

Tick ==
  /\ now < MaxTime
  /\ now' = now + 1
  /\ UNCHANGED <<site, late, key, upsets, db, wk>>

Round(w) ==
  \/ Begin(w) \/ ReadCursor(w) \/ SkipCursor(w) \/ StartCursor(w) \/ ReadStarted(w)
  \/ Probe(w) \/ ReadStaging(w) \/ DiscardStale(w) \/ KeepLonger(w) \/ ApplyWindow(w)
  \/ StopReading(w) \/ Request(w) \/ DiscardChanged(w) \/ SavePending(w) \/ Finish(w)

Next ==
  \/ \E w \in Workers : Round(w) \/ Fail(w) \/ Crash(w)
  \/ DeleteStation \/ Reclassify \/ OldVersionAdvance \/ PruneBuckets
  \/ \E l \in Logs : Arrive(l)
  \/ Tick

Spec == Init /\ [][Next]_vars

-----------------------------------------------------------------------------
(* Properties. *)

Stagings == [from : Nat, to : Nat, page : Nat, total : Nat \cup {NoTotal},
             seen : SUBSET Logs, adds : [Logs -> Nat], complete : BOOLEAN, key : Keys \cup {"none"},
             rev : Revs \cup {"none"}]
Rows == [from : Nat, to : Nat, disFrom : Nat \cup {NoGap}, disTo : Nat \cup {NoGap}]
Rounds == [pc : {"idle", "cursor", "skip", "start", "started", "probe", "staged",
                 "loop", "discard", "save"},
           at : Nat, on : BOOLEAN, cov : Nat, mine : Stagings, draft : Stagings,
           budget : Nat, key : Keys \cup {"none"}, win : Nat \ {0}]

\* Types of the rows (own_log_cursor, own_log_pending) and of a round's locals.
TypeOK ==
  /\ now \in Nat /\ upsets \in Nat
  /\ site \subseteq Logs /\ late \subseteq site
  /\ key \in Keys
  /\ cursor \in Rows \cup {NoRow}
  /\ pending \in Stagings
  /\ counted \in [Logs -> Nat]
  /\ wk \in [Workers -> Rounds]

\* No log is added to the buckets twice, whatever the workers interleave, crash
\* or repeat (own-log-store.js 4-5: a window is added in one transaction that
\* checks that the progress stops at its start).
CountedOnce == \A l \in Logs : counted[l] <= 1

\* What the coverage claims is in the buckets: a log between the two ends of the
\* progress is counted, unless it is in the recorded gap, was pruned, or appeared
\* on the station only after the Lag the reader waits (own-log-ingest.js 4, 14).
NothingLost ==
  cursor # NoRow =>
    \A l \in site \ late :
      /\ cursor.from <= LogTime[l] /\ LogTime[l] < cursor.to
      /\ ~(cursor.disFrom <= LogTime[l] /\ LogTime[l] < cursor.disTo)
      /\ LogTime[l] >= now - Keep
      => counted[l] = 1

\* A step that moves the coverage of an existing row moves its end forward and
\* keeps its beginning; buckets grow only for logs the same step covers
\* (applyWindow 187 with 175-186, skipCursor 149).
ForwardOnly ==
  [][/\ cursor # NoRow /\ cursor' # NoRow =>
          cursor'.to >= cursor.to /\ cursor'.from = cursor.from
     /\ \A l \in Logs : counted'[l] > counted[l] =>
          cursor # NoRow /\ cursor.to <= LogTime[l] /\ LogTime[l] < cursor'.to]_vars

\* A page another worker saved is never overwritten or thrown away by a worker
\* that did not read it: staging changes only in the hands of a worker that holds
\* its revision, or with the coverage it hangs on (own-log-store.js 92-93, 119-120).
StagingOwned ==
  [][pending # NoStaging /\ pending' # pending =>
       \/ \E w \in Workers : wk[w].mine.rev = pending.rev /\ wk'[w] # wk[w]
       \/ cursor' # cursor]_vars

\* The promise behind these (LogCoverage.tla): every log is counted by the one
\* step that covers it, all of a window or nothing of it, for ever.
Promise == INSTANCE LogCoverage WITH row <- cursor
ImplementsCoverage == Promise!Spec

\* With the switch on the reader catches up, up to the MinAdvance it waits for,
\* however few pages a round may read and however often windows are too full:
\* staged pages and window lengths carry over (own-log-ingest.js 4-9).
CaughtUp == cursor # NoRow /\ Horizon(MaxTime) - cursor.to < MinAdvance
CatchesUp == <>[]CaughtUp

\* A window staged at the coverage is published or dropped: a log that turns up late in it
\* makes the round drop the staging and read the window again
\* (own-log-ingest.js 206).
Attached == pending # NoStaging /\ pending.from = cursor.to
StagingEnds == Attached ~> ~Attached

\* The next poll always comes, requests and transactions do not fail for ever.
Fairness ==
  /\ WF_vars(Tick)
  /\ \A w \in Workers :
       /\ WF_vars(Round(w))
       /\ SF_vars(ReadCursor(w)) /\ SF_vars(SkipCursor(w)) /\ SF_vars(StartCursor(w))
       /\ SF_vars(ReadStarted(w)) /\ SF_vars(Probe(w)) /\ SF_vars(ReadStaging(w))
       /\ SF_vars(Request(w)) /\ SF_vars(SavePending(w)) /\ SF_vars(ApplyWindow(w))
       /\ SF_vars(DiscardStale(w)) /\ SF_vars(DiscardChanged(w))
FairSpec == Spec /\ Fairness

-----------------------------------------------------------------------------
(* What makes CountedOnce and ForwardOnly inductive (OwnLogIngestProofs.tla). *)

\* Every staging in the store or in a worker's hands holds logs of its own window,
\* each of them added once.
Sound(p) ==
  /\ p.from <= p.to
  /\ p.seen \subseteq InWindow(p.from, p.to)
  /\ \A l \in Logs : p.adds[l] = IF l \in p.seen THEN 1 ELSE 0

SoundStaging ==
  /\ Sound(pending)
  /\ \A w \in Workers : Sound(wk[w].mine) /\ Sound(wk[w].draft)

\* What is counted lies behind the end of the coverage.
CountedBehind ==
  \A l \in Logs : counted[l] > 0 => cursor # NoRow /\ LogTime[l] < cursor.to

\* A skip under way goes forward.
SkipsForward ==
  \A w \in Workers :
    /\ wk[w].on => TRUE \in TurnedOn
    /\ wk[w].pc = "skip" =>
         wk[w].on /\ (cursor = NoRow \/ cursor.to < FirstFrom(wk[w].at))

CountingInv == SoundStaging /\ CountedOnce /\ CountedBehind /\ SkipsForward

\* The deployment: one process polls, or no process passes justTurnedOn.
SkipsAlone == TRUE \notin TurnedOn \/ \A v, w \in Workers : v = w

=============================================================================
