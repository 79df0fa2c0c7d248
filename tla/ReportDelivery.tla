--------------------------- MODULE ReportDelivery ---------------------------
(***************************************************************************)
(* The daily report's scheduler: startReportScheduler in server/report.js  *)
(* and what it persists through saveReportDelivery (db/store.js).          *)
(*                                                                         *)
(* One process.  A round of the timer awaits a write, the reading of the   *)
(* upstream data, the notification channels and another write; between any *)
(* two of them the clock moves, channels are edited and the process can be *)
(* restarted.  A write that fails may have been committed or not.  A       *)
(* report is the day it is about; a channel either accepts its copy (got)  *)
(* or not.                                                                 *)
(***************************************************************************)
EXTENDS Integers, FiniteSets

CONSTANTS
  Channels,      \* notification channels
  MaxAttempts,   \* REPORT_MAX_ATTEMPTS
  RetryUnit,     \* REPORT_RETRY_MS
  DayLen,        \* length of a business day
  Plans,         \* settings.dailyReport.time, or Off when not enabled
  MaxTime,       \* bound of the clock
  MaxUpsets,     \* bound of crashes and failed writes
  MaxEdits       \* bound of edits of the settings and the channels

ASSUME CapAssumption == {MaxAttempts, RetryUnit, DayLen} \subseteq Nat \ {0}
ASSUME BoundAssumption == {MaxTime, MaxUpsets, MaxEdits} \subseteq Nat
Off == -1
ASSUME PlanAssumption == Plans \subseteq Nat \cup {Off}

VARIABLES
  now,      \* the clock
  plan,     \* settings.dailyReport.time
  targets,  \* reportChannels(rt): the enabled channels the report goes to
  db,       \* settings.dailyReport of the database: lastSent and delivery
  store,    \* settings.dailyReport of the process
  held,     \* rt._reportDelivery
  run,      \* the round under way
  got,      \* history: copies a channel accepted for a day's delivery
  about,    \* history: days the accepted copies of a delivery are about
  rounds,   \* history: rounds of a day that came past their first write
  ended,    \* history: when the last round failed
  began,    \* history: when the last round whose start is stored began
  lost,     \* history: accepted copies a crash made the process forget
  upsets, edits

vars == <<now, plan, targets, db, store, held, run, got, about, rounds, ended, began,
          lost, upsets, edits>>
settings == <<plan, targets, edits>>
history == <<got, about, rounds, ended, began, lost>>

NoDay == -1
Days == 0..(MaxTime \div DayLen)
Day(t) == t \div DayLen
Today == Day(now)
NoDelivery == [day |-> NoDay, attempts |-> 0, ok |-> {}, next |-> 0]
Fresh == [lastSent |-> NoDay, delivery |-> NoDelivery]
Waiting == [pc |-> "idle", todo |-> {}, ok |-> {}, of |-> NoDay, at |-> 0,
            complete |-> FALSE]

Init ==
  /\ now = 0
  /\ plan \in Plans
  /\ targets \in SUBSET Channels
  /\ db = Fresh /\ store = Fresh /\ held = NoDelivery
  /\ run = Waiting
  /\ got = [c \in Channels |-> [d \in Days |-> 0]]
  /\ about = [d \in Days |-> {}]
  /\ rounds = [d \in Days |-> 0]
  /\ ended = 0 /\ began = 0
  /\ lost = [c \in Channels |-> [d \in Days |-> 0]]
  /\ upsets = 0 /\ edits = 0

-----------------------------------------------------------------------------
(* The timer's callback up to the first write: report.js 456-476. *)

\* The delivery of this day the process knows of; its own copy is the newest.
PreviousStored(day) ==
  IF store.delivery.day = day THEN store.delivery
  ELSE IF held.day = day THEN held ELSE NoDelivery
Previous(day) ==
  IF held.day = day THEN held
  ELSE IF store.delivery.day = day THEN store.delivery ELSE NoDelivery

\* Waiting time after attempt k of a day.
Delay(k) == RetryUnit * 2 ^ (k - 1)

Planned(day) == plan # Off /\ now % DayLen >= plan /\ store.lastSent # day

\* Mutant: one attempt too many.
MayOnceMore(previous) == previous.attempts <= MaxAttempts /\ previous.next <= now

May(previous) == previous.attempts < MaxAttempts /\ previous.next <= now

Start ==
  LET previous == Previous(Today)
      attempt == previous.attempts + 1
  IN  /\ run.pc = "idle"
      /\ Planned(Today) /\ May(previous)
      /\ held' = [day |-> Today, attempts |-> attempt, ok |-> previous.ok,
                  next |-> now + Delay(attempt)]
      /\ run' = [Waiting EXCEPT !.pc = "begin", !.at = now]
      /\ UNCHANGED <<now, settings, db, store, history, upsets>>

-----------------------------------------------------------------------------
(* Writes: Store.saveReportDelivery through the store's save chain. *)

With(row, sentDay) ==
  [lastSent |-> IF sentDay = NoDay THEN row.lastSent ELSE sentDay, delivery |-> held]

\* Mutant: the database is not written.
SavedLocally(sentDay) ==
  /\ store' = With(store, sentDay)
  /\ UNCHANGED <<db, upsets>>

Saved(sentDay) ==
  /\ db' = With(store, sentDay) /\ store' = With(store, sentDay)
  /\ UNCHANGED upsets

\* A write fails: rolled back, or committed although the answer never came.
Unsaved(sentDay) ==
  /\ upsets < MaxUpsets /\ upsets' = upsets + 1
  /\ db' \in {db, With(store, sentDay)}
  /\ UNCHANGED store

\* Mutant: no waiting time after a failure.
FailedAtOnce ==
  /\ run' = [run EXCEPT !.pc = "failed", !.complete = FALSE]
  /\ ended' = now /\ UNCHANGED held

\* The catch block: wait from the failure on, then write the progress.
Failed ==
  /\ held' = [held EXCEPT !.next = now + Delay(held.attempts)]
  /\ run' = [run EXCEPT !.pc = "failed", !.complete = FALSE]
  /\ ended' = now

\* Mutant: the served channels get it again.
OpenedToAll(r) ==
  [r EXCEPT !.pc = IF targets \ held.ok = {} THEN "judge" ELSE "build",
            !.todo = targets, !.ok = held.ok, !.of = Today - 1]

\* After the first write: the channels of this moment, the day of this moment.
Opened(r) ==
  LET todo == targets \ held.ok
  IN  [r EXCEPT !.pc = IF todo = {} THEN "judge" ELSE "build",
                !.todo = todo, !.ok = held.ok, !.of = Today - 1]

SaveStart ==
  /\ run.pc = "begin"
  /\ Saved(NoDay)
  /\ began' = run.at
  /\ IF targets = {}
     THEN Failed /\ UNCHANGED rounds
     ELSE /\ run' = Opened(run)
          /\ rounds' = [rounds EXCEPT ![held.day] = @ + 1]
          /\ UNCHANGED <<held, ended>>
  /\ UNCHANGED <<now, settings, got, about, lost>>

SaveStartFails ==
  /\ run.pc = "begin"
  /\ Unsaved(NoDay)
  /\ Failed
  /\ UNCHANGED <<now, settings, got, about, rounds, began, lost>>

-----------------------------------------------------------------------------
(* Reading and sending: report.js 480-487. *)

\* The report is there; on the last attempt of the day a degraded one will do.
Build ==
  /\ run.pc = "build"
  /\ run' = [run EXCEPT !.pc = "send"]
  /\ UNCHANGED <<now, settings, db, store, held, history, upsets>>

\* Data could not be read, or the report is degraded and another attempt is left.
BuildFails ==
  /\ run.pc = "build"
  /\ Failed
  /\ UNCHANGED <<now, settings, db, store, got, about, rounds, began, lost, upsets>>

\* broadcast sends to all of them at once; answers come in any order.
Deliver(c) ==
  /\ run.pc = "send" /\ c \in run.todo
  /\ run' = [run EXCEPT !.todo = @ \ {c}, !.ok = @ \cup {c}]
  /\ got' = [got EXCEPT ![c][held.day] = @ + 1]
  /\ about' = [about EXCEPT ![held.day] = @ \cup {run.of}]
  /\ UNCHANGED <<now, settings, db, store, held, rounds, ended, began, lost, upsets>>

\* Mutant: a refused copy counts as served.
RefuseCounted(c) ==
  /\ run.pc = "send" /\ c \in run.todo
  /\ run' = [run EXCEPT !.todo = @ \ {c}, !.ok = @ \cup {c}]
  /\ UNCHANGED <<now, settings, db, store, held, history, upsets>>

Refuse(c) ==
  /\ run.pc = "send" /\ c \in run.todo
  /\ run' = [run EXCEPT !.todo = @ \ {c}]
  /\ UNCHANGED <<now, settings, db, store, held, history, upsets>>

-----------------------------------------------------------------------------
(* Judging and recording: report.js 488-505. *)

\* Mutant: one channel is enough.
CompleteOnceSent(ok) == ok # {}

\* All channels of this moment have it, those edited during the sending included.
Complete(ok) == targets # {} /\ targets \subseteq ok

Judge ==
  /\ run.pc = "judge" \/ (run.pc = "send" /\ run.todo = {})
  /\ held' = [held EXCEPT !.ok = run.ok, !.next = now + Delay(held.attempts)]
  /\ run' = [run EXCEPT !.pc = "record", !.todo = {}, !.complete = Complete(run.ok)]
  /\ ended' = now
  /\ UNCHANGED <<now, settings, db, store, got, about, rounds, began, lost, upsets>>

Sent == IF run.complete THEN held.day ELSE NoDay

Record ==
  /\ run.pc = "record"
  /\ Saved(Sent)
  /\ run' = Waiting
  /\ UNCHANGED <<now, settings, held, history>>

RecordFails ==
  /\ run.pc = "record"
  /\ Unsaved(Sent)
  /\ Failed
  /\ UNCHANGED <<now, settings, got, about, rounds, began, lost>>

\* The round is over whether its progress could be written or not.
SaveFailure ==
  /\ run.pc = "failed"
  /\ Saved(NoDay)
  /\ run' = Waiting
  /\ UNCHANGED <<now, settings, held, history>>

\* Mutant: the running flag stays set.
SaveFailureFailsRunning ==
  /\ run.pc = "failed"
  /\ Unsaved(NoDay)
  /\ held' = [held EXCEPT !.next = now + Delay(held.attempts)]
  /\ ended' = now
  /\ run' = [run EXCEPT !.pc = "stuck"]
  /\ UNCHANGED <<now, settings, got, about, rounds, began, lost>>

SaveFailureFails ==
  /\ run.pc = "failed"
  /\ Unsaved(NoDay)
  /\ held' = [held EXCEPT !.next = now + Delay(held.attempts)]
  /\ ended' = now
  /\ run' = Waiting
  /\ UNCHANGED <<now, settings, got, about, rounds, began, lost>>

-----------------------------------------------------------------------------
(* Around the rounds. *)

\* The process restarts: only what the database holds is known.
Forgotten(c) ==
  /\ c \in held.ok \cup run.ok
  /\ ~(db.delivery.day = held.day /\ c \in db.delivery.ok)

Crash ==
  /\ upsets < MaxUpsets /\ upsets' = upsets + 1
  /\ store' = db /\ held' = NoDelivery /\ run' = Waiting
  /\ lost' = [c \in Channels |->
                [d \in Days |-> lost[c][d] + IF d = held.day /\ Forgotten(c) THEN 1 ELSE 0]]
  /\ UNCHANGED <<now, settings, db, got, about, rounds, ended, began>>

\* updateSettings, addChannel, updateChannel, removeChannel: they go through the
\* same save chain and keep lastSent and delivery.
Edit ==
  /\ edits < MaxEdits /\ edits' = edits + 1
  /\ \/ plan' \in Plans /\ UNCHANGED targets
     \/ targets' \in SUBSET Channels /\ UNCHANGED plan
  /\ UNCHANGED <<now, db, store, held, run, history, upsets>>

Tick ==
  /\ now < MaxTime /\ now' = now + 1
  /\ UNCHANGED <<settings, db, store, held, run, history, upsets>>

Round ==
  \/ SaveStart \/ Build \/ BuildFails \/ \E c \in Channels : Deliver(c) \/ Refuse(c)
  \/ Judge \/ Record \/ SaveFailure
Next ==
  \/ Start \/ Round \/ SaveStartFails \/ RecordFails \/ SaveFailureFails
  \/ Crash \/ Edit \/ Tick

Spec == Init /\ [][Next]_vars

-----------------------------------------------------------------------------
(* Properties. *)

Moments == {0} \cup {t + Delay(k) : t \in 0..MaxTime, k \in 1..MaxAttempts}
Deliveries == [day : Days \cup {NoDay}, attempts : 0..MaxAttempts,
               ok : SUBSET Channels, next : Moments]
Rows == [lastSent : Days \cup {NoDay}, delivery : Deliveries]
Runs == [pc : {"idle", "begin", "build", "send", "judge", "record", "failed"},
         todo : SUBSET Channels, ok : SUBSET Channels, of : Int, at : Nat,
         complete : BOOLEAN]

\* Types of the settings row, the process's copies and the round's locals; the
\* number of attempts never passes the cap.
TypeOK ==
  /\ now \in 0..MaxTime
  /\ plan \in Plans /\ targets \subseteq Channels
  /\ db \in Rows /\ store \in Rows
  /\ held \in Deliveries
  /\ run \in Runs
  /\ got \in [Channels -> [Days -> Nat]]
  /\ about \in [Days -> SUBSET Int]
  /\ rounds \in [Days -> Nat]
  /\ lost \in [Channels -> [Days -> Nat]]
  /\ ended \in Nat /\ began \in Nat
  /\ upsets \in Nat /\ edits \in Nat

\* A channel gets a second copy of a day's report only for a copy that a crash made
\* the process forget (README, daily report: only the channels that have not
\* succeeded are tried again; a crash before the progress is stored may repeat one).
SentOnce == \A c \in Channels, d \in Days : got[c][d] <= 1 + lost[c][d]

\* However often the process restarts and whatever writes fail, a day reads data
\* and sends at most MaxAttempts times (report.js 475: the attempt is written first,
\* so that the cap holds after a restart).
AttemptsCapped == \A d \in Days : rounds[d] <= MaxAttempts

\* A channel that any copy of the progress counts as served has really accepted a
\* report of that day, so that no retry leaves it out (report.js 478-487).
HaveCopies(channels, day) ==
  channels # {} => day \in Days /\ \A c \in channels : got[c][day] >= 1
Served ==
  /\ HaveCopies(db.delivery.ok, db.delivery.day)
  /\ HaveCopies(store.delivery.ok, store.delivery.day)
  /\ HaveCopies(held.ok, held.day)

\* A day is recorded as sent only when every channel enabled at the end of the
\* sending has its copy, channels edited meanwhile included (report.js 489-493).
RecordedWhenAllHaveIt ==
  [][run'.complete /\ ~run.complete =>
       targets # {} /\ \A c \in targets : got[c][held.day] >= 1]_vars

\* The next attempt of a day begins no earlier than the waiting time after the failure
\* of the one before; after a restart, no earlier than that time after the
\* beginning of the last attempt that was stored (report.js 467-471, 492, 497).
Waits ==
  [][Start /\ held'.attempts > 1 =>
       now >= (IF held.day = Today THEN ended ELSE began)
                + Delay(held'.attempts - 1)]_vars

\* No failure leaves the scheduler stuck: in the end nothing is under way and a day that is
\* planned and not recorded has used all its attempts (or waits for a time the
\* bounded clock does not reach) (report.js 506-508).
DayEnds ==
  <>[](/\ run.pc = "idle"
       /\ Planned(Today) =>
            \/ Previous(Today).attempts = MaxAttempts
            \/ Previous(Today).next > MaxTime)

\* The timer fires again and again, awaited reads and writes end.
Fairness == WF_vars(Start) /\ WF_vars(Round) /\ WF_vars(Tick)
FairSpec == Spec /\ Fairness

-----------------------------------------------------------------------------
(* What makes AttemptsCapped, Served and SentOnce inductive                *)
(* (ReportDeliveryProofs.tla).                                             *)

\* Days only move on, and a round belongs to the newest of them.
DaysOrdered ==
  /\ db.delivery.day <= Today /\ store.delivery.day <= Today /\ held.day <= Today
  /\ held.day # NoDay => db.delivery.day <= held.day /\ store.delivery.day <= held.day
  /\ run.pc # "idle" => held.day \in Days /\ held.attempts >= 1
  /\ run.pc \in {"build", "send", "judge", "record"} =>
       db.delivery.day = held.day /\ store.delivery.day = held.day

\* Each copy of the progress knows of all rounds of its day, and no copy is of a day
\* before one that had a round.
KnowsRounds(d, delivery) ==
  /\ d <= delivery.day
  /\ d = delivery.day => rounds[d] <= delivery.attempts

RoundsKnown ==
  /\ AttemptsCapped
  /\ \A d \in Days : rounds[d] > 0 =>
       /\ KnowsRounds(d, db.delivery) /\ KnowsRounds(d, store.delivery)
       /\ held.day # NoDay => KnowsRounds(d, held)
  /\ run.pc = "begin" => rounds[held.day] < held.attempts

\* What the round has learnt it keeps, and it sends only to the others.
Learnt ==
  /\ run.pc = "idle" => run.ok = {}
  /\ run.pc \in {"begin", "build", "judge", "record", "failed"} => run.ok \subseteq held.ok
  /\ run.pc \in {"build", "send", "judge"} =>
       held.ok \subseteq run.ok /\ run.todo \cap run.ok = {}
  /\ HaveCopies(run.ok, held.day)

\* The newest day a copy of the progress is of, and the channels it counts as served.
NewestDay == IF held.day # NoDay THEN held.day ELSE store.delivery.day
Known == IF held.day # NoDay THEN held.ok \cup run.ok ELSE store.delivery.ok

CopiesKnown ==
  /\ SentOnce
  /\ \A c \in Channels, d \in Days : got[c][d] > 0 => d <= db.delivery.day /\ d <= store.delivery.day
  /\ held.day = NoDay => store.delivery = db.delivery
  /\ NewestDay \in Days /\ (held.day # NoDay \/ NewestDay >= Today) =>
       \A c \in Channels \ Known : got[c][NewestDay] <= lost[c][NewestDay]

DeliveryInv == TypeOK /\ DaysOrdered /\ RoundsKnown /\ Served /\ Learnt /\ CopiesKnown

=============================================================================
