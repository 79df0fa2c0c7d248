----------------------------- MODULE Settlement -----------------------------
(* The settlement of one finished day of one binding: the polling round that  *)
(* plans it, the settler that reads the sites and books the ledger, a person  *)
(* who presses "read again", and the requests to settle the day anew that     *)
(* changes of a rate's switching time leave in the day's state row.           *)
(* Sources: src/server/reconciliation.js, src/server/                         *)
(* reconciliation-repository.js, src/lib/reconciliation-settlement.js,        *)
(* src/lib/reconciliation-ledger.js.                                          *)
(*                                                                            *)
(* The money of a day is one figure, the sites' answer is any figure or a      *)
(* class of trouble, and times are the comparisons the code makes with them:  *)
(* whether the next attempt lies ahead, whether a day is yesterday, or it or  *)
(* a request a week or a month old.                                           *)
EXTENDS Naturals

CONSTANTS
  Poll, Hands,     \* the background settler and the people reading again
  Figures,         \* what a day can amount to
  ShrinkFloor,     \* RESETTLE_SHRINK_MIN_USD: smaller figures may fall freely
  Troubles,        \* the kinds of trouble the sites can be in
  MaxRequests,     \* bound: requests to settle the day anew
  MaxAttempts,     \* SETTLE_MAX_AUTO_ATTEMPTS
  MaxTries,        \* MAX_SCOPE_ATTEMPTS
  MaxConfig,       \* bound: changes of the billing sources
  MaxAge,          \* bound: how old the day gets
  MayMove, MayCut, \* which kinds of request occur
  MayEdit          \* whether the binding's settings are edited later

Settlers == {Poll} \union Hands

\* The reasons a state row can give, in the classes of reasonKindOf: "reading"
\* is retried, the manual ones are judged again locally, the sticky ones stay.
Manual == {"unanswered", "unused"}
Sticky == {"gap", "shrunk", "tooOld"}
Reasons == {"none", "reading"} \union Manual \union Sticky

ASSUME SettlementAssumption ==
  /\ Poll \notin Hands
  /\ Figures \subseteq Nat \ {0}
  /\ ShrinkFloor \in Nat
  /\ Troubles \subseteq {"reading", "unanswered", "unused", "gap"}
  /\ MaxRequests \in Nat
  /\ MaxAttempts \in Nat \ {0}
  /\ MaxTries \in Nat \ {0}
  /\ MaxConfig \in Nat
  /\ MaxAge \in 0..3
  /\ {MayMove, MayCut, MayEdit} \subseteq BOOLEAN

VARIABLES
  row,        \* the day's row of reconciliation_settlement_state, NoRow if none
  ledger,     \* the newest revision of the day: [rev, fig], rev = 0 if none
  scope,      \* the request that came with the last move of a switching time
  reqs,       \* requests made so far: the time of the newest one
  lapsed,     \* requests up to this one are a week old
  age,        \* 0: the day is yesterday, 1: it is older, 2: a week, 3: a month
  edited,     \* the settings now in force are younger than the day
  config,     \* the version of the billing sources
  site,       \* the trouble the sites and the program are in, or none
  round,      \* the planning half of a polling round
  run,        \* each settler's call of settleDay
  deleting,   \* a deleteSettlementState is on its way
  memo,       \* recheckAt of the day lies ahead
  basis,      \* history: the scope under which the newest figure was read
  swept,      \* history: the newest request whose row a plan has deleted
  markedFor   \* history: the request read by who wrote the row's reason

vars == <<row, ledger, scope, reqs, lapsed, age, edited, config, site, round,
          run, deleting, memo, basis, swept, markedFor>>

dayVars == <<scope, reqs, lapsed, age, edited, config, site>>

NoConfig == MaxConfig + 1

NoRow == [req |-> 0, cut |-> FALSE, why |-> "none", attempts |-> 0,
          cleared |-> FALSE, blind |-> FALSE, later |-> FALSE, after |-> 0,
          config |-> NoConfig]

Rows == [req : 0..MaxRequests, cut : BOOLEAN, why : Reasons, attempts : Nat,
         cleared : BOOLEAN, blind : BOOLEAN, later : BOOLEAN,
         after : Figures \union {0}, config : 0..NoConfig]

NoRound == [states |-> FALSE, days |-> FALSE, state |-> NoRow, booked |-> FALSE]

NotRunning == [pc |-> "idle", state |-> NoRow, config |-> 0, scope |-> 0,
               edited |-> FALSE, recent |-> FALSE, fig |-> 0,
               compared |-> 0, confirmed |-> FALSE, shown |-> 0, tries |-> 0,
               note |-> NoRow]

Phases == {"idle", "probe", "recheck", "settle", "join", "read", "judge",
           "save", "saved", "record"}

TypeOK ==
  /\ row \in Rows
  /\ ledger \in [rev : Nat, fig : Figures \union {0}]
  /\ scope \in 0..reqs /\ reqs \in 0..MaxRequests /\ lapsed \in 0..reqs
  /\ age \in 0..3 /\ edited \in BOOLEAN /\ config \in 0..MaxConfig
  /\ site \in Troubles \union {"none"}
  /\ round \in [states : BOOLEAN, days : BOOLEAN, state : Rows, booked : BOOLEAN]
  /\ run \in [Settlers -> [pc : Phases, state : Rows, config : 0..MaxConfig,
       scope : 0..MaxRequests, edited : BOOLEAN, recent : BOOLEAN,
       fig : Figures \union {0}, compared : Nat,
       confirmed : BOOLEAN, shown : Figures \union {0}, tries : 0..MaxTries,
       note : Rows]]
  /\ deleting \in BOOLEAN /\ memo \in BOOLEAN
  /\ basis \in 0..reqs /\ swept \in 0..reqs /\ markedFor \in 0..reqs
  /\ row.req <= reqs
  /\ (row.after > 0 => row.why = "shrunk")

Init ==
  /\ row = NoRow
  /\ ledger = [rev |-> 0, fig |-> 0]
  /\ scope = 0 /\ reqs = 0 /\ lapsed = 0
  /\ age = 0 /\ edited = FALSE /\ config = 0
  /\ site \in Troubles \union {"none"}
  /\ round = NoRound
  /\ run = [s \in Settlers |-> NotRunning]
  /\ deleting = FALSE /\ memo = FALSE
  /\ basis = 0 /\ swept = 0 /\ markedFor = 0

-----------------------------------------------------------------------------
(* What a failed settlement leaves in the row (settlementOutcome).            *)

\* A reason that the local judgement declared gone but settling meets again:
\* from now on the day is settled at its times, and the attempts count.
Blind(st, why) ==
  why \in Manual /\ (st.cleared \/ (st.blind /\ st.why = why))

\* Mutant: the figure put to a person stays when another reason replaces it.
OutcomeKeepsFigure(st, why, byHand, version, fig) ==
  LET blind == Blind(st, why)
      timed == why = "reading" \/ blind
  IN  [req |-> st.req, cut |-> st.cut, why |-> why, config |-> version,
       blind |-> blind, cleared |-> FALSE,
       after |-> IF why = "shrunk" THEN fig ELSE st.after,
       attempts |-> IF timed /\ ~byHand THEN st.attempts + 1 ELSE st.attempts,
       later |-> IF timed /\ byHand THEN st.later ELSE why \notin Sticky]

\* A person's attempt neither counts nor moves the next automatic one.
Outcome(st, why, byHand, version, fig) ==
  LET blind == Blind(st, why)
      timed == why = "reading" \/ blind
  IN  [req |-> st.req, cut |-> st.cut, why |-> why, config |-> version,
       blind |-> blind, cleared |-> FALSE,
       after |-> IF why = "shrunk" THEN fig ELSE 0,
       attempts |-> IF timed /\ ~byHand THEN st.attempts + 1 ELSE st.attempts,
       later |-> IF timed /\ byHand THEN st.later ELSE why \notin Sticky]

\* Mutant: the comparison the wrong way round.
Grown(old, new) == old >= ShrinkFloor /\ 2 * old < new

\* The figures of a settlement anew are less than half of the booked ones, and
\* those are not too small to matter.
Shrunk(old, new) == old >= ShrinkFloor /\ 2 * new < old

-----------------------------------------------------------------------------
(* The plan of a round (planSettlement): the state row and the ledger's days  *)
(* are two queries sent together, each of which sees a moment of its own.     *)

ReadStates ==
  /\ ~round.states
  /\ round' = [round EXCEPT !.states = TRUE, !.state = row]
  /\ UNCHANGED <<row, ledger, run, deleting, memo, basis, swept, markedFor, dayVars>>

ReadDays ==
  /\ ~round.days
  /\ round' = [round EXCEPT !.days = TRUE, !.booked = ledger.rev > 0]
  /\ UNCHANGED <<row, ledger, run, deleting, memo, basis, swept, markedFor, dayVars>>

PlanFails ==
  /\ round # NoRound
  /\ site = "reading"
  /\ round' = NoRound
  /\ UNCHANGED <<row, ledger, run, deleting, memo, basis, swept, markedFor, dayVars>>

Expired(st) == IF st.req > 0 THEN st.req <= lapsed ELSE age >= 2

\* What settlementPrecheck decides for the automatic settlement. A day settled
\* after an edit of the binding is left to a person, unless it is yesterday.
Precheck(st, booked) ==
  LET changed == st.config # NoConfig /\ st.config # config
      manual  == IF changed \/ st.cleared THEN "due"
                 ELSE IF st.later \/ memo THEN "manual"
                 ELSE IF ~st.blind THEN "recheck"
                 ELSE IF st.attempts >= MaxAttempts THEN "exhausted" ELSE "due"
  IN  IF booked /\ st.req = 0 THEN "settled"
      ELSE IF edited /\ age > 0 /\ st.why \notin Manual THEN "blocked"
      ELSE IF Expired(st) THEN "beyond"
      ELSE IF st.why \in Sticky THEN "sticky"
      ELSE IF st.why \in Manual THEN manual
      ELSE IF st.attempts >= MaxAttempts THEN "exhausted"
      ELSE IF st.later /\ ~changed THEN "backoff" ELSE "due"

Start(s, phase, st) ==
  run' = [run EXCEPT ![s] = [NotRunning EXCEPT !.pc = phase, !.state = st,
                                               !.config = config,
                                               !.recent = (age = 0)]]

\* The row of a day found in the ledger is deleted without waiting, whatever
\* the row holds by then; work is handed over if the last round's is done.
Plan ==
  /\ round.states /\ round.days
  /\ LET action == Precheck(round.state, round.booked)
         st     == round.state
     IN  /\ deleting' = (deleting \/ (action = "settled" /\ st # NoRow))
         /\ IF action \in {"due", "recheck"} /\ run[Poll].pc = "idle"
            THEN Start(Poll, IF action = "recheck" THEN "recheck"
                             ELSE IF st = NoRow THEN "probe" ELSE "settle", st)
            ELSE UNCHANGED run
  /\ round' = NoRound
  /\ UNCHANGED <<row, ledger, memo, basis, swept, markedFor, dayVars>>

DeleteState ==
  /\ deleting
  /\ deleting' = FALSE
  /\ \/ /\ row' = NoRow
        /\ swept' = IF row.req > 0 THEN row.req ELSE swept
     \/ site = "reading" /\ UNCHANGED <<row, swept>>
  /\ UNCHANGED <<ledger, round, run, memo, basis, markedFor, dayVars>>

-----------------------------------------------------------------------------
(* The local judgement, which reads no bill (inspectRule with probe).         *)

\* What it can say: a blocker it sees, that there is none, or nothing at all.
Probed ==
  CASE site \in {"unanswered", "gap"} -> {site}
    [] site = "reading"               -> {"none", "unknown"}
    [] OTHER                                  -> {"none"}

\* A day without a row is judged before its bill is read.
Probe ==
  /\ run[Poll].pc = "probe"
  /\ \E blocker \in Probed :
       run' = IF blocker \in {"none", "unknown"}
              THEN [run EXCEPT ![Poll].pc = "settle"]
              ELSE [run EXCEPT ![Poll].pc = "record",
                      ![Poll].note = Outcome(NoRow, blocker, FALSE, run[Poll].config, 0)]
  /\ UNCHANGED <<row, ledger, round, deleting, memo, basis, swept, markedFor, dayVars>>

\* Mutant: a reason that is gone is not marked as gone.
RecheckedUnmarked(st, blocker, version) ==
  IF blocker # "none" THEN Outcome(st, blocker, FALSE, version, 0)
  ELSE [st EXCEPT !.later = FALSE]

\* settlementRecheck: the reason is still there, another one is, or none.
Rechecked(st, blocker, version) ==
  IF blocker # "none" THEN Outcome(st, blocker, FALSE, version, 0)
  ELSE [st EXCEPT !.cleared = TRUE, !.later = FALSE]

\* An unchanged reason is not written, only its next time is remembered.
Recheck ==
  /\ run[Poll].pc = "recheck"
  /\ \E blocker \in Probed :
       LET st   == run[Poll].state
           next == Rechecked(st, IF blocker = "unknown" THEN st.why ELSE blocker,
                             run[Poll].config)
           same == next = [st EXCEPT !.later = next.later] /\ ~next.cleared
       IN  /\ memo' = same
           /\ run' = IF same THEN [run EXCEPT ![Poll] = NotRunning]
                     ELSE [run EXCEPT ![Poll].pc = "record", ![Poll].note = next]
  /\ UNCHANGED <<row, ledger, round, deleting, basis, swept, markedFor, dayVars>>

-----------------------------------------------------------------------------
(* settleDay and inspectRule in settle mode.                                  *)

\* A person reads the day again, chosen as yesterday or by its date: the row
\* is read first, and not at all if that fails. The person may confirm a figure
\* that a page loaded at any time showed, or none; that counts while the row
\* waits for it.
OpenByHand(s) ==
  /\ run[s].pc = "idle"
  /\ \E st \in {row} \union (IF site = "reading" THEN {NoRow} ELSE {}),
        sure, recent \in BOOLEAN, shown \in Figures \union {0} :
       /\ sure => st.why = "shrunk"
       /\ shown > 0 => sure
       /\ recent => age = 0
       /\ run' = [run EXCEPT ![s] = [NotRunning EXCEPT !.pc = "settle", !.state = st,
                    !.config = config, !.recent = recent, !.confirmed = sure,
                    !.shown = shown]]
  /\ UNCHANGED <<row, ledger, round, deleting, memo, basis, swept, markedFor, dayVars>>

InScope(s) == run[s].scope = scope /\ run[s].edited = edited

Key(s) == <<run[s].state.req, run[s].config, run[s].recent>>

\* Calls for the same window, request and sources that are still registered as in
\* flight: a change of the binding takes them off the list.
Shareable(s) == {t \in Settlers : /\ run[t].pc \in {"read", "judge", "save", "saved"}
                                  /\ Key(t) = Key(s) /\ InScope(t)}

\* Those who get the answer of s.
Sharers(s) == {t \in Settlers : t = s \/ (run[t].pc = "join" /\ Key(t) = Key(s))}

Settled(s) ==
  run' = [t \in Settlers |-> IF t \in Sharers(s) THEN NotRunning ELSE run[t]]

NotSettled(s, why, fig) ==
  run' = [t \in Settlers |->
            IF t \in Sharers(s)
            THEN [NotRunning EXCEPT !.pc = "record", !.state = run[t].state,
                    !.note = Outcome(run[t].state, why, t # Poll, run[t].config, fig)]
            ELSE run[t]]

\* The sources changed under the call: this settlement is dropped unrecorded.
Stale(s) == run[s].config # config

\* The binding changed under the call: once more, at most MaxTries times.
Again(s) ==
  IF run[s].tries + 1 < MaxTries
  THEN run' = [run EXCEPT ![s].pc = "settle", ![s].tries = @ + 1]
  ELSE NotSettled(s, "reading", 0)

\* A day that is in the ledger is read from there unless a request asks anew.
Inspect(s) ==
  /\ run[s].pc = "settle"
  /\ IF Stale(s) \/ (run[s].state.req = 0 /\ ledger.rev > 0) THEN Settled(s)
     ELSE IF Shareable(s) # {} THEN run' = [run EXCEPT ![s].pc = "join"]
     ELSE run' = [run EXCEPT ![s].pc = "read", ![s].scope = scope,
                             ![s].edited = edited]
  /\ UNCHANGED <<row, ledger, round, deleting, memo, basis, swept, markedFor, dayVars>>

\* Requests whose figures are checked against the booked ones before they
\* replace them: all but the program's own and the ones a person confirmed.
Judged(s, fig) ==
  /\ run[s].state.req > 0
  /\ ~run[s].state.cut
  /\ ~(run[s].confirmed /\ run[s].shown = fig)

ReadSites(s) ==
  /\ run[s].pc = "read"
  /\ IF Stale(s) THEN Settled(s)
     ELSE IF ~InScope(s) THEN Again(s)
     ELSE IF site # "none" THEN NotSettled(s, site, 0)
     ELSE \E fig \in Figures :
            run' = [run EXCEPT ![s].fig = fig,
                               ![s].pc = IF Judged(s, fig) THEN "judge" ELSE "save"]
  /\ UNCHANGED <<row, ledger, round, deleting, memo, basis, swept, markedFor, dayVars>>

Judge(s) ==
  /\ run[s].pc = "judge"
  /\ IF ledger.rev > 0 /\ (Shrunk(ledger.fig, run[s].fig) \/ run[s].confirmed)
     THEN IF Stale(s) THEN Settled(s)
          ELSE IF ~InScope(s) THEN Again(s)
          ELSE NotSettled(s, "shrunk", run[s].fig)
     ELSE run' = [run EXCEPT ![s].pc = "save", ![s].compared = ledger.rev]
  /\ UNCHANGED <<row, ledger, round, deleting, memo, basis, swept, markedFor, dayVars>>

\* Mutant: what is in the ledger is never written again.
WritesOnce(s) == ledger.rev = 0

\* ledgerWriteDecision on a day whose window never changes.
Writes(s) == ledger.rev = 0 \/ (run[s].state.req > 0 /\ run[s].fig # ledger.fig)

\* The row goes with the booking only if its request is the one that was read.
Consumes(s) == row.req = run[s].state.req

\* saveSnapshotsForScope: one transaction under the locks of the binding.
Book(s) ==
  /\ run[s].pc = "save"
  /\ IF ~InScope(s) \/ Stale(s)
     THEN /\ IF Stale(s) THEN Settled(s) ELSE Again(s)
          /\ UNCHANGED <<row, ledger, basis, markedFor>>
     ELSE /\ ledger' = IF Writes(s) THEN [rev |-> ledger.rev + 1, fig |-> run[s].fig]
                       ELSE ledger
          /\ row' = IF Consumes(s) THEN NoRow ELSE row
          /\ markedFor' = IF Consumes(s) THEN 0 ELSE markedFor
          /\ basis' = IF ledger'.fig = run[s].fig THEN run[s].scope ELSE basis
          /\ run' = [run EXCEPT ![s].pc = "saved"]
  /\ UNCHANGED <<round, deleting, memo, swept, dayVars>>

\* After the booking the binding is looked at once more.
LookAgain(s) ==
  /\ run[s].pc = "saved"
  /\ IF Stale(s) \/ InScope(s) THEN Settled(s) ELSE Again(s)
  /\ UNCHANGED <<row, ledger, round, deleting, memo, basis, swept, markedFor, dayVars>>

\* A query fails, or the program does: a person is told, the round retries.
Fails(s) ==
  /\ run[s].pc \in {"settle", "read", "judge", "save", "saved"}
  /\ site = "reading"
  /\ \/ NotSettled(s, "reading", 0)
     \/ s \in Hands /\ Settled(s)
  /\ UNCHANGED <<row, ledger, round, deleting, memo, basis, swept, markedFor, dayVars>>

\* A day too old for an automatic settlement keeps that reason unless the
\* attempt brought figures to decide on, or a gap that never closes.
KeepsTooOld(s) == run[s].state.why = "tooOld" /\ run[s].note.why \notin {"shrunk", "gap"}

\* Mutants: the request is not compared, or the ledger is not looked at.
RecordsAlways(s) == TRUE

RecordsBesideLedger(s) == row.req = run[s].state.req

\* recordSettlementState writes if the row's request is still the one read,
\* and without a request only while the day is not in the ledger.
Records(s) ==
  IF run[s].state.req > 0 THEN row.req = run[s].state.req
  ELSE row.req = 0 /\ ledger.rev = 0

Record(s) ==
  /\ run[s].pc = "record"
  /\ \/ /\ Records(s) /\ ~KeepsTooOld(s)
        /\ row' = [run[s].note EXCEPT !.req = row.req, !.cut = row.cut]
        /\ markedFor' = run[s].state.req
     \/ /\ ~Records(s) \/ KeepsTooOld(s) \/ site = "reading"
        /\ UNCHANGED <<row, markedFor>>
  /\ run' = [run EXCEPT ![s] = NotRunning]
  /\ UNCHANGED <<ledger, round, deleting, memo, basis, swept, dayVars>>

-----------------------------------------------------------------------------
(* Requests to settle the day anew, and everything around the day.            *)

Request(why, cut) ==
  /\ reqs < MaxRequests
  /\ reqs' = reqs + 1
  /\ row' = [NoRow EXCEPT !.req = reqs + 1, !.cut = cut, !.why = why,
                          !.config = row.config]
  /\ markedFor' = reqs + 1
  /\ UNCHANGED <<ledger, lapsed, age, edited, config, site, round, run, deleting,
                 memo, basis, swept>>

\* correctTransition: the segments and the request change in one transaction;
\* a day more than a month old is left to a person.
MoveSwitch ==
  /\ MayMove
  /\ Request(IF age = 3 THEN "tooOld" ELSE "none", FALSE)
  /\ scope' = reqs + 1

\* floorResettleRound: the program's own request for a day it once cut.
CutRequest ==
  /\ MayCut /\ age < 3 /\ ledger.rev > 0
  /\ Request("none", TRUE)
  /\ UNCHANGED scope

Prune ==
  /\ age = 3 /\ row.req <= lapsed /\ row.why \notin {"tooOld", "shrunk"}
  /\ row' = NoRow /\ row # NoRow
  /\ markedFor' = 0
  /\ UNCHANGED <<ledger, round, run, deleting, memo, basis, swept, dayVars>>

SiteChanges ==
  /\ site' \in Troubles \union {"none"}
  /\ site' # site
  /\ UNCHANGED <<row, ledger, scope, reqs, lapsed, age, edited, config, round,
                 run, deleting, memo, basis, swept, markedFor>>

ConfigChanges ==
  /\ config < MaxConfig
  /\ config' = config + 1
  /\ UNCHANGED <<row, ledger, scope, reqs, lapsed, age, edited, site, round, run,
                 deleting, memo, basis, swept, markedFor>>

EditBinding ==
  /\ MayEdit /\ ~edited
  /\ edited' = TRUE
  /\ UNCHANGED <<row, ledger, scope, reqs, lapsed, age, config, site, round, run,
                 deleting, memo, basis, swept, markedFor>>

\* The time of the next attempt and of the next local judgement comes.
TimePasses ==
  /\ row' = [row EXCEPT !.later = FALSE]
  /\ memo' = FALSE
  /\ run' = [s \in Settlers |-> [run[s] EXCEPT !.state.later = FALSE]]
  /\ UNCHANGED <<ledger, round, deleting, basis, swept, markedFor, dayVars>>

\* Midnight: the day is no longer yesterday.
DayPasses ==
  /\ age = 0 /\ MaxAge > 0
  /\ age' = 1
  /\ UNCHANGED <<row, ledger, scope, reqs, lapsed, edited, config, site, round, run,
                 deleting, memo, basis, swept, markedFor>>

\* Weeks pass between calls and rounds, which end or time out in minutes.
WeekPasses ==
  /\ \A s \in Settlers : run[s].pc = "idle"
  /\ round = NoRound /\ ~deleting
  /\ age \in 1..(MaxAge - 1) \/ (age = 3 /\ lapsed < reqs)
  /\ age' = IF age < 3 THEN age + 1 ELSE 3
  /\ lapsed' = reqs
  /\ UNCHANGED <<row, ledger, scope, reqs, edited, config, site, round, run,
                 deleting, memo, basis, swept, markedFor>>

\* The process dies: calls, plans and what it remembered are gone, and a
\* delete on its way may or may not have arrived. A crash is one of the troubles
\* that come at any moment: a time without trouble is one without crashes too.
Crash ==
  /\ site # "none"
  /\ run' = [s \in Settlers |-> NotRunning]
  /\ round' = NoRound
  /\ deleting' = FALSE /\ memo' = FALSE
  /\ UNCHANGED <<row, ledger, basis, swept, markedFor, dayVars>>

-----------------------------------------------------------------------------
Settling(s) ==
  \/ Inspect(s) \/ ReadSites(s) \/ Judge(s) \/ Book(s) \/ LookAgain(s)
  \/ Fails(s) \/ Record(s)

Round == ReadStates \/ ReadDays \/ PlanFails \/ Plan \/ DeleteState

Polling == Probe \/ Recheck \/ Settling(Poll)

Next ==
  \/ Round
  \/ Polling
  \/ \E s \in Hands : OpenByHand(s) \/ Settling(s)
  \/ MoveSwitch \/ CutRequest \/ Prune
  \/ SiteChanges \/ ConfigChanges \/ EditBinding
  \/ TimePasses \/ DayPasses \/ WeekPasses \/ Crash

Spec == Init /\ [][Next]_vars

\* Rounds are started by a timer and each query or request of a settlement
\* answers or times out; times come. Nothing is assumed of people.
Fairness ==
  /\ WF_vars(ReadStates) /\ WF_vars(ReadDays) /\ WF_vars(Plan)
  /\ WF_vars(Polling) /\ WF_vars(TimePasses)
  /\ \A s \in Hands : WF_vars(Settling(s))

FairSpec == Spec /\ Fairness

-----------------------------------------------------------------------------
(* What must hold.                                                            *)

\* A day that is booked and has no open request was booked under the switching
\* times in force: a move of a switching time is never lost between the ledger
\* and the state row, unless its request is a week old and was given up, or a
\* plan whose two queries it fell between deleted the row (RequestKept).
Rebooked ==
  ledger.rev > 0 /\ row.req = 0 =>
    basis = scope \/ scope <= lapsed \/ scope <= swept

\* A failure written into the row belongs to the request in the row: it was
\* recorded by a settlement that had read that very request, so a newer request
\* never inherits the waiting time or the give-up of an older attempt.
MarksOwnRequest == row.why # "none" => markedFor = row.req

\* No row without a request is left behind for a day that is in the ledger
\* (recordSettlementState: "no orphan row without a request"), unless the day
\* is over a month old, when the hourly cleaning takes such rows.
NoOrphan == ledger.rev > 0 /\ row # NoRow => row.req > 0 \/ age = 3

\* A booking that takes a request off the table read the request, and the day
\* under the binding as it is: no other step but giving up ends a request.
Consumed(r) ==
  \/ \E s \in Settlers : /\ run[s].pc = "save" /\ run'[s].pc = "saved"
                          /\ run[s].state.req = r /\ InScope(s)
  \/ age = 3 /\ r <= lapsed

\* A request stays until it is answered, replaced by a newer one or given up,
\* as the comments at the booking and at the cleaning say. It does not hold:
\* the plan deletes the row of a booked day by its key alone.
RequestKept == [][row'.req < row.req => Consumed(row.req)]_vars

\* Booked figures are never replaced by less than half of them (small ones
\* aside) unless a person confirmed exactly the new figure, or the program
\* itself had cut the day, or the newest revision was booked by another call
\* after this one had compared its figure with the one before (the shrink check
\* of persistResult, which the booking does not repeat).
ShrinkConfirmed ==
  [][ledger.fig >= ShrinkFloor /\ 2 * ledger'.fig < ledger.fig =>
       \E s \in Settlers :
          /\ run[s].pc = "save" /\ run'[s].pc = "saved"
          /\ \/ run[s].state.cut
             \/ run[s].confirmed /\ run[s].shown = ledger'.fig
             \/ run[s].compared < ledger.rev]_vars

\* The automatic settlement has no more to do with the day: it is booked with
\* no request open, or it is left to a person or to time for a stated reason.
Over ==
  \/ ledger.rev > 0 /\ row.req = 0
  \/ Expired(row) \/ (edited /\ age > 0) \/ row.why \in Sticky
  \/ row.attempts >= MaxAttempts

\* Once the sites answer again for good, the day is settled, whatever went
\* wrong before: no reason in the row can keep it from being tried again.
GetsSettled == <>[](site = "none") => []<>Over
=============================================================================
