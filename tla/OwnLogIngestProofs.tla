------------------------- MODULE OwnLogIngestProofs -------------------------
(* Theorems about OwnLogIngest, for every number of workers, logs and pages. *)
EXTENDS OwnLogIngest, FiniteSetTheorems, TLAPS

USE WorkersAssumption, LogsAssumption, TokenAssumption, SwitchAssumption,
    TimeAssumption, PageAssumption

-----------------------------------------------------------------------------
(* Facts about the pure parts of a round. *)

\* Any set of logs the site answers with has a number of elements.
LEMMA LogSets == ASSUME NEW S \in SUBSET Logs
                 PROVE  IsFiniteSet(S) /\ Cardinality(S) \in Nat
BY FS_Subset, FS_CardinalityType

LEMMA FirstFromType == ASSUME NEW at \in Nat PROVE FirstFrom(at) \in Nat
<1>1. at \div DayLen \in Int OBVIOUS
<1> DEFINE d == at \div DayLen
<1>2. (d - 1) * DayLen \in Int BY <1>1
<1> QED BY <1>2 DEF FirstFrom, MaxOf

LEMMA NullTypes == /\ NoStaging \in Stagings
                   /\ \A win \in Nat \ {0} : Idle(win) \in Rounds
BY DEF NoStaging, Stagings, Idle, Rounds, NoTotal

\* The window a round asks for starts at its coverage or at its staging.
LEMMA AskType ==
  ASSUME NEW s \in Rounds PROVE Ask(s) \in [from : Nat, to : Nat, page : Nat]
BY DEF Ask, Rounds, Stagings, MaxOf, MinOf, Horizon

LEMMA DraftType ==
  ASSUME NEW s \in Rounds, NEW ask \in [from : Nat, to : Nat, page : Nat],
         NEW items \in SUBSET Logs, NEW total \in Nat \cup {NoTotal}
  PROVE  Draft(s, ask, items, total) \in Stagings
<1>1. s.mine \in Stagings BY DEF Rounds
<1>2. Added(s.mine.adds, items) \in [Logs -> Nat] BY <1>1 DEF Added, Stagings
<1>3. s.mine.seen \cup items \in SUBSET Logs BY <1>1 DEF Stagings
<1>4. s.key \in Keys \cup {"none"} /\ s.mine.rev \in Revs \cup {"none"} BY <1>1 DEF Rounds, Stagings
<1>5. ask.from \in Nat /\ ask.to \in Nat /\ ask.page + 1 \in Nat OBVIOUS
<1> DEFINE seen == s.mine.seen \cup items
           done == IF total = NoTotal THEN Cardinality(items) < PageSize
                   ELSE Cardinality(seen) = total
<1>6. done \in BOOLEAN
  <2>1. (Cardinality(items) < PageSize) \in BOOLEAN /\ (Cardinality(seen) = total) \in BOOLEAN
    BY Z3 DEF seen
  <2> HIDE DEF seen
  <2> QED BY <2>1, Zenon
<1>7. Draft(s, ask, items, total) =
        [from |-> ask.from, to |-> ask.to, page |-> ask.page + 1, total |-> total,
         seen |-> seen, adds |-> Added(s.mine.adds, items), complete |-> done,
         key |-> s.key, rev |-> s.mine.rev]
  BY DEF Draft
<1> HIDE DEF seen, done
<1> QED BY <1>2, <1>3, <1>4, <1>5, <1>6, <1>7 DEF Stagings, seen

LEMMA TotalType == ASSUME NEW W \in SUBSET Logs, NEW given PROVE TotalOf(W, given) \in Nat \cup {NoTotal}
BY LogSets DEF TotalOf

LEMMA ItemsType == ASSUME NEW W \in SUBSET Logs, NEW p PROVE PageOf(W, p) \in SUBSET W
BY DEF PageOf

-----------------------------------------------------------------------------
(* Types. *)

LEMMA StepType ==
  ASSUME wk \in [Workers -> Rounds], NEW w \in Workers, NEW s \in Rounds, Step(w, s)
  PROVE  wk' \in [Workers -> Rounds]
BY DEF Step

LEMMA LeaveType ==
  ASSUME wk \in [Workers -> Rounds], NEW w \in Workers, Leave(w)
  PROVE  wk' \in [Workers -> Rounds]
<1>1. Idle(wk[w].win) \in Rounds BY NullTypes DEF Rounds
<1> QED BY <1>1, StepType DEF Leave

LEMMA ProceedType ==
  ASSUME wk \in [Workers -> Rounds], NEW w \in Workers, NEW s \in Rounds,
         NEW covered \in Nat, Proceed(w, s, covered)
  PROVE  wk' \in [Workers -> Rounds]
<1>1. CASE Leave(w) BY <1>1, LeaveType
<1>2. CASE ~Leave(w)
  <2> DEFINE t == [s EXCEPT !.cov = covered,
                            !.pc = IF Horizon(s.at) - covered < MinAdvance
                                   THEN "probe" ELSE "staged"]
  <2>1. t \in Rounds BY DEF Rounds
  <2>2. Step(w, t) BY <1>2 DEF Proceed
  <2> QED BY <2>1, <2>2, StepType
<1> QED BY <1>1, <1>2

\* Rows and staging keep their types when they are dropped or when the skip moves them.
LEMMA RowTypes ==
  ASSUME TypeOK, NEW to \in Nat
  PROVE  /\ SkippedTo(cursor, to) \in Rows \cup {NoRow}
         /\ cursor # NoRow => cursor \in Rows /\ [cursor EXCEPT !.to = to] \in Rows
BY DEF TypeOK, SkippedTo, Rows, NoRow

LEMMA DiscardType ==
  ASSUME TypeOK, NEW from, NEW covered, NEW rev, DiscardPending(from, covered, rev)
  PROVE  pending' \in Stagings
BY NullTypes DEF TypeOK, DiscardPending

\* The steps of a round, each with the part of the state it writes.
LEMMA RoundType ==
  ASSUME TypeOK, NEW w \in Workers, Round(w) \/ Fail(w) \/ Crash(w)
  PROVE  TypeOK'
<1> DEFINE s == wk[w]
<1> USE DEF TypeOK
<1>0. s \in Rounds OBVIOUS
<1>f. FirstFrom(s.at) \in Nat BY <1>0, FirstFromType DEF Rounds
<1>1. CASE Begin(w)
  <2>1. PICK on \in TurnedOn, b \in 1..MaxBudget :
          Step(w, [Idle(s.win) EXCEPT !.pc = "cursor", !.at = now, !.on = on,
                                      !.budget = b, !.key = key])
    BY <1>1 DEF Begin
  <2>2. [Idle(s.win) EXCEPT !.pc = "cursor", !.at = now, !.on = on,
                            !.budget = b, !.key = key] \in Rounds
    <3>1. Idle(s.win) \in Rounds BY <1>0, NullTypes DEF Rounds
    <3>2. on \in BOOLEAN /\ b \in Nat BY SwitchAssumption, PageAssumption
    <3> QED BY <3>1, <3>2 DEF Rounds
  <2>3. wk' \in [Workers -> Rounds] BY <2>1, <2>2, StepType
  <2> QED BY <1>1, <2>3 DEF Begin, env, db
<1>2. CASE ReadCursor(w)
  <2>1. CASE cursor = NoRow
    <3>1. [s EXCEPT !.pc = "start"] \in Rounds BY <1>0 DEF Rounds
    <3>2. Step(w, [s EXCEPT !.pc = "start"]) BY <1>2, <2>1 DEF ReadCursor, NeedsSkip
    <3> QED BY <3>1, <3>2, <1>2, StepType DEF ReadCursor, env, db
  <2>2. CASE cursor # NoRow /\ NeedsSkip(s)
    <3>1. [s EXCEPT !.pc = "skip"] \in Rounds BY <1>0 DEF Rounds
    <3>2. Step(w, [s EXCEPT !.pc = "skip"]) BY <1>2, <2>2 DEF ReadCursor
    <3> QED BY <3>1, <3>2, <1>2, StepType DEF ReadCursor, env, db
  <2>3. CASE cursor # NoRow /\ ~NeedsSkip(s)
    <3>1. Proceed(w, s, cursor.to) BY <1>2, <2>3 DEF ReadCursor
    <3>2. cursor.to \in Nat BY <2>3 DEF Rows
    <3> QED BY <3>1, <3>2, <1>0, <1>2, ProceedType DEF ReadCursor, env, db
  <2> QED BY <2>1, <2>2, <2>3
<1>3. CASE SkipCursor(w)
  <2>1. [s EXCEPT !.pc = "cursor", !.on = FALSE] \in Rounds BY <1>0 DEF Rounds
  <2>2. wk' \in [Workers -> Rounds] BY <2>1, <1>3, StepType DEF SkipCursor
  <2>3. cursor' \in Rows \cup {NoRow} BY <1>3, <1>f, RowTypes DEF SkipCursor
  <2> QED BY <1>3, <2>2, <2>3, NullTypes DEF SkipCursor, env
<1>4. CASE StartCursor(w)
  <2>1. [s EXCEPT !.pc = "started"] \in Rounds BY <1>0 DEF Rounds
  <2>2. wk' \in [Workers -> Rounds] BY <2>1, <1>4, StepType DEF StartCursor
  <2>3. cursor' \in Rows \cup {NoRow} BY <1>4, <1>f DEF StartCursor, Rows, NoGap
  <2> QED BY <1>4, <2>2, <2>3 DEF StartCursor, env
<1>5. CASE ReadStarted(w)
  <2>1. CASE cursor = NoRow
    <3>1. wk' \in [Workers -> Rounds] BY <1>5, <2>1, LeaveType DEF ReadStarted
    <3> QED BY <1>5, <3>1 DEF ReadStarted, env, db
  <2>2. CASE cursor # NoRow
    <3>1. cursor.to \in Nat BY <2>2 DEF Rows
    <3>2. wk' \in [Workers -> Rounds] BY <1>0, <1>5, <2>2, <3>1, ProceedType DEF ReadStarted
    <3> QED BY <1>5, <3>2 DEF ReadStarted, env, db
  <2> QED BY <2>1, <2>2
<1>6. CASE Probe(w) \/ ReadStaging(w)
  <2>1. /\ [s EXCEPT !.pc = "staged"] \in Rounds
        /\ [s EXCEPT !.pc = "loop", !.mine = pending] \in Rounds
    BY <1>0 DEF Rounds
  <2>2. wk' \in [Workers -> Rounds]
    BY <1>6, <2>1, StepType, LeaveType DEF Probe, ReadStaging
  <2> QED BY <1>6, <2>2 DEF Probe, ReadStaging, env, db
<1>7. CASE DiscardStale(w)
  <2>1. wk' \in [Workers -> Rounds] BY <1>7, LeaveType DEF DiscardStale
  <2>2. pending' \in Stagings BY <1>7, DiscardType DEF DiscardStale
  <2> QED BY <1>7, <2>1, <2>2 DEF DiscardStale, env
<1>8. CASE KeepLonger(w) \/ StopReading(w) \/ Finish(w) \/ Fail(w)
  <2>1. wk' \in [Workers -> Rounds]
    BY <1>8, LeaveType DEF KeepLonger, StopReading, Finish, Fail
  <2> QED BY <1>8, <2>1 DEF KeepLonger, StopReading, Finish, Fail, env, db
<1>9. CASE ApplyWindow(w)
  <2>1. s.mine \in Stagings /\ s.mine.to \in Nat BY <1>0 DEF Rounds, Stagings
  <2>2. CASE CanApply(s)
    <3>1. WinAfter(s) \in Nat \ {0} BY <1>0 DEF WinAfter, MinOf, Rounds
    <3> DEFINE t == [s EXCEPT !.cov = s.mine.to, !.win = WinAfter(s), !.mine = NoStaging]
    <3>2. t \in Rounds BY <1>0, <2>1, <3>1, NullTypes DEF Rounds
    <3>3. Step(w, t) BY <1>9, <2>2 DEF ApplyWindow
    <3>4. wk' \in [Workers -> Rounds] BY <3>2, <3>3, StepType
    <3>5. counted' = [l \in Logs |-> counted[l] + s.mine.adds[l]]
      BY <1>9, <2>2 DEF ApplyWindow
    <3>6. counted' \in [Logs -> Nat] BY <3>5, <2>1 DEF Stagings
    <3>7. cursor' \in Rows BY <1>9, <2>1, <2>2, RowTypes DEF ApplyWindow, CanApply
    <3> QED BY <1>9, <2>2, <3>4, <3>6, <3>7, NullTypes DEF ApplyWindow, env
  <2>3. CASE ~CanApply(s)
    <3>1. wk' \in [Workers -> Rounds] BY <1>9, <2>3, LeaveType DEF ApplyWindow
    <3> QED BY <1>9, <2>3, <3>1 DEF ApplyWindow, env, db
  <2> QED BY <2>2, <2>3
<1>10. CASE Request(w)
  <2>0. PICK given \in HasTotal : Answered(w, given) BY <1>10 DEF Request
  <2> DEFINE ask == Ask(s)
             window == site \cap InWindow(ask.from, ask.to)
             items == PageOf(window, ask.page)
             total == TotalOf(window, given)
             spent == [s EXCEPT !.budget = @ - 1]
             d == Draft(s, ask, items, total)
  <2>1. ask \in [from : Nat, to : Nat, page : Nat] BY <1>0, AskType
  <2>2. items \in SUBSET Logs BY ItemsType
  <2>3. total \in Nat \cup {NoTotal} BY TotalType
  <2>4. d \in Stagings BY <1>0, <2>1, <2>2, <2>3, DraftType
  <2>5. HasBudget(s) BY <1>10 DEF Request
  <2>6. spent \in Rounds BY <1>0, <2>5 DEF HasBudget, Rounds
  <2>7. /\ \/ Step(w, [spent EXCEPT !.win = Halved(ask)])
           \/ Step(w, [spent EXCEPT !.pc = "discard"])
           \/ Leave(w)
           \/ Step(w, [spent EXCEPT !.pc = "save", !.draft = d])
        /\ UNCHANGED <<env, db>>
    BY <1>10, <2>0 DEF Request, Answered
  <2>8. Halved(ask) \in Nat \ {0}
    <3> HIDE DEF ask
    <3>1. ask.to - ask.from \in Int BY <2>1
    <3>2. WindowMin \in Nat \ {0} OBVIOUS
    <3>3. (ask.to - ask.from) \div 2 \in Int BY <3>1
    <3> QED BY <3>2, <3>3 DEF Halved, MaxOf
  <2>9. wk' \in [Workers -> Rounds]
    <3> HIDE DEF ask, d, spent
    <3>1. /\ [spent EXCEPT !.win = Halved(ask)] \in Rounds
          /\ [spent EXCEPT !.pc = "discard"] \in Rounds
          /\ [spent EXCEPT !.pc = "save", !.draft = d] \in Rounds
      BY <2>4, <2>6, <2>8 DEF Rounds
    <3> QED BY <2>7, <3>1, StepType, LeaveType
  <2> QED BY <2>7, <2>9 DEF env, db
<1>11. CASE DiscardChanged(w)
  <2>1. wk' \in [Workers -> Rounds] BY <1>11, LeaveType DEF DiscardChanged
  <2>2. pending' \in Stagings BY <1>11, DiscardType DEF DiscardChanged
  <2> QED BY <1>11, <2>1, <2>2 DEF DiscardChanged, env
<1>12. CASE SavePending(w)
  <2> DEFINE d == s.draft
  <2>1. d \in Stagings BY <1>0 DEF Rounds
  <2>2. CASE CanSave(d)
    <3>1. PICK r \in Revs \ HeldRevs :
            /\ pending' = [d EXCEPT !.rev = r]
            /\ Step(w, [s EXCEPT !.pc = "loop", !.mine = [d EXCEPT !.rev = r],
                                 !.draft = NoStaging])
      BY <1>12, <2>2 DEF SavePending
    <3>2. [d EXCEPT !.rev = r] \in Stagings BY <2>1 DEF Stagings
    <3> HIDE DEF d
    <3>3. [s EXCEPT !.pc = "loop", !.mine = [d EXCEPT !.rev = r],
                    !.draft = NoStaging] \in Rounds
      BY <1>0, <3>2, NullTypes DEF Rounds
    <3>4. wk' \in [Workers -> Rounds] BY <3>1, <3>3, StepType
    <3> QED BY <1>12, <3>1, <3>2, <3>4 DEF SavePending, env
  <2>3. CASE ~CanSave(d)
    <3>1. wk' \in [Workers -> Rounds] BY <1>12, <2>3, LeaveType DEF SavePending
    <3> QED BY <1>12, <2>3, <3>1 DEF SavePending, env
  <2> QED BY <2>2, <2>3
<1>13. CASE Crash(w)
  <2>1. Idle(WindowStart) \in Rounds BY NullTypes
  <2>2. wk' \in [Workers -> Rounds] BY <1>13, <2>1, StepType DEF Crash
  <2> QED BY <1>13, <2>2 DEF Crash, Upset, db
<1> QED BY <1>1, <1>2, <1>3, <1>4, <1>5, <1>6, <1>7, <1>8, <1>9, <1>10, <1>11, <1>12, <1>13
        DEF Round

\* What happens around the rounds.
LEMMA WorldType ==
  ASSUME TypeOK,
         \/ DeleteStation \/ Reclassify \/ OldVersionAdvance \/ PruneBuckets
         \/ (\E l \in Logs : Arrive(l)) \/ Tick
  PROVE  TypeOK'
<1> USE DEF TypeOK
<1>1. CASE DeleteStation BY <1>1, NullTypes DEF DeleteStation, Upset
<1>2. CASE Reclassify BY <1>2 DEF Reclassify, Upset, db
<1>3. CASE OldVersionAdvance
  <2>1. PICK to \in (cursor.to + 1)..Horizon(now) :
          /\ cursor' = [cursor EXCEPT !.to = to]
          /\ counted' = Added(counted, site \cap InWindow(cursor.to, to))
    BY <1>3 DEF OldVersionAdvance
  <2>2. cursor \in Rows BY <1>3 DEF OldVersionAdvance
  <2>3. to \in Nat BY <2>2 DEF Rows, Horizon
  <2>4. cursor' \in Rows BY <2>1, <2>2, <2>3 DEF Rows
  <2>5. counted' \in [Logs -> Nat] BY <2>1 DEF Added
  <2>6. upsets' = upsets + 1 /\ UNCHANGED <<now, site, late, key, pending, wk>>
    BY <1>3 DEF OldVersionAdvance, Upset
  <2> QED BY <2>4, <2>5, <2>6
<1>4. CASE PruneBuckets
  <2>1. counted' \in [Logs -> Nat] BY <1>4 DEF PruneBuckets
  <2> QED BY <1>4, <2>1 DEF PruneBuckets, env
<1>5. CASE \E l \in Logs : Arrive(l) BY <1>5 DEF Arrive, db
<1>6. CASE Tick BY <1>6 DEF Tick, db
<1> QED BY <1>1, <1>2, <1>3, <1>4, <1>5, <1>6

LEMMA InitType == Init => TypeOK
<1>1. DayLen \in Nat /\ WindowStart \in Nat \ {0} BY TimeAssumption, PageAssumption
<1> QED BY <1>1, NullTypes DEF Init, TypeOK

LEMMA NextType == TypeOK /\ [Next]_vars => TypeOK'
<1> SUFFICES ASSUME TypeOK, [Next]_vars PROVE TypeOK' OBVIOUS
<1>1. CASE \E w \in Workers : Round(w) \/ Fail(w) \/ Crash(w) BY <1>1, RoundType
<1>2. CASE UNCHANGED vars BY <1>2 DEF vars, TypeOK
<1> QED BY <1>1, <1>2, WorldType DEF Next

\* The rows and the locals of every round have their types in every reachable state.
THEOREM TypeCorrect == Spec => []TypeOK
BY InitType, NextType, PTL DEF Spec


-----------------------------------------------------------------------------
(* What a round holds in its hands is sound. *)

LEMMA NoneSound == Sound(NoStaging)
BY DEF Sound, NoStaging

LEMMA AskOrdered ==
  ASSUME NEW s \in Rounds, Sound(s.mine)
  PROVE  /\ Ask(s).from <= Ask(s).to
         /\ s.mine # NoStaging => Ask(s).from = s.mine.from /\ Ask(s).to = s.mine.to
         /\ s.mine = NoStaging => s.mine.seen = {}
BY DEF Ask, Sound, Rounds, Stagings, MaxOf, MinOf, Horizon, NoStaging

\* A page that passes the checks adds each of its logs for the first time.
LEMMA DraftSound ==
  ASSUME NEW s \in Rounds, Sound(s.mine), NEW total,
         NEW items \in SUBSET InWindow(Ask(s).from, Ask(s).to),
         ~Unsafe(s, Ask(s), items, total)
  PROVE  Sound(Draft(s, Ask(s), items, total))
<1> DEFINE ask == Ask(s)
           d == Draft(s, ask, items, total)
<1>1. /\ ask.from <= ask.to
      /\ s.mine.seen \subseteq InWindow(ask.from, ask.to)
  BY AskOrdered DEF Sound
<1>2. /\ d.from = ask.from /\ d.to = ask.to
      /\ d.seen = s.mine.seen \cup items
      /\ d.adds = Added(s.mine.adds, items)
  BY DEF Draft
<1>3. s.mine.seen \cap items = {} BY DEF Unsafe
<1>4. \A l \in Logs : d.adds[l] = IF l \in d.seen THEN 1 ELSE 0
  BY <1>2, <1>3 DEF Added, Sound
<1> QED BY <1>1, <1>2, <1>4 DEF Sound

\* What the invariant says of a round's locals alone.
Fine(t) == Sound(t.mine) /\ Sound(t.draft) /\ (t.on => TRUE \in TurnedOn)

LEMMA StepFine ==
  ASSUME wk \in [Workers -> Rounds], \A v \in Workers : Fine(wk[v]),
         NEW w \in Workers, NEW t, Fine(t), Step(w, t)
  PROVE  \A v \in Workers : Fine(wk'[v])
BY DEF Step

LEMMA LeaveFine ==
  ASSUME wk \in [Workers -> Rounds], \A v \in Workers : Fine(wk[v]),
         NEW w \in Workers, Leave(w)
  PROVE  /\ \A v \in Workers : Fine(wk'[v])
         /\ wk'[w].pc = "idle"
<1>1. Fine(Idle(wk[w].win)) BY NoneSound DEF Fine, Idle
<1>2. wk'[w].pc = "idle" BY DEF Leave, Step, Idle
<1> QED BY <1>1, <1>2, StepFine DEF Leave

LEMMA ProceedFine ==
  ASSUME wk \in [Workers -> Rounds], \A v \in Workers : Fine(wk[v]),
         NEW w \in Workers, NEW covered, Proceed(w, wk[w], covered)
  PROVE  /\ \A v \in Workers : Fine(wk'[v])
         /\ wk'[w].pc # "skip"
<1>1. CASE Leave(w) BY <1>1, LeaveFine
<1>2. CASE ~Leave(w)
  <2> DEFINE t == [wk[w] EXCEPT !.cov = covered,
                     !.pc = IF Horizon(wk[w].at) - covered < MinAdvance
                            THEN "probe" ELSE "staged"]
  <2>1. wk[w] \in Rounds OBVIOUS
  <2>2. Fine(t) /\ t.pc # "skip" BY <2>1 DEF Fine, Rounds
  <2>3. Step(w, t) BY <1>2 DEF Proceed
  <2>4. wk'[w] = t BY <2>3 DEF Step
  <2> QED BY <2>2, <2>3, <2>4, StepFine
<1> QED BY <1>1, <1>2

\* A step of a round keeps all locals sound, and starts a skip only from a row
\* behind the first reading position.
LEMMA RoundFine ==
  ASSUME TypeOK, CountingInv, NEW w \in Workers, Round(w) \/ Fail(w) \/ Crash(w)
  PROVE  /\ \A v \in Workers : Fine(wk'[v])
         /\ \A v \in Workers : v # w => wk'[v] = wk[v]
         /\ wk'[w].pc = "skip" =>
              /\ wk'[w].on /\ cursor # NoRow /\ cursor.to < FirstFrom(wk'[w].at)
              /\ UNCHANGED cursor
<1> DEFINE s == wk[w]
           Goal == /\ \A v \in Workers : Fine(wk'[v])
                   /\ wk'[w].pc = "skip" =>
                        /\ wk'[w].on /\ cursor # NoRow /\ cursor.to < FirstFrom(wk'[w].at)
                        /\ UNCHANGED cursor
<1>1. wk \in [Workers -> Rounds] /\ s \in Rounds BY DEF TypeOK
<1>2. \A v \in Workers : Fine(wk[v])
  BY DEF CountingInv, SoundStaging, SkipsForward, Fine
<1>3. Fine(s) /\ Sound(s.mine) /\ Sound(s.draft) BY <1>2 DEF Fine
<1>4. ASSUME NEW t \in Rounds, Step(w, t), Fine(t), t.pc # "skip" PROVE Goal
  <2>1. wk'[w] = t BY <1>1, <1>4 DEF Step
  <2> QED BY <1>1, <1>2, <1>4, <2>1, StepFine
<1>5. ASSUME Leave(w) PROVE Goal
  BY <1>1, <1>2, <1>5, LeaveFine
<1>6. ASSUME NEW covered, Proceed(w, s, covered) PROVE Goal
  BY <1>1, <1>2, <1>6, ProceedFine
<1> HIDE DEF Goal
<1>7. Goal
  <2>1. CASE Begin(w)
    <3>1. PICK on \in TurnedOn, b \in 1..MaxBudget :
            Step(w, [Idle(s.win) EXCEPT !.pc = "cursor", !.at = now, !.on = on,
                                        !.budget = b, !.key = key])
      BY <2>1 DEF Begin
    <3> DEFINE t == [Idle(s.win) EXCEPT !.pc = "cursor", !.at = now, !.on = on,
                                        !.budget = b, !.key = key]
    <3>2. Idle(s.win) \in Rounds BY <1>1, NullTypes DEF Rounds
    <3>3. on \in BOOLEAN /\ b \in Nat BY SwitchAssumption, PageAssumption
    <3>4. t \in Rounds BY <3>2, <3>3 DEF Rounds, TypeOK
    <3>5. Fine(t) /\ t.pc # "skip" BY NoneSound DEF Fine, Idle
    <3> QED BY <1>4, <3>1, <3>4, <3>5
  <2>2. CASE ReadCursor(w)
    <3>1. CASE cursor = NoRow
      <4>1. Step(w, [s EXCEPT !.pc = "start"])
        BY <2>2, <3>1 DEF ReadCursor, NeedsSkip
      <4>2. [s EXCEPT !.pc = "start"] \in Rounds BY <1>1 DEF Rounds
      <4>3. Fine([s EXCEPT !.pc = "start"]) BY <1>1, <1>3 DEF Fine, Rounds
      <4> QED BY <1>1, <1>4, <4>1, <4>2, <4>3 DEF Rounds
    <3>2. CASE cursor # NoRow /\ NeedsSkip(s)
      <4> DEFINE t == [s EXCEPT !.pc = "skip"]
      <4>1. Step(w, t) /\ UNCHANGED cursor BY <2>2, <3>2 DEF ReadCursor, db
      <4>2. Fine(t) /\ t.on = s.on /\ t.at = s.at BY <1>1, <1>3 DEF Fine, Rounds
      <4>3. wk'[w] = t BY <1>1, <4>1 DEF Step
      <4> QED BY <1>1, <1>2, <3>2, <4>1, <4>2, <4>3, StepFine DEF Goal, NeedsSkip
    <3>3. CASE cursor # NoRow /\ ~NeedsSkip(s)
      BY <1>6, <2>2, <3>3 DEF ReadCursor
    <3> QED BY <3>1, <3>2, <3>3
  <2>3. CASE SkipCursor(w)
    <3> DEFINE t == [s EXCEPT !.pc = "cursor", !.on = FALSE]
    <3>1. t \in Rounds BY <1>1 DEF Rounds
    <3>2. Fine(t) /\ t.pc # "skip" BY <1>1, <1>3 DEF Fine, Rounds
    <3> QED BY <1>4, <2>3, <3>1, <3>2 DEF SkipCursor
  <2>4. CASE StartCursor(w)
    <3> DEFINE t == [s EXCEPT !.pc = "started"]
    <3>1. t \in Rounds BY <1>1 DEF Rounds
    <3>2. Fine(t) /\ t.pc # "skip" BY <1>1, <1>3 DEF Fine, Rounds
    <3> QED BY <1>4, <2>4, <3>1, <3>2 DEF StartCursor
  <2>5. CASE ReadStarted(w) BY <1>5, <1>6, <2>5 DEF ReadStarted
  <2>6. CASE Probe(w)
    <3> DEFINE t == [s EXCEPT !.pc = "staged"]
    <3>1. t \in Rounds BY <1>1 DEF Rounds
    <3>2. Fine(t) /\ t.pc # "skip" BY <1>1, <1>3 DEF Fine, Rounds
    <3> QED BY <1>4, <1>5, <2>6, <3>1, <3>2 DEF Probe
  <2>7. CASE ReadStaging(w)
    <3> DEFINE t == [s EXCEPT !.pc = "loop", !.mine = pending]
    <3>1. t \in Rounds BY <1>1 DEF Rounds, TypeOK
    <3>2. Sound(pending) BY DEF CountingInv, SoundStaging
    <3>3. Fine(t) /\ t.pc # "skip" BY <1>1, <1>3, <3>2 DEF Fine, Rounds
    <3> QED BY <1>4, <2>7, <3>1, <3>3 DEF ReadStaging
  <2>8. CASE \/ DiscardStale(w) \/ KeepLonger(w) \/ StopReading(w) \/ DiscardChanged(w)
             \/ Finish(w) \/ Fail(w)
    BY <1>5, <2>8 DEF DiscardStale, KeepLonger, StopReading, DiscardChanged, Finish, Fail
  <2>9. CASE ApplyWindow(w)
    <3> DEFINE t == [s EXCEPT !.cov = s.mine.to, !.win = WinAfter(s), !.mine = NoStaging]
    <3>1. s.mine.to \in Nat BY <1>1 DEF Rounds, Stagings
    <3>2. WinAfter(s) \in Nat \ {0} BY <1>1, <3>1 DEF WinAfter, MinOf, Rounds
    <3>3. t \in Rounds BY <1>1, <3>1, <3>2, NullTypes DEF Rounds
    <3>4. s.pc = "loop" BY <2>9 DEF ApplyWindow, Looping
    <3>5. Fine(t) /\ t.pc # "skip" BY <1>1, <1>3, <3>4, NoneSound DEF Fine, Rounds
    <3>6. Step(w, t) \/ Leave(w) BY <2>9 DEF ApplyWindow
    <3> QED BY <1>4, <1>5, <3>3, <3>5, <3>6
  <2>10. CASE Request(w)
    <3>0. PICK given \in HasTotal : Answered(w, given) BY <2>10 DEF Request
    <3> DEFINE ask == Ask(s)
               window == site \cap InWindow(ask.from, ask.to)
               items == PageOf(window, ask.page)
               total == TotalOf(window, given)
               spent == [s EXCEPT !.budget = @ - 1]
               d == Draft(s, ask, items, total)
    <3>1. s.pc = "loop" /\ s.budget - 1 \in Nat
      BY <1>1, <2>10 DEF Request, MayRead, Looping, HasBudget, Rounds
    <3>2. spent \in Rounds /\ spent.pc = "loop" /\ Fine(spent)
      BY <1>1, <1>3, <3>1 DEF Rounds, Fine
    <3>3. \/ \E win : Step(w, [spent EXCEPT !.win = win])
          \/ Step(w, [spent EXCEPT !.pc = "discard"])
          \/ Leave(w)
          \/ /\ ~Unsafe(s, ask, items, total)
             /\ Step(w, [spent EXCEPT !.pc = "save", !.draft = d])
      BY <3>0 DEF Answered
    <3>4. ASSUME ~Unsafe(s, ask, items, total) PROVE Sound(d)
      <4>0. window \in SUBSET Logs BY DEF InWindow
      <4>1. items \in SUBSET InWindow(ask.from, ask.to)
        <5> HIDE DEF ask
        <5> QED BY <4>0, ItemsType
      <4> HIDE DEF items, total
      <4> QED BY <1>1, <1>3, <3>4, <4>1, DraftSound
    <3>5. wk'[w].pc # "skip" /\ \A v \in Workers : Fine(wk'[v])
      <4> HIDE DEF spent, d, items, total
      <4>1. ASSUME NEW t, Step(w, t), t.pc # "skip", Fine(t)
            PROVE  wk'[w].pc # "skip" /\ \A v \in Workers : Fine(wk'[v])
        <5>1. wk'[w] = t BY <1>1, <4>1 DEF Step
        <5> QED BY <1>1, <1>2, <4>1, <5>1, StepFine
      <4>2. \A win : [spent EXCEPT !.win = win].pc # "skip" /\ Fine([spent EXCEPT !.win = win])
        BY <3>2 DEF Rounds, Fine
      <4>3. /\ [spent EXCEPT !.pc = "discard"].pc # "skip"
            /\ Fine([spent EXCEPT !.pc = "discard"])
        BY <3>2 DEF Rounds, Fine
      <4>4. ASSUME Sound(d)
            PROVE  /\ [spent EXCEPT !.pc = "save", !.draft = d].pc # "skip"
                   /\ Fine([spent EXCEPT !.pc = "save", !.draft = d])
        BY <3>2, <4>4 DEF Rounds, Fine
      <4>5. CASE Leave(w) BY <1>1, <1>2, <4>5, LeaveFine
      <4> QED BY <3>3, <3>4, <4>1, <4>2, <4>3, <4>4, <4>5
    <3> QED BY <3>5 DEF Goal
  <2>11. CASE SavePending(w)
    <3> DEFINE d == s.draft
    <3>1. CASE CanSave(d)
      <4>1. PICK r \in Revs \ HeldRevs :
              Step(w, [s EXCEPT !.pc = "loop", !.mine = [d EXCEPT !.rev = r],
                                !.draft = NoStaging])
        BY <2>11, <3>1 DEF SavePending
      <4> DEFINE n == [d EXCEPT !.rev = r]
                 t == [s EXCEPT !.pc = "loop", !.mine = n, !.draft = NoStaging]
      <4>2. n \in Stagings BY <1>1 DEF Rounds, Stagings
      <4>3. Sound(n)
        <5>1. d \in Stagings /\ Sound(d) BY <1>1, <1>3 DEF Rounds
        <5> HIDE DEF d
        <5>2. n.from = d.from /\ n.to = d.to /\ n.seen = d.seen /\ n.adds = d.adds
          BY <5>1 DEF Stagings
        <5> HIDE DEF n
        <5> QED BY <5>1, <5>2 DEF Sound
      <4> HIDE DEF n
      <4>4. t \in Rounds BY <1>1, <4>2, NullTypes DEF Rounds
      <4>5. Fine(t) /\ t.pc # "skip" BY <1>1, <1>3, <4>3, NoneSound DEF Fine, Rounds
      <4>6. Step(w, t) BY <4>1 DEF n
      <4> QED BY <1>4, <4>4, <4>5, <4>6
    <3>2. CASE ~CanSave(d) BY <1>5, <2>11, <3>2 DEF SavePending
    <3> QED BY <3>1, <3>2
  <2>12. CASE Crash(w)
    <3>1. Idle(WindowStart) \in Rounds BY NullTypes
    <3>2. Fine(Idle(WindowStart)) /\ Idle(WindowStart).pc # "skip"
      BY NoneSound DEF Fine, Idle
    <3> QED BY <1>4, <2>12, <3>1, <3>2 DEF Crash
  <2> QED BY <2>1, <2>2, <2>3, <2>4, <2>5, <2>6, <2>7, <2>8, <2>9, <2>10, <2>11, <2>12
          DEF Round
<1>8. \A v \in Workers : v # w => wk'[v] = wk[v]
  <2>1. ASSUME NEW given, Answered(w, given) PROVE \E t : Step(w, t)
    BY <2>1 DEF Answered, Leave
  <2>2. ASSUME Request(w) PROVE \E t : Step(w, t) BY <2>1, <2>2 DEF Request
  <2>3. ASSUME ~Request(w) PROVE \E t : Step(w, t)
    BY <2>3 DEF Round, Fail, Crash, Begin, ReadCursor, SkipCursor, StartCursor, ReadStarted,
                Probe, ReadStaging, DiscardStale, KeepLonger, ApplyWindow, StopReading,
                DiscardChanged, SavePending, Finish, Proceed, Leave
  <2>4. \E t : Step(w, t) BY <2>2, <2>3
  <2> QED BY <1>1, <2>4 DEF Step
<1> QED BY <1>7, <1>8 DEF Goal


-----------------------------------------------------------------------------
(* What a step does to the progress and the buckets. *)

\* Coverage moves forward, buckets grow by what the step covers.
Forward ==
  /\ cursor # NoRow /\ cursor' # NoRow =>
       cursor'.to >= cursor.to /\ cursor'.from = cursor.from
  /\ \A l \in Logs : counted'[l] > counted[l] =>
       cursor # NoRow /\ cursor.to <= LogTime[l] /\ LogTime[l] < cursor'.to

\* A window that starts where the coverage ends adds only logs not counted yet.
LEMMA CoverStep ==
  ASSUME TypeOK, CountedOnce, CountedBehind, cursor # NoRow,
         NEW to \in Nat, cursor.to <= to, NEW read \in SUBSET InWindow(cursor.to, to),
         cursor' = [cursor EXCEPT !.to = to], counted' = Added(counted, read)
  PROVE  CountedOnce' /\ CountedBehind' /\ Forward
<1>1. cursor \in Rows BY DEF TypeOK
<1>2. cursor' \in Rows /\ cursor'.to = to /\ cursor'.from = cursor.from
  BY <1>1 DEF Rows
<1>3. cursor' # NoRow BY <1>2 DEF Rows, NoRow
<1>4. \A l \in read : cursor.to <= LogTime[l] /\ LogTime[l] < to BY DEF InWindow
<1>5. \A l \in Logs : counted[l] \in Nat /\ LogTime[l] \in Nat BY DEF TypeOK
<1>6. \A l \in Logs : counted'[l] = counted[l] + IF l \in read THEN 1 ELSE 0
  BY DEF Added
<1>7. \A l \in read : counted[l] = 0
  <2> SUFFICES ASSUME NEW l \in read PROVE counted[l] = 0 OBVIOUS
  <2>1. l \in Logs BY DEF InWindow
  <2>2. ~(LogTime[l] < cursor.to) BY <1>1, <1>4, <1>5, <2>1 DEF Rows
  <2> QED BY <1>5, <2>1, <2>2 DEF CountedBehind
<1>8. CountedOnce'
  BY <1>5, <1>6, <1>7 DEF CountedOnce
<1>9. CountedBehind'
  <2> SUFFICES ASSUME NEW l \in Logs, counted'[l] > 0
               PROVE  LogTime[l] < to
    BY <1>2, <1>3 DEF CountedBehind
  <2>1. CASE l \in read BY <1>4, <2>1
  <2>2. CASE l \notin read
    <3>1. counted[l] > 0 BY <1>5, <1>6, <2>2
    <3> QED BY <1>1, <1>5, <3>1 DEF CountedBehind, Rows
  <2> QED BY <2>1, <2>2
<1>10. Forward
  <2>1. \A l \in Logs : counted'[l] > counted[l] => l \in read BY <1>5, <1>6
  <2> QED BY <1>2, <1>4, <2>1 DEF Forward
<1> QED BY <1>8, <1>9, <1>10

LEMMA StoreStep ==
  ASSUME TypeOK, CountingInv, [Next]_vars
  PROVE  CountedOnce' /\ CountedBehind' /\ Forward
<1> DEFINE Goal == CountedOnce' /\ CountedBehind' /\ Forward
<1>0. /\ CountedOnce /\ CountedBehind
      /\ \A l \in Logs : counted[l] \in Nat /\ LogTime[l] \in Nat
      /\ cursor \in Rows \cup {NoRow}
  BY DEF CountingInv, TypeOK
<1>1. ASSUME UNCHANGED <<cursor, counted>> PROVE Goal
  BY <1>0, <1>1 DEF CountedOnce, CountedBehind, Forward, Rows
<1>2. CASE DeleteStation
  <2>1. cursor' = NoRow /\ counted' = [l \in Logs |-> 0] BY <1>2 DEF DeleteStation
  <2>2. \A l \in Logs : counted'[l] = 0 BY <2>1
  <2> QED BY <1>0, <2>1, <2>2 DEF CountedOnce, CountedBehind, Forward
<1>3. CASE OldVersionAdvance
  <2>1. PICK to \in (cursor.to + 1)..Horizon(now) :
          /\ cursor' = [cursor EXCEPT !.to = to]
          /\ counted' = Added(counted, site \cap InWindow(cursor.to, to))
    BY <1>3 DEF OldVersionAdvance
  <2>2. cursor # NoRow /\ cursor \in Rows BY <1>0, <1>3 DEF OldVersionAdvance
  <2>3. to \in Nat /\ cursor.to <= to BY <2>2 DEF Rows, Horizon, TypeOK
  <2>4. site \cap InWindow(cursor.to, to) \in SUBSET InWindow(cursor.to, to) OBVIOUS
  <2> QED BY <1>0, <2>1, <2>2, <2>3, <2>4, CoverStep
<1>4. CASE PruneBuckets
  <2>1. UNCHANGED cursor BY <1>4 DEF PruneBuckets
  <2>2. \A l \in Logs : counted'[l] = counted[l] \/ counted'[l] = 0
    BY <1>4 DEF PruneBuckets
  <2> QED BY <1>0, <2>1, <2>2 DEF CountedOnce, CountedBehind, Forward, Rows
<1>5. ASSUME NEW w \in Workers, Round(w) \/ Fail(w) \/ Crash(w) PROVE Goal
  <2> DEFINE s == wk[w]
  <2>1. CASE SkipCursor(w)
    <3>1. UNCHANGED counted /\ cursor' = SkippedTo(cursor, FirstFrom(s.at))
      BY <2>1 DEF SkipCursor
    <3>2. CASE cursor = NoRow
      BY <1>1, <3>1, <3>2 DEF SkippedTo
    <3>3. CASE cursor # NoRow
      <4>1. cursor \in Rows BY <1>0, <3>3
      <4>2. cursor.to < FirstFrom(s.at)
        BY <2>1, <3>3 DEF SkipCursor, CountingInv, SkipsForward
      <4>3. s.at \in Nat BY DEF TypeOK, Rounds
      <4>4. FirstFrom(s.at) \in Nat BY <4>3, FirstFromType
      <4>5. cursor'.to = FirstFrom(s.at) /\ cursor'.from = cursor.from
        BY <3>1, <3>3, <4>1 DEF SkippedTo, Rows
      <4>6. cursor'.to > cursor.to /\ cursor' # NoRow
        BY <4>1, <4>2, <4>4, <4>5 DEF Rows, NoRow
      <4>7. CountedBehind'
        BY <1>0, <3>1, <3>3, <4>1, <4>4, <4>5, <4>6 DEF CountedBehind, Rows
      <4>8. Forward
        <5>1. cursor'.to >= cursor.to BY <4>1, <4>4, <4>5, <4>6 DEF Rows
        <5>2. \A l \in Logs : ~(counted'[l] > counted[l]) BY <1>0, <3>1
        <5> QED BY <4>5, <5>1, <5>2 DEF Forward
      <4>9. CountedOnce' BY <1>0, <3>1 DEF CountedOnce
      <4> QED BY <4>7, <4>8, <4>9
    <3> QED BY <3>2, <3>3
  <2>2. CASE StartCursor(w)
    <3>1. UNCHANGED counted /\ (cursor # NoRow => UNCHANGED cursor)
      BY <2>2 DEF StartCursor
    <3>2. CASE cursor = NoRow
      <4>1. \A l \in Logs : counted[l] = 0 BY <1>0, <3>2 DEF CountedBehind
      <4> QED BY <1>0, <3>1, <3>2, <4>1 DEF CountedOnce, CountedBehind, Forward
    <3> QED BY <1>1, <3>1, <3>2
  <2>3. CASE ApplyWindow(w)
    <3>1. CASE CanApply(s)
      <4> DEFINE p == s.mine
      <4>1. p \in Stagings /\ Sound(p)
        BY DEF TypeOK, Rounds, CountingInv, SoundStaging
      <4>2. /\ cursor # NoRow /\ cursor.to = p.from
            /\ cursor' = [cursor EXCEPT !.to = p.to]
            /\ counted' = [l \in Logs |-> counted[l] + p.adds[l]]
        BY <2>3, <3>1 DEF ApplyWindow, CanApply
      <4> HIDE DEF p
      <4>3. counted' = Added(counted, p.seen) BY <4>1, <4>2 DEF Added, Sound
      <4>4. p.to \in Nat /\ cursor.to <= p.to /\ p.seen \in SUBSET InWindow(cursor.to, p.to)
        BY <4>1, <4>2 DEF Sound, Stagings
      <4> QED BY <1>0, <4>2, <4>3, <4>4, CoverStep
    <3>2. CASE ~CanApply(s) BY <1>1, <2>3, <3>2 DEF ApplyWindow, db
    <3> QED BY <3>1, <3>2
  <2>4. CASE ~SkipCursor(w) /\ ~StartCursor(w) /\ ~ApplyWindow(w)
    <3>1. UNCHANGED <<cursor, counted>>
      BY <1>5, <2>4 DEF Round, Fail, Crash, Begin, ReadCursor, ReadStarted, Probe, ReadStaging,
         DiscardStale, KeepLonger, StopReading, Request, DiscardChanged, SavePending, Finish, db
    <3> QED BY <1>1, <3>1
  <2> QED BY <2>1, <2>2, <2>3, <2>4
<1>6. CASE Reclassify \/ (\E l \in Logs : Arrive(l)) \/ Tick \/ UNCHANGED vars
  <2>1. UNCHANGED <<cursor, counted>> BY <1>6 DEF Reclassify, Arrive, Tick, db, vars
  <2> QED BY <1>1, <2>1
<1> QED BY <1>2, <1>3, <1>4, <1>5, <1>6 DEF Next

\* Only saving a judged page puts something new in the staging row.
LEMMA PendingSound ==
  ASSUME TypeOK, CountingInv, [Next]_vars
  PROVE  Sound(pending)'
<1>0. Sound(pending) /\ \A w \in Workers : Sound(wk[w].draft) /\ wk[w].draft \in Stagings
  BY DEF CountingInv, SoundStaging, TypeOK, Rounds
<1>1. ASSUME NEW w \in Workers, SavePending(w) PROVE Sound(pending)'
  <2> DEFINE d == wk[w].draft
  <2>1. CASE CanSave(d)
    <3>1. PICK r \in Revs : pending' = [d EXCEPT !.rev = r]
      BY <1>1, <2>1 DEF SavePending
    <3>2. d \in Stagings /\ Sound(d) BY <1>0
    <3> HIDE DEF d
    <3>3. /\ pending'.from = d.from /\ pending'.to = d.to
          /\ pending'.seen = d.seen /\ pending'.adds = d.adds
      BY <3>1, <3>2 DEF Stagings
    <3> QED BY <3>2, <3>3 DEF Sound
  <2>2. CASE ~CanSave(d) BY <1>0, <1>1, <2>2 DEF SavePending
  <2> QED BY <2>1, <2>2
<1>2. CASE \A w \in Workers : ~SavePending(w)
  <2>1. UNCHANGED pending \/ pending' = NoStaging
    BY <1>2 DEF Next, vars, Round, Fail, Crash, Begin, ReadCursor, SkipCursor, StartCursor,
       ReadStarted, Probe, ReadStaging, DiscardStale, KeepLonger, ApplyWindow, StopReading,
       Request, DiscardChanged, Finish, DiscardPending, DeleteStation, Reclassify,
       OldVersionAdvance, PruneBuckets, Arrive, Tick, db
  <2> QED BY <1>0, <2>1, NoneSound
<1> QED BY <1>1, <1>2

-----------------------------------------------------------------------------
(* The inductive invariant. *)

LEMMA CountingInit == Init => CountingInv
<1> SUFFICES ASSUME Init PROVE CountingInv OBVIOUS
<1>1. \A w \in Workers : wk[w] = Idle(WindowStart) BY DEF Init
<1>2. Fine(Idle(WindowStart)) /\ Idle(WindowStart).pc = "idle"
  BY NoneSound DEF Fine, Idle
<1>3. Sound(pending) /\ \A l \in Logs : counted[l] = 0 BY NoneSound DEF Init
<1>4. SoundStaging BY <1>1, <1>2, <1>3 DEF SoundStaging, Fine
<1>5. SkipsForward BY <1>1, <1>2 DEF SkipsForward, Fine
<1>6. CountedOnce /\ CountedBehind BY <1>3 DEF CountedOnce, CountedBehind
<1> QED BY <1>4, <1>5, <1>6 DEF CountingInv

LEMMA CountingNext ==
  ASSUME SkipsAlone PROVE TypeOK /\ CountingInv /\ [Next]_vars => CountingInv'
<1> SUFFICES ASSUME TypeOK, CountingInv, [Next]_vars PROVE CountingInv' OBVIOUS
<1>1. CountedOnce' /\ CountedBehind' BY StoreStep
<1>2. Sound(pending)' BY PendingSound
<1>3. \A w \in Workers : Fine(wk[w]) BY DEF CountingInv, SoundStaging, SkipsForward, Fine
<1>4. CASE \E w \in Workers : Round(w) \/ Fail(w) \/ Crash(w)
  <2>1. PICK w \in Workers : Round(w) \/ Fail(w) \/ Crash(w) BY <1>4
  <2>2. \A v \in Workers : Fine(wk'[v]) BY <2>1, RoundFine
  <2>3. SkipsForward'
    <3> SUFFICES ASSUME NEW v \in Workers, wk'[v].pc = "skip"
                 PROVE  wk'[v].on /\ (cursor' = NoRow \/ cursor'.to < FirstFrom(wk'[v].at))
      BY <2>2 DEF SkipsForward, Fine
    <3>1. CASE v = w BY <2>1, <3>1, RoundFine
    <3>2. CASE v # w
      <4>1. wk'[v] = wk[v] BY <2>1, <3>2, RoundFine
      <4>2. wk[v].on /\ TRUE \in TurnedOn BY <4>1 DEF CountingInv, SkipsForward
      <4> QED BY <3>2, <4>2 DEF SkipsAlone
    <3> QED BY <3>1, <3>2
  <2> QED BY <1>1, <1>2, <2>2, <2>3 DEF CountingInv, SoundStaging, Fine
<1>5. CASE OldVersionAdvance
  <2>1. \A w \in Workers : wk'[w] = wk[w] /\ wk[w].pc = "idle" BY <1>5 DEF OldVersionAdvance
  <2> QED BY <1>1, <1>2, <1>3, <2>1 DEF CountingInv, SoundStaging, SkipsForward, Fine
<1>6. CASE \/ DeleteStation \/ Reclassify \/ PruneBuckets
           \/ (\E l \in Logs : Arrive(l)) \/ Tick \/ UNCHANGED vars
  <2>1. UNCHANGED wk /\ (cursor' = NoRow \/ UNCHANGED cursor)
    BY <1>6 DEF DeleteStation, Reclassify, PruneBuckets, Arrive, Tick, vars, db
  <2>2. SkipsForward' BY <2>1 DEF CountingInv, SkipsForward
  <2> QED BY <1>1, <1>2, <1>3, <2>1, <2>2 DEF CountingInv, SoundStaging, Fine
<1> QED BY <1>4, <1>5, <1>6 DEF Next

LEMMA CountingAlways == ASSUME SkipsAlone PROVE Spec => [](TypeOK /\ CountingInv)
<1>1. Init => TypeOK /\ CountingInv BY InitType, CountingInit
<1>2. TypeOK /\ CountingInv /\ [Next]_vars => (TypeOK /\ CountingInv)' BY NextType, CountingNext
<1> QED BY <1>1, <1>2, PTL DEF Spec

\* No log is added twice: with one polling process, or when no process skips, whatever
\* rounds interleave, fail or crash (applyWindow 166-174 guards the addition).
THEOREM NeverCountedTwice == ASSUME SkipsAlone PROVE Spec => []CountedOnce
<1>1. CountingInv => CountedOnce BY DEF CountingInv
<1> QED BY <1>1, CountingAlways, PTL

\* Under the same assumption the coverage moves forward only and buckets grow only with it.
THEOREM CoverageForward == ASSUME SkipsAlone PROVE Spec => ForwardOnly
<1>1. TypeOK /\ CountingInv /\ [Next]_vars => [Forward]_vars BY StoreStep
<1>2. [Forward]_vars =>
        [/\ cursor # NoRow /\ cursor' # NoRow =>
              cursor'.to >= cursor.to /\ cursor'.from = cursor.from
         /\ \A l \in Logs : counted'[l] > counted[l] =>
              cursor # NoRow /\ cursor.to <= LogTime[l] /\ LogTime[l] < cursor'.to]_vars
  BY DEF Forward
<1> QED BY <1>1, <1>2, CountingAlways, PTL DEF Spec, ForwardOnly

-----------------------------------------------------------------------------
(* Pages: the logs of a window have the ranks 1, 2, ... without a gap.     *)

Newer(W, l) == {m \in W : NotOlder(m, l)}
Rank(W, l) == Cardinality(Newer(W, l))
Between(W, a, b) == {l \in W : a < Rank(W, l) /\ Rank(W, l) <= b}

LEMMA RankType ==
  ASSUME NEW W \in SUBSET Logs, NEW l \in W
  PROVE  Rank(W, l) \in 1..Cardinality(W)
<1>1. IsFiniteSet(W) /\ Cardinality(W) \in Nat /\ Newer(W, l) \in SUBSET W
  BY LogSets DEF Newer
<1>2. Rank(W, l) \in Nat /\ Rank(W, l) <= Cardinality(W) /\ IsFiniteSet(Newer(W, l))
  BY <1>1, FS_Subset, FS_CardinalityType DEF Rank
<1>3. l \in Newer(W, l)
  BY DEF Newer, NotOlder
<1>4. Rank(W, l) # 0
  BY <1>2, <1>3, FS_EmptySet DEF Rank
<1> QED BY <1>1, <1>2, <1>4

LEMMA RankDiffers ==
  ASSUME NEW W \in SUBSET Logs, NEW a \in W, NEW b \in W, a # b
  PROVE  Rank(W, a) # Rank(W, b)
<1>1. ASSUME NEW x \in W, NEW y \in W, x # y, NotOlder(x, y) PROVE Rank(W, x) # Rank(W, y)
  <2>1. \A m \in W : NotOlder(m, x) => NotOlder(m, y)
    BY <1>1 DEF NotOlder
  <2>2. ~NotOlder(y, x) /\ NotOlder(y, y)
    BY <1>1 DEF NotOlder
  <2>3. Newer(W, x) \in SUBSET Newer(W, y) /\ y \in Newer(W, y) /\ y \notin Newer(W, x)
    BY <2>1, <2>2 DEF Newer
  <2>4. IsFiniteSet(Newer(W, y))
    <3>1. Newer(W, y) \in SUBSET Logs
      BY DEF Newer
    <3> QED BY <3>1, LogSets
  <2> QED BY <2>3, <2>4, FS_Subset DEF Rank
<1>2. NotOlder(a, b) \/ NotOlder(b, a)
  <2>1. a \in Int /\ b \in Int /\ LogTime[a] \in Int /\ LogTime[b] \in Int
    OBVIOUS
  <2> QED BY <2>1 DEF NotOlder
<1> QED BY <1>1, <1>2

\* As many logs have a rank in a range as the range is long, if it is within W.
LEMMA RankRange ==
  ASSUME NEW W \in SUBSET Logs, NEW a \in Nat, NEW b \in Nat, a <= b
  PROVE  /\ Cardinality(Between(W, a, b)) <= b - a
         /\ b <= Cardinality(W) => Cardinality(Between(W, a, b)) = b - a
<1>1. /\ IsFiniteSet(W) /\ Cardinality(W) \in Nat
      /\ Between(W, a, b) \in SUBSET W /\ IsFiniteSet(Between(W, a, b))
  <2>1. IsFiniteSet(W) /\ Cardinality(W) \in Nat /\ Between(W, a, b) \in SUBSET W
    BY LogSets DEF Between
  <2> QED BY <2>1, FS_Subset
<1>2. \A l \in W : Rank(W, l) \in 1..Cardinality(W)
  BY RankType
<1>3. \A x, y \in W : Rank(W, x) = Rank(W, y) => x = y
  BY RankDiffers
<1>4. PICK f : f = [l \in W |-> Rank(W, l)]
  OBVIOUS
<1>5. IsFiniteSet(1..Cardinality(W)) /\ Cardinality(1..Cardinality(W)) = Cardinality(W)
  <2>1. PICK n \in Nat : n = Cardinality(W)
    BY <1>1
  <2>2. IsFiniteSet(1..n) /\ Cardinality(1..n) = IF 1 > n THEN 0 ELSE n - 1 + 1
    <3>1. 1 \in Int /\ n \in Int
      OBVIOUS
    <3> QED BY <3>1, FS_Interval, Zenon
  <2>3. (IF 1 > n THEN 0 ELSE n - 1 + 1) = n
    OBVIOUS
  <2> QED BY <2>1, <2>2, <2>3
<1>6. f \in Injection(W, 1..Cardinality(W))
  BY <1>2, <1>3, <1>4 DEF Injection, IsInjective
<1>7. f \in Surjection(W, 1..Cardinality(W))
  BY <1>5, <1>6, FS_Injection
<1>8. \A k \in 1..Cardinality(W) : \E l \in W : Rank(W, l) = k
  BY <1>4, <1>7 DEF Surjection
<1>9. PICK g : g = [l \in Between(W, a, b) |-> Rank(W, l)]
  OBVIOUS
<1>10. a + 1 \in Int /\ b \in Int /\ IsFiniteSet((a + 1)..b) /\ Cardinality((a + 1)..b) = b - a
  <2>1. a + 1 \in Int /\ b \in Int
    OBVIOUS
  <2>2. IsFiniteSet((a + 1)..b) /\ Cardinality((a + 1)..b) = IF a + 1 > b THEN 0 ELSE b - (a + 1) + 1
    BY <2>1, FS_Interval
  <2> QED BY <2>1, <2>2
<1>11. g \in Injection(Between(W, a, b), (a + 1)..b)
  <2>1. \A l \in Between(W, a, b) : l \in W /\ Rank(W, l) \in (a + 1)..b
    BY <1>1, <1>2 DEF Between
  <2> QED BY <1>3, <1>9, <2>1 DEF Injection, IsInjective
<1>12. Cardinality(Between(W, a, b)) <= b - a
  BY <1>10, <1>11, FS_Injection
<1>13. ASSUME b <= Cardinality(W) PROVE Cardinality(Between(W, a, b)) = b - a
  <2>1. \A k \in (a + 1)..b : \E l \in Between(W, a, b) : Rank(W, l) = k
    <3> SUFFICES ASSUME NEW k \in (a + 1)..b PROVE \E l \in Between(W, a, b) : Rank(W, l) = k
      OBVIOUS
    <3>1. k \in 1..Cardinality(W) /\ a < k /\ k <= b
      BY <1>1, <1>13
    <3>2. PICK l \in W : Rank(W, l) = k
      BY <1>8, <3>1
    <3> QED BY <3>1, <3>2 DEF Between
  <2>2. g \in Surjection(Between(W, a, b), (a + 1)..b)
    BY <1>9, <1>11, <2>1 DEF Surjection, Injection
  <2> QED BY <1>10, <1>11, <2>2, FS_Injection
<1> QED BY <1>12, <1>13

\* A page that is not full is the last one: with the pages before it, of which
\* it repeats nothing, it is all the site has of the window.
LEMMA LastPage ==
  ASSUME NEW W \in SUBSET Logs, NEW page \in Nat \ {0}, NEW seen \in SUBSET W,
         Cardinality(seen) = PageSize * (page - 1), seen \cap PageOf(W, page) = {},
         Cardinality(PageOf(W, page)) < PageSize
  PROVE  W \subseteq seen \cup PageOf(W, page)
<1>1. PICK lo \in Nat : lo = PageSize * (page - 1)
  <2>1. PageSize \in Nat /\ page - 1 \in Nat
    OBVIOUS
  <2> QED BY <2>1
<1>2. PICK hi \in Nat : hi = PageSize * page
  OBVIOUS
<1>3. hi = lo + PageSize
  BY <1>1, <1>2
<1>4. PageOf(W, page) = Between(W, lo, hi)
  BY <1>1, <1>2 DEF PageOf, Between, Rank, Newer
<1>5. /\ IsFiniteSet(W) /\ Cardinality(W) \in Nat
      /\ IsFiniteSet(seen) /\ Cardinality(seen) = lo /\ lo <= Cardinality(W)
  BY <1>1, LogSets, FS_Subset
\* Were the window longer, the page would be full.
<1>6. Cardinality(W) < hi
  <2>1. CASE hi <= Cardinality(W)
    BY <1>3, <1>4, <2>1, RankRange
  <2> QED BY <1>5, <2>1
<1>7. \A l \in W : Rank(W, l) \in Nat /\ Rank(W, l) <= hi
  <2> SUFFICES ASSUME NEW l \in W PROVE Rank(W, l) \in Nat /\ Rank(W, l) <= hi
    OBVIOUS
  <2>1. Rank(W, l) \in 1..Cardinality(W)
    BY RankType
  <2> QED BY <1>5, <1>6, <2>1
<1>8. PICK low : low = Between(W, 0, lo)
  OBVIOUS
<1>9. IsFiniteSet(low) /\ Cardinality(low) = lo
  <2>1. low \in SUBSET Logs
    BY <1>8 DEF Between
  <2>2. lo <= Cardinality(W) => Cardinality(Between(W, 0, lo)) = lo - 0
    BY RankRange
  <2> QED BY <1>5, <1>8, <2>1, <2>2, LogSets
<1>10. \A l \in W : l \in low \/ l \in Between(W, lo, hi)
  <2> SUFFICES ASSUME NEW l \in W PROVE l \in low \/ l \in Between(W, lo, hi)
    OBVIOUS
  <2>1. Rank(W, l) \in 1..Cardinality(W)
    BY RankType
  <2> QED BY <1>7, <1>8, <2>1 DEF Between
<1>11. seen \in SUBSET low
  BY <1>4, <1>10
<1>12. seen = low
  BY <1>5, <1>9, <1>11, FS_Subset
<1> QED BY <1>4, <1>10, <1>12

\* Full pages that do not overlap add up.
LEMMA FullPage ==
  ASSUME NEW W \in SUBSET Logs, NEW page \in Nat \ {0}, NEW seen \in SUBSET Logs,
         Cardinality(seen) = PageSize * (page - 1), seen \cap PageOf(W, page) = {},
         ~(Cardinality(PageOf(W, page)) < PageSize)
  PROVE  Cardinality(seen \cup PageOf(W, page)) = PageSize * page
<1>1. PICK lo \in Nat : lo = PageSize * (page - 1)
  <2>1. PageSize \in Nat /\ page - 1 \in Nat
    OBVIOUS
  <2> QED BY <2>1
<1>2. PICK hi \in Nat : hi = PageSize * page
  OBVIOUS
<1>3. hi = lo + PageSize
  BY <1>1, <1>2
<1>4. PageOf(W, page) = Between(W, lo, hi)
  BY <1>1, <1>2 DEF PageOf, Between, Rank, Newer
<1>5. PICK items \in SUBSET Logs : items = PageOf(W, page)
  BY ItemsType
<1>6. IsFiniteSet(items) /\ Cardinality(items) \in Nat /\ IsFiniteSet(seen)
  BY LogSets
<1>7. Cardinality(items) <= PageSize
  <2>1. lo <= hi
    BY <1>3
  <2>2. Cardinality(Between(W, lo, hi)) <= hi - lo
    BY <2>1, RankRange
  <2> QED BY <1>3, <1>4, <1>5, <2>2
<1>8. Cardinality(items) = PageSize
  BY <1>5, <1>6, <1>7
<1>9. Cardinality(seen \cup items) = Cardinality(seen) + Cardinality(items) - Cardinality({})
  BY <1>5, <1>6, FS_Union
<1> QED BY <1>1, <1>2, <1>3, <1>5, <1>8, <1>9, FS_EmptySet

-----------------------------------------------------------------------------
(* What is staged is complete but for what came late.                      *)

\* A staging lies before the horizon, and holds logs the site has; when it is
\* complete it holds all of its window that was not late, and while it is not,
\* and the site gives no total, it holds full pages.
Pages(p) ==
  p # NoStaging =>
    /\ p.from < p.to /\ p.to <= Horizon(now) /\ p.page >= 1
    /\ p.seen \subseteq site
    /\ p.complete => (site \ late) \cap InWindow(p.from, p.to) \subseteq p.seen
    /\ ~p.complete /\ p.total = NoTotal => Cardinality(p.seen) = PageSize * (p.page - 1)

Reads(t) ==
  /\ Pages(t.mine) /\ Pages(t.draft) /\ t.at <= now
  /\ t.pc = "save" => t.draft.rev = t.mine.rev /\ t.draft.page >= 1

Covers(row, t) ==
  /\ row # NoRow /\ row.from <= t /\ t < row.to
  /\ ~(row.disFrom <= t /\ t < row.disTo)

\* There is one gap at most, it begins within the coverage, and what is covered
\* lies before the horizon, where a log that turns up is late.
OneGap ==
  cursor # NoRow => cursor.disFrom <= cursor.to /\ (cursor.disFrom = NoGap => cursor.disTo = NoGap)
CoveredPast == \A l \in Logs : Covers(cursor, LogTime[l]) => LogTime[l] < Horizon(now)

ReadingInv ==
  /\ Pages(pending) /\ \A w \in Workers : Reads(wk[w])
  /\ pending # NoStaging => cursor # NoRow
  /\ OneGap /\ CoveredPast /\ NothingLost

LEMMA NoneRead == NoStaging.page = 0 /\ NoStaging.seen = {} /\ NoStaging.complete = FALSE /\ Pages(NoStaging)
BY DEF NoStaging, Pages

LEMMA AskWindow ==
  ASSUME TypeOK, NEW s \in Rounds, Pages(s.mine), s.at <= now, s.cov < Horizon(s.at)
  PROVE  /\ Ask(s).from < Ask(s).to /\ Ask(s).to <= Horizon(now) /\ Ask(s).page \in Nat \ {0}
         /\ s.mine # NoStaging => Ask(s).from = s.mine.from /\ Ask(s).to = s.mine.to /\ Ask(s).page = s.mine.page
         /\ s.mine = NoStaging => Ask(s).page = 1
<1>1. CASE s.mine # NoStaging
  BY <1>1 DEF Ask, Pages, Rounds, Stagings
<1>2. CASE s.mine = NoStaging
  <2>1. s.cov \in Nat /\ s.win \in Nat \ {0} /\ s.at \in Nat /\ now \in Nat
    BY DEF TypeOK, Rounds
  <2>2. Ask(s) = [from |-> s.cov, to |-> MaxOf(s.cov + 1, MinOf(s.cov + s.win, Horizon(s.at))), page |-> 1]
    BY <1>2 DEF Ask
  <2>3. s.cov + 1 <= Horizon(s.at) /\ Horizon(s.at) <= Horizon(now) /\ Horizon(s.at) \in Int /\ Horizon(now) \in Int
    BY <2>1 DEF Horizon
  <2>4. PICK to : to = MaxOf(s.cov + 1, MinOf(s.cov + s.win, Horizon(s.at)))
    OBVIOUS
  <2>5. to \in Int /\ s.cov < to /\ to <= Horizon(s.at)
    BY <2>1, <2>3, <2>4 DEF MaxOf, MinOf
  <2>6. Ask(s).from = s.cov /\ Ask(s).to = to /\ Ask(s).page = 1
    BY <2>2, <2>4
  <2> QED BY <1>2, <2>1, <2>3, <2>5, <2>6
<1> QED BY <1>1, <1>2

\* A page that passes the checks makes a whole staging out of a whole one.
LEMMA DraftPages ==
  ASSUME TypeOK, NEW s \in Rounds, Pages(s.mine), Sound(s.mine), s.at <= now, s.cov < Horizon(s.at),
         ~s.mine.complete, NEW given,
         NEW W, W = site \cap InWindow(Ask(s).from, Ask(s).to),
         NEW items, items = PageOf(W, Ask(s).page),
         NEW total, total = TotalOf(W, given),
         s.mine # NoStaging => total = s.mine.total,
         ~Unsafe(s, Ask(s), items, total)
  PROVE  Pages(Draft(s, Ask(s), items, total)) /\ Draft(s, Ask(s), items, total).page >= 1
<1>1. PICK ask \in [from : Nat, to : Nat, page : Nat] : ask = Ask(s)
  BY AskType
<1>2. /\ ask.from < ask.to /\ ask.to <= Horizon(now) /\ ask.page \in Nat \ {0}
      /\ s.mine # NoStaging => ask.from = s.mine.from /\ ask.to = s.mine.to /\ ask.page = s.mine.page
      /\ s.mine = NoStaging => ask.page = 1
  BY <1>1, AskWindow
<1>3. PICK d : d = Draft(s, ask, items, total)
  OBVIOUS
<1>4. PICK old : old = s.mine.seen
  OBVIOUS
<1>5. PICK seen : seen = old \cup items
  OBVIOUS
<1>6. /\ d.from = ask.from /\ d.to = ask.to /\ d.page = ask.page + 1 /\ d.seen = seen /\ d.total = total
      /\ d.complete = IF total = NoTotal THEN Cardinality(items) < PageSize ELSE Cardinality(seen) = total
  BY <1>3, <1>4, <1>5 DEF Draft
<1>7. W \in SUBSET Logs /\ items \in SUBSET W /\ W \subseteq site
  <2>1. W \in SUBSET Logs /\ W \subseteq site
    BY DEF InWindow
  <2> QED BY <2>1, ItemsType
<1>8. old \in SUBSET W /\ old \cap items = {}
  <2>1. old \cap items = {}
    BY <1>4 DEF Unsafe
  <2>2. CASE s.mine = NoStaging
    BY <1>4, <2>1, <2>2, NoneRead
  <2>3. CASE s.mine # NoStaging
    BY <1>1, <1>2, <1>4, <2>1, <2>3 DEF Pages, Sound
  <2> QED BY <2>2, <2>3
<1>9. seen \in SUBSET W
  BY <1>5, <1>7, <1>8
<1>10. total = NoTotal => Cardinality(old) = PageSize * (ask.page - 1)
  <2>1. CASE s.mine = NoStaging
    <3>1. old = {} /\ ask.page = 1
      BY <1>2, <1>4, <2>1, NoneRead
    <3> QED BY <3>1, FS_EmptySet
  <2>2. CASE s.mine # NoStaging
    BY <1>2, <1>4, <2>2 DEF Pages
  <2> QED BY <2>1, <2>2
<1>11. ASSUME d.complete PROVE W \subseteq seen
  <2>1. CASE total = NoTotal
    <3>1. PICK page \in Nat \ {0} : page = Ask(s).page /\ page = ask.page
      BY <1>1, <1>2
    <3>2. items = PageOf(W, page) /\ Cardinality(items) < PageSize /\ Cardinality(old) = PageSize * (page - 1)
      BY <1>6, <1>10, <1>11, <2>1, <3>1
    <3>3. W \subseteq old \cup PageOf(W, page)
      BY <1>7, <1>8, <3>2, LastPage
    <3> QED BY <1>5, <3>2, <3>3
  <2>2. CASE total # NoTotal
    <3>1. total = Cardinality(W)
      BY <2>2 DEF TotalOf
    <3>2. Cardinality(seen) = Cardinality(W)
      BY <1>6, <1>11, <2>2, <3>1
    <3>3. IsFiniteSet(W)
      BY <1>7, LogSets
    <3> QED BY <1>9, <3>2, <3>3, FS_Subset
  <2> QED BY <2>1, <2>2
<1>12. ASSUME ~d.complete, total = NoTotal PROVE Cardinality(seen) = PageSize * ask.page
  <2>1. ~(Cardinality(items) < PageSize)
    BY <1>6, <1>12
  <2>2. old \in SUBSET Logs
    BY <1>7, <1>8
  <2>3. PICK page \in Nat \ {0} : page = Ask(s).page /\ page = ask.page
    BY <1>1, <1>2
  <2>4. items = PageOf(W, page) /\ Cardinality(old) = PageSize * (page - 1)
    BY <1>10, <1>12, <2>3
  <2>5. Cardinality(old \cup PageOf(W, page)) = PageSize * page
    BY <1>7, <1>8, <2>1, <2>2, <2>4, FullPage
  <2> QED BY <1>5, <2>3, <2>4, <2>5
<1>13. d.complete => (site \ late) \cap InWindow(d.from, d.to) \subseteq d.seen
  BY <1>1, <1>6, <1>11
<1>14. ~d.complete /\ d.total = NoTotal => Cardinality(d.seen) = PageSize * (d.page - 1)
  <2>1. d.page - 1 = ask.page
    BY <1>2, <1>6
  <2> QED BY <1>6, <1>12, <2>1
<1>15. d.from < d.to /\ d.to <= Horizon(now) /\ d.page >= 1 /\ d.seen \subseteq site
  BY <1>2, <1>6, <1>7, <1>9
<1> QED BY <1>1, <1>3, <1>13, <1>14, <1>15 DEF Pages

-----------------------------------------------------------------------------
(* A step of a round keeps what is staged whole.                           *)

LEMMA StepReads ==
  ASSUME wk \in [Workers -> Rounds], \A v \in Workers : Reads(wk[v]),
         NEW w \in Workers, NEW t, Reads(t), Step(w, t)
  PROVE  \A v \in Workers : Reads(wk'[v])
BY DEF Step

LEMMA IdleReads == ASSUME TypeOK, NEW win PROVE Reads(Idle(win)) /\ Idle(win).pc = "idle"
<1>1. /\ Idle(win).mine = NoStaging /\ Idle(win).draft = NoStaging /\ Idle(win).at = 0 /\ Idle(win).pc = "idle"
  BY DEF Idle
<1> QED BY <1>1, NoneRead DEF Reads, TypeOK

LEMMA RoundReads ==
  ASSUME TypeOK, CountingInv, \A v \in Workers : Reads(wk[v]), Pages(pending),
         NEW w \in Workers, Round(w) \/ Fail(w) \/ Crash(w)
  PROVE  \A v \in Workers : Reads(wk'[v])
<1> DEFINE s == wk[w]
           Goal == \A v \in Workers : Reads(wk'[v])
<1>1. wk \in [Workers -> Rounds] /\ s \in Rounds /\ now \in Nat
  BY DEF TypeOK
<1>2. /\ Reads(s) /\ Pages(s.mine) /\ Pages(s.draft) /\ s.at <= now
      /\ Sound(s.mine) /\ Sound(s.draft)
  BY DEF Reads, CountingInv, SoundStaging
<1>3. ASSUME NEW t, Step(w, t), Reads(t) PROVE Goal
  BY <1>1, <1>3, StepReads
<1>4. ASSUME Leave(w) PROVE Goal
  BY <1>3, <1>4, IdleReads DEF Leave
\* Only the place in the round, and what reading it took, are new.
<1>5. ASSUME NEW t, Step(w, t), t.mine = s.mine, t.draft = s.draft, t.at = s.at, t.pc # "save" PROVE Goal
  <2>1. Reads(t)
    BY <1>2, <1>5 DEF Reads
  <2> QED BY <1>3, <1>5, <2>1
<1>6. ASSUME NEW covered, Proceed(w, s, covered) PROVE Goal
  <2>1. CASE Leave(w)
    BY <1>4, <2>1
  <2>2. CASE ~Leave(w)
    <3>1. PICK t : t = [s EXCEPT !.cov = covered,
                         !.pc = IF Horizon(s.at) - covered < MinAdvance THEN "probe" ELSE "staged"]
      OBVIOUS
    <3>2. Step(w, t)
      BY <1>6, <2>2, <3>1 DEF Proceed
    <3>3. t.mine = s.mine /\ t.draft = s.draft /\ t.at = s.at /\ t.pc # "save"
      BY <1>1, <3>1 DEF Rounds
    <3> QED BY <1>5, <3>2, <3>3
  <2> QED BY <2>1, <2>2
<1>7. CASE Begin(w)
  <2>1. PICK on \in TurnedOn, b \in 1..MaxBudget :
          Step(w, [Idle(s.win) EXCEPT !.pc = "cursor", !.at = now, !.on = on, !.budget = b, !.key = key])
    BY <1>7 DEF Begin
  <2>2. PICK t : t = [Idle(s.win) EXCEPT !.pc = "cursor", !.at = now, !.on = on, !.budget = b, !.key = key]
    OBVIOUS
  <2>3. t.mine = NoStaging /\ t.draft = NoStaging /\ t.at = now /\ t.pc = "cursor"
    BY <2>2 DEF Idle
  <2>4. Reads(t)
    BY <1>1, <2>3, NoneRead DEF Reads
  <2> QED BY <1>3, <2>1, <2>2, <2>4
<1>8. CASE ReadCursor(w)
  <2>1. PICK a : a = [s EXCEPT !.pc = "start"]
    OBVIOUS
  <2>2. PICK b : b = [s EXCEPT !.pc = "skip"]
    OBVIOUS
  <2>3. Step(w, a) \/ Step(w, b) \/ Proceed(w, s, cursor.to)
    BY <1>8, <2>1, <2>2 DEF ReadCursor, NeedsSkip
  <2>4. /\ a.mine = s.mine /\ a.draft = s.draft /\ a.at = s.at /\ a.pc # "save"
        /\ b.mine = s.mine /\ b.draft = s.draft /\ b.at = s.at /\ b.pc # "save"
    BY <1>1, <2>1, <2>2 DEF Rounds
  <2> QED BY <1>5, <1>6, <2>3, <2>4
<1>9. CASE SkipCursor(w)
  <2>1. PICK t : t = [s EXCEPT !.pc = "cursor", !.on = FALSE]
    OBVIOUS
  <2>2. t.mine = s.mine /\ t.draft = s.draft /\ t.at = s.at /\ t.pc # "save"
    BY <1>1, <2>1 DEF Rounds
  <2> QED BY <1>5, <1>9, <2>1, <2>2 DEF SkipCursor
<1>10. CASE StartCursor(w)
  <2>1. PICK t : t = [s EXCEPT !.pc = "started"]
    OBVIOUS
  <2>2. t.mine = s.mine /\ t.draft = s.draft /\ t.at = s.at /\ t.pc # "save"
    BY <1>1, <2>1 DEF Rounds
  <2> QED BY <1>5, <1>10, <2>1, <2>2 DEF StartCursor
<1>11. CASE ReadStarted(w)
  BY <1>4, <1>6, <1>11 DEF ReadStarted
<1>12. CASE Probe(w)
  <2>1. PICK t : t = [s EXCEPT !.pc = "staged"]
    OBVIOUS
  <2>2. t.mine = s.mine /\ t.draft = s.draft /\ t.at = s.at /\ t.pc # "save"
    BY <1>1, <2>1 DEF Rounds
  <2> QED BY <1>4, <1>5, <1>12, <2>1, <2>2 DEF Probe
<1>13. CASE ReadStaging(w)
  <2>1. PICK t : t = [s EXCEPT !.pc = "loop", !.mine = pending]
    OBVIOUS
  <2>2. t.mine = pending /\ t.draft = s.draft /\ t.at = s.at /\ t.pc # "save"
    BY <1>1, <2>1 DEF Rounds
  <2>3. Reads(t)
    BY <1>2, <2>2 DEF Reads
  <2> QED BY <1>3, <1>13, <2>1, <2>3 DEF ReadStaging
<1>14. CASE \/ DiscardStale(w) \/ KeepLonger(w) \/ StopReading(w) \/ DiscardChanged(w)
            \/ Finish(w) \/ Fail(w)
  BY <1>4, <1>14 DEF DiscardStale, KeepLonger, StopReading, DiscardChanged, Finish, Fail
<1>15. CASE ApplyWindow(w)
  <2>1. PICK t : t = [s EXCEPT !.cov = s.mine.to, !.win = WinAfter(s), !.mine = NoStaging]
    OBVIOUS
  <2>2. s.pc = "loop" /\ (Step(w, t) \/ Leave(w))
    BY <1>15, <2>1 DEF ApplyWindow, Looping
  <2>3. t.mine = NoStaging /\ t.draft = s.draft /\ t.at = s.at /\ t.pc = "loop"
    BY <1>1, <2>1, <2>2 DEF Rounds
  <2>4. Reads(t)
    BY <1>2, <2>3, NoneRead DEF Reads
  <2> QED BY <1>3, <1>4, <2>2, <2>4
<1>16. CASE Request(w)
  <2>1. PICK given \in HasTotal : Answered(w, given)
    BY <1>16 DEF Request
  <2>2. PICK W : W = site \cap InWindow(Ask(s).from, Ask(s).to)
    OBVIOUS
  <2>3. PICK items : items = PageOf(W, Ask(s).page)
    OBVIOUS
  <2>4. PICK total : total = TotalOf(W, given)
    OBVIOUS
  <2>5. PICK spent : spent = [s EXCEPT !.budget = @ - 1]
    OBVIOUS
  <2>6. PICK d : d = Draft(s, Ask(s), items, total)
    OBVIOUS
  <2>7. PICK a : a = [spent EXCEPT !.win = Halved(Ask(s))]
    OBVIOUS
  <2>8. PICK b : b = [spent EXCEPT !.pc = "discard"]
    OBVIOUS
  <2>9. PICK c : c = [spent EXCEPT !.pc = "save", !.draft = d]
    OBVIOUS
  <2>10. /\ s.pc = "loop" /\ s.cov < Horizon(s.at) /\ ~s.mine.complete
    BY <1>16 DEF Request, MayRead, Looping
  <2>11. \/ Step(w, a)
         \/ Step(w, b)
         \/ Leave(w)
         \/ /\ s.mine # NoStaging => total = s.mine.total
            /\ ~Unsafe(s, Ask(s), items, total)
            /\ Step(w, c)
    BY <2>1, <2>2, <2>3, <2>4, <2>5, <2>6, <2>7, <2>8, <2>9 DEF Answered
  <2>12. spent.mine = s.mine /\ spent.draft = s.draft /\ spent.at = s.at /\ spent.pc = "loop" /\ DOMAIN spent = DOMAIN s
    BY <1>1, <2>5, <2>10 DEF Rounds
  <2>13. /\ a.mine = s.mine /\ a.draft = s.draft /\ a.at = s.at /\ a.pc = "loop"
         /\ b.mine = s.mine /\ b.draft = s.draft /\ b.at = s.at /\ b.pc = "discard"
    BY <1>1, <2>5, <2>7, <2>8, <2>10 DEF Rounds
  <2>14. c.mine = s.mine /\ c.draft = d /\ c.at = s.at /\ c.pc = "save"
    BY <1>1, <2>5, <2>9 DEF Rounds
  <2>15. d.rev = s.mine.rev
    BY <2>6 DEF Draft
  <2>16. ASSUME s.mine # NoStaging => total = s.mine.total, ~Unsafe(s, Ask(s), items, total)
         PROVE  Reads(c)
    <3>1. Pages(d) /\ d.page >= 1
      BY <1>1, <1>2, <2>2, <2>3, <2>4, <2>6, <2>10, <2>16, DraftPages
    <3> QED BY <1>2, <2>14, <2>15, <3>1 DEF Reads
  <2> QED BY <1>3, <1>4, <1>5, <2>11, <2>13, <2>16
<1>17. CASE SavePending(w)
  <2>1. PICK d : d = s.draft
    OBVIOUS
  <2>2. CASE CanSave(d)
    <3>1. PICK r \in Revs \ HeldRevs :
            Step(w, [s EXCEPT !.pc = "loop", !.mine = [d EXCEPT !.rev = r], !.draft = NoStaging])
      BY <1>17, <2>1, <2>2 DEF SavePending
    <3>2. PICK n : n = [d EXCEPT !.rev = r]
      OBVIOUS
    <3>3. PICK t : t = [s EXCEPT !.pc = "loop", !.mine = n, !.draft = NoStaging]
      OBVIOUS
    <3>4. Pages(n)
      <4>1. d \in Stagings /\ Pages(d)
        BY <1>1, <1>2, <2>1 DEF Rounds
      <4>3. d # NoStaging
        <5>1. d.page >= 1
          BY <1>2, <1>17, <2>1 DEF Reads, SavePending
        <5> QED BY <5>1, NoneRead
      <4>2. n.from = d.from /\ n.to = d.to /\ n.page = d.page /\ n.seen = d.seen /\ n.complete = d.complete /\ n.total = d.total
        BY <3>2, <4>1 DEF Stagings
      <4> QED BY <4>1, <4>2, <4>3 DEF Pages
    <3>5. t.mine = n /\ t.draft = NoStaging /\ t.at = s.at /\ t.pc = "loop"
      BY <1>1, <3>3 DEF Rounds
    <3>6. Reads(t)
      BY <1>2, <3>4, <3>5, NoneRead DEF Reads
    <3> QED BY <1>3, <3>1, <3>2, <3>3, <3>6
  <2>3. CASE ~CanSave(d)
    BY <1>4, <1>17, <2>1, <2>3 DEF SavePending
  <2> QED BY <2>2, <2>3
<1>18. CASE Crash(w)
  BY <1>3, <1>18, IdleReads DEF Crash
<1> QED BY <1>7, <1>8, <1>9, <1>10, <1>11, <1>12, <1>13, <1>14, <1>15, <1>16, <1>17, <1>18 DEF Round

-----------------------------------------------------------------------------
(* What the coverage claims.                                               *)

LEMMA LostIs ==
  NothingLost <=>
    \A l \in site \ late : Covers(cursor, LogTime[l]) /\ LogTime[l] >= now - Keep => counted[l] = 1
BY DEF NothingLost, Covers

\* The part of the invariant that is about the store.
StoreInv == OneGap /\ CoveredPast /\ NothingLost

\* A step that covers no more than was covered, the logs and the day being the same.
LEMMA CoversLess ==
  ASSUME StoreInv, UNCHANGED <<now, site, late>>,
         \A l \in Logs : Covers(cursor', LogTime[l]) => Covers(cursor, LogTime[l]),
         \A l \in Logs : counted[l] = 1 /\ LogTime[l] >= now - Keep => counted'[l] = 1,
         site \subseteq Logs
  PROVE  CoveredPast' /\ NothingLost'
<1>1. CoveredPast'
  BY DEF StoreInv, CoveredPast, Horizon
<1>2. \A l \in site \ late : Covers(cursor', LogTime[l]) /\ LogTime[l] >= now - Keep => counted'[l] = 1
  BY LostIs DEF StoreInv
<1>3. NothingLost'
  BY <1>2 DEF NothingLost, Covers
<1> QED BY <1>1, <1>3

\* A window that is read whole, but for what came late.
LEMMA CoversWindow ==
  ASSUME TypeOK, CountedBehind, StoreInv, UNCHANGED <<now, site, late>>, cursor # NoRow,
         NEW to \in Nat, cursor.to <= to, to <= Horizon(now),
         NEW read \in SUBSET InWindow(cursor.to, to),
         (site \ late) \cap InWindow(cursor.to, to) \subseteq read,
         cursor' = [cursor EXCEPT !.to = to], counted' = Added(counted, read)
  PROVE  StoreInv'
<1>1. cursor \in Rows /\ counted \in [Logs -> Nat] /\ now \in Nat /\ site \subseteq Logs
  BY DEF TypeOK
<1>2. PICK row : row = [cursor EXCEPT !.to = to]
  OBVIOUS
<1>3. /\ row.from = cursor.from /\ row.to = to /\ row.disFrom = cursor.disFrom /\ row.disTo = cursor.disTo
      /\ cursor' = row
  BY <1>1, <1>2 DEF Rows
<1>4. \A l \in Logs : LogTime[l] \in Nat /\ counted[l] \in Nat
  BY <1>1
<1>5. \A l \in Logs : Covers(row, LogTime[l]) => Covers(cursor, LogTime[l]) \/ l \in InWindow(cursor.to, to)
  BY <1>1, <1>3, <1>4 DEF Covers, InWindow, Rows
<1>6. \A l \in Logs : counted'[l] = counted[l] + IF l \in read THEN 1 ELSE 0
  BY DEF Added
<1>7. \A l \in InWindow(cursor.to, to) : l \in Logs /\ counted[l] = 0 /\ LogTime[l] < Horizon(now) /\ ~Covers(cursor, LogTime[l])
  <2> SUFFICES ASSUME NEW l \in InWindow(cursor.to, to)
               PROVE  l \in Logs /\ counted[l] = 0 /\ LogTime[l] < Horizon(now) /\ ~Covers(cursor, LogTime[l])
    OBVIOUS
  <2>1. l \in Logs /\ cursor.to <= LogTime[l] /\ LogTime[l] < to
    BY DEF InWindow
  <2>2. cursor.to \in Nat /\ Horizon(now) \in Int
    BY <1>1 DEF Rows, Horizon
  <2>3. ~(LogTime[l] < cursor.to) /\ LogTime[l] < Horizon(now)
    BY <1>4, <2>1, <2>2
  <2>4. ~(counted[l] > 0)
    BY <2>1, <2>3 DEF CountedBehind
  <2> QED BY <1>4, <2>1, <2>3, <2>4 DEF Covers
<1>8. OneGap'
  BY <1>1, <1>3 DEF StoreInv, OneGap, Rows, NoGap
<1>9. CoveredPast'
  BY <1>3, <1>5, <1>7 DEF StoreInv, CoveredPast, Horizon
<1>10. ASSUME NEW l \in site \ late, Covers(row, LogTime[l]), LogTime[l] >= now - Keep PROVE counted'[l] = 1
  <2>1. CASE l \in InWindow(cursor.to, to)
    <3>1. l \in read
      BY <1>10, <2>1
    <3> QED BY <1>6, <1>7, <2>1, <3>1
  <2>2. CASE l \notin InWindow(cursor.to, to)
    <3>1. l \in Logs /\ counted[l] = 1 /\ l \notin read
      BY <1>1, <1>5, <1>10, <2>2, LostIs DEF StoreInv
    <3> QED BY <1>6, <3>1
  <2> QED BY <2>1, <2>2
<1>11. NothingLost'
  BY <1>3, <1>10 DEF NothingLost, Covers
<1> QED BY <1>8, <1>9, <1>11 DEF StoreInv

LEMMA DivBelow == ASSUME NEW a \in Int, NEW b \in Nat \ {0} PROVE (a \div b) * b <= a
OBVIOUS

LEMMA StoreKept ==
  ASSUME TypeOK, CountingInv, ReadingInv, [Next]_vars
  PROVE  StoreInv'
<1>0. /\ StoreInv /\ CountedBehind /\ CountedOnce /\ now \in Nat /\ site \subseteq Logs
      /\ cursor \in Rows \cup {NoRow} /\ counted \in [Logs -> Nat]
      /\ \A l \in Logs : LogTime[l] \in Nat
  BY DEF StoreInv, ReadingInv, CountingInv, TypeOK
<1>1. ASSUME UNCHANGED <<now, site, late, cursor, counted>> PROVE StoreInv'
  BY <1>0, <1>1 DEF StoreInv, OneGap, CoveredPast, NothingLost, Covers, Horizon
<1>2. CASE DeleteStation
  <2>1. cursor' = NoRow
    BY <1>2 DEF DeleteStation
  <2> QED BY <2>1 DEF StoreInv, OneGap, CoveredPast, NothingLost, Covers
<1>3. CASE OldVersionAdvance
  <2>1. PICK to \in (cursor.to + 1)..Horizon(now) :
          /\ cursor' = [cursor EXCEPT !.to = to]
          /\ counted' = Added(counted, site \cap InWindow(cursor.to, to))
    BY <1>3 DEF OldVersionAdvance
  <2>2. cursor # NoRow /\ cursor \in Rows /\ UNCHANGED <<now, site, late>>
    BY <1>0, <1>3 DEF OldVersionAdvance
  <2>3. to \in Nat /\ cursor.to <= to /\ to <= Horizon(now)
    BY <1>0, <2>2 DEF Rows, Horizon
  <2>4. PICK read \in SUBSET InWindow(cursor.to, to) : read = site \cap InWindow(cursor.to, to)
    OBVIOUS
  <2>5. (site \ late) \cap InWindow(cursor.to, to) \subseteq read
    BY <2>4
  <2> QED BY <1>0, <2>1, <2>2, <2>3, <2>4, <2>5, CoversWindow
<1>4. CASE PruneBuckets
  <2>1. PICK before \in Int : before = ((now - Keep) \div Slot) * Slot
    <3>1. now - Keep \in Int /\ Slot \in Nat \ {0}
      BY <1>0
    <3>2. (now - Keep) \div Slot \in Int
      BY <3>1
    <3> QED BY <3>1, <3>2
  <2>2. before <= now - Keep
    <3>1. now - Keep \in Int /\ Slot \in Nat \ {0}
      BY <1>0
    <3> QED BY <2>1, <3>1, DivBelow
  <2>3. UNCHANGED <<now, site, late, cursor>>
    BY <1>4 DEF PruneBuckets, env
  <2>4. \A l \in Logs : LogTime[l] < before \/ counted'[l] = counted[l]
    BY <1>0, <1>4, <2>1 DEF PruneBuckets
  <2>5. \A l \in Logs : counted[l] = 1 /\ LogTime[l] >= now - Keep => counted'[l] = 1
    BY <1>0, <2>2, <2>4
  <2>6. CoveredPast' /\ NothingLost'
    BY <1>0, <2>3, <2>5, CoversLess
  <2> QED BY <1>0, <2>3, <2>6 DEF StoreInv, OneGap
<1>5. ASSUME NEW w \in Workers, Round(w) \/ Fail(w) \/ Crash(w) PROVE StoreInv'
  <2> DEFINE s == wk[w]
  <2>0. UNCHANGED <<now, site, late>>
    BY <1>5 DEF Round, Fail, Crash, Begin, ReadCursor, SkipCursor, StartCursor, ReadStarted, Probe,
       ReadStaging, DiscardStale, KeepLonger, ApplyWindow, StopReading, Request, DiscardChanged,
       SavePending, Finish, env
  <2>1. CASE SkipCursor(w)
    <3>1. counted' = counted /\ cursor' = SkippedTo(cursor, FirstFrom(s.at)) /\ s.pc = "skip"
      BY <2>1 DEF SkipCursor
    <3>2. CASE cursor = NoRow
      BY <1>1, <2>0, <3>1, <3>2 DEF SkippedTo
    <3>3. CASE cursor # NoRow
      <4>1. PICK to \in Nat : to = FirstFrom(s.at)
        BY FirstFromType DEF TypeOK, Rounds
      <4>2. cursor.to < to
        BY <3>1, <3>3, <4>1 DEF CountingInv, SkipsForward
      <4>3. cursor \in Rows /\ OneGap
        BY <1>0, <3>3 DEF StoreInv
      <4>4. PICK row : row = SkippedTo(cursor, to)
        OBVIOUS
      <4>5. /\ row.from = cursor.from /\ row.to = to /\ row.disTo = to
            /\ row.disFrom = IF cursor.disFrom = NoGap THEN cursor.to ELSE cursor.disFrom
        BY <3>3, <4>3, <4>4 DEF SkippedTo, Rows
      <4>6. ASSUME NEW l \in Logs, Covers(row, LogTime[l]) PROVE Covers(cursor, LogTime[l])
        <5>1. LogTime[l] \in Nat /\ cursor.to \in Nat /\ (cursor.disFrom \in Nat \/ cursor.disFrom = NoGap)
          BY <1>0, <4>3 DEF Rows
        <5>2. LogTime[l] < row.disFrom /\ cursor.from <= LogTime[l]
          BY <4>5, <4>6, <5>1 DEF Covers, NoGap
        <5>3. CASE cursor.disFrom = NoGap
          <6>1. cursor.disTo = NoGap
            BY <3>3, <4>3, <5>3 DEF OneGap
          <6> QED BY <3>3, <4>5, <5>1, <5>2, <5>3, <6>1 DEF Covers, NoGap
        <5>4. CASE cursor.disFrom # NoGap
          <6>1. cursor.disFrom \in Nat /\ cursor.disFrom <= cursor.to /\ LogTime[l] < cursor.disFrom
            BY <3>3, <4>3, <4>5, <5>1, <5>2, <5>4 DEF OneGap
          <6> QED BY <3>3, <5>1, <5>2, <6>1 DEF Covers
        <5> QED BY <5>3, <5>4
      <4>7. cursor' = row
        BY <3>1, <4>1, <4>4
      <4>8. CoveredPast' /\ NothingLost'
        BY <1>0, <2>0, <3>1, <4>6, <4>7, CoversLess
      <4>9. OneGap'
        BY <3>3, <4>2, <4>3, <4>5, <4>7 DEF OneGap, Rows, NoGap
      <4> QED BY <4>8, <4>9 DEF StoreInv
    <3> QED BY <3>2, <3>3
  <2>2. CASE StartCursor(w)
    <3>1. CASE cursor # NoRow
      BY <1>1, <2>0, <2>2, <3>1 DEF StartCursor
    <3>2. CASE cursor = NoRow
      <4>1. PICK first \in Nat : first = FirstFrom(s.at)
        BY FirstFromType DEF TypeOK, Rounds
      <4>2. cursor' = [from |-> first, to |-> first, disFrom |-> NoGap, disTo |-> NoGap]
        BY <2>2, <3>2, <4>1 DEF StartCursor
      <4>3. cursor'.from = first /\ cursor'.to = first /\ cursor'.disFrom = NoGap /\ cursor'.disTo = NoGap
        BY <4>2
      <4>4. \A l \in Logs : ~Covers(cursor', LogTime[l])
        BY <1>0, <4>3 DEF Covers
      <4>5. counted' = counted
        BY <2>2 DEF StartCursor
      <4>6. CoveredPast' /\ NothingLost'
        BY <1>0, <2>0, <4>4, <4>5, CoversLess
      <4> QED BY <4>3, <4>6 DEF StoreInv, OneGap, NoGap
    <3> QED BY <3>1, <3>2
  <2>3. CASE ApplyWindow(w)
    <3>1. CASE CanApply(s)
      <4>1. PICK p : p = s.mine
        OBVIOUS
      <4>2. /\ p \in Stagings /\ Sound(p) /\ Pages(p) /\ p # NoStaging /\ p.complete
        BY <2>3, <4>1 DEF TypeOK, Rounds, CountingInv, SoundStaging, ReadingInv, Reads, ApplyWindow
      <4>3. /\ cursor # NoRow /\ cursor.to = p.from
            /\ cursor' = [cursor EXCEPT !.to = p.to]
            /\ counted' = [l \in Logs |-> counted[l] + p.adds[l]]
        BY <2>3, <3>1, <4>1 DEF ApplyWindow, CanApply
      <4>4. counted' = Added(counted, p.seen)
        BY <4>2, <4>3 DEF Added, Sound
      <4>5. PICK to \in Nat : to = p.to
        BY <4>2 DEF Stagings
      <4>6. PICK read \in SUBSET InWindow(cursor.to, to) : read = p.seen
        BY <4>2, <4>3, <4>5 DEF Sound
      <4>7. cursor.to <= to /\ to <= Horizon(now) /\ (site \ late) \cap InWindow(cursor.to, to) \subseteq read
        BY <4>2, <4>3, <4>5, <4>6 DEF Pages, Stagings
      <4> QED BY <1>0, <2>0, <4>3, <4>4, <4>5, <4>6, <4>7, CoversWindow
    <3>2. CASE ~CanApply(s)
      BY <1>1, <2>0, <2>3, <3>2 DEF ApplyWindow, db
    <3> QED BY <3>1, <3>2
  <2>4. CASE ~SkipCursor(w) /\ ~StartCursor(w) /\ ~ApplyWindow(w)
    <3>1. UNCHANGED <<cursor, counted>>
      BY <1>5, <2>4 DEF Round, Fail, Crash, Begin, ReadCursor, ReadStarted, Probe, ReadStaging,
         DiscardStale, KeepLonger, StopReading, Request, DiscardChanged, SavePending, Finish, db
    <3> QED BY <1>1, <2>0, <3>1
  <2> QED BY <2>1, <2>2, <2>3, <2>4
<1>6. ASSUME NEW l \in Logs, Arrive(l) PROVE StoreInv'
  <2>1. /\ UNCHANGED <<now, cursor, counted>> /\ site' = site \cup {l} /\ late \subseteq late'
        /\ LogTime[l] < now - Lag => l \in late'
    BY <1>6 DEF Arrive, db
  <2>2. OneGap' /\ CoveredPast'
    BY <1>0, <2>1 DEF StoreInv, OneGap, CoveredPast, Covers, Horizon
  <2>3. ASSUME NEW m \in site' \ late', Covers(cursor, LogTime[m]), LogTime[m] >= now - Keep PROVE counted[m] = 1
    <3>1. CASE m = l
      BY <1>0, <2>1, <2>3, <3>1 DEF StoreInv, CoveredPast, Horizon
    <3>2. CASE m # l
      BY <1>0, <2>1, <2>3, <3>2, LostIs DEF StoreInv
    <3> QED BY <3>1, <3>2
  <2>4. NothingLost'
    BY <2>1, <2>3 DEF NothingLost, Covers
  <2> QED BY <2>2, <2>4 DEF StoreInv
<1>7. CASE Tick
  <2>1. now' = now + 1 /\ UNCHANGED <<site, late, cursor, counted>>
    BY <1>7 DEF Tick, db
  <2>2. OneGap'
    BY <1>0, <2>1 DEF StoreInv, OneGap
  <2>3. CoveredPast'
    <3>1. \A l \in Logs : LogTime[l] < Horizon(now) => LogTime[l] < Horizon(now')
      BY <1>0, <2>1 DEF Horizon
    <3> QED BY <1>0, <2>1, <3>1 DEF StoreInv, CoveredPast, Covers, Horizon
  <2>4. \A l \in site \ late : LogTime[l] >= now' - Keep => LogTime[l] >= now - Keep
    BY <1>0, <2>1
  <2>5. \A l \in site \ late : Covers(cursor, LogTime[l]) /\ LogTime[l] >= now' - Keep => counted[l] = 1
    BY <1>0, <2>4, LostIs DEF StoreInv
  <2>6. NothingLost'
    BY <2>1, <2>5 DEF NothingLost, Covers
  <2> QED BY <2>2, <2>3, <2>6 DEF StoreInv
<1>8. CASE Reclassify \/ UNCHANGED vars
  BY <1>1, <1>8 DEF Reclassify, db, vars
<1> QED BY <1>2, <1>3, <1>4, <1>5, <1>6, <1>7, <1>8 DEF Next

-----------------------------------------------------------------------------
(* The invariant of reading.                                               *)

\* Logs that appear, and time, leave what is staged whole: its window lies
\* behind the horizon, where a new log is late.
LEMMA PagesKept ==
  ASSUME TypeOK, now' >= now, now' \in Nat, site \subseteq site', late \subseteq late',
         \A l \in site' \ site : l \in Logs /\ (LogTime[l] < now - Lag => l \in late'),
         NEW p \in Stagings, Pages(p)
  PROVE  Pages(p)'
<1>1. now \in Nat /\ p.to \in Nat /\ (\A l \in Logs : LogTime[l] \in Nat)
  BY DEF TypeOK, Stagings
<1>2. CASE p # NoStaging
  <2>1. /\ p.from < p.to /\ p.to <= Horizon(now) /\ p.page >= 1
        /\ p.seen \subseteq site
        /\ p.complete => (site \ late) \cap InWindow(p.from, p.to) \subseteq p.seen
        /\ ~p.complete /\ p.total = NoTotal => Cardinality(p.seen) = PageSize * (p.page - 1)
    BY <1>2 DEF Pages
  <2>2. p.to <= Horizon(now')
    BY <1>1, <2>1 DEF Horizon
  <2>3. \A l \in (site' \ late') \cap InWindow(p.from, p.to) : l \in (site \ late) \cap InWindow(p.from, p.to)
    <3> SUFFICES ASSUME NEW l \in (site' \ late') \cap InWindow(p.from, p.to)
                 PROVE  l \in site \ late
      OBVIOUS
    <3>1. l \in Logs /\ LogTime[l] < p.to /\ LogTime[l] \in Nat
      BY <1>1 DEF InWindow
    <3>2. LogTime[l] < now - Lag
      BY <1>1, <2>1, <3>1 DEF Horizon
    <3> QED BY <3>2
  <2>4. p.complete => (site' \ late') \cap InWindow(p.from, p.to) \subseteq p.seen
    BY <2>1, <2>3
  <2>5. p.seen \subseteq site'
    BY <2>1
  <2> QED BY <2>1, <2>2, <2>4, <2>5 DEF Pages, Horizon, InWindow
<1> QED BY <1>2 DEF Pages

LEMMA ReadsKept ==
  ASSUME TypeOK, now' >= now, now' \in Nat, site \subseteq site', late \subseteq late',
         \A l \in site' \ site : l \in Logs /\ (LogTime[l] < now - Lag => l \in late'),
         NEW t \in Rounds, Reads(t)
  PROVE  Reads(t)'
<1>1. t.mine \in Stagings /\ t.draft \in Stagings /\ t.at \in Nat /\ now \in Nat /\ Pages(t.mine) /\ Pages(t.draft)
  BY DEF TypeOK, Rounds, Reads
<1>2. PICK mine \in Stagings : mine = t.mine
  BY <1>1
<1>3. PICK draft \in Stagings : draft = t.draft
  BY <1>1
<1>4. Pages(mine)' /\ Pages(draft)'
  BY <1>1, <1>2, <1>3, PagesKept
<1>5. t.at <= now'
  BY <1>1 DEF Reads
<1> QED BY <1>2, <1>3, <1>4, <1>5 DEF Reads

LEMMA PendingPages ==
  ASSUME TypeOK, ReadingInv, [Next]_vars, UNCHANGED <<now, site, late>>
  PROVE  Pages(pending)'
<1>0. Pages(pending) /\ wk \in [Workers -> Rounds]
  BY DEF ReadingInv, TypeOK
<1>k. ASSUME NEW q, Pages(q), pending' = q PROVE Pages(pending)'
  BY <1>k DEF Pages, Horizon, InWindow
<1>1. ASSUME NEW w \in Workers, SavePending(w), CanSave(wk[w].draft) PROVE Pages(pending)'
  <2>1. PICK d : d = wk[w].draft
    OBVIOUS
  <2>2. PICK r \in Revs : pending' = [d EXCEPT !.rev = r]
    BY <1>1, <2>1 DEF SavePending
  <2>3. PICK n : n = [d EXCEPT !.rev = r]
    OBVIOUS
  <2>4. d \in Stagings /\ Pages(d) /\ d.page >= 1
    BY <1>0, <1>1, <2>1 DEF Rounds, ReadingInv, Reads, SavePending
  <2>5. d # NoStaging
    BY <2>4, NoneRead
  <2>6. n.from = d.from /\ n.to = d.to /\ n.page = d.page /\ n.seen = d.seen /\ n.complete = d.complete /\ n.total = d.total
    BY <2>3, <2>4 DEF Stagings
  <2>7. Pages(n)
    BY <2>4, <2>5, <2>6 DEF Pages
  <2> QED BY <1>k, <2>2, <2>3, <2>7
<1>2. CASE \A w \in Workers : SavePending(w) => ~CanSave(wk[w].draft)
  <2>1. UNCHANGED pending \/ pending' = NoStaging
    BY <1>2 DEF Next, vars, Round, Fail, Crash, Begin, ReadCursor, SkipCursor, StartCursor,
       ReadStarted, Probe, ReadStaging, DiscardStale, KeepLonger, ApplyWindow, StopReading,
       Request, DiscardChanged, SavePending, Finish, DiscardPending, DeleteStation, Reclassify,
       OldVersionAdvance, PruneBuckets, Arrive, Tick, db
  <2> QED BY <1>0, <1>k, <2>1, NoneRead
<1> QED BY <1>1, <1>2

LEMMA ReadingInit == Init => ReadingInv
<1> SUFFICES ASSUME Init PROVE ReadingInv
  OBVIOUS
<1>1. TypeOK
  BY InitType
<1>2. \A w \in Workers : Reads(wk[w])
  BY <1>1, IdleReads DEF Init
<1>3. cursor = NoRow /\ pending = NoStaging
  BY DEF Init
<1> QED BY <1>2, <1>3, NoneRead DEF ReadingInv, OneGap, CoveredPast, NothingLost, Covers

\* A row is there as long as something is staged.
LEMMA RowStays ==
  ASSUME TypeOK, ReadingInv, [Next]_vars
  PROVE  pending' # NoStaging => cursor' # NoRow
<1>0. (pending # NoStaging => cursor # NoRow) /\ cursor \in Rows \cup {NoRow}
  BY DEF ReadingInv, TypeOK
<1>1. ASSUME NEW to \in Nat, cursor \in Rows, cursor' = [cursor EXCEPT !.to = to] PROVE cursor' # NoRow
  <2>1. cursor'.to = to /\ NoRow.to = -1
    BY <1>1 DEF Rows, NoRow
  <2> QED BY <2>1
<1>2. CASE OldVersionAdvance
  <2>1. PICK to \in (cursor.to + 1)..Horizon(now) : cursor' = [cursor EXCEPT !.to = to]
    BY <1>2 DEF OldVersionAdvance
  <2>2. cursor \in Rows
    BY <1>0, <1>2 DEF OldVersionAdvance
  <2>3. to \in Nat
    BY <2>2 DEF Rows, Horizon, TypeOK
  <2> QED BY <1>1, <2>1, <2>2, <2>3
<1>3. ASSUME NEW w \in Workers, StartCursor(w) PROVE cursor' # NoRow
  <2>1. CASE cursor # NoRow
    BY <1>3, <2>1 DEF StartCursor
  <2>2. CASE cursor = NoRow
    <3>1. PICK first \in Nat : first = FirstFrom(wk[w].at)
      BY FirstFromType DEF TypeOK, Rounds
    <3>2. cursor'.to = first /\ NoRow.to = -1
      BY <1>3, <2>2, <3>1 DEF StartCursor, NoRow
    <3> QED BY <3>2
  <2> QED BY <2>1, <2>2
<1>4. ASSUME NEW w \in Workers, SavePending(w) PROVE pending' # NoStaging => cursor' # NoRow
  BY <1>0, <1>4 DEF SavePending, CanSave
<1>5. CASE ~OldVersionAdvance /\ \A w \in Workers : ~StartCursor(w) /\ ~SavePending(w)
  <2>1. (pending' = pending /\ cursor' = cursor) \/ pending' = NoStaging
    BY <1>5 DEF Next, vars, Round, Fail, Crash, Begin, ReadCursor, SkipCursor,
       ReadStarted, Probe, ReadStaging, DiscardStale, KeepLonger, ApplyWindow, StopReading,
       Request, DiscardChanged, Finish, DiscardPending, DeleteStation, Reclassify,
       PruneBuckets, Arrive, Tick, db
  <2> QED BY <1>0, <2>1
<1> QED BY <1>2, <1>3, <1>4, <1>5

LEMMA ReadingNext ==
  ASSUME TypeOK, CountingInv, ReadingInv, [Next]_vars
  PROVE  ReadingInv'
<1>0. wk \in [Workers -> Rounds] /\ now \in Nat /\ pending \in Stagings /\ site \subseteq Logs
  BY DEF TypeOK
<1>1. StoreInv'
  BY StoreKept
<1>2. pending' # NoStaging => cursor' # NoRow
  BY RowStays
<1>3. CASE \E w \in Workers : Round(w) \/ Fail(w) \/ Crash(w)
  <2>1. PICK w \in Workers : Round(w) \/ Fail(w) \/ Crash(w)
    BY <1>3
  <2>2. UNCHANGED <<now, site, late>>
    BY <2>1 DEF Round, Fail, Crash, Begin, ReadCursor, SkipCursor, StartCursor, ReadStarted, Probe,
       ReadStaging, DiscardStale, KeepLonger, ApplyWindow, StopReading, Request, DiscardChanged,
       SavePending, Finish, env
  <2>3. Pages(pending)'
    BY <2>2, PendingPages
  <2>4. \A v \in Workers : Reads(wk'[v])
    BY <2>1, RoundReads DEF ReadingInv
  <2>5. (\A v \in Workers : Reads(wk[v]))'
    BY <2>2, <2>4 DEF Reads, Pages, Horizon, InWindow
  <2> QED BY <1>1, <1>2, <2>3, <2>5 DEF ReadingInv, StoreInv
<1>4. CASE ~(\E w \in Workers : Round(w) \/ Fail(w) \/ Crash(w))
  <2>1. UNCHANGED wk /\ (pending' = pending \/ pending' = NoStaging)
    BY <1>4 DEF Next, vars, DeleteStation, Reclassify, OldVersionAdvance, PruneBuckets, Arrive, Tick, db
  <2>2. /\ now' >= now /\ now' \in Nat /\ site \subseteq site' /\ late \subseteq late'
        /\ \A l \in site' \ site : l \in Logs /\ (LogTime[l] < now - Lag => l \in late')
    BY <1>0, <1>4 DEF Next, vars, DeleteStation, Reclassify, OldVersionAdvance, PruneBuckets, Arrive, Tick, db, env
  <2>3. ASSUME NEW v \in Workers PROVE Reads(wk[v])'
    <3>1. PICK t \in Rounds : t = wk[v]
      BY <1>0
    <3>2. Reads(t)
      BY <3>1 DEF ReadingInv
    <3>3. Reads(t)'
      BY <2>2, <3>2, ReadsKept
    <3>4. wk'[v] = t
      BY <2>1, <3>1
    <3> QED BY <3>3, <3>4 DEF Reads, Pages
  <2>4. Pages(pending)'
    <3>1. PICK p \in Stagings : p = pending
      BY <1>0
    <3>2. Pages(p)
      BY <3>1 DEF ReadingInv
    <3>3. Pages(p)'
      BY <2>2, <3>2, PagesKept
    <3>4. CASE pending' = p
      BY <3>3, <3>4 DEF Pages
    <3>5. CASE pending' = NoStaging
      BY <3>5 DEF Pages
    <3> QED BY <2>1, <3>1, <3>4, <3>5
  <2> QED BY <1>1, <1>2, <2>3, <2>4 DEF ReadingInv, StoreInv
<1> QED BY <1>3, <1>4

LEMMA ReadingAlways == ASSUME SkipsAlone PROVE Spec => [](TypeOK /\ CountingInv /\ ReadingInv)
<1>1. Init => TypeOK /\ CountingInv /\ ReadingInv
  BY InitType, CountingInit, ReadingInit
<1>2. TypeOK /\ CountingInv /\ ReadingInv /\ [Next]_vars => (TypeOK /\ CountingInv /\ ReadingInv)'
  BY NextType, CountingNext, ReadingNext
<1> QED BY <1>1, <1>2, PTL DEF Spec

\* What the coverage claims is in the buckets, however pages, logs that come
\* late, rounds and processes interleave, for every page size and window; with
\* one polling process, or when no process skips.
THEOREM CoverageIsCounted == ASSUME SkipsAlone PROVE Spec => []NothingLost
<1>1. ReadingInv => NothingLost
  BY DEF ReadingInv
<1> QED BY <1>1, ReadingAlways, PTL

-----------------------------------------------------------------------------
(* Who may change what is staged.                                          *)

Owned ==
  pending # NoStaging /\ pending' # pending =>
    \/ \E w \in Workers : wk[w].mine.rev = pending.rev /\ wk'[w] # wk[w]
    \/ cursor' # cursor

LEMMA LeaveMoves ==
  ASSUME TypeOK, NEW w \in Workers, Leave(w), wk[w].pc # "idle"
  PROVE  wk'[w] # wk[w]
<1>1. wk'[w] = Idle(wk[w].win)
  BY DEF TypeOK, Leave, Step
<1> QED BY <1>1 DEF Idle

LEMMA OwnedStep ==
  ASSUME TypeOK, CountingInv, ReadingInv, [Next]_vars
  PROVE  Owned
<1>0. wk \in [Workers -> Rounds] /\ (pending # NoStaging => cursor # NoRow) /\ cursor \in Rows \cup {NoRow}
  BY DEF TypeOK, ReadingInv
<1>1. ASSUME pending' = pending PROVE Owned
  BY <1>1 DEF Owned
<1>2. CASE DeleteStation
  BY <1>0, <1>2 DEF DeleteStation, Owned
<1>3. ASSUME NEW w \in Workers, SkipCursor(w) PROVE Owned
  <2>1. CASE cursor = NoRow
    BY <1>0, <2>1 DEF Owned
  <2>2. CASE cursor # NoRow
    <3>1. PICK to \in Nat : to = FirstFrom(wk[w].at)
      BY FirstFromType DEF TypeOK, Rounds
    <3>2. cursor' = SkippedTo(cursor, to) /\ cursor.to < to /\ cursor \in Rows
      BY <1>0, <1>3, <2>2, <3>1 DEF SkipCursor, CountingInv, SkipsForward
    <3>3. cursor'.to = to
      BY <2>2, <3>2 DEF SkippedTo, Rows
    <3> QED BY <3>2, <3>3 DEF Owned, Rows
  <2> QED BY <2>1, <2>2
<1>4. ASSUME NEW w \in Workers, DiscardStale(w) \/ DiscardChanged(w) PROVE Owned
  <2>1. Leave(w) /\ wk[w].pc # "idle"
    BY <1>4 DEF DiscardStale, DiscardChanged, Looping
  <2>2. pending' # pending => pending.rev = wk[w].mine.rev
    BY <1>4 DEF DiscardStale, DiscardChanged, DiscardPending
  <2> QED BY <2>1, <2>2, LeaveMoves DEF Owned
<1>5. ASSUME NEW w \in Workers, ApplyWindow(w) PROVE Owned
  <2>1. CASE CanApply(wk[w])
    <3>1. PICK t : t = [wk[w] EXCEPT !.cov = wk[w].mine.to, !.win = WinAfter(wk[w]), !.mine = NoStaging]
      OBVIOUS
    <3>2. Step(w, t) /\ wk[w].mine # NoStaging /\ pending.rev = wk[w].mine.rev
      BY <1>5, <2>1, <3>1 DEF ApplyWindow, CanApply
    <3>3. t.mine = NoStaging
      BY <1>0, <3>1 DEF Rounds
    <3>4. wk'[w] = t
      BY <1>0, <3>2 DEF Step
    <3> QED BY <3>2, <3>3, <3>4 DEF Owned
  <2>2. CASE ~CanApply(wk[w])
    BY <1>1, <1>5, <2>2 DEF ApplyWindow, db
  <2> QED BY <2>1, <2>2
<1>6. ASSUME NEW w \in Workers, SavePending(w) PROVE Owned
  <2>1. PICK d : d = wk[w].draft
    OBVIOUS
  <2>2. CASE CanSave(d)
    <3>1. PICK n, r : Step(w, [wk[w] EXCEPT !.pc = "loop", !.mine = [n EXCEPT !.rev = r], !.draft = NoStaging])
      BY <1>6, <2>1, <2>2 DEF SavePending
    <3>2. wk[w].pc = "save" /\ pending.rev = d.rev
      BY <1>6, <2>1, <2>2 DEF SavePending, CanSave
    <3>3. PICK m : m = [n EXCEPT !.rev = r]
      OBVIOUS
    <3>4. PICK t : t = [wk[w] EXCEPT !.pc = "loop", !.mine = m, !.draft = NoStaging]
      OBVIOUS
    <3>5. t.pc = "loop"
      BY <1>0, <3>4 DEF Rounds
    <3>6. wk'[w] = t
      BY <1>0, <3>1, <3>3, <3>4 DEF Step
    <3>7. d.rev = wk[w].mine.rev
      BY <2>1, <3>2 DEF ReadingInv, Reads
    <3> QED BY <3>2, <3>5, <3>6, <3>7 DEF Owned
  <2>3. CASE ~CanSave(d)
    BY <1>1, <1>6, <2>1, <2>3 DEF SavePending
  <2> QED BY <2>2, <2>3
<1>7. CASE ~DeleteStation /\ \A w \in Workers :
             ~SkipCursor(w) /\ ~DiscardStale(w) /\ ~DiscardChanged(w) /\ ~ApplyWindow(w) /\ ~SavePending(w)
  <2>1. pending' = pending
    BY <1>7 DEF Next, vars, Round, Fail, Crash, Begin, ReadCursor, StartCursor, ReadStarted, Probe,
       ReadStaging, KeepLonger, StopReading, Request, Finish, Reclassify, OldVersionAdvance,
       PruneBuckets, Arrive, Tick, db
  <2> QED BY <1>1, <2>1
<1> QED BY <1>2, <1>3, <1>4, <1>5, <1>6, <1>7

\* What one worker has staged is changed or dropped only by a worker that has
\* read this very version of it, or together with the coverage it hangs on; with
\* one polling process, or when no process skips.
THEOREM StagingHasOwner == ASSUME SkipsAlone PROVE Spec => StagingOwned
<1>1. TypeOK /\ CountingInv /\ ReadingInv /\ [Next]_vars => [Owned]_vars
  BY OwnedStep
<1>2. [Owned]_vars =>
        [pending # NoStaging /\ pending' # pending =>
           \/ \E w \in Workers : wk[w].mine.rev = pending.rev /\ wk'[w] # wk[w]
           \/ cursor' # cursor]_vars
  BY DEF Owned
<1> QED BY <1>1, <1>2, ReadingAlways, PTL DEF Spec, StagingOwned

-----------------------------------------------------------------------------
(* The promise of the store: every step is one of LogCoverage, or none.    *)

LEMMA CoversAsPromised ==
  ASSUME TypeOK, CountedOnce, CountedBehind, UNCHANGED <<now, site, late>>, cursor # NoRow,
         NEW to \in Nat, cursor.to < to,
         NEW read \in SUBSET InWindow(cursor.to, to), read \subseteq site,
         (site \ late) \cap InWindow(cursor.to, to) \subseteq read,
         cursor' = [cursor EXCEPT !.to = to], counted' = Added(counted, read)
  PROVE  Promise!Cover
<1>1. cursor \in Rows /\ counted \in [Logs -> Nat] /\ site \subseteq Logs
  BY DEF TypeOK
<1>2. PICK row : row = [cursor EXCEPT !.to = to]
  OBVIOUS
<1>3. row.to = to /\ cursor' = row
  BY <1>1, <1>2 DEF Rows
<1>4. cursor' = [cursor EXCEPT !.to = cursor'.to] /\ cursor.to < cursor'.to
  BY <1>2, <1>3
<1>5. InWindow(cursor.to, to) = {l \in Logs : cursor.to <= LogTime[l] /\ LogTime[l] < cursor'.to}
  BY <1>3 DEF InWindow
<1>6. \A l \in read : counted[l] = 0
  <2> SUFFICES ASSUME NEW l \in read PROVE counted[l] = 0
    OBVIOUS
  <2>1. l \in Logs /\ ~(LogTime[l] < cursor.to) /\ counted[l] \in Nat
    BY <1>1 DEF InWindow, Rows
  <2> QED BY <2>1 DEF CountedBehind
<1>7. counted' = [l \in Logs |-> IF l \in read THEN 1 ELSE counted[l]]
  BY <1>1, <1>6 DEF Added
<1>8. read \in SUBSET site
  OBVIOUS
<1>9. cursor # Promise!NoRow
  BY DEF Promise!NoRow, NoRow
<1>10. site \cap InWindow(cursor.to, to) \subseteq read \cup late
  OBVIOUS
<1>11. LET range == {l \in Logs : cursor.to <= LogTime[l] /\ LogTime[l] < cursor'.to}
       IN  /\ site \cap range \subseteq read \cup late
           /\ read \subseteq range
           /\ \A l \in read : counted[l] = 0
           /\ counted' = [l \in Logs |-> IF l \in read THEN 1 ELSE counted[l]]
  BY <1>5, <1>6, <1>7, <1>10
<1> QED BY <1>4, <1>8, <1>9, <1>11 DEF Promise!Cover

LEMMA PromiseStep ==
  ASSUME TypeOK, CountingInv, ReadingInv, [Next]_vars
  PROVE  [Promise!Next]_(Promise!vars)
<1>0. /\ CountedBehind /\ CountedOnce /\ now \in Nat /\ site \subseteq Logs
      /\ cursor \in Rows \cup {NoRow} /\ counted \in [Logs -> Nat] /\ late \subseteq site
      /\ \A l \in Logs : LogTime[l] \in Nat
  BY DEF CountingInv, TypeOK
<1>n. Promise!NoRow = NoRow
  BY DEF Promise!NoRow, NoRow
<1>1. ASSUME UNCHANGED <<now, site, late, cursor, counted>> PROVE [Promise!Next]_(Promise!vars)
  BY <1>1 DEF Promise!vars
<1>2. CASE DeleteStation
  BY <1>n, <1>2 DEF DeleteStation, Promise!Next, Promise!Forget
<1>3. CASE OldVersionAdvance
  <2>1. PICK to \in (cursor.to + 1)..Horizon(now) :
          /\ cursor' = [cursor EXCEPT !.to = to]
          /\ counted' = Added(counted, site \cap InWindow(cursor.to, to))
    BY <1>3 DEF OldVersionAdvance
  <2>2. cursor # NoRow /\ cursor \in Rows /\ UNCHANGED <<now, site, late>>
    BY <1>0, <1>3 DEF OldVersionAdvance
  <2>3. to \in Nat /\ cursor.to < to
    BY <1>0, <2>2 DEF Rows, Horizon
  <2>4. PICK read \in SUBSET InWindow(cursor.to, to) : read = site \cap InWindow(cursor.to, to)
    OBVIOUS
  <2>5. (site \ late) \cap InWindow(cursor.to, to) \subseteq read /\ read \subseteq site
    BY <2>4
  <2>6. Promise!Cover
    BY <1>0, <2>1, <2>2, <2>3, <2>4, <2>5, CoversAsPromised
  <2> QED BY <2>6 DEF Promise!Next
<1>4. CASE PruneBuckets
  <2>1. PICK batch \in SUBSET Logs : counted' = [l \in Logs |-> IF l \in batch THEN 0 ELSE counted[l]]
    BY <1>4 DEF PruneBuckets
  <2>2. UNCHANGED <<now, site, late, cursor>>
    BY <1>4 DEF PruneBuckets, env
  <2> QED BY <2>1, <2>2 DEF Promise!Next, Promise!Prune
<1>5. ASSUME NEW w \in Workers, Round(w) \/ Fail(w) \/ Crash(w) PROVE [Promise!Next]_(Promise!vars)
  <2> DEFINE s == wk[w]
  <2>0. UNCHANGED <<now, site, late>>
    BY <1>5 DEF Round, Fail, Crash, Begin, ReadCursor, SkipCursor, StartCursor, ReadStarted, Probe,
       ReadStaging, DiscardStale, KeepLonger, ApplyWindow, StopReading, Request, DiscardChanged,
       SavePending, Finish, env
  <2>1. CASE SkipCursor(w)
    <3>1. counted' = counted /\ cursor' = SkippedTo(cursor, FirstFrom(s.at)) /\ s.pc = "skip"
      BY <2>1 DEF SkipCursor
    <3>2. CASE cursor = NoRow
      BY <1>1, <2>0, <3>1, <3>2 DEF SkippedTo
    <3>3. CASE cursor # NoRow
      <4>1. PICK to \in Nat : to = FirstFrom(s.at)
        BY FirstFromType DEF TypeOK, Rounds
      <4>2. cursor.to < to /\ cursor \in Rows
        BY <1>0, <3>1, <3>3, <4>1 DEF CountingInv, SkipsForward
      <4>3. PICK row : row = [cursor EXCEPT !.to = to, !.disTo = to,
                                !.disFrom = IF cursor.disFrom = NoGap THEN cursor.to ELSE cursor.disFrom]
        OBVIOUS
      <4>4. cursor' = row /\ row.to = to
        BY <3>1, <3>3, <4>1, <4>2, <4>3 DEF SkippedTo, Rows
      <4>5. row = [cursor EXCEPT !.to = row.to, !.disTo = row.to,
                     !.disFrom = IF cursor.disFrom = -1 THEN cursor.to ELSE @]
        BY <4>3, <4>4 DEF NoGap
      <4>6. Promise!Jump
        BY <1>n, <2>0, <3>1, <3>3, <4>2, <4>4, <4>5 DEF Promise!Jump
      <4> QED BY <4>6 DEF Promise!Next
    <3> QED BY <3>2, <3>3
  <2>2. CASE StartCursor(w)
    <3>1. CASE cursor # NoRow
      BY <1>1, <2>0, <2>2, <3>1 DEF StartCursor
    <3>2. CASE cursor = NoRow
      <4>1. PICK first : first = FirstFrom(s.at)
        OBVIOUS
      <4>2. PICK row : row = [from |-> first, to |-> first, disFrom |-> -1, disTo |-> -1]
        OBVIOUS
      <4>3. cursor' = row /\ row.from = first /\ counted' = counted
        BY <2>2, <3>2, <4>1, <4>2 DEF StartCursor, NoGap
      <4>4. cursor' = [from |-> cursor'.from, to |-> cursor'.from, disFrom |-> -1, disTo |-> -1]
        BY <4>2, <4>3
      <4>5. Promise!Open
        BY <1>n, <2>0, <3>2, <4>3, <4>4 DEF Promise!Open
      <4> QED BY <4>5 DEF Promise!Next
    <3> QED BY <3>1, <3>2
  <2>3. CASE ApplyWindow(w)
    <3>1. CASE CanApply(s)
      <4>1. PICK p : p = s.mine
        OBVIOUS
      <4>2. p \in Stagings /\ Sound(p) /\ Pages(p) /\ p # NoStaging /\ p.complete
        BY <2>3, <4>1 DEF TypeOK, Rounds, CountingInv, SoundStaging, ReadingInv, Reads, ApplyWindow
      <4>3. /\ cursor # NoRow /\ cursor.to = p.from
            /\ cursor' = [cursor EXCEPT !.to = p.to]
            /\ counted' = [l \in Logs |-> counted[l] + p.adds[l]]
        BY <2>3, <3>1, <4>1 DEF ApplyWindow, CanApply
      <4>4. counted' = Added(counted, p.seen)
        BY <4>2, <4>3 DEF Added, Sound
      <4>5. PICK to \in Nat : to = p.to
        BY <4>2 DEF Stagings
      <4>6. PICK read \in SUBSET InWindow(cursor.to, to) : read = p.seen
        BY <4>2, <4>3, <4>5 DEF Sound
      <4>7. /\ cursor.to < to /\ read \subseteq site
            /\ (site \ late) \cap InWindow(cursor.to, to) \subseteq read
        BY <4>2, <4>3, <4>5, <4>6 DEF Pages
      <4>8. Promise!Cover
        BY <1>0, <2>0, <4>3, <4>4, <4>5, <4>6, <4>7, CoversAsPromised
      <4> QED BY <4>8 DEF Promise!Next
    <3>2. CASE ~CanApply(s)
      BY <1>1, <2>0, <2>3, <3>2 DEF ApplyWindow, db
    <3> QED BY <3>1, <3>2
  <2>4. CASE ~SkipCursor(w) /\ ~StartCursor(w) /\ ~ApplyWindow(w)
    <3>1. UNCHANGED <<cursor, counted>>
      BY <1>5, <2>4 DEF Round, Fail, Crash, Begin, ReadCursor, ReadStarted, Probe, ReadStaging,
         DiscardStale, KeepLonger, StopReading, Request, DiscardChanged, SavePending, Finish, db
    <3> QED BY <1>1, <2>0, <3>1
  <2> QED BY <2>1, <2>2, <2>3, <2>4
<1>6. ASSUME NEW l \in Logs, Arrive(l) PROVE [Promise!Next]_(Promise!vars)
  <2>1. /\ UNCHANGED <<now, cursor, counted>> /\ site' = site \cup {l}
        /\ late' = IF LogTime[l] < now - Lag THEN late \cup {l} ELSE late
    BY <1>6 DEF Arrive, db
  <2>2. LogTime[l] < now - Lag \/ LogTime[l] >= now - Lag
    BY <1>0
  <2>3. site \subseteq site' /\ late \subseteq late' /\ late' \subseteq site' /\ now' >= now
    BY <1>0, <2>1
  <2>4. \A m \in site' \ site : m \in late' \/ LogTime[m] >= now - Lag
    BY <2>1, <2>2
  <2> QED BY <2>1, <2>3, <2>4 DEF Promise!Next, Promise!World
<1>7. CASE Tick
  <2>1. now' >= now /\ UNCHANGED <<site, late, cursor, counted>>
    BY <1>0, <1>7 DEF Tick, db
  <2> QED BY <1>0, <2>1 DEF Promise!Next, Promise!World
<1>8. CASE Reclassify \/ UNCHANGED vars
  BY <1>1, <1>8 DEF Reclassify, db, vars
<1> QED BY <1>2, <1>3, <1>4, <1>5, <1>6, <1>7, <1>8 DEF Next

\* The reader keeps the promise of the store to the settlement: coverage that
\* only grows, each log of it that was not late counted by the step that covers
\* it, a skipped stretch recorded; with one polling process, or when no process skips.
THEOREM PromiseKept == ASSUME SkipsAlone PROVE Spec => ImplementsCoverage
<1>1. Init => Promise!Init
  BY DEF Init, Promise!Init, Promise!NoRow, NoRow
<1>2. TypeOK /\ CountingInv /\ ReadingInv /\ [Next]_vars => [Promise!Next]_(Promise!vars)
  BY PromiseStep
<1> QED BY <1>1, <1>2, ReadingAlways, PTL DEF Spec, ImplementsCoverage, Promise!Spec
=============================================================================
