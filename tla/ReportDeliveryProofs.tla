------------------------ MODULE ReportDeliveryProofs ------------------------
(***************************************************************************)
(* Proofs about ReportDelivery, for all channels, caps, delays and bounds. *)
(***************************************************************************)
EXTENDS ReportDelivery, TLAPS

USE CapAssumption, BoundAssumption, PlanAssumption

\* A moment of the clock lies on one of the days, and days only move on.
LEMMA DayFacts ==
  ASSUME NEW t \in 0..MaxTime
  PROVE  /\ Day(t) \in Days
         /\ t < MaxTime => Day(t) <= Day(t + 1)
<1>1. t \in Nat /\ MaxTime \in Nat /\ DayLen \in Nat \ {0} /\ t <= MaxTime
  OBVIOUS
<1>2. ASSUME NEW a \in Nat, NEW b \in Nat, NEW n \in Nat \ {0}, a <= b
      PROVE  a \div n \in Nat /\ b \div n \in Nat /\ a \div n <= b \div n
  BY <1>2
<1>3. t \div DayLen \in Nat /\ MaxTime \div DayLen \in Nat
      /\ t \div DayLen <= MaxTime \div DayLen
  BY <1>1, <1>2
<1>4. t \div DayLen <= (t + 1) \div DayLen
  BY <1>1, <1>2
<1> QED BY <1>3, <1>4 DEF Day, Days

\* No attempt is started beyond the cap.
LEMMA StartsType ==
  ASSUME TypeOK, Start
  PROVE  held' \in Deliveries /\ run' \in Runs /\ held'.attempts >= 1
<1> DEFINE previous == Previous(Today)
           attempt == previous.attempts + 1
<1>1. previous \in Deliveries \cup {NoDelivery} /\ previous.attempts < MaxAttempts
  BY DEF Start, May, Previous, TypeOK, Rows
<1>2. attempt \in 1..MaxAttempts /\ previous.ok \in SUBSET Channels
  BY <1>1 DEF Deliveries, NoDelivery
<1>3. Today \in Days /\ now \in 0..MaxTime
  BY DayFacts DEF TypeOK, Today
<1>4. now + Delay(attempt) \in Moments
  BY <1>2, <1>3 DEF Moments
<1>5. held' = [day |-> Today, attempts |-> attempt, ok |-> previous.ok,
               next |-> now + Delay(attempt)]
  BY DEF Start
<1>6. held' \in Deliveries
  <2> HIDE DEF previous, attempt
  <2> QED BY <1>2, <1>3, <1>4, <1>5 DEF Deliveries
<1>7. run' = [pc |-> "begin", todo |-> {}, ok |-> {}, of |-> NoDay, at |-> now,
              complete |-> FALSE]
  BY DEF Start, Waiting
<1>8. now \in Nat /\ NoDay \in Int
  BY <1>3 DEF NoDay
<1>9. run' \in Runs
  BY <1>7, <1>8 DEF Runs
<1> QED BY <1>2, <1>5, <1>6, <1>9

\* The delivery that is written has the type of a row.
LEMMA WithType ==
  ASSUME TypeOK, NEW sentDay \in Days \cup {NoDay}
  PROVE  With(store, sentDay) \in Rows
<1> DEFINE sent == IF sentDay = NoDay THEN store.lastSent ELSE sentDay
<1>1. sent \in Days \cup {NoDay} /\ held \in Deliveries
  BY DEF Rows, TypeOK
<1>2. With(store, sentDay) = [lastSent |-> sent, delivery |-> held]
  BY DEF With
<1> HIDE DEF sent
<1>3. [lastSent |-> sent, delivery |-> held] \in
         [lastSent : Days \cup {NoDay}, delivery : Deliveries]
  BY <1>1
<1> QED BY <1>2, <1>3 DEF Rows

LEMMA FailedType ==
  ASSUME TypeOK, held.attempts >= 1, Failed
  PROVE  held' \in Deliveries /\ run' \in Runs /\ ended' \in Nat
<1>1. held.attempts \in 1..MaxAttempts /\ now \in 0..MaxTime
  BY DEF TypeOK, Deliveries
<1>2. now + Delay(held.attempts) \in Moments
  BY <1>1 DEF Moments
<1>3. held' \in Deliveries
  BY <1>2 DEF TypeOK, Deliveries, Failed
<1>4. run' = [run EXCEPT !.pc = "failed", !.complete = FALSE] /\ run \in Runs
  BY DEF Failed, TypeOK
<1>5. run' \in Runs
  BY <1>4 DEF Runs
<1>6. ended' \in Nat
  BY <1>1 DEF Failed
<1> QED BY <1>3, <1>5, <1>6

LEMMA TypeInit == Init => TypeOK
<1> SUFFICES ASSUME Init PROVE TypeOK
  OBVIOUS
<1>1. NoDelivery \in Deliveries /\ Fresh \in Rows /\ Waiting \in Runs
  BY DEF NoDelivery, Deliveries, Moments, Fresh, Rows, Waiting, Runs, NoDay
<1>2. MaxTime \in Nat /\ 0 \in 0..MaxTime
  OBVIOUS
<1>3. /\ [c \in Channels |-> [d \in Days |-> 0]] \in [Channels -> [Days -> Nat]]
      /\ [d \in Days |-> {}] \in [Days -> SUBSET Int]
      /\ [d \in Days |-> 0] \in [Days -> Nat]
  OBVIOUS
<1>4. now \in 0..MaxTime /\ plan \in Plans /\ targets \subseteq Channels
      /\ db \in Rows /\ store \in Rows /\ held \in Deliveries /\ run \in Runs
  BY <1>1, <1>2 DEF Init
<1>5. /\ got \in [Channels -> [Days -> Nat]] /\ about \in [Days -> SUBSET Int]
      /\ rounds \in [Days -> Nat] /\ lost \in [Channels -> [Days -> Nat]]
      /\ ended \in Nat /\ began \in Nat /\ upsets \in Nat /\ edits \in Nat
  BY <1>3 DEF Init
<1> QED BY <1>4, <1>5 DEF TypeOK

LEMMA TypeNext == TypeOK /\ DaysOrdered /\ [Next]_vars => TypeOK'
<1> SUFFICES ASSUME TypeOK, DaysOrdered, [Next]_vars PROVE TypeOK'
  OBVIOUS
<1> USE DEF settings, history
<1>1. CASE Start
  BY <1>1, StartsType DEF TypeOK, Start
<1>2. CASE SaveStart
  <2>1. held.day \in Days /\ held.attempts >= 1
    BY <1>2 DEF SaveStart, DaysOrdered
  <2>2. db' \in Rows /\ store' \in Rows /\ upsets' \in Nat
    BY <1>2, WithType DEF SaveStart, Saved, TypeOK
  <2>3. CASE targets = {}
    BY <1>2, <2>1, <2>2, <2>3, FailedType DEF SaveStart, TypeOK, Runs
  <2>4. CASE targets # {}
    <3>1. Opened(run) \in Runs
      <4> DEFINE todo == targets \ held.ok
                 pc == IF todo = {} THEN "judge" ELSE "build"
                 of == Today - 1
      <4>1. of \in Int
        BY DayFacts DEF TypeOK, Days, Today
      <4>2. todo \in SUBSET Channels /\ held.ok \in SUBSET Channels /\ run \in Runs
            /\ pc \in {"judge", "build"}
        BY DEF TypeOK, Deliveries
      <4>3. Opened(run) = [run EXCEPT !.pc = pc, !.todo = todo, !.ok = held.ok, !.of = of]
        BY DEF Opened
      <4> HIDE DEF todo, pc, of
      <4> QED BY <4>1, <4>2, <4>3 DEF Runs
    <3>2. rounds' \in [Days -> Nat]
      BY <1>2, <2>1, <2>4 DEF SaveStart, TypeOK
    <3>3. began' \in Nat
      BY <1>2 DEF SaveStart, TypeOK, Runs
    <3> QED BY <1>2, <2>1, <2>2, <2>4, <3>1, <3>2, <3>3 DEF SaveStart, TypeOK
  <2> QED BY <2>3, <2>4
<1>3. CASE SaveStartFails
  <2>1. held.attempts >= 1
    BY <1>3 DEF SaveStartFails, DaysOrdered
  <2> QED BY <1>3, <2>1, WithType, FailedType DEF SaveStartFails, Unsaved, TypeOK
<1>4. CASE Build
  BY <1>4 DEF Build, TypeOK, Runs
<1>5. CASE BuildFails
  <2>1. held.attempts >= 1
    BY <1>5 DEF BuildFails, DaysOrdered
  <2> QED BY <1>5, <2>1, FailedType DEF BuildFails, TypeOK
<1>6. ASSUME NEW c \in Channels, Deliver(c) \/ Refuse(c)
      PROVE  TypeOK'
  <2>1. held.day \in Days
    BY <1>6 DEF Deliver, Refuse, DaysOrdered
  <2>2. run' \in Runs
    <3>1. \/ run' = [run EXCEPT !.todo = @ \ {c}, !.ok = @ \cup {c}]
          \/ run' = [run EXCEPT !.todo = @ \ {c}]
      BY <1>6 DEF Deliver, Refuse
    <3>2. run \in Runs
      BY DEF TypeOK
    <3>3. run.todo \ {c} \in SUBSET Channels /\ run.ok \cup {c} \in SUBSET Channels
      BY <3>2 DEF Runs
    <3> QED BY <3>1, <3>2, <3>3 DEF Runs
  <2>6. UNCHANGED <<now, plan, targets, db, store, held, lost, ended, began, upsets, edits,
                    rounds>>
    BY <1>6 DEF Deliver, Refuse
  <2>3. got' \in [Channels -> [Days -> Nat]]
    BY <1>6, <2>1 DEF Deliver, Refuse, TypeOK
  <2>4. run.of \in Int /\ about \in [Days -> SUBSET Int]
    BY DEF TypeOK, Runs
  <2>5. about' \in [Days -> SUBSET Int]
    BY <1>6, <2>1, <2>4 DEF Deliver, Refuse
  <2> QED BY <2>2, <2>3, <2>5, <2>6 DEF TypeOK
<1>7. CASE Judge
  <2>1. held.attempts \in 1..MaxAttempts /\ now \in 0..MaxTime
    BY <1>7 DEF Judge, DaysOrdered, TypeOK, Deliveries
  <2>2. now + Delay(held.attempts) \in Moments
    BY <2>1 DEF Moments
  <2>3. held' \in Deliveries
    BY <1>7, <2>2 DEF Judge, TypeOK, Deliveries, Runs
  <2>4. Complete(run.ok) \in BOOLEAN
    BY DEF Complete
  <2>5. run' \in Runs
    BY <1>7, <2>4 DEF Judge, TypeOK, Runs
  <2> QED BY <1>7, <2>1, <2>3, <2>5 DEF Judge, TypeOK
<1>8. CASE Record
  <2>1. Sent \in Days \cup {NoDay}
    BY <1>8 DEF Sent, Record, DaysOrdered
  <2>2. Waiting \in Runs
    BY DEF Waiting, Runs, NoDay
  <2> QED BY <1>8, <2>1, <2>2, WithType DEF Record, Saved, TypeOK
<1>9. CASE RecordFails
  <2>1. held.attempts >= 1 /\ Sent \in Days \cup {NoDay}
    BY <1>9 DEF RecordFails, Sent, DaysOrdered
  <2> QED BY <1>9, <2>1, WithType, FailedType DEF RecordFails, Unsaved, TypeOK
<1>10. CASE SaveFailure
  <2>1. Waiting \in Runs
    BY DEF Waiting, Runs, NoDay
  <2> QED BY <1>10, <2>1, WithType DEF SaveFailure, Saved, TypeOK
<1>11. CASE SaveFailureFails
  <2>1. held.attempts \in 1..MaxAttempts /\ now \in 0..MaxTime
    BY <1>11 DEF SaveFailureFails, DaysOrdered, TypeOK, Deliveries
  <2>2. now + Delay(held.attempts) \in Moments
    BY <2>1 DEF Moments
  <2>3. held' \in Deliveries
    BY <1>11, <2>2 DEF SaveFailureFails, TypeOK, Deliveries
  <2>4. Waiting \in Runs
    BY DEF Waiting, Runs, NoDay
  <2> QED BY <1>11, <2>1, <2>3, <2>4, WithType DEF SaveFailureFails, Unsaved, TypeOK
<1>12. CASE Crash
  <2>1. Waiting \in Runs /\ NoDelivery \in Deliveries
    BY DEF Waiting, Runs, NoDelivery, Deliveries, Moments, NoDay
  <2>2. lost' \in [Channels -> [Days -> Nat]]
    BY <1>12 DEF Crash, TypeOK
  <2> QED BY <1>12, <2>1, <2>2 DEF Crash, TypeOK
<1>13. CASE Edit
  BY <1>13 DEF Edit, TypeOK
<1>14. CASE Tick
  BY <1>14 DEF Tick, TypeOK
<1>15. CASE UNCHANGED vars
  BY <1>15 DEF vars, TypeOK
<1> QED
  BY <1>1, <1>2, <1>3, <1>4, <1>5, <1>6, <1>7, <1>8, <1>9, <1>10, <1>11, <1>12, <1>13,
     <1>14, <1>15 DEF Next, Round

-----------------------------------------------------------------------------
(* What each write and each failure does to the copies of the progress. *)

\* A write makes the stored copies the one held; a failed one may.
LEMMA WriteFacts ==
  ASSUME TypeOK, NEW sentDay \in Days \cup {NoDay}
  PROVE  /\ With(store, sentDay).delivery = held
         /\ Saved(sentDay) => db'.delivery = held /\ store'.delivery = held
         /\ Unsaved(sentDay) =>
              store' = store /\ (db' = db \/ db'.delivery = held)
<1>1. With(store, sentDay).delivery = held
  BY DEF With
<1> QED BY <1>1 DEF Saved, Unsaved

\* What a failure changes in the round's local state.
LEMMA FailedFacts ==
  ASSUME TypeOK, Failed
  PROVE  /\ held'.day = held.day /\ held'.ok = held.ok /\ held'.attempts = held.attempts
         /\ run'.pc = "failed" /\ run'.ok = run.ok /\ run'.todo = run.todo
<1>1. held \in Deliveries /\ run \in Runs
  BY DEF TypeOK
<1> QED BY <1>1 DEF Failed, Deliveries, Runs

\* The delivery of a new round: the newest of this day, or an empty one.
LEMMA StartFacts ==
  ASSUME TypeOK, Start
  PROVE  /\ held'.day = Today /\ held'.attempts = Previous(Today).attempts + 1
         /\ held'.ok = Previous(Today).ok
         /\ held'.attempts \in 1..MaxAttempts
         /\ run'.pc = "begin" /\ run'.ok = {} /\ run.pc = "idle"
         /\ UNCHANGED <<now, db, store, history>>
<1>1. Previous(Today).attempts < MaxAttempts
      /\ Previous(Today).attempts \in 0..MaxAttempts
  BY DEF Start, May, Previous, TypeOK, Rows, Deliveries, NoDelivery
<1> QED BY <1>1 DEF Start, Waiting, history

\* The days a copy of the progress can be of are numbers.
LEMMA DayTypes ==
  ASSUME TypeOK
  PROVE  /\ Today \in Days /\ Today \in Nat /\ NoDay = -1
         /\ Days \subseteq Nat
         /\ held.day \in Days \cup {NoDay}
         /\ db.delivery.day \in Days \cup {NoDay} /\ store.delivery.day \in Days \cup {NoDay}
         /\ held.day \in Int /\ db.delivery.day \in Int /\ store.delivery.day \in Int
         /\ held.attempts \in 0..MaxAttempts /\ db.delivery.attempts \in 0..MaxAttempts
         /\ store.delivery.attempts \in 0..MaxAttempts
         /\ held.attempts \in Nat
         /\ NoDay \in Days \cup {NoDay}
<1>1. Days \subseteq Nat /\ NoDay \in Int /\ NoDay = -1
  BY DEF Days, NoDay
<1>2. Today \in Days
  BY DayFacts DEF TypeOK, Today
<1>3. /\ held.day \in Days \cup {NoDay} /\ held.attempts \in 0..MaxAttempts
      /\ db.delivery.day \in Days \cup {NoDay} /\ db.delivery.attempts \in 0..MaxAttempts
      /\ store.delivery.day \in Days \cup {NoDay}
      /\ store.delivery.attempts \in 0..MaxAttempts
  BY DEF TypeOK, Deliveries, Rows
<1>4. ASSUME NEW d \in Days \cup {NoDay} PROVE d \in Int
  BY <1>1
<1>5. held.day \in Int /\ db.delivery.day \in Int /\ store.delivery.day \in Int
  BY <1>3, <1>4
<1>6. held.attempts \in Nat /\ Today \in Nat
  BY <1>1, <1>2, <1>3
<1> QED BY <1>1, <1>2, <1>3, <1>5, <1>6

LEMMA DaysInit == Init => DaysOrdered
<1> SUFFICES ASSUME Init PROVE DaysOrdered
  OBVIOUS
<1>1. 0 \in 0..MaxTime
  OBVIOUS
<1>2. Today \in Nat
  BY <1>1, DayFacts DEF Init, Today, Days
<1> QED BY <1>2 DEF Init, DaysOrdered, Fresh, NoDelivery, Waiting, NoDay

LEMMA DaysNext == TypeOK /\ DaysOrdered /\ [Next]_vars => DaysOrdered'
<1> SUFFICES ASSUME TypeOK, DaysOrdered, [Next]_vars PROVE DaysOrdered'
  OBVIOUS
<1> USE DEF settings, history
<1>0. /\ Today \in Days /\ Today \in Nat /\ NoDay = -1
      /\ held.day \in Days \cup {NoDay}
      /\ held.day \in Int /\ db.delivery.day \in Int /\ store.delivery.day \in Int
      /\ held.attempts \in Nat
      /\ NoDay \in Days \cup {NoDay}
  BY DayTypes
<1>t. now' = now => Today' = Today
  BY DEF Today
<1>1. CASE Start
  <2>1. /\ held'.day = Today /\ held'.attempts \in 1..MaxAttempts
        /\ run'.pc = "begin" /\ now' = now /\ db' = db /\ store' = store
    BY <1>1, StartFacts
  <2>2. Today' = Today
    BY <2>1 DEF Today
  <2> QED BY <1>0, <2>1, <2>2 DEF DaysOrdered
<1>2. CASE SaveStart
  <2>1. run.pc = "begin" /\ now' = now /\ held'.day = held.day /\ held'.attempts = held.attempts
    BY <1>2, FailedFacts DEF SaveStart
  <2>2. db'.delivery.day = held.day /\ store'.delivery.day = held.day
    BY <1>0, <1>2, WriteFacts DEF SaveStart
  <2> QED BY <1>0, <1>t, <2>1, <2>2 DEF DaysOrdered
<1>3. CASE SaveStartFails \/ RecordFails \/ BuildFails
  <2>1. Failed /\ now' = now /\ run.pc # "idle"
    BY <1>3 DEF SaveStartFails, RecordFails, BuildFails
  <2>2. store'.delivery.day = store.delivery.day
        /\ db'.delivery.day \in {db.delivery.day, held.day}
    <3>1. Sent \in Days \cup {NoDay}
      BY <1>0, <2>1 DEF Sent, DaysOrdered
    <3> QED BY <1>0, <1>3, <3>1, WriteFacts DEF SaveStartFails, RecordFails, BuildFails
  <2> QED BY <1>0, <1>t, <2>1, <2>2, FailedFacts DEF DaysOrdered
<1>4. CASE Build
  <2>1. run'.pc = "send" /\ UNCHANGED <<now, db, store, held>> /\ run.pc = "build"
    BY <1>4 DEF Build, TypeOK, Runs
  <2> QED BY <1>t, <2>1 DEF DaysOrdered
<1>6. ASSUME NEW c \in Channels, Deliver(c) \/ Refuse(c)
      PROVE  DaysOrdered'
  <2>1. run'.pc = run.pc /\ UNCHANGED <<now, db, store, held>>
    BY <1>6 DEF Deliver, Refuse, TypeOK, Runs
  <2> QED BY <1>t, <2>1 DEF DaysOrdered
<1>7. CASE Judge
  <2>1. /\ run.pc \in {"judge", "send"} /\ run'.pc = "record" /\ UNCHANGED <<now, db, store>>
        /\ held'.day = held.day /\ held'.attempts = held.attempts
    BY <1>7 DEF Judge, TypeOK, Runs, Deliveries
  <2> QED BY <1>0, <1>t, <2>1 DEF DaysOrdered
<1>8. CASE Record \/ SaveFailure
  <2>1. /\ run.pc # "idle" /\ run'.pc = "idle" /\ now' = now /\ held' = held
    BY <1>8 DEF Record, SaveFailure, Waiting
  <2>2. db'.delivery.day = held.day /\ store'.delivery.day = held.day
    <3>1. Sent \in Days \cup {NoDay}
      BY <1>0, <2>1 DEF Sent, DaysOrdered
    <3> QED BY <1>0, <1>8, <3>1, WriteFacts DEF Record, SaveFailure
  <2> QED BY <1>0, <1>t, <2>1, <2>2 DEF DaysOrdered
<1>11. CASE SaveFailureFails
  <2>1. /\ run.pc # "idle" /\ run'.pc = "idle" /\ now' = now /\ held'.day = held.day
    BY <1>11 DEF SaveFailureFails, Waiting, TypeOK, Deliveries
  <2>2. store'.delivery.day = store.delivery.day
        /\ db'.delivery.day \in {db.delivery.day, held.day}
    BY <1>0, <1>11, WriteFacts DEF SaveFailureFails
  <2> QED BY <1>0, <1>t, <2>1, <2>2 DEF DaysOrdered
<1>12. CASE Crash
  <2>1. /\ run'.pc = "idle" /\ now' = now /\ held'.day = NoDay
        /\ store' = db /\ db' = db
    BY <1>12 DEF Crash, Waiting, NoDelivery
  <2> QED BY <1>0, <1>t, <2>1 DEF DaysOrdered
<1>13. CASE Edit
  BY <1>13 DEF Edit, DaysOrdered, Today
<1>14. CASE Tick
  <2>1. now' = now + 1 /\ now \in 0..MaxTime /\ now < MaxTime
        /\ UNCHANGED <<db, store, held, run>>
    BY <1>14 DEF Tick, TypeOK
  <2>2. Today <= Today' /\ Today' \in Int
    <3>1. now + 1 \in 0..MaxTime
      BY <2>1
    <3> QED BY <2>1, <3>1, DayFacts DEF Today, Days
  <2> QED BY <1>0, <1>t, <2>1, <2>2 DEF DaysOrdered
<1>15. CASE UNCHANGED vars
  BY <1>15 DEF vars, DaysOrdered, Today
<1> QED
  BY <1>1, <1>2, <1>3, <1>4, <1>6, <1>7, <1>8, <1>11, <1>12, <1>13,
     <1>14, <1>15 DEF Next, Round

-----------------------------------------------------------------------------
(* No copy of the progress forgets a round. *)

LEMMA RoundsInit == Init => RoundsKnown
<1> SUFFICES ASSUME Init PROVE RoundsKnown
  OBVIOUS
<1>1. \A d \in Days : rounds[d] = 0
  BY DEF Init
<1>2. run.pc = "idle"
  BY DEF Init, Waiting
<1> QED BY <1>1, <1>2 DEF RoundsKnown, AttemptsCapped

LEMMA RoundsNext ==
  TypeOK /\ DaysOrdered /\ RoundsKnown /\ [Next]_vars => RoundsKnown'
<1> SUFFICES ASSUME TypeOK, DaysOrdered, RoundsKnown, [Next]_vars PROVE RoundsKnown'
  OBVIOUS
<1> USE DEF settings, history
<1>0. /\ Today \in Days /\ Today \in Nat /\ NoDay = -1 /\ Days \subseteq Nat
      /\ held.day \in Int /\ db.delivery.day \in Int /\ store.delivery.day \in Int
      /\ held.attempts \in 0..MaxAttempts /\ db.delivery.attempts \in 0..MaxAttempts
      /\ store.delivery.attempts \in 0..MaxAttempts
      /\ rounds \in [Days -> Nat]
  BY DayTypes DEF TypeOK
<1>1. CASE Start
  <2>1. /\ held'.day = Today /\ held'.attempts = Previous(Today).attempts + 1
        /\ held'.attempts \in 1..MaxAttempts
        /\ run'.pc = "begin" /\ UNCHANGED <<db, store, rounds>>
    BY <1>1, StartFacts
  <2>2. rounds[Today] <= Previous(Today).attempts
    <3>1. CASE held.day = Today
      BY <1>0, <3>1 DEF Previous, RoundsKnown, KnowsRounds
    <3>2. CASE held.day # Today /\ store.delivery.day = Today
      BY <1>0, <3>2 DEF Previous, RoundsKnown, KnowsRounds
    <3>3. CASE held.day # Today /\ store.delivery.day # Today
      <4>1. store.delivery.day < Today
        BY <1>0, <3>3 DEF DaysOrdered
      <4>2. rounds[Today] = 0
        BY <1>0, <4>1 DEF RoundsKnown, KnowsRounds
      <4> QED BY <3>3, <4>2 DEF Previous, NoDelivery
    <3> QED BY <3>1, <3>2, <3>3
  <2>3. Previous(Today).attempts \in Int
    BY <1>1 DEF Previous, NoDelivery, TypeOK, Rows, Deliveries
  <2>4. \A d \in Days : rounds[d] > 0 => d <= Today
    BY <1>0 DEF RoundsKnown, KnowsRounds, DaysOrdered
  <2> QED BY <1>0, <2>1, <2>2, <2>3, <2>4 DEF RoundsKnown, KnowsRounds, AttemptsCapped
<1>2. CASE SaveStart
  <2>1. /\ run.pc = "begin" /\ held'.day = held.day /\ held'.attempts = held.attempts
        /\ run'.pc # "begin" /\ held.day \in Days
    BY <1>2, FailedFacts DEF SaveStart, Opened, TypeOK, Runs, DaysOrdered
  <2>2. db'.delivery = held /\ store'.delivery = held
    BY <1>2, WriteFacts, DayTypes DEF SaveStart
  <2>3. rounds' = rounds \/ rounds' = [rounds EXCEPT ![held.day] = @ + 1]
    BY <1>2 DEF SaveStart
  <2>4. rounds[held.day] < held.attempts
    BY <2>1 DEF RoundsKnown
  <2>5. held.day # NoDay
    BY <1>0, <2>1
  <2>6. \A d \in Days : rounds[d] > 0 => d <= held.day
    BY <2>5 DEF RoundsKnown, KnowsRounds
  <2> QED BY <1>0, <2>1, <2>2, <2>3, <2>4, <2>6 DEF RoundsKnown, KnowsRounds, AttemptsCapped
<1>3. CASE SaveStartFails \/ RecordFails \/ BuildFails
  <2>1. Failed /\ rounds' = rounds /\ run.pc # "idle"
    BY <1>3 DEF SaveStartFails, RecordFails, BuildFails
  <2>2. store'.delivery = store.delivery
        /\ (db'.delivery = db.delivery \/ db'.delivery = held)
    <3>1. Sent \in Days \cup {NoDay}
      BY <1>0, <2>1 DEF Sent, DaysOrdered
    <3> QED BY <1>3, <3>1, WriteFacts, DayTypes DEF SaveStartFails, RecordFails, BuildFails
  <2>3. held.day # NoDay
    BY <1>0, <2>1 DEF DaysOrdered
  <2> QED BY <1>0, <2>1, <2>2, <2>3, FailedFacts DEF RoundsKnown, KnowsRounds, AttemptsCapped
<1>4. CASE Build \/ \E c \in Channels : Deliver(c) \/ Refuse(c)
  <2>1. run'.pc # "begin" /\ UNCHANGED <<rounds, db, store, held>>
    BY <1>4 DEF Build, Deliver, Refuse, TypeOK, Runs
  <2> QED BY <2>1 DEF RoundsKnown, KnowsRounds, AttemptsCapped
<1>7. CASE Judge
  <2>1. /\ run'.pc = "record" /\ UNCHANGED <<rounds, db, store>>
        /\ held'.day = held.day /\ held'.attempts = held.attempts
    BY <1>7 DEF Judge, TypeOK, Runs, Deliveries
  <2> QED BY <2>1 DEF RoundsKnown, KnowsRounds, AttemptsCapped
<1>8. CASE Record \/ SaveFailure
  <2>1. run.pc # "idle" /\ run'.pc = "idle" /\ UNCHANGED <<held, rounds>>
    BY <1>8 DEF Record, SaveFailure, Waiting
  <2>2. db'.delivery = held /\ store'.delivery = held
    <3>1. Sent \in Days \cup {NoDay}
      BY <1>0, <2>1 DEF Sent, DaysOrdered
    <3> QED BY <1>8, <3>1, WriteFacts, DayTypes DEF Record, SaveFailure
  <2>3. held.day # NoDay
    BY <1>0, <2>1 DEF DaysOrdered
  <2> QED BY <2>1, <2>2, <2>3 DEF RoundsKnown, KnowsRounds, AttemptsCapped
<1>11. CASE SaveFailureFails
  <2>1. /\ run.pc # "idle" /\ run'.pc = "idle" /\ rounds' = rounds
        /\ held'.day = held.day /\ held'.attempts = held.attempts
    BY <1>11 DEF SaveFailureFails, Waiting, TypeOK, Deliveries
  <2>2. store'.delivery = store.delivery
        /\ (db'.delivery = db.delivery \/ db'.delivery = held)
    BY <1>11, WriteFacts, DayTypes DEF SaveFailureFails
  <2>3. held.day # NoDay
    BY <1>0, <2>1 DEF DaysOrdered
  <2> QED BY <2>1, <2>2, <2>3 DEF RoundsKnown, KnowsRounds, AttemptsCapped
<1>12. CASE Crash
  <2>1. run'.pc = "idle" /\ held'.day = NoDay /\ store' = db /\ UNCHANGED <<db, rounds>>
    BY <1>12 DEF Crash, Waiting, NoDelivery
  <2> QED BY <2>1 DEF RoundsKnown, KnowsRounds, AttemptsCapped
<1>13. CASE Edit \/ Tick \/ UNCHANGED vars
  BY <1>13 DEF Edit, Tick, vars, RoundsKnown, KnowsRounds, AttemptsCapped
<1> QED
  BY <1>1, <1>2, <1>3, <1>4, <1>7, <1>8, <1>11, <1>12, <1>13 DEF Next, Round

-----------------------------------------------------------------------------
(* What counts as served has been delivered. *)

LEMMA ServedInit == Init => Served /\ Learnt
<1> SUFFICES ASSUME Init PROVE Served /\ Learnt
  OBVIOUS
<1>1. /\ db.delivery.ok = {} /\ store.delivery.ok = {} /\ held.ok = {} /\ run.ok = {}
      /\ run.pc = "idle"
  BY DEF Init, Fresh, NoDelivery, Waiting
<1> QED BY <1>1 DEF Served, Learnt, HaveCopies

\* A step that delivers nothing and takes every copy of the progress from an old one.
LEMMA CopiesTaken ==
  ASSUME got' = got, Served, HaveCopies(run.ok, held.day),
         \/ db'.delivery = db.delivery \/ db'.delivery = held,
         \/ store'.delivery \in {store.delivery, held, db.delivery},
         \/ held'.day = held.day /\ held'.ok \in {held.ok, run.ok}
         \/ held'.ok = {}
         \/ held'.day = store.delivery.day /\ held'.ok = store.delivery.ok
  PROVE  Served'
BY DEF Served, HaveCopies

LEMMA ServedNext ==
  TypeOK /\ DaysOrdered /\ Served /\ Learnt /\ [Next]_vars => Served' /\ Learnt'
<1> SUFFICES ASSUME TypeOK, DaysOrdered, Served, Learnt, [Next]_vars PROVE Served' /\ Learnt'
  OBVIOUS
<1> USE DEF settings, history
<1>0. /\ run.pc # "idle" => Sent \in Days \cup {NoDay}
      /\ NoDay \in Days \cup {NoDay}
      /\ run \in Runs /\ held \in Deliveries
  BY DEF Sent, DaysOrdered, TypeOK
<1>c. HaveCopies(run.ok, held.day)
  BY DEF Learnt
<1>1. CASE Start
  <2>1. /\ held'.day = Today /\ held'.ok = Previous(Today).ok
        /\ run'.pc = "begin" /\ run'.ok = {} /\ UNCHANGED <<got, db, store>>
    BY <1>1, StartFacts
  <2>2. \/ held'.day = held.day /\ held'.ok = held.ok
        \/ held'.ok = {}
        \/ held'.day = store.delivery.day /\ held'.ok = store.delivery.ok
    BY <2>1 DEF Previous, NoDelivery
  <2> QED BY <1>c, <2>1, <2>2, CopiesTaken DEF Learnt, HaveCopies
<1>2. CASE SaveStart
  <2>1. /\ run.pc = "begin" /\ held'.day = held.day /\ held'.ok = held.ok /\ got' = got
        /\ \/ run'.pc = "failed" /\ run'.ok = run.ok
           \/ /\ run'.pc \in {"judge", "build"} /\ run'.ok = held.ok
              /\ run'.todo = targets \ held.ok
    BY <1>0, <1>2, FailedFacts DEF SaveStart, Opened, Runs
  <2>2. db'.delivery = held /\ store'.delivery = held
    BY <1>0, <1>2, WriteFacts DEF SaveStart
  <2>3. Served'
    BY <1>c, <2>1, <2>2, CopiesTaken
  <2>4. HaveCopies(held.ok, held.day)
    BY DEF Served
  <2> QED BY <2>1, <2>3, <2>4 DEF Learnt, HaveCopies
<1>3. CASE SaveStartFails \/ RecordFails \/ BuildFails
  <2>1. Failed /\ got' = got /\ run.pc \in {"begin", "record", "build"}
    BY <1>3 DEF SaveStartFails, RecordFails, BuildFails
  <2>2. store'.delivery = store.delivery
        /\ (db'.delivery = db.delivery \/ db'.delivery = held)
    BY <1>0, <1>3, <2>1, WriteFacts DEF SaveStartFails, RecordFails, BuildFails
  <2>3. Served'
    BY <1>c, <2>1, <2>2, CopiesTaken, FailedFacts
  <2> QED BY <2>1, <2>3, FailedFacts DEF Learnt, HaveCopies
<1>4. CASE Build
  <2>1. /\ run.pc = "build" /\ run'.pc = "send" /\ run'.ok = run.ok /\ run'.todo = run.todo
        /\ UNCHANGED <<got, db, store, held>>
    BY <1>0, <1>4 DEF Build, Runs
  <2> QED BY <1>c, <2>1, CopiesTaken DEF Learnt, HaveCopies
<1>5. ASSUME NEW c \in Channels, Deliver(c)
      PROVE  Served' /\ Learnt'
  <2>1. /\ run.pc = "send" /\ run'.pc = "send" /\ held.day \in Days
        /\ run'.ok = run.ok \cup {c} /\ run'.todo = run.todo \ {c}
        /\ got' = [got EXCEPT ![c][held.day] = @ + 1] /\ UNCHANGED <<db, store, held>>
    BY <1>0, <1>5 DEF Deliver, Runs, DaysOrdered
  <2>2. got \in [Channels -> [Days -> Nat]]
    BY DEF TypeOK
  <2>3. /\ \A b \in Channels, d \in Days : got'[b][d] >= got[b][d]
        /\ got'[c][held.day] >= 1
    BY <2>1, <2>2
  <2>5. /\ db.delivery.ok \in SUBSET Channels /\ store.delivery.ok \in SUBSET Channels
        /\ held.ok \in SUBSET Channels /\ run.ok \in SUBSET Channels
    BY <1>0 DEF TypeOK, Rows, Deliveries, Runs
  <2>6. Served'
    <3>1. UNCHANGED <<db.delivery.ok, db.delivery.day, store.delivery.ok, store.delivery.day,
                      held.ok, held.day>>
      BY <2>1
    <3>2. /\ HaveCopies(db.delivery.ok, db.delivery.day)'
          /\ HaveCopies(store.delivery.ok, store.delivery.day)'
          /\ HaveCopies(held.ok, held.day)'
      BY <2>1, <2>2, <2>3, <2>5 DEF Served, HaveCopies
    <3> QED BY <3>2 DEF Served
  <2>7. HaveCopies(run.ok, held.day)'
    BY <1>c, <2>1, <2>2, <2>3, <2>5 DEF HaveCopies
  <2>8. held.ok \subseteq run.ok /\ run.todo \cap run.ok = {}
    BY <2>1 DEF Learnt
  <2> QED BY <2>1, <2>6, <2>7, <2>8 DEF Learnt
<1>6. ASSUME NEW c \in Channels, Refuse(c)
      PROVE  Served' /\ Learnt'
  <2>1. /\ run.pc = "send" /\ run'.pc = "send" /\ run'.ok = run.ok
        /\ run'.todo = run.todo \ {c} /\ UNCHANGED <<got, db, store, held>>
    BY <1>0, <1>6 DEF Refuse, Runs
  <2> QED BY <1>c, <2>1, CopiesTaken DEF Learnt, HaveCopies
<1>7. CASE Judge
  <2>1. /\ run'.pc = "record" /\ run'.ok = run.ok /\ UNCHANGED <<got, db, store>>
        /\ held'.day = held.day /\ held'.ok = run.ok
    BY <1>0, <1>7 DEF Judge, Runs, Deliveries
  <2> QED BY <1>c, <2>1, CopiesTaken DEF Learnt, HaveCopies
<1>8. CASE Record \/ SaveFailure \/ SaveFailureFails
  <2>1. /\ run.pc # "idle" /\ run'.pc = "idle" /\ run'.ok = {} /\ got' = got
        /\ held'.day = held.day /\ held'.ok = held.ok
    BY <1>0, <1>8 DEF Record, SaveFailure, SaveFailureFails, Waiting, Deliveries
  <2>2. /\ store'.delivery \in {store.delivery, held}
        /\ db'.delivery = db.delivery \/ db'.delivery = held
    BY <1>0, <1>8, <2>1, WriteFacts DEF Record, SaveFailure, SaveFailureFails
  <2> QED BY <1>c, <2>1, <2>2, CopiesTaken DEF Learnt, HaveCopies
<1>12. CASE Crash
  <2>1. /\ run'.pc = "idle" /\ run'.ok = {} /\ held'.ok = {} /\ store' = db
        /\ UNCHANGED <<db, got>>
    BY <1>12 DEF Crash, Waiting, NoDelivery
  <2> QED BY <1>c, <2>1, CopiesTaken DEF Learnt, HaveCopies
<1>13. CASE Edit \/ Tick \/ UNCHANGED vars
  <2>1. UNCHANGED <<run, held, db, store, got>>
    BY <1>13 DEF Edit, Tick, vars
  <2> QED BY <2>1 DEF Served, Learnt, HaveCopies
<1> QED
  BY <1>1, <1>2, <1>3, <1>4, <1>5, <1>6, <1>7, <1>8, <1>12, <1>13 DEF Next, Round

-----------------------------------------------------------------------------
(* A second copy needs a crash. *)

LEMMA CopiesInit == Init => CopiesKnown
<1> SUFFICES ASSUME Init PROVE CopiesKnown
  OBVIOUS
<1>1. \A c \in Channels, d \in Days : got[c][d] = 0 /\ lost[c][d] = 0
  BY DEF Init
<1>2. held.day = NoDay /\ store = db /\ store.delivery.day = NoDay
  BY DEF Init, Fresh, NoDelivery
<1>3. NoDay \notin Days
  BY DEF NoDay, Days
<1> QED BY <1>1, <1>2, <1>3 DEF CopiesKnown, SentOnce, NewestDay

\* A step after which the same channels are known of the same day, and nothing was
\* delivered or forgotten.
LEMMA CopiesKept ==
  ASSUME TypeOK, DaysOrdered, CopiesKnown,
         got' = got, lost' = lost, Today <= Today', Today' \in Int,
         store'.delivery.day \in {store.delivery.day, held.day},
         db'.delivery.day \in {db.delivery.day, held.day},
         held.day # NoDay, held'.day = held.day, held'.ok \cup run'.ok = held.ok \cup run.ok
  PROVE  CopiesKnown'
<1>1. /\ held.day \in Int /\ db.delivery.day \in Int /\ store.delivery.day \in Int
      /\ Days \subseteq Nat
  BY DayTypes
<1>2. db.delivery.day <= held.day /\ store.delivery.day <= held.day
  BY DEF DaysOrdered
<1>3. NewestDay' = NewestDay /\ Known' = Known /\ NewestDay = held.day
  BY DEF NewestDay, Known
<1>4. \A c \in Channels, d \in Days :
         got'[c][d] > 0 => d <= db'.delivery.day /\ d <= store'.delivery.day
  BY <1>1, <1>2 DEF CopiesKnown
<1> QED BY <1>3, <1>4 DEF CopiesKnown, SentOnce

LEMMA CopiesNext ==
  TypeOK /\ DaysOrdered /\ Learnt /\ CopiesKnown /\ [Next]_vars => CopiesKnown'
<1> SUFFICES ASSUME TypeOK, DaysOrdered, Learnt, CopiesKnown, [Next]_vars
             PROVE  CopiesKnown'
  OBVIOUS
<1> USE DEF settings, history
<1>0. /\ Today \in Days /\ Today \in Nat /\ NoDay = -1 /\ Days \subseteq Nat
      /\ held.day \in Days \cup {NoDay} /\ db.delivery.day \in Days \cup {NoDay}
      /\ held.day \in Int /\ db.delivery.day \in Int /\ store.delivery.day \in Int
  BY DayTypes
<1>w. /\ run.pc # "idle" => Sent \in Days \cup {NoDay}
      /\ NoDay \in Days \cup {NoDay}
  BY DEF Sent, DaysOrdered
<1>y. /\ run \in Runs /\ held \in Deliveries
      /\ got \in [Channels -> [Days -> Nat]] /\ lost \in [Channels -> [Days -> Nat]]
  BY DEF TypeOK
<1>t. now' = now => Today' = Today
  BY DEF Today
<1>b. run.pc # "idle" => held.day # NoDay
  BY <1>0 DEF DaysOrdered
<1>1. CASE Start
  <2>1. /\ held'.day = Today /\ held'.ok = Previous(Today).ok
        /\ run'.ok = {} /\ run.pc = "idle" /\ UNCHANGED <<now, db, store, got, lost>>
    BY <1>1, StartFacts
  <2>2. /\ NewestDay' = Today /\ Known' = Previous(Today).ok /\ run.ok = {}
        /\ held'.day # NoDay
    BY <1>0, <2>1 DEF NewestDay, Known, Learnt
  <2>3. \A c \in Channels \ Previous(Today).ok : got[c][Today] <= lost[c][Today]
    <3>1. CASE held.day = Today
      BY <1>0, <2>2, <3>1 DEF Previous, CopiesKnown, NewestDay, Known
    <3>2. CASE held.day = NoDay /\ store.delivery.day = Today
      BY <1>0, <2>2, <3>2 DEF Previous, CopiesKnown, NewestDay, Known
    <3>3. CASE store.delivery.day # Today /\ held.day # Today
      <4>1. store.delivery.day < Today
        BY <1>0, <3>3 DEF DaysOrdered
      <4>2. \A c \in Channels : ~(got[c][Today] > 0)
        BY <1>0, <4>1 DEF CopiesKnown
      <4> QED BY <1>0, <1>y, <4>2
    <3>4. ~(held.day # NoDay /\ held.day # Today /\ store.delivery.day = Today)
      BY <1>0 DEF DaysOrdered
    <3> QED BY <3>1, <3>2, <3>3, <3>4
  <2> QED BY <2>1, <2>2, <2>3 DEF CopiesKnown, SentOnce
<1>2. CASE SaveStart
  <2>1. /\ run.pc = "begin" /\ held'.day = held.day /\ held'.ok = held.ok
        /\ UNCHANGED <<now, got, lost>>
        /\ run'.ok = run.ok \/ run'.ok = held.ok
    BY <1>2, <1>y, FailedFacts DEF SaveStart, Opened, Runs
  <2>2. run.ok \subseteq held.ok
    BY <2>1 DEF Learnt
  <2>3. db'.delivery = held /\ store'.delivery = held
    BY <1>2, <1>w, WriteFacts DEF SaveStart
  <2> QED BY <1>0, <1>b, <1>t, <2>1, <2>2, <2>3, CopiesKept
<1>3. CASE SaveStartFails \/ RecordFails \/ BuildFails
  <2>1. Failed /\ run.pc # "idle" /\ UNCHANGED <<now, got, lost>>
    BY <1>3 DEF SaveStartFails, RecordFails, BuildFails
  <2>2. store'.delivery = store.delivery
        /\ (db'.delivery = db.delivery \/ db'.delivery = held)
    BY <1>w, <1>3, <2>1, WriteFacts DEF SaveStartFails, RecordFails, BuildFails
  <2>3. held'.day = held.day /\ held'.ok \cup run'.ok = held.ok \cup run.ok
    BY <2>1, FailedFacts
  <2> QED BY <1>0, <1>b, <1>t, <2>1, <2>2, <2>3, CopiesKept
<1>4. CASE Build \/ \E c \in Channels : Refuse(c)
  <2>1. run.pc # "idle" /\ run'.ok = run.ok /\ UNCHANGED <<now, got, lost, db, store, held>>
    BY <1>4, <1>y DEF Build, Refuse, Runs
  <2> QED BY <1>0, <1>b, <1>t, <2>1, CopiesKept
<1>5. ASSUME NEW c \in Channels, Deliver(c)
      PROVE  CopiesKnown'
  <2>1. /\ run.pc = "send" /\ held.day \in Days /\ c \in run.todo
        /\ run'.ok = run.ok \cup {c}
        /\ got' = [got EXCEPT ![c][held.day] = @ + 1]
        /\ UNCHANGED <<now, lost, db, store, held>>
    BY <1>5, <1>y DEF Deliver, Runs, DaysOrdered
  <2>2. c \notin Known /\ NewestDay = held.day /\ Known' = Known \cup {c}
        /\ NewestDay' = held.day /\ held.day # NoDay
    BY <1>b, <2>1 DEF Learnt, Known, NewestDay
  <2>3. \A b \in Channels, d \in Days :
          got'[b][d] = IF b = c /\ d = held.day THEN got[b][d] + 1 ELSE got[b][d]
    BY <1>y, <2>1
  <2>4. got[c][held.day] <= lost[c][held.day]
    BY <2>1, <2>2 DEF CopiesKnown
  <2>5. SentOnce'
    BY <1>y, <2>1, <2>3, <2>4 DEF SentOnce, CopiesKnown
  <2>6. held.day = db.delivery.day /\ held.day = store.delivery.day
    BY <2>1 DEF DaysOrdered
  <2>7. \A b \in Channels, d \in Days :
           got'[b][d] > 0 => d <= db'.delivery.day /\ d <= store'.delivery.day
    BY <1>0, <1>y, <2>1, <2>3, <2>6 DEF CopiesKnown
  <2>8. \A b \in Channels \ Known' : got'[b][held.day] <= lost'[b][held.day]
    BY <2>1, <2>2, <2>3 DEF CopiesKnown
  <2> QED BY <2>1, <2>2, <2>5, <2>7, <2>8 DEF CopiesKnown
<1>7. CASE Judge
  <2>1. /\ run.pc \in {"judge", "send"} /\ run'.ok = run.ok /\ held'.day = held.day
        /\ held'.ok = run.ok /\ UNCHANGED <<now, got, lost, db, store>>
    BY <1>7, <1>y DEF Judge, Runs, Deliveries
  <2>2. held.ok \subseteq run.ok
    BY <2>1 DEF Learnt
  <2> QED BY <1>0, <1>b, <1>t, <2>1, <2>2, CopiesKept
<1>8. CASE Record \/ SaveFailure \/ SaveFailureFails
  <2>1. /\ run.pc \in {"record", "failed"} /\ run'.ok = {} /\ UNCHANGED <<now, got, lost>>
        /\ held'.day = held.day /\ held'.ok = held.ok
    BY <1>8, <1>y DEF Record, SaveFailure, SaveFailureFails, Waiting, Deliveries
  <2>2. /\ store'.delivery \in {store.delivery, held}
        /\ db'.delivery = db.delivery \/ db'.delivery = held
    BY <1>8, <1>w, <2>1, WriteFacts DEF Record, SaveFailure, SaveFailureFails
  <2>3. run.ok \subseteq held.ok
    BY <2>1 DEF Learnt
  <2> QED BY <1>0, <1>b, <1>t, <2>1, <2>2, <2>3, CopiesKept
<1>12. CASE Crash
  <2>1. /\ held'.day = NoDay /\ held'.ok = {} /\ run'.ok = {} /\ store' = db
        /\ UNCHANGED <<now, db, got>>
    BY <1>12 DEF Crash, Waiting, NoDelivery
  <2>2. \A c \in Channels, d \in Days :
          lost'[c][d] = lost[c][d] + IF d = held.day /\ Forgotten(c) THEN 1 ELSE 0
    BY <1>12 DEF Crash
  <2>3. \A c \in Channels, d \in Days : lost'[c][d] \in Nat /\ lost[c][d] <= lost'[c][d]
    BY <1>y, <2>2
  <2>4. NewestDay' = db.delivery.day /\ Known' = db.delivery.ok
    BY <2>1 DEF NewestDay, Known
  <2>5. SentOnce'
    BY <1>y, <2>1, <2>3 DEF SentOnce, CopiesKnown
  <2>6. ASSUME db.delivery.day \in Days, db.delivery.day >= Today,
               NEW c \in Channels \ db.delivery.ok
        PROVE  got[c][db.delivery.day] <= lost'[c][db.delivery.day]
    <3>1. CASE held.day = NoDay
      <4>1. store.delivery = db.delivery
        BY <3>1 DEF CopiesKnown
      <4>2. got[c][db.delivery.day] <= lost[c][db.delivery.day]
        BY <1>0, <2>6, <3>1, <4>1 DEF CopiesKnown, NewestDay, Known
      <4> QED BY <1>y, <2>3, <2>6, <4>2
    <3>2. CASE held.day # NoDay
      <4>1. db.delivery.day = held.day
        BY <1>0, <2>6, <3>2 DEF DaysOrdered
      <4>2. CASE c \in held.ok \cup run.ok
        <5>1. Forgotten(c)
          BY <2>6, <4>2 DEF Forgotten
        <5>2. lost'[c][held.day] = lost[c][held.day] + 1
          BY <2>2, <2>6, <4>1, <5>1
        <5>3. got[c][held.day] <= 1 + lost[c][held.day]
          BY <2>6, <4>1 DEF CopiesKnown, SentOnce
        <5> QED BY <1>y, <2>6, <4>1, <5>2, <5>3
      <4>3. CASE c \notin held.ok \cup run.ok
        <5>1. got[c][held.day] <= lost[c][held.day]
          BY <2>6, <3>2, <4>1, <4>3 DEF CopiesKnown, NewestDay, Known
        <5> QED BY <1>y, <2>3, <2>6, <4>1, <5>1
      <4> QED BY <4>2, <4>3
    <3> QED BY <3>1, <3>2
  <2> QED BY <1>t, <2>1, <2>4, <2>5, <2>6 DEF CopiesKnown
<1>13. CASE Edit \/ Tick \/ UNCHANGED vars
  <2>1. UNCHANGED <<run, held, db, store, got, lost>>
    BY <1>13 DEF Edit, Tick, vars
  <2>2. Today <= Today' /\ Today' \in Int
    <3>1. CASE Tick
      <4>1. now \in 0..MaxTime /\ now < MaxTime /\ now' = now + 1 /\ now + 1 \in 0..MaxTime
        BY <3>1 DEF Tick, TypeOK
      <4> QED BY <4>1, DayFacts DEF Today, Days
    <3>2. CASE Edit \/ UNCHANGED vars
      BY <1>0, <1>t, <3>2 DEF Edit, vars
    <3> QED BY <1>13, <3>1, <3>2
  <2>3. NewestDay' = NewestDay /\ Known' = Known /\ NewestDay \in Int
    BY <1>0, <2>1 DEF NewestDay, Known
  <2>4. NewestDay >= Today' => NewestDay >= Today
    BY <1>0, <2>2, <2>3
  <2> QED BY <2>1, <2>3, <2>4 DEF CopiesKnown, SentOnce
<1> QED
  BY <1>1, <1>2, <1>3, <1>4, <1>5, <1>7, <1>8, <1>12, <1>13 DEF Next, Round

-----------------------------------------------------------------------------

\* The types are right and no day has more than MaxAttempts attempts, for any cap.
THEOREM TypeCorrect == Spec => []TypeOK
<1>1. Init => TypeOK /\ DaysOrdered
  BY TypeInit, DaysInit
<1>2. TypeOK /\ DaysOrdered /\ [Next]_vars => (TypeOK /\ DaysOrdered)'
  BY TypeNext, DaysNext
<1> QED BY <1>1, <1>2, PTL DEF Spec

\* A day reads data and sends at most MaxAttempts times, whatever writes fail and
\* however often the process restarts between two steps of a round.
THEOREM CapHolds == Spec => []AttemptsCapped
<1> DEFINE Inv == TypeOK /\ DaysOrdered /\ RoundsKnown
<1>1. Init => Inv
  BY TypeInit, DaysInit, RoundsInit
<1>2. Inv /\ [Next]_vars => Inv'
  BY TypeNext, DaysNext, RoundsNext
<1>3. Inv => AttemptsCapped
  BY DEF RoundsKnown
<1> QED BY <1>1, <1>2, <1>3, PTL DEF Spec

\* What any copy of the progress counts as served has been delivered, so no retry
\* leaves out a channel that has nothing.
THEOREM NoneLeftOut == Spec => []Served
<1> DEFINE Inv == TypeOK /\ DaysOrdered /\ Served /\ Learnt
<1>1. Init => Inv
  BY TypeInit, DaysInit, ServedInit
<1>2. Inv /\ [Next]_vars => Inv'
  BY TypeNext, DaysNext, ServedNext
<1>3. Inv => Served
  OBVIOUS
<1> QED BY <1>1, <1>2, <1>3, PTL DEF Spec

\* A channel gets a second copy of a day's report only for one a crash made the
\* process forget, whatever fails and however the channels are edited.
THEOREM NeverTwice == Spec => []SentOnce
<1> DEFINE Inv == TypeOK /\ DaysOrdered /\ Served /\ Learnt /\ CopiesKnown
<1>1. Init => Inv
  BY TypeInit, DaysInit, ServedInit, CopiesInit
<1>2. Inv /\ [Next]_vars => Inv'
  BY TypeNext, DaysNext, ServedNext, CopiesNext
<1>3. Inv => SentOnce
  BY DEF CopiesKnown
<1> QED BY <1>1, <1>2, <1>3, PTL DEF Spec

-----------------------------------------------------------------------------
(* When a day counts as sent, and when it is tried again. *)

\* A day is recorded as sent only if every channel that is enabled then has its
\* copy; only the judging of a round completes it, and what a round counts as
\* served has been delivered.
THEOREM RecordedWhenServed == Spec => RecordedWhenAllHaveIt
<1> DEFINE Inv == TypeOK /\ DaysOrdered /\ Served /\ Learnt
<1>1. Init => Inv
  BY TypeInit, DaysInit, ServedInit
<1>2. Inv /\ [Next]_vars => Inv'
  BY TypeNext, DaysNext, ServedNext
<1>3. Inv /\ [Next]_vars =>
        [run'.complete /\ ~run.complete =>
           targets # {} /\ \A c \in targets : got[c][held.day] >= 1]_vars
  <2> SUFFICES ASSUME Inv, Next, run'.complete, ~run.complete
               PROVE  targets # {} /\ \A c \in targets : got[c][held.day] >= 1
    BY DEF vars
  <2>1. CASE Judge
    <3>1. Complete(run.ok) /\ HaveCopies(run.ok, held.day)
      BY <2>1 DEF Judge, Learnt, TypeOK, Runs
    <3> QED BY <3>1 DEF Complete, HaveCopies
  <2>2. run \in Runs
    BY DEF TypeOK
  <2>3. CASE ~Judge
    <3>1. \/ run' = run \/ run' = Waiting \/ Failed
          \/ \E c \in Channels : Deliver(c) \/ Refuse(c)
          \/ run' = [Waiting EXCEPT !.pc = "begin", !.at = now]
          \/ run' = Opened(run)
          \/ run' = [run EXCEPT !.pc = "send"]
      BY <2>3 DEF Next, Round, Start, SaveStart, SaveStartFails, Build, BuildFails, Record,
         RecordFails, SaveFailure, SaveFailureFails, Crash, Edit, Tick
    <3>2. Failed => ~run'.complete
      BY <2>2 DEF Failed, Runs
    <3>3. (\E c \in Channels : Deliver(c) \/ Refuse(c)) => run'.complete = run.complete
      BY <2>2 DEF Deliver, Refuse, Runs
    <3>4. run' = Opened(run) \/ run' = [run EXCEPT !.pc = "send"] => run'.complete = run.complete
      BY <2>2 DEF Opened, Runs
    <3>5. run' = Waiting => run'.complete = FALSE
      BY DEF Waiting
    <3>6. run' = [Waiting EXCEPT !.pc = "begin", !.at = now] => run'.complete = FALSE
      BY DEF Waiting
    <3> QED BY <3>1, <3>2, <3>3, <3>4, <3>5, <3>6
  <2> QED BY <2>1, <2>3
<1> QED BY <1>1, <1>2, <1>3, PTL DEF Spec, RecordedWhenAllHaveIt

\* The waiting time after an attempt is a number.
LEMMA DelayType == ASSUME NEW k \in 1..MaxAttempts PROVE Delay(k) \in Int
<1>1. k - 1 \in Nat
  OBVIOUS
<1>2. 2^(k - 1) \in Int
  BY <1>1
<1> QED BY <1>2 DEF Delay

\* The next attempt of a delivery waits from moment t on.
From(t, delivery) ==
  delivery.day # NoDay =>
    /\ delivery.attempts \in 1..MaxAttempts
    /\ delivery.next >= t + Delay(delivery.attempts)

\* A round that begins waits from its beginning, one that ended from its end;
\* what is stored waits at least from the last beginning that was stored.
Timely ==
  /\ began <= now
  /\ held.day # NoDay => held.attempts \in 1..MaxAttempts
  /\ run.pc = "begin" =>
       began <= run.at /\ run.at <= now /\ held.next = run.at + Delay(held.attempts)
  /\ run.pc \in {"record", "failed", "idle"} /\ held.day # NoDay =>
       began <= ended /\ held.next = ended + Delay(held.attempts)
  /\ From(began, db.delivery) /\ From(began, store.delivery)

LEMMA TimelyInit == Init => Timely
<1>1. ASSUME Init PROVE Timely
  <2>1. began = 0 /\ now = 0 /\ run.pc = "idle"
        /\ held.day = NoDay /\ db.delivery.day = NoDay /\ store.delivery.day = NoDay
    BY <1>1 DEF Init, Waiting, NoDelivery, Fresh
  <2> QED BY <2>1 DEF Timely, From
<1> QED BY <1>1

LEMMA TimelyNext == TypeOK /\ DaysOrdered /\ Timely /\ [Next]_vars => Timely'
<1> SUFFICES ASSUME TypeOK, DaysOrdered, Timely, [Next]_vars PROVE Timely'
  OBVIOUS
<1> USE DEF settings, history
<1>0. /\ now \in Nat /\ began \in Nat /\ ended \in Nat /\ run.at \in Nat
      /\ held \in Deliveries /\ run \in Runs
      /\ NoDay \in Days \cup {NoDay}
      /\ run.pc # "idle" => Sent \in Days \cup {NoDay}
  BY DEF TypeOK, Runs, Sent, DaysOrdered
<1>a. \A k \in 1..MaxAttempts : Delay(k) \in Int
  BY DelayType
<1>h. run.pc # "idle" => held.day # NoDay /\ held.attempts \in 1..MaxAttempts
  <2>1. run.pc # "idle" => held.day \in Days
    BY DEF DaysOrdered
  <2>2. run.pc # "idle" => held.day # NoDay
    BY <2>1, DayTypes
  <2> QED BY <2>2 DEF Timely
\* What is written is the delivery held, which waits from began.
<1>w. /\ run.pc \in {"begin", "record", "failed"} => From(began, held)
      /\ run.pc = "begin" => From(run.at, held)
  <2>1. ASSUME run.pc \in {"record", "failed"} PROVE From(began, held)
    <3>1. /\ held.attempts \in 1..MaxAttempts /\ began <= ended
          /\ held.next = ended + Delay(held.attempts) /\ Delay(held.attempts) \in Int
      BY <1>a, <1>h, <2>1 DEF Timely
    <3> QED BY <1>0, <3>1 DEF From
  <2>2. ASSUME run.pc = "begin" PROVE From(began, held) /\ From(run.at, held)
    <3>1. /\ held.attempts \in 1..MaxAttempts /\ began <= run.at
          /\ held.next = run.at + Delay(held.attempts) /\ Delay(held.attempts) \in Int
      BY <1>a, <1>h, <2>2 DEF Timely
    <3> QED BY <1>0, <3>1 DEF From
  <2> QED BY <2>1, <2>2
<1>f. ASSUME Failed, run.pc # "idle"
      PROVE  /\ held'.day = held.day /\ held'.attempts = held.attempts
             /\ held'.next = now + Delay(held.attempts) /\ ended' = now /\ run'.pc = "failed"
  BY <1>0, <1>f DEF Failed, Deliveries, Runs
<1>1. CASE Start
  <2>1. /\ held'.day = Today /\ held'.attempts \in 1..MaxAttempts /\ run'.pc = "begin"
        /\ UNCHANGED <<now, db, store, began>>
    BY <1>1, StartFacts
  <2>2. run'.at = now /\ held'.next = now + Delay(held'.attempts)
    BY <1>1 DEF Start, Waiting
  <2> QED BY <1>0, <2>1, <2>2 DEF Timely
<1>2. CASE SaveStart
  <2>1. /\ run.pc = "begin" /\ began' = run.at /\ now' = now
        /\ db'.delivery = held /\ store'.delivery = held
    BY <1>0, <1>2, WriteFacts DEF SaveStart
  <2>2. run.at <= now /\ From(run.at, held)
    BY <1>w, <2>1 DEF Timely
  <2>3. From(began', db'.delivery) /\ From(began', store'.delivery)
    BY <2>1, <2>2
  <2>4. CASE targets = {}
    <3>1. Failed
      BY <1>2, <2>4 DEF SaveStart
    <3> QED BY <1>0, <1>f, <1>h, <2>1, <2>2, <2>3, <3>1 DEF Timely
  <2>5. CASE targets # {}
    <3>1. held' = held /\ run'.pc \in {"judge", "build"}
      BY <1>0, <1>2, <2>5 DEF SaveStart, Opened, Runs
    <3> QED BY <1>h, <2>1, <2>2, <2>3, <3>1 DEF Timely
  <2> QED BY <2>4, <2>5
<1>3. CASE SaveStartFails \/ RecordFails \/ BuildFails
  <2>1. Failed /\ UNCHANGED <<now, began>> /\ run.pc \in {"begin", "record", "build"}
    BY <1>3 DEF SaveStartFails, RecordFails, BuildFails
  <2>2. /\ store'.delivery = store.delivery
        /\ \/ db'.delivery = db.delivery
           \/ db'.delivery = held /\ run.pc \in {"begin", "record"}
    BY <1>0, <1>3, <2>1, WriteFacts DEF SaveStartFails, RecordFails, BuildFails
  <2>3. From(began', db'.delivery) /\ From(began', store'.delivery)
    BY <1>w, <2>1, <2>2 DEF Timely
  <2> QED BY <1>0, <1>f, <1>h, <2>1, <2>3 DEF Timely
<1>4. CASE Build \/ \E c \in Channels : Deliver(c) \/ Refuse(c)
  <2>1. UNCHANGED <<now, db, store, held, began>> /\ run'.pc = "send"
    BY <1>0, <1>4 DEF Build, Deliver, Refuse, Runs
  <2> QED BY <2>1 DEF Timely
<1>7. CASE Judge
  <2>1. /\ run.pc # "idle" /\ run'.pc = "record" /\ UNCHANGED <<now, db, store, began>>
        /\ held'.day = held.day /\ held'.attempts = held.attempts
        /\ held'.next = now + Delay(held.attempts) /\ ended' = now
    BY <1>0, <1>7 DEF Judge, Runs, Deliveries
  <2> QED BY <1>h, <2>1 DEF Timely
<1>8. CASE Record \/ SaveFailure
  <2>1. /\ run.pc \in {"record", "failed"} /\ run'.pc = "idle"
        /\ UNCHANGED <<now, held, began, ended>>
        /\ db'.delivery = held /\ store'.delivery = held
    BY <1>0, <1>8, WriteFacts DEF Record, SaveFailure, Waiting
  <2> QED BY <1>w, <2>1 DEF Timely
<1>9. CASE SaveFailureFails
  <2>1. /\ run.pc = "failed" /\ run'.pc = "idle" /\ UNCHANGED <<now, began>> /\ ended' = now
        /\ held'.day = held.day /\ held'.attempts = held.attempts
        /\ held'.next = now + Delay(held.attempts)
        /\ store'.delivery = store.delivery
        /\ db'.delivery = db.delivery \/ db'.delivery = held
    BY <1>0, <1>9, WriteFacts DEF SaveFailureFails, Waiting, Deliveries
  <2>2. From(began', db'.delivery) /\ From(began', store'.delivery)
    BY <1>w, <2>1 DEF Timely
  <2> QED BY <1>h, <2>1, <2>2 DEF Timely
<1>12. CASE Crash
  <2>1. /\ run'.pc = "idle" /\ held'.day = NoDay /\ store' = db
        /\ UNCHANGED <<now, db, began>>
    BY <1>12 DEF Crash, Waiting, NoDelivery
  <2> QED BY <2>1 DEF Timely
<1>13. CASE Edit \/ Tick \/ UNCHANGED vars
  <2>1. UNCHANGED <<run, held, db, store, began, ended>> /\ now <= now'
    BY <1>0, <1>13 DEF Edit, Tick, vars
  <2>2. now' \in Nat
    BY <1>0, <1>13 DEF Edit, Tick, vars
  <2> QED BY <1>0, <2>1, <2>2 DEF Timely
<1> QED
  BY <1>1, <1>2, <1>3, <1>4, <1>7, <1>8, <1>9, <1>12, <1>13 DEF Next, Round

\* The next attempt of a day begins no earlier than the waiting time after the
\* failure before it, or after a restart, than that time after the beginning
\* that was stored, for any delays and however writes fail.
THEOREM RetriesWait == Spec => Waits
<1> DEFINE Inv == TypeOK /\ DaysOrdered /\ Timely
<1>1. Init => Inv
  BY TypeInit, DaysInit, TimelyInit
<1>2. Inv /\ [Next]_vars => Inv'
  BY TypeNext, DaysNext, TimelyNext
<1>3. Inv /\ [Next]_vars =>
        [Start /\ held'.attempts > 1 =>
           now >= (IF held.day = Today THEN ended ELSE began)
                    + Delay(held'.attempts - 1)]_vars
  <2> SUFFICES ASSUME Inv, Start, held'.attempts > 1
               PROVE  now >= (IF held.day = Today THEN ended ELSE began)
                               + Delay(held'.attempts - 1)
    OBVIOUS
  <2>1. /\ held'.attempts = Previous(Today).attempts + 1 /\ run.pc = "idle"
        /\ Previous(Today).next <= now /\ Today \in Days /\ Today # NoDay
    BY StartFacts, DayTypes DEF Start, May
  <2>2. Previous(Today).attempts \in Nat
    BY DEF Previous, TypeOK, Rows, Deliveries, NoDelivery
  <2>3. held'.attempts - 1 = Previous(Today).attempts /\ Previous(Today).attempts > 0
    BY <2>1, <2>2
  <2>4. CASE held.day = Today
    <3>1. Previous(Today) = held /\ held.next = ended + Delay(held.attempts)
      BY <2>1, <2>4 DEF Previous, Timely
    <3>2. ended + Delay(held.attempts) <= now
      BY <2>1, <3>1
    <3>3. held'.attempts - 1 = held.attempts
      BY <2>3, <3>1
    <3> QED BY <2>4, <3>2, <3>3
  <2>5. CASE held.day # Today
    <3>1. store.delivery.day = Today /\ Previous(Today) = store.delivery
      BY <2>3, <2>5 DEF Previous, NoDelivery
    <3>2. /\ store.delivery.attempts \in 1..MaxAttempts
          /\ store.delivery.next >= began + Delay(store.delivery.attempts)
      BY <2>1, <3>1 DEF Timely, From
    <3>3. Delay(store.delivery.attempts) \in Int /\ began \in Nat /\ now \in Nat
      BY <3>2, DelayType DEF TypeOK
    <3>4. store.delivery.next \in Int
      <4>1. \A k \in 1..MaxAttempts : Delay(k) \in Int
        BY DelayType
      <4>2. Moments \subseteq Int
        BY <4>1 DEF Moments
      <4> QED BY <4>2 DEF TypeOK, Rows, Deliveries
    <3>5. now >= began + Delay(store.delivery.attempts)
      BY <2>1, <3>1, <3>2, <3>3, <3>4
    <3> QED BY <2>3, <2>5, <3>1, <3>5
  <2> QED BY <2>4, <2>5
<1> QED BY <1>1, <1>2, <1>3, PTL DEF Spec, Waits

=============================================================================
