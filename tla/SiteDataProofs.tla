--------------------------- MODULE SiteDataProofs ---------------------------
(***************************************************************************)
(* Proofs about SiteData, for all days, bounds, numbers of moves and of    *)
(* statements that one write takes.                                        *)
(***************************************************************************)
EXTENDS SiteData, TLAPS

(* The figures of each day are among some values. *)
Holds(days, values) == \A d \in Days : days[d] \in values

(* What is kept of an own site and of an upstream never meets. *)
Split ==
  IF own
  THEN /\ read.pc = "idle"
       /\ Holds(up.days, {None}) /\ Holds(up.shown, {None})
       /\ move.pc \in {"idle", "points", "usage", "row", "alert", "done"}
  ELSE /\ run.pc = "idle"
       /\ users.points = {} /\ users.alert = None /\ Holds(users.usage, {None})
       /\ move.pc \in {"idle", "days", "state", "memory", "done"}

GoneIsStill == ~there => move = Still

(* A round that is still alive has its figures from the present address,   *)
(* once forgetting has begun a new generation.                             *)
FromHere ==
  /\ run.pc # "idle" => run.gen <= users.gen
  /\ run.pc # "idle" /\ Alive /\ move.pc # "points" => run.from = site

Purging(pcs) == ~there \/ (move.kind = "purge" /\ move.pc \in pcs)
NoneAlive ==
  own /\ ~raced /\ Purging({"usage", "row", "alert", "done"}) /\ run.pc # "idle" => ~Alive

(* Forgetting has got as far as one of pcs, or is over. *)
Past(pcs) == move.pc \in pcs \/ (move.pc = "idle" /\ ~broken)

PointsHere ==
  own /\ ~raced =>
    /\ Past({"usage", "row", "alert", "done"}) => users.points \subseteq {site}
    /\ Purging({"usage", "row", "alert", "done"}) => users.points = {}
UsageHere ==
  own /\ ~raced =>
    /\ Past({"row", "alert", "done"}) => Holds(users.usage, {None, site})
    /\ Purging({"row", "alert", "done"}) => Holds(users.usage, {None})
AlertHere ==
  own /\ ~raced =>
    /\ Past({"done"}) => users.alert \in {None, site}
    /\ Purging({"done"}) => users.alert = None

(* Days are read while nothing is being forgotten. *)
Reading ==
  ~own /\ ~raced /\ read.pc # "idle" =>
    /\ move.pc = "idle" /\ there
    /\ read.pc = "reading" \/ (read.pc = "show" /\ ~broken) => Holds(read.got, {None, site})

DaysHere ==
  ~own /\ ~raced =>
    /\ Past({"state", "memory", "done"}) => Holds(up.days, {None, site})
    /\ ~there \/ move.pc \in {"state", "memory", "done"} => Holds(up.days, {None})
ShownHere ==
  ~own /\ ~raced =>
    /\ Past({"done"}) => Holds(up.shown, {None, site})
    /\ ~there \/ move.pc = "done" => Holds(up.shown, {None})

SiteInv ==
  /\ TypeOK /\ Split /\ GoneIsStill /\ FromHere /\ NoneAlive
  /\ PointsHere /\ UsageHere /\ AlertHere /\ Reading /\ DaysHere /\ ShownHere
-----------------------------------------------------------------------------
(* Types.                                                                  *)

LEMMA MaxType ==
  ASSUME NEW a \in Int, NEW b \in Int
  PROVE  Max({a, b}) \in Int
<1>1. \E x \in {a, b} : \A y \in {a, b} : x >= y
  <2>1. CASE a >= b
    BY <2>1
  <2>2. CASE b >= a
    BY <2>2
  <2> QED BY <2>1, <2>2
<1> QED BY <1>1 DEF Max

LEMMA FateType == ASSUME faults \in Nat, NEW f, Fate(f) PROVE faults' \in Nat
BY DEF Fate

LEMMA StartValues ==
  /\ None \in Int /\ None \in Values /\ 0 \in Values /\ 0 \in Sites
  /\ NoDays \in [Days -> Values]
  /\ NoState \in States /\ NoRow \in Rows
  /\ NoUp \in Ups /\ NoRead \in Reads
  /\ NoUsers \in Accounts /\ NoRun \in Rounds /\ Still \in Moves
<1>1. None \in Int /\ None \in Values /\ 0 \in Sites /\ 0 \in Values
  BY SiteAssumption DEF None, Values, Sites
<1>2. NoDays \in [Days -> Values]
  BY <1>1 DEF NoDays
<1>3. NoState \in States /\ NoRow \in Rows
  BY <1>1 DEF NoState, States, NoRow, Rows
<1>4. NoUp \in Ups
  BY <1>2, <1>3 DEF NoUp, Ups
<1>5. NoRead \in Reads
  BY <1>1, <1>2, <1>3 DEF NoRead, Reads
<1>6. NoUsers \in Accounts
  BY <1>1, <1>2, <1>3 DEF NoUsers, Accounts
<1>7. NoRun \in Rounds
  BY <1>1, <1>3 DEF NoRun, Rounds
<1>8. Still \in Moves
  BY DEF Still, Moves
<1> QED BY <1>1, <1>2, <1>3, <1>4, <1>5, <1>6, <1>7, <1>8

LEMMA TypeInit == Init => TypeOK
<1> SUFFICES ASSUME Init PROVE TypeOK
  OBVIOUS
<1>1. now \in Nat /\ faults \in Nat
  BY SiteAssumption DEF Init
<1>2. own \in BOOLEAN /\ there \in BOOLEAN /\ broken \in BOOLEAN /\ raced \in BOOLEAN
  BY DEF Init
<1> QED BY <1>1, <1>2, StartValues DEF Init, TypeOK

\* What storing the days that were read does.
LEMMA WithReadIs ==
  ASSUME up \in Ups, read \in Reads
  PROVE  /\ WithRead = [up EXCEPT !.days = WithRead.days]
         /\ WithRead.days \in [Days -> Values]
         /\ WithRead.days = [d \in Days |-> IF d \in read.from..read.through THEN read.got[d] ELSE up.days[d]]
         /\ WithRead.mem = up.mem /\ WithRead.db = up.db /\ WithRead.shown = up.shown
<1>1. PICK days : days = [d \in Days |-> IF d \in read.from..read.through THEN read.got[d] ELSE up.days[d]]
  OBVIOUS
<1>2. WithRead = [up EXCEPT !.days = days]
  BY <1>1 DEF WithRead, Ups
<1>3. days \in [Days -> Values]
  BY <1>1 DEF Ups, Reads
<1> QED BY <1>1, <1>2, <1>3 DEF Ups

LEMMA SpendType ==
  ASSUME TypeOK, Spend
  PROVE  up' \in Ups /\ read' \in Reads /\ faults' \in Nat
<1> USE StartValues
<1>0. up \in Ups /\ read \in Reads /\ faults \in Nat /\ now \in Int /\ site \in Values
  BY DEF TypeOK, Values
<1>a. ASSUME Failed PROVE up' \in Ups /\ read' \in Reads
  BY <1>0, <1>a DEF Failed, Ups
<1>b. ASSUME NEW days \in [Days -> Values] PROVE Pruned(days) \in [Days -> Values]
  BY DEF Pruned
<1>1. ASSUME NEW b \in BOOLEAN, SpendStart(b) PROVE up' \in Ups /\ read' \in Reads /\ faults' \in Nat
  <2> DEFINE through == now - IF b THEN 1 ELSE 2
             before == up.mem.status = "ok"
             first == First(up.mem)
  <2>1. through \in Int /\ before \in BOOLEAN
    BY <1>0
  <2>2. first \in Int
    <3>1. up.mem.through + 1 \in Int /\ now - BackfillDays \in Int
      BY <1>0, SiteAssumption DEF Ups, States
    <3> QED BY <3>1, MaxType DEF First
  <2>3. read' = [NoRead EXCEPT !.pc = "reading", !.from = first, !.through = through,
                               !.next = first, !.before = before]
    BY <1>1 DEF SpendStart
  <2> HIDE DEF through, before, first
  <2>4. read' \in Reads
    BY <2>1, <2>2, <2>3 DEF Reads
  <2> QED BY <1>0, <1>1, <2>4 DEF SpendStart
<1>2. CASE SpendRequest
  <2>1. read' = [read EXCEPT !.got[read.next] = site, !.next = @ + 1]
    BY <1>2 DEF SpendRequest
  <2>2. [read.got EXCEPT ![read.next] = site] \in [Days -> Values] /\ read.next + 1 \in Int
    <3>1. read.got \in [Days -> Values] /\ read.next \in Int
      BY <1>0 DEF Reads
    <3>2. ASSUME NEW f \in [Days -> Values], NEW d, NEW v \in Values
          PROVE  [f EXCEPT ![d] = v] \in [Days -> Values]
      OBVIOUS
    <3>3. site \in Values
      BY <1>0
    <3> QED BY <3>1, <3>2, <3>3
  <2>3. read' = [read EXCEPT !.got = [read.got EXCEPT ![read.next] = site], !.next = read.next + 1]
    BY <1>0, <2>1 DEF Reads
  <2>4. read' \in Reads
    BY <1>0, <2>2, <2>3 DEF Reads
  <2> QED BY <1>0, <1>2, <2>4 DEF SpendRequest
<1>3. ASSUME NEW b \in BOOLEAN, SpendRefused(b) PROVE up' \in Ups /\ read' \in Reads /\ faults' \in Nat
  <2> DEFINE state == [status |-> "denied", through |-> None, at |-> now]
  <2>1. state \in States
    BY <1>0 DEF States
  <2>2. CASE ~(b /\ ~read.before)
    BY <1>0, <1>a, <1>3, <2>2 DEF SpendRefused
  <2>3. CASE b /\ ~read.before
    <3>1. PICK f \in Fates : Fate(f) /\ up' = IF Stored(f) THEN [up EXCEPT !.db = state] ELSE up
      BY <1>3, <2>3 DEF SpendRefused
    <3>2. read' = [read EXCEPT !.pc = "keep", !.state = state]
      BY <1>3, <2>3 DEF SpendRefused
    <3> HIDE DEF state
    <3>3. up' \in Ups
      BY <1>0, <2>1, <3>1 DEF Ups
    <3>4. read' \in Reads
      BY <1>0, <2>1, <3>2 DEF Reads
    <3> QED BY <1>0, <3>1, <3>3, <3>4, FateType
  <2> QED BY <2>2, <2>3
<1>4. ASSUME NEW f \in Fates, SpendPut(f) PROVE up' \in Ups /\ read' \in Reads /\ faults' \in Nat
  <2>1. WithRead \in Ups
    BY <1>0, WithReadIs DEF Ups
  <2>2. faults' \in Nat
    BY <1>0, <1>4, FateType DEF SpendPut
  <2>3. PICK stored \in Ups : stored = IF Stored(f) THEN WithRead ELSE up
    BY <1>0, <2>1
  <2>4. (up' = stored /\ read' = [read EXCEPT !.pc = "save"]) \/ (up' = [stored EXCEPT !.waiting = TRUE] /\ read' = NoRead)
    BY <1>4, <2>3 DEF SpendPut
  <2> QED BY <1>0, <2>2, <2>3, <2>4 DEF Ups, Reads
<1>5. ASSUME NEW f \in Fates, SpendSave(f) PROVE up' \in Ups /\ read' \in Reads /\ faults' \in Nat
  <2>1. PICK state \in States : state = [status |-> "ok", through |-> read.through, at |-> now]
    BY <1>0 DEF States, Reads
  <2>2. faults' \in Nat
    BY <1>0, <1>5, FateType DEF SpendSave
  <2>3. PICK stored \in Ups : stored = IF Stored(f) THEN [up EXCEPT !.db = state] ELSE up
    BY <1>0 DEF Ups
  <2>4. \/ up' = stored /\ read' = [read EXCEPT !.pc = "keep", !.state = state]
        \/ up' = [stored EXCEPT !.waiting = TRUE] /\ read' = NoRead
    BY <1>5, <2>1, <2>3 DEF SpendSave
  <2>5. up' \in Ups
    BY <2>4 DEF Ups
  <2>6. read' \in Reads
    BY <1>0, <2>4 DEF Reads
  <2> QED BY <2>2, <2>5, <2>6
<1>6. CASE SpendKeep
  <2> DEFINE days == IF read.state.status = "ok" THEN Pruned(up.days) ELSE up.days
  <2>1. days \in [Days -> Values]
    BY <1>0, <1>b DEF Ups
  <2>2. up' = [up EXCEPT !.mem = read.state, !.waiting = FALSE, !.days = days]
    BY <1>0, <1>6 DEF SpendKeep, Ups
  <2>3. read' = [read EXCEPT !.pc = "list"] /\ faults' = faults
    BY <1>6 DEF SpendKeep
  <2> HIDE DEF days
  <2>4. read.state \in States
    BY <1>0 DEF Reads
  <2>5. up' \in Ups
    BY <1>0, <2>1, <2>2, <2>4 DEF Ups
  <2>6. read' \in Reads
    BY <1>0, <2>3 DEF Reads
  <2> QED BY <1>0, <2>3, <2>5, <2>6
<1>7. ASSUME NEW b \in BOOLEAN, SpendList(b) PROVE up' \in Ups /\ read' \in Reads /\ faults' \in Nat
  <2>1. faults' \in Nat
    BY <1>0, <1>7, FateType DEF SpendList
  <2>2. CASE b
    <3>1. Pruned(up.days) \in [Days -> Values]
      BY <1>0, <1>b DEF Ups
    <3>2. up' = up /\ read' = [read EXCEPT !.pc = "show", !.got = Pruned(up.days)]
      BY <1>7, <2>2 DEF SpendList
    <3> QED BY <1>0, <2>1, <3>1, <3>2 DEF Reads
  <2> QED BY <1>0, <1>7, <1>a, <2>1, <2>2 DEF SpendList
<1>8. CASE SpendShow
  BY <1>0, <1>8 DEF SpendShow, Ups, Reads
<1>9. CASE RetryDue
  BY <1>0, <1>9 DEF RetryDue, Ups
<1> QED BY <1>1, <1>2, <1>3, <1>4, <1>5, <1>6, <1>7, <1>8, <1>9 DEF Spend

LEMMA GiveCases ==
  ASSUME NEW u, NEW r, Give(u, r)
  PROVE  (Alive /\ users' = u /\ run' = r) \/ (users' = users /\ run' = NoRun)
BY DEF Give

LEMMA AccountTypes ==
  ASSUME NEW u \in Accounts
  PROVE  /\ Row(u) \in Rows /\ Noted(u) \in Accounts
         /\ Noted(u).gen = u.gen /\ Noted(u).points = u.points /\ Noted(u).usage = u.usage
         /\ Noted(u).alert = u.alert
         /\ \A v \in Values :
              /\ [u EXCEPT !.points = @ \cup {v}] \in Accounts
              /\ [u EXCEPT !.known = @ \cup {v}] \in Accounts
              /\ \A d \in Int : [u EXCEPT !.usage[d] = v] \in Accounts
<1>1. Row(u) \in Rows
  <2>1. NoRow \in Rows /\ u.row \in Rows
    BY StartValues DEF Accounts
  <2> QED BY <2>1 DEF Row, Rows
<1>2. Noted(u) = [u EXCEPT !.row = Row(u)]
  BY DEF Noted
<1>3. Noted(u) \in Accounts /\ Noted(u).gen = u.gen /\ Noted(u).points = u.points
      /\ Noted(u).usage = u.usage /\ Noted(u).alert = u.alert
  BY <1>1, <1>2 DEF Accounts
<1>4. ASSUME NEW v \in Values
      PROVE  /\ [u EXCEPT !.points = @ \cup {v}] \in Accounts
             /\ [u EXCEPT !.known = @ \cup {v}] \in Accounts
  BY DEF Accounts
<1>5. ASSUME NEW v \in Values, NEW d \in Int
      PROVE  [u EXCEPT !.usage[d] = v] \in Accounts
  <2>1. [u.usage EXCEPT ![d] = v] \in [Days -> Values]
    BY DEF Accounts
  <2>2. [u EXCEPT !.usage[d] = v] = [u EXCEPT !.usage = [u.usage EXCEPT ![d] = v]]
    OBVIOUS
  <2> QED BY <2>1, <2>2 DEF Accounts
<1> QED BY <1>1, <1>3, <1>4, <1>5

\* A round that goes on, one that ends and leaves everything as it is, one
\* that ends with what a user was reminded of, and one that is over and goes
\* on with a write.
Ended == users' = users /\ run' = NoRun
Wrote ==
  /\ Alive /\ run.pc # "idle" /\ run'.pc # "idle"
  /\ users'.gen = users.gen /\ run'.gen = run.gen /\ users'.alert = users.alert
  /\ users'.points \subseteq users.points \cup {run.from}
  /\ \A d \in Days : users'.usage[d] \in {users.usage[d], run.from}
  /\ run'.from \in {run.from, site}
Reminded == Alive /\ run.pc # "idle" /\ users' = [users EXCEPT !.alert = run.from] /\ run' = NoRun
Strayed == ~Alive /\ run.pc # "idle" /\ users'.gen = users.gen /\ run'.gen = run.gen
Goes == users' \in Accounts /\ run' \in Rounds /\ (Wrote \/ Ended \/ Reminded)

\* What a step that gives u and r has to show.
LEMMA GiveGoes ==
  ASSUME TypeOK, NEW u \in Accounts, NEW r \in Rounds, Give(u, r), run.pc # "idle",
         r.pc # "idle", u.gen = users.gen, r.gen = run.gen, u.alert = users.alert,
         u.points \subseteq users.points \cup {run.from},
         \A d \in Days : u.usage[d] \in {users.usage[d], run.from},
         r.from \in {run.from, site}
  PROVE  Goes
<1>1. CASE Alive /\ users' = u /\ run' = r
  BY <1>1 DEF Goes, Wrote
<1>2. CASE users' = users /\ run' = NoRun
  BY <1>2, StartValues DEF Goes, Ended, TypeOK
<1> QED BY <1>1, <1>2, GiveCases

UserStep ==
  \/ UserList \/ UserPoints \/ UserAsk \/ UserUsage \/ UserWritten
  \/ UserRow \/ UserPlan \/ UserDay \/ UserDayWritten \/ UserAlert \/ UserEnd

LEMMA UserGoes ==
  ASSUME TypeOK, UserStep
  PROVE  Goes
<1>0. /\ users \in Accounts /\ run \in Rounds /\ run.from \in Values /\ run.cursor \in Int
      /\ run.chunk \in Nat /\ run.row \in Rows /\ users.row \in Rows /\ run.steps \in Nat
      /\ site \in Values /\ now \in Nat
  BY DEF TypeOK, Rounds, Accounts, Values
<1>z. \A d \in Days : users.usage[d] \in {users.usage[d], run.from}
  OBVIOUS
<1>n. /\ Noted(users) \in Accounts /\ Noted(users).gen = users.gen
      /\ Noted(users).points = users.points /\ Noted(users).usage = users.usage
      /\ Noted(users).alert = users.alert
  BY <1>0, AccountTypes
<1>d. ASSUME NEW d \in Int
      PROVE  LET u == [users EXCEPT !.usage[d] = run.from] IN
             /\ u \in Accounts /\ u.gen = users.gen /\ u.points = users.points /\ u.alert = users.alert
             /\ \A e \in Days : u.usage[e] \in {users.usage[e], run.from}
  <2> DEFINE u == [users EXCEPT !.usage[d] = run.from]
  <2>1. u \in Accounts
    BY <1>0, AccountTypes
  <2>2. u.gen = users.gen /\ u.points = users.points /\ u.alert = users.alert
        /\ u.usage = [users.usage EXCEPT ![d] = run.from]
    BY <1>0 DEF Accounts
  <2>3. users.usage \in [Days -> Values]
    BY <1>0 DEF Accounts
  <2> HIDE DEF u
  <2>4. \A e \in Days : u.usage[e] \in {users.usage[e], run.from}
    BY <2>2, <2>3
  <2> QED BY <2>1, <2>2, <2>4 DEF u
<1>1. CASE UserList
  <2>1. CASE run.from \in users.known
    <3> DEFINE r == [run EXCEPT !.pc = "noted", !.chunk = 0]
    <3>1. Give(Noted(users), r) /\ run.pc # "idle"
      BY <1>1, <2>1 DEF UserList
    <3>2. r \in Rounds /\ r.pc = "noted" /\ r.gen = run.gen /\ r.from = run.from
      BY <1>0 DEF Rounds
    <3> HIDE DEF r
    <3> QED BY <1>0, <1>z, <1>n, <3>1, <3>2, GiveGoes
  <2>2. CASE run.from \notin users.known
    <3> DEFINE r == [run EXCEPT !.pc = "points", !.chunk = 1]
               u == [users EXCEPT !.points = @ \cup {run.from}]
    <3>1. Give(u, r) /\ run.pc # "idle"
      BY <1>1, <2>2 DEF UserList
    <3>2. r \in Rounds /\ r.pc = "points" /\ r.gen = run.gen /\ r.from = run.from
      BY <1>0 DEF Rounds
    <3>3. u \in Accounts
      BY <1>0, AccountTypes
    <3>4. u.gen = users.gen /\ u.usage = users.usage /\ u.alert = users.alert /\ u.points = users.points \cup {run.from}
      BY <1>0 DEF Accounts
    <3> HIDE DEF r, u
    <3> QED BY <1>0, <1>z, <3>1, <3>2, <3>3, <3>4, GiveGoes
  <2> QED BY <2>1, <2>2
<1>2. CASE UserPoints
  <2> DEFINE known == [users EXCEPT !.known = @ \cup {run.from}]
             r == [run EXCEPT !.pc = "noted", !.chunk = 0]
  <2>1. run.pc = "points"
    BY <1>0, <1>2 DEF UserPoints
  <2>2. Give(Noted(known), r)
    BY <1>2, <2>1 DEF UserPoints
  <2>3. known \in Accounts
    BY <1>0, AccountTypes
  <2>4. known.gen = users.gen /\ known.usage = users.usage /\ known.points = users.points /\ known.alert = users.alert
    BY <1>0 DEF Accounts
  <2>5. r \in Rounds /\ r.pc = "noted" /\ r.gen = run.gen /\ r.from = run.from
    BY <1>0 DEF Rounds
  <2> HIDE DEF r, known
  <2>6. /\ Noted(known) \in Accounts /\ Noted(known).gen = known.gen
        /\ Noted(known).points = known.points /\ Noted(known).usage = known.usage
        /\ Noted(known).alert = known.alert
    BY <2>3, AccountTypes
  <2> QED BY <1>0, <1>z, <2>1, <2>2, <2>4, <2>5, <2>6, GiveGoes
<1>3. CASE UserAsk
  <2> DEFINE r == [run EXCEPT !.pc = "usage", !.from = site, !.chunk = 0]
  <2>1. Give(users, r) /\ run.pc # "idle"
    BY <1>3 DEF UserAsk
  <2>2. r \in Rounds /\ r.pc = "usage" /\ r.gen = run.gen /\ r.from = site
    BY <1>0 DEF Rounds
  <2> HIDE DEF r
  <2> QED BY <1>0, <1>z, <2>1, <2>2, GiveGoes
<1>4. CASE UserUsage
  <2> DEFINE r == [run EXCEPT !.pc = "written", !.chunk = 1]
             u == [users EXCEPT !.usage[now] = run.from]
  <2>1. Give(u, r) /\ run.pc # "idle"
    BY <1>4 DEF UserUsage
  <2>2. r \in Rounds /\ r.pc = "written" /\ r.gen = run.gen /\ r.from = run.from
    BY <1>0 DEF Rounds
  <2>3. /\ u \in Accounts /\ u.gen = users.gen /\ u.points = users.points /\ u.alert = users.alert
        /\ \A e \in Days : u.usage[e] \in {users.usage[e], run.from}
    BY <1>0, <1>d
  <2> HIDE DEF r, u
  <2> QED BY <1>0, <2>1, <2>2, <2>3, GiveGoes
<1>5. CASE UserWritten
  <2> DEFINE r == [run EXCEPT !.pc = "synced", !.chunk = 0]
  <2>1. run.pc = "written"
    BY <1>0, <1>5 DEF UserWritten
  <2>2. Give(Noted(users), r)
    BY <1>5, <2>1 DEF UserWritten
  <2>3. r \in Rounds /\ r.pc = "synced" /\ r.gen = run.gen /\ r.from = run.from
    BY <1>0 DEF Rounds
  <2> HIDE DEF r
  <2> QED BY <1>0, <1>z, <1>n, <2>1, <2>2, <2>3, GiveGoes
<1>6. CASE UserRow
  <2> DEFINE r == [run EXCEPT !.pc = "row", !.row = users.row, !.chunk = 0]
  <2>1. Give(users, r) /\ run.pc # "idle"
    BY <1>6 DEF UserRow
  <2>2. r \in Rounds /\ r.pc = "row" /\ r.gen = run.gen /\ r.from = run.from
    BY <1>0 DEF Rounds
  <2> HIDE DEF r
  <2> QED BY <1>0, <1>z, <2>1, <2>2, GiveGoes
<1>7. CASE UserPlan
  <2>1. CASE Complete(run.row)
    <3> DEFINE r == [run EXCEPT !.pc = "step", !.cursor = run.row.cursor, !.from = site]
    <3>1. Give(users, r) /\ run.pc # "idle"
      BY <1>7, <2>1 DEF UserPlan
    <3>2. run.row.cursor \in Int
      BY <1>0 DEF Rows
    <3>3. r \in Rounds /\ r.pc = "step" /\ r.gen = run.gen /\ r.from = site
      BY <1>0, <3>2 DEF Rounds
    <3> HIDE DEF r
    <3> QED BY <1>0, <1>z, <3>1, <3>3, GiveGoes
  <2>2. CASE ~Complete(run.row)
    <3> DEFINE r == [run EXCEPT !.pc = "step", !.row = Begun, !.cursor = now + 1, !.from = site]
               u == [users EXCEPT !.row = Begun]
    <3>1. Give(u, r) /\ run.pc # "idle"
      BY <1>7, <2>2 DEF UserPlan
    <3>2. Begun \in Rows
      <4>1. Max({0, now + 1 - UserDays}) \in Int
        BY <1>0, MaxType, SiteAssumption
      <4> QED BY <1>0, <4>1 DEF Begun, Rows
    <3>3. r \in Rounds /\ r.pc = "step" /\ r.gen = run.gen /\ r.from = site
      <4>1. now + 1 \in Int
        BY <1>0
      <4> QED BY <1>0, <3>2, <4>1 DEF Rounds
    <3>4. u \in Accounts /\ u.gen = users.gen /\ u.usage = users.usage /\ u.points = users.points /\ u.alert = users.alert
      BY <1>0, <3>2 DEF Accounts
    <3> HIDE DEF r, u
    <3> QED BY <1>0, <1>z, <3>1, <3>3, <3>4, GiveGoes
  <2> QED BY <2>1, <2>2
<1>8. CASE UserDay
  <2> DEFINE r == [run EXCEPT !.pc = "day", !.chunk = 1]
             u == [users EXCEPT !.usage[run.cursor - 1] = run.from]
  <2>1. Give(u, r) /\ run.pc # "idle"
    BY <1>8 DEF UserDay
  <2>2. r \in Rounds /\ r.pc = "day" /\ r.gen = run.gen /\ r.from = run.from
    BY <1>0 DEF Rounds
  <2>3. /\ u \in Accounts /\ u.gen = users.gen /\ u.points = users.points /\ u.alert = users.alert
        /\ \A e \in Days : u.usage[e] \in {users.usage[e], run.from}
    <3>1. run.cursor - 1 \in Int
      BY <1>0
    <3> QED BY <3>1, <1>d
  <2> HIDE DEF r, u
  <2> QED BY <1>0, <2>1, <2>2, <2>3, GiveGoes
<1>9. CASE UserDayWritten
  <2> DEFINE row == [Row(users) EXCEPT !.cursor = run.cursor - 1]
             r == [run EXCEPT !.pc = "step", !.cursor = @ - 1, !.steps = @ + 1, !.from = site, !.chunk = 0]
             u == [users EXCEPT !.row = row]
  <2>1. run.pc = "day"
    BY <1>0, <1>9 DEF UserDayWritten
  <2>2. Give(u, r)
    BY <1>9, <2>1 DEF UserDayWritten
  <2>3. row \in Rows
    <3>1. Row(users) \in Rows /\ run.cursor - 1 \in Int
      BY <1>0, AccountTypes
    <3> QED BY <3>1 DEF Rows
  <2>4. r \in Rounds /\ r.pc = "step" /\ r.gen = run.gen /\ r.from = site
    <3>1. run.cursor - 1 \in Int /\ run.steps + 1 \in Nat
      BY <1>0
    <3>2. r = [run EXCEPT !.pc = "step", !.cursor = run.cursor - 1, !.steps = run.steps + 1, !.from = site, !.chunk = 0]
      BY <1>0 DEF Rounds
    <3> HIDE DEF r
    <3> QED BY <1>0, <3>1, <3>2 DEF Rounds
  <2> HIDE DEF row
  <2>5. u \in Accounts /\ u.gen = users.gen /\ u.usage = users.usage /\ u.points = users.points /\ u.alert = users.alert
    BY <1>0, <2>3 DEF Accounts
  <2> HIDE DEF r, u
  <2> QED BY <1>0, <1>z, <2>1, <2>2, <2>4, <2>5, GiveGoes
<1>10. CASE UserEnd
  BY <1>0, <1>10, StartValues DEF UserEnd, Goes, Ended
<1>11. CASE UserAlert
  <2>1. [users EXCEPT !.alert = run.from] \in Accounts /\ run.pc # "idle"
    BY <1>0, <1>11 DEF UserAlert, Accounts
  <2>2. Give([users EXCEPT !.alert = run.from], NoRun)
    BY <1>11 DEF UserAlert
  <2> QED BY <1>0, <2>1, <2>2, StartValues, GiveCases DEF Goes, Reminded, Ended
<1> QED BY <1>1, <1>2, <1>3, <1>4, <1>5, <1>6, <1>7, <1>8, <1>9, <1>10, <1>11 DEF UserStep

\* A further statement of a write.
LEMMA FurtherGoes ==
  ASSUME TypeOK, UserFurther
  PROVE  /\ users' \in Accounts /\ run' \in Rounds /\ raced' \in BOOLEAN
         /\ users'.row = users.row /\ run' = [run EXCEPT !.chunk = run.chunk + 1]
         /\ (Wrote /\ raced' = raced) \/ (Strayed /\ raced')
<1>0. /\ users \in Accounts /\ run \in Rounds /\ run.from \in Values /\ run.cursor - 1 \in Int
      /\ run.chunk + 1 \in Nat /\ now \in Int /\ raced \in BOOLEAN /\ users.usage \in [Days -> Values]
  BY DEF TypeOK, Rounds, Accounts
<1>1. run' = [run EXCEPT !.chunk = run.chunk + 1]
  BY <1>0 DEF UserFurther, Rounds
<1>2. run' \in Rounds /\ run'.pc = run.pc /\ run'.gen = run.gen /\ run'.from = run.from /\ run.pc # "idle"
  BY <1>0, <1>1 DEF UserFurther, Rounds
<1>3. PICK d \in Int : users' = [users EXCEPT !.points = @ \cup {run.from}] \/ users' = [users EXCEPT !.usage[d] = run.from]
  BY <1>0 DEF UserFurther
<1>4. users' \in Accounts
  <2>1. CASE users' = [users EXCEPT !.points = @ \cup {run.from}]
    BY <1>0, <2>1, AccountTypes
  <2>2. CASE users' = [users EXCEPT !.usage[d] = run.from]
    <3>1. [users EXCEPT !.usage[d] = run.from] \in Accounts
      BY <1>0, AccountTypes
    <3> QED BY <2>2, <3>1
  <2> QED BY <1>3, <2>1, <2>2
<1>5. \/ users'.points = users.points \cup {run.from} /\ users'.usage = users.usage
      \/ users'.points = users.points /\ users'.usage = [users.usage EXCEPT ![d] = run.from]
  BY <1>0, <1>3 DEF Accounts
<1>6. users'.gen = users.gen /\ users'.row = users.row /\ users'.alert = users.alert
  BY <1>0, <1>3 DEF Accounts
<1>7. users'.points \subseteq users.points \cup {run.from}
      /\ \A e \in Days : users'.usage[e] \in {users.usage[e], run.from}
  BY <1>0, <1>5
<1>8. raced' \in BOOLEAN /\ (Alive => raced' = raced) /\ (~Alive => raced')
  BY <1>0 DEF UserFurther
<1> QED BY <1>1, <1>2, <1>4, <1>6, <1>7, <1>8 DEF Wrote, Strayed

LEMMA MoveType ==
  ASSUME TypeOK, NEW f \in Fates, MoveStep(f)
  PROVE  /\ users' \in Accounts /\ up' \in Ups /\ move' \in Moves
         /\ faults' \in Nat /\ broken' \in BOOLEAN
<1> USE StartValues
<1>0. users \in Accounts /\ up \in Ups /\ move \in Moves /\ faults \in Nat /\ broken \in BOOLEAN
  BY DEF TypeOK
<1>1. faults' \in Nat
  BY <1>0, FateType DEF MoveStep
<1>2. users' \in Accounts
  <2> DEFINE u == IF move.pc = "points" THEN [users EXCEPT !.gen = @ + 1] ELSE users
  <2>1. u \in Accounts
    BY <1>0 DEF Accounts
  <2>2. [u EXCEPT !.points = {}] \in Accounts /\ [u EXCEPT !.usage = NoDays] \in Accounts
        /\ [u EXCEPT !.row = NoRow] \in Accounts /\ [u EXCEPT !.alert = None] \in Accounts
    <3> HIDE DEF u
    <3> QED BY <2>1 DEF Accounts
  <2>3. users' \in {u, [u EXCEPT !.points = {}], [u EXCEPT !.usage = NoDays], [u EXCEPT !.row = NoRow],
                    [u EXCEPT !.alert = None]}
    BY DEF MoveStep
  <2> HIDE DEF u
  <2> QED BY <2>1, <2>2, <2>3
<1>3. up' \in Ups
  <2>1. up' \in {up, [up EXCEPT !.days = NoDays], [up EXCEPT !.db = NoState]}
    BY DEF MoveStep
  <2>2. [up EXCEPT !.days = NoDays] \in Ups /\ [up EXCEPT !.db = NoState] \in Ups
    BY <1>0 DEF Ups
  <2> QED BY <1>0, <2>1, <2>2
<1>4. move' \in Moves
  <2> DEFINE next == [points |-> "usage", usage |-> "row", row |-> "alert", alert |-> "done",
                      days |-> "state", state |-> "memory"][move.pc]
  <2>1. next \in {"usage", "row", "alert", "done", "state", "memory"}
    BY DEF MoveStep
  <2>2. move' = [move EXCEPT !.pc = next] \/ move' = Still
    BY DEF MoveStep
  <2> HIDE DEF next
  <2> QED BY <1>0, <2>1, <2>2 DEF Moves
<1>5. broken' \in BOOLEAN
  BY <1>0 DEF MoveStep
<1> QED BY <1>1, <1>2, <1>3, <1>4, <1>5

LEMMA TypeNext ==
  ASSUME TypeOK, [Next]_vars
  PROVE  TypeOK'
<1> USE StartValues
<1>0. /\ now \in Nat /\ site \in Sites /\ site \in Values /\ faults \in Nat
      /\ users \in Accounts /\ up \in Ups /\ move \in Moves
      /\ read \in Reads /\ run \in Rounds
      /\ own \in BOOLEAN /\ there \in BOOLEAN /\ broken \in BOOLEAN /\ raced \in BOOLEAN
  BY DEF TypeOK, Values
<1>1. CASE Spend
  <2>1. UNCHANGED <<now, own, site, there, move, broken, users, run>> /\ raced' \in BOOLEAN
    BY <1>0, <1>1 DEF Spend, SpendStart, SpendRequest, SpendRefused, SpendPut, SpendSave, SpendKeep,
       SpendList, SpendShow, RetryDue
  <2> QED BY <1>0, <1>1, <2>1, SpendType DEF TypeOK
<1>2. CASE UserStart
  <2>1. run' \in Rounds
    <3>1. run' = [NoRun EXCEPT !.pc = "users", !.gen = users.gen, !.from = site]
      BY <1>2 DEF UserStart
    <3>2. users.gen \in Nat
      BY <1>0 DEF Accounts
    <3> QED BY <1>0, <3>1, <3>2 DEF Rounds
  <2>2. users' \in Accounts
    BY <1>0, <1>2 DEF UserStart, Accounts
  <2>3. raced' \in BOOLEAN
    BY <1>0, <1>2 DEF UserStart
  <2> QED BY <1>0, <1>2, <2>1, <2>2, <2>3 DEF UserStart, TypeOK
<1>3. CASE UserStep
  <2>1. UserFrame
    BY <1>3 DEF UserStep, UserList, UserPoints, UserAsk, UserUsage, UserWritten, UserRow,
       UserPlan, UserDay, UserDayWritten, UserAlert, UserEnd
  <2>2. Goes
    BY <1>3, UserGoes
  <2> QED BY <1>0, <2>1, <2>2 DEF UserFrame, Goes, TypeOK
<1>4. ASSUME NEW kind \in {"address", "purge"}, MoveBegin(kind) PROVE TypeOK'
  <2>1. site' \in Sites
    BY <1>0, <1>4, SiteAssumption DEF MoveBegin, Sites
  <2>2. move' \in Moves
    BY <1>4 DEF MoveBegin, Moves
  <2>3. raced' \in BOOLEAN
    BY <1>4 DEF MoveBegin
  <2> QED BY <1>0, <1>4, <2>1, <2>2, <2>3 DEF MoveBegin, TypeOK
<1>5. ASSUME NEW f \in Fates, MoveStep(f) PROVE TypeOK'
  <2>1. UNCHANGED <<now, own, site, there, raced, read, run>>
    BY <1>5 DEF MoveStep
  <2> QED BY <1>0, <1>5, <2>1, MoveType DEF TypeOK
<1>6. CASE MoveMemory
  BY <1>0, <1>6 DEF MoveMemory, TypeOK, Ups, Moves
<1>7. ASSUME NEW works \in BOOLEAN, MoveDone(works) PROVE TypeOK'
  BY <1>0, <1>7, FateType DEF MoveDone, TypeOK
<1>8. CASE Crash
  <2>1. up' \in Ups /\ users' \in Accounts
    BY <1>0, <1>8 DEF Crash, Ups, Accounts
  <2>2. faults' \in Nat /\ broken' \in BOOLEAN
    BY <1>0, <1>8 DEF Crash
  <2> QED BY <1>0, <1>8, <2>1, <2>2 DEF Crash, TypeOK
<1>9. CASE NextDay
  BY <1>0, <1>9 DEF NextDay, TypeOK
<1>10. CASE UNCHANGED vars
  BY <1>0, <1>10 DEF vars, TypeOK
<1>11. CASE UserFurther
  <2>1. UNCHANGED <<now, own, site, there, move, broken, faults, up, read>>
    BY <1>11 DEF UserFurther
  <2> QED BY <1>0, <1>11, <2>1, FurtherGoes DEF TypeOK
<1> QED BY <1>1, <1>2, <1>3, <1>4, <1>5, <1>6, <1>7, <1>8, <1>9, <1>10, <1>11 DEF Next, UserOps, UserStep

-----------------------------------------------------------------------------
(* What is kept is this site's.                                            *)

UserPart == FromHere /\ NoneAlive /\ PointsHere /\ UsageHere /\ AlertHere
SpendPart == Reading /\ DaysHere /\ ShownHere

LEMMA InvInit == Init => SiteInv
<1> SUFFICES ASSUME Init PROVE SiteInv
  OBVIOUS
<1>1. /\ read.pc = "idle" /\ run.pc = "idle" /\ move = Still /\ move.pc = "idle" /\ there
      /\ users.points = {} /\ up.days = NoDays /\ up.shown = NoDays /\ users.usage = NoDays
      /\ users.alert = None
  BY DEF Init, NoRead, NoRun, NoUp, NoUsers, Still
<1>2. \A d \in Days : NoDays[d] = None
  BY DEF NoDays
<1>3. Split
  BY <1>1, <1>2 DEF Split, Holds
<1>4. PointsHere /\ UsageHere /\ AlertHere /\ DaysHere /\ ShownHere
  BY <1>1, <1>2 DEF PointsHere, UsageHere, AlertHere, DaysHere, ShownHere, Holds
<1>5. GoneIsStill /\ FromHere /\ NoneAlive /\ Reading
  BY <1>1 DEF GoneIsStill, FromHere, NoneAlive, Reading
<1> QED BY <1>3, <1>4, <1>5, TypeInit DEF SiteInv

LEMMA OwnMoves ==
  ASSUME SiteInv, own, NEW f \in Fates, MoveStep(f)
  PROVE  Split' /\ GoneIsStill' /\ UserPart'
<1>0. /\ users \in Accounts /\ run \in Rounds /\ move \in Moves /\ up \in Ups
      /\ move.pc \in {"points", "usage", "row", "alert"} /\ there /\ read.pc = "idle"
      /\ users.gen \in Nat /\ run.gen \in Nat
  BY DEF SiteInv, TypeOK, Split, MoveStep, GoneIsStill, Still, Accounts, Rounds
<1>1. UNCHANGED <<own, site, there, raced, read, run>> /\ up' = up
  BY <1>0 DEF MoveStep
<1>2. IF f = "works"
      THEN /\ broken' = broken /\ move'.kind = move.kind
           /\ move'.pc = IF move.pc = "points" THEN "usage" ELSE IF move.pc = "usage" THEN "row"
                         ELSE IF move.pc = "row" THEN "alert" ELSE "done"
      ELSE move'.pc = "idle" /\ broken' /\ move' = Still
  BY <1>0 DEF MoveStep, Moves, Still
<1>3. users'.gen = IF move.pc = "points" THEN users.gen + 1 ELSE users.gen
  BY <1>0 DEF MoveStep, Accounts
<1>4. users'.points = IF Stored(f) /\ move.pc = "points" THEN {} ELSE users.points
  BY <1>0 DEF MoveStep, Accounts
<1>5. users'.usage = IF Stored(f) /\ move.pc = "usage" THEN NoDays ELSE users.usage
  BY <1>0 DEF MoveStep, Accounts
<1>13. users'.alert = IF Stored(f) /\ move.pc = "alert" THEN None ELSE users.alert
  BY <1>0 DEF MoveStep, Accounts
<1>14. f = "works" => Stored(f)
  BY DEF Stored
<1>6. \A d \in Days : NoDays[d] = None
  BY DEF NoDays
<1>7. Split'
  BY <1>0, <1>1, <1>2 DEF SiteInv, Split, Holds
<1>8. GoneIsStill'
  BY <1>0, <1>1 DEF GoneIsStill
<1>9. FromHere'
  BY <1>0, <1>1, <1>2, <1>3 DEF SiteInv, FromHere, Alive
<1>10. NoneAlive'
  BY <1>0, <1>1, <1>2, <1>3 DEF SiteInv, FromHere, NoneAlive, Purging, Alive
<1>11. PointsHere'
  BY <1>0, <1>1, <1>2, <1>4, <1>14 DEF SiteInv, PointsHere, Purging, Past
<1>12. UsageHere'
  BY <1>0, <1>1, <1>2, <1>5, <1>6, <1>14 DEF SiteInv, UsageHere, Purging, Past, Holds
<1>15. AlertHere'
  BY <1>0, <1>1, <1>2, <1>13, <1>14 DEF SiteInv, AlertHere, Purging, Past
<1> QED BY <1>7, <1>8, <1>9, <1>10, <1>11, <1>12, <1>15 DEF UserPart

\* A round that goes on, or a further statement of one that is over.
LEMMA OwnWrote ==
  ASSUME SiteInv, own, UNCHANGED <<own, site, there, move, broken, up, read>>,
         (Wrote /\ raced' = raced) \/ (Strayed /\ raced')
  PROVE  Split' /\ GoneIsStill' /\ UserPart'
<1>1. Split' /\ GoneIsStill'
  BY DEF SiteInv, Split, GoneIsStill, Holds
<1>2. CASE Strayed /\ raced'
  <2>1. FromHere' /\ NoneAlive'
    BY <1>2 DEF SiteInv, FromHere, NoneAlive, Strayed, Alive
  <2>2. PointsHere' /\ UsageHere' /\ AlertHere'
    BY <1>2 DEF PointsHere, UsageHere, AlertHere
  <2> QED BY <1>1, <2>1, <2>2 DEF UserPart
<1>3. CASE Wrote /\ raced' = raced
  <2>1. FromHere'
    BY <1>3 DEF SiteInv, FromHere, Wrote, Alive
  <2>2. move.pc # "points" => run.from = site
    BY <1>3 DEF SiteInv, FromHere, Wrote
  <2>3. ~raced => ~Purging({"usage", "row", "alert", "done"})
    BY <1>3 DEF SiteInv, NoneAlive, Wrote
  <2>4. NoneAlive'
    BY <1>3, <2>3 DEF NoneAlive, Purging
  <2>5. PointsHere'
    BY <1>3, <2>2, <2>3 DEF SiteInv, PointsHere, Purging, Past, Wrote
  <2>6. UsageHere'
    <3>1. ~raced => ~Purging({"row", "alert", "done"})
      BY <2>3 DEF Purging
    <3>2. Past({"row", "alert", "done"}) => run.from = site
      BY <2>2 DEF Past
    <3> QED BY <1>3, <3>1, <3>2 DEF SiteInv, UsageHere, Purging, Past, Wrote, Holds
  <2>7. AlertHere'
    BY <1>3, <2>2, <2>3 DEF SiteInv, AlertHere, Purging, Past, Wrote
  <2> QED BY <1>1, <2>1, <2>4, <2>5, <2>6, <2>7 DEF UserPart
<1> QED BY <1>2, <1>3

LEMMA OwnWrites ==
  ASSUME SiteInv, own, UserStep
  PROVE  Split' /\ GoneIsStill' /\ UserPart'
<1>1. UserFrame
  BY DEF UserStep, UserList, UserPoints, UserAsk, UserUsage, UserWritten, UserRow,
     UserPlan, UserDay, UserDayWritten, UserAlert, UserEnd
<1>2. UNCHANGED <<own, site, there, move, broken, raced, up, read>>
  BY <1>1 DEF UserFrame
<1>3. Wrote \/ Ended \/ Reminded
  BY UserGoes DEF SiteInv, Goes
<1>4. Split' /\ GoneIsStill'
  BY <1>2 DEF SiteInv, Split, GoneIsStill, Holds
<1>5. CASE Ended
  <2>1. run'.pc = "idle" /\ users' = users
    BY <1>5 DEF Ended, NoRun
  <2>2. FromHere' /\ NoneAlive'
    BY <2>1 DEF FromHere, NoneAlive
  <2>3. PointsHere' /\ UsageHere' /\ AlertHere'
    BY <1>2, <2>1 DEF SiteInv, PointsHere, UsageHere, AlertHere, Purging, Past, Holds
  <2> QED BY <1>4, <2>2, <2>3 DEF UserPart
<1>6. CASE Wrote
  BY <1>2, <1>6, OwnWrote
<1>7. CASE Reminded
  <2>1. /\ run'.pc = "idle" /\ users'.points = users.points /\ users'.usage = users.usage
        /\ users'.alert = run.from
    BY <1>7 DEF Reminded, NoRun, SiteInv, TypeOK, Accounts
  <2>2. FromHere' /\ NoneAlive'
    BY <2>1 DEF FromHere, NoneAlive
  <2>3. PointsHere' /\ UsageHere'
    BY <1>2, <2>1 DEF SiteInv, PointsHere, UsageHere, Purging, Past, Holds
  <2>4. move.pc # "points" => run.from = site
    BY <1>7 DEF SiteInv, FromHere, Reminded
  <2>5. ~raced => ~Purging({"usage", "row", "alert", "done"})
    BY <1>7 DEF SiteInv, NoneAlive, Reminded
  <2>6. AlertHere'
    BY <1>2, <2>1, <2>4, <2>5 DEF AlertHere, Purging, Past
  <2> QED BY <1>4, <2>2, <2>3, <2>6 DEF UserPart
<1> QED BY <1>3, <1>5, <1>6, <1>7

LEMMA OwnNext ==
  ASSUME SiteInv, own, [Next]_vars
  PROVE  Split' /\ GoneIsStill' /\ UserPart'
<1>0. /\ users \in Accounts /\ run \in Rounds /\ move \in Moves /\ up \in Ups
      /\ read.pc = "idle" /\ Holds(up.days, {None}) /\ Holds(up.shown, {None})
      /\ move.pc \in {"idle", "points", "usage", "row", "alert", "done"}
  BY DEF SiteInv, TypeOK, Split
<1> DEFINE Same == /\ UNCHANGED <<own, site, there, move, broken, raced, users, run, read>>
                   /\ up'.days = up.days /\ up'.shown = up.shown
<1>a. ASSUME Same PROVE Split' /\ GoneIsStill' /\ UserPart'
  <2>1. Split' /\ GoneIsStill'
    BY <1>a DEF SiteInv, Split, GoneIsStill, Holds
  <2>2. FromHere' /\ NoneAlive'
    BY <1>a DEF SiteInv, FromHere, NoneAlive, Alive, Purging
  <2>3. PointsHere' /\ UsageHere' /\ AlertHere'
    BY <1>a DEF SiteInv, PointsHere, UsageHere, AlertHere, Past, Purging, Holds
  <2> QED BY <2>1, <2>2, <2>3 DEF UserPart
<1>1. CASE Spend
  <2>1. RetryDue
    BY <1>0, <1>1 DEF Spend, SpendStart, SpendRequest, SpendRefused, SpendPut, SpendSave, SpendKeep,
       SpendList, SpendShow
  <2>2. up'.days = up.days /\ up'.shown = up.shown
    BY <1>0, <2>1 DEF RetryDue, Ups
  <2>3. UNCHANGED <<own, site, there, move, broken, raced, users, run, read>>
    BY <2>1 DEF RetryDue
  <2> QED BY <1>a, <2>2, <2>3
<1>2. CASE UserStart
  <2>1. /\ UNCHANGED <<own, site, there, move, broken, up, read>> /\ there /\ (raced => raced')
        /\ move.pc # "idle" /\ move.kind = "purge" => raced'
    BY <1>2 DEF UserStart
  <2>2. run'.pc = "users" /\ run'.gen = users.gen /\ run'.from = site
    BY <1>2 DEF UserStart, NoRun
  <2>3. users'.gen = users.gen /\ users'.points = users.points /\ users'.usage = users.usage
        /\ users'.alert = users.alert /\ users.gen \in Nat
    BY <1>0, <1>2 DEF UserStart, Accounts
  <2>4. Split' /\ GoneIsStill'
    BY <2>1 DEF SiteInv, Split, GoneIsStill, Holds
  <2>5. FromHere' /\ NoneAlive'
    BY <2>1, <2>2, <2>3 DEF FromHere, NoneAlive, Alive, Purging
  <2>6. PointsHere' /\ UsageHere' /\ AlertHere'
    BY <2>1, <2>3 DEF SiteInv, PointsHere, UsageHere, AlertHere, Past, Purging, Holds
  <2> QED BY <2>4, <2>5, <2>6 DEF UserPart
<1>3. CASE UserStep
  BY <1>3, OwnWrites
<1>4. ASSUME NEW kind \in {"address", "purge"}, MoveBegin(kind)
      PROVE  Split' /\ GoneIsStill' /\ UserPart'
  <2>1. UNCHANGED <<own, there, broken, up, read, users, run>> /\ there /\ move'.pc = "points"
    BY <1>4 DEF MoveBegin
  <2>2. Split' /\ GoneIsStill'
    BY <2>1 DEF SiteInv, Split, GoneIsStill, Holds
  <2>3. FromHere' /\ NoneAlive'
    BY <2>1 DEF SiteInv, FromHere, NoneAlive, Purging, Alive
  <2>4. PointsHere' /\ UsageHere' /\ AlertHere'
    BY <2>1 DEF PointsHere, UsageHere, AlertHere, Past, Purging
  <2> QED BY <2>2, <2>3, <2>4 DEF UserPart
<1>5. ASSUME NEW f \in Fates, MoveStep(f) PROVE Split' /\ GoneIsStill' /\ UserPart'
  BY <1>5, OwnMoves
<1>6. CASE MoveMemory
  BY <1>0, <1>6 DEF MoveMemory
<1>7. ASSUME NEW works \in BOOLEAN, MoveDone(works) PROVE Split' /\ GoneIsStill' /\ UserPart'
  <2>1. /\ UNCHANGED <<own, site, raced, up, read, users, run>> /\ move.pc = "done"
        /\ there' = (move.kind = "address" \/ ~works) /\ move' = Still /\ move'.pc = "idle" /\ broken' = ~works
    BY <1>7 DEF MoveDone, Still
  <2>2. move.kind = "address" \/ move.kind = "purge"
    BY <1>0 DEF Moves
  <2>3. Split' /\ GoneIsStill'
    BY <2>1 DEF SiteInv, Split, GoneIsStill, Holds
  <2>4. FromHere' /\ NoneAlive'
    BY <2>1, <2>2 DEF SiteInv, FromHere, NoneAlive, Purging, Alive
  <2>5. PointsHere' /\ UsageHere' /\ AlertHere'
    BY <2>1, <2>2 DEF SiteInv, PointsHere, UsageHere, AlertHere, Past, Purging, Holds
  <2> QED BY <2>3, <2>4, <2>5 DEF UserPart
<1>8. CASE Crash
  <2>1. /\ UNCHANGED <<own, site, there, raced>> /\ read'.pc = "idle" /\ run'.pc = "idle"
        /\ move' = Still /\ move'.pc = "idle" /\ broken' = (broken \/ move.pc # "idle")
    BY <1>8 DEF Crash, NoRead, NoRun, Still
  <2>2. up'.days = up.days /\ up'.shown = up.days
    BY <1>0, <1>8 DEF Crash, Ups
  <2>3. users'.points = users.points /\ users'.usage = users.usage /\ users'.alert = users.alert
    BY <1>0, <1>8 DEF Crash, Accounts
  <2>4. Split' /\ GoneIsStill'
    BY <1>0, <2>1, <2>2 DEF Split, GoneIsStill, Holds
  <2>5. FromHere' /\ NoneAlive'
    BY <2>1 DEF FromHere, NoneAlive
  <2>6. PointsHere' /\ UsageHere' /\ AlertHere'
    BY <2>1, <2>3 DEF SiteInv, PointsHere, UsageHere, AlertHere, Past, Purging, Holds, Still
  <2> QED BY <2>4, <2>5, <2>6 DEF UserPart
<1>9. CASE NextDay
  BY <1>9, <1>a DEF NextDay
<1>10. CASE UNCHANGED vars
  BY <1>10, <1>a DEF vars
<1>11. CASE UserFurther
  <2>1. UNCHANGED <<own, site, there, move, broken, up, read>>
    BY <1>11 DEF UserFurther
  <2>2. (Wrote /\ raced' = raced) \/ (Strayed /\ raced')
    BY <1>11, FurtherGoes DEF SiteInv
  <2> QED BY <2>1, <2>2, OwnWrote
<1> QED BY <1>1, <1>2, <1>3, <1>4, <1>5, <1>6, <1>7, <1>8, <1>9, <1>10, <1>11 DEF Next, UserOps, UserStep

\* One step of reading the days of an upstream while nothing is forgotten.
LEMMA SpendReads ==
  ASSUME SiteInv, ~own, Spend
  PROVE  /\ UNCHANGED <<own, site, there, move, broken, users, run>> /\ (raced => raced')
         /\ SpendPart'
<1>0. /\ up \in Ups /\ read \in Reads /\ up.days \in [Days -> Values]
      /\ read.got \in [Days -> Values] /\ raced \in BOOLEAN
  BY DEF SiteInv, TypeOK, Ups, Reads
<1>1. UNCHANGED <<own, site, there, move, broken, users, run>> /\ (raced => raced')
  <2>1. UNCHANGED <<own, site, there, move, broken, users, run>>
    BY DEF Spend, SpendStart, SpendRequest, SpendRefused, SpendPut, SpendSave, SpendKeep,
       SpendList, SpendShow, RetryDue
  <2>2. raced' = raced \/ raced' = (raced \/ move.pc # "idle")
    BY DEF Spend, SpendStart, SpendRequest, SpendRefused, SpendPut, SpendSave, SpendKeep,
       SpendList, SpendShow, RetryDue
  <2>3. raced => raced'
    BY <2>2
  <2> QED BY <2>1, <2>3
<1>2. CASE raced'
  BY <1>1, <1>2 DEF SpendPart, Reading, DaysHere, ShownHere
<1> DEFINE Here == {None, site}
           Good(f) == Holds(f, Here)
<1>b. ASSUME NEW f \in [Days -> Values], Good(f) PROVE Good(Pruned(f))
  BY <1>b DEF Pruned, Holds
<1>3. CASE ~raced'
  <2>1. ~raced
    BY <1>1, <1>3
  \* What each step does to the days, what is shown and what was read.
  <2> DEFINE Quiet == up'.days = up.days /\ up'.shown = up.shown
             Over  == read'.pc = "idle"
  <2>2. ASSUME Failed PROVE Quiet /\ Over
    BY <1>0, <2>2 DEF Failed, Ups, NoRead
  <2>3. (there /\ ~broken /\ move.pc = "idle" => Good(up.days) /\ Good(up.shown))
        /\ (read.pc # "idle" => move.pc = "idle" /\ there)
    BY <2>1 DEF SiteInv, Reading, DaysHere, ShownHere, Past
  <2> DEFINE ReadHere == read'.pc # "idle" =>
               /\ move.pc = "idle" /\ there
               /\ read'.pc = "reading" \/ (read'.pc = "show" /\ ~broken) => Good(read'.got)
             DaysFine == Quiet \/ (move.pc = "idle" /\ there /\ (~broken => Good(up'.days) /\ Good(up'.shown)))
  <2>4. ASSUME ReadHere, DaysFine PROVE SpendPart'
    <3>1. Reading'
      BY <1>1, <2>4 DEF Reading, Holds
    <3>2. DaysHere' /\ ShownHere'
      BY <1>1, <2>1, <2>4 DEF SiteInv, DaysHere, ShownHere, Past, Holds
    <3> QED BY <3>1, <3>2 DEF SpendPart
  <2>5. ReadHere /\ DaysFine
    <3>1. ASSUME NEW b \in BOOLEAN, SpendStart(b) PROVE ReadHere /\ DaysFine
      <4>1. move.pc = "idle" /\ there /\ up' = up
        BY <1>3, <3>1 DEF SpendStart
      <4>2. read'.got = NoDays
        BY <3>1 DEF SpendStart, NoRead
      <4>3. Good(NoDays)
        BY DEF NoDays, Holds
      <4> QED BY <4>1, <4>2, <4>3
    <3>2. CASE SpendRequest
      <4>1. read.pc = "reading" /\ Good(read.got) /\ move.pc = "idle" /\ there /\ up' = up
        BY <2>1, <3>2 DEF SpendRequest, SiteInv, Reading
      <4>2. read'.got = [read.got EXCEPT ![read.next] = site]
        BY <1>0, <3>2 DEF SpendRequest, Reads
      <4>3. Good(read'.got)
        BY <1>0, <4>1, <4>2 DEF Holds
      <4> QED BY <4>1, <4>3
    <3>3. ASSUME NEW b \in BOOLEAN, SpendRefused(b) PROVE ReadHere /\ DaysFine
      <4>1. CASE b /\ ~read.before
        <5>1. Quiet /\ read'.pc = "keep" /\ read.pc = "reading"
          BY <1>0, <3>3, <4>1 DEF SpendRefused, Ups, Reads
        <5> QED BY <2>3, <5>1
      <4>2. CASE ~(b /\ ~read.before)
        BY <3>3, <4>2, <2>2 DEF SpendRefused
      <4> QED BY <4>1, <4>2
    <3>4. ASSUME NEW f \in Fates, SpendPut(f) PROVE ReadHere /\ DaysFine
      <4>1. read.pc = "reading" /\ Good(read.got) /\ move.pc = "idle" /\ there
        BY <2>1, <3>4 DEF SpendPut, SiteInv, Reading
      <4>2. read'.pc \in {"save", "idle"}
        BY <1>0, <3>4 DEF SpendPut, Reads, NoRead
      <4>3. up'.shown = up.shown /\ up'.days \in {up.days, WithRead.days}
        <5>1. PICK stored : stored = IF Stored(f) THEN WithRead ELSE up
          OBVIOUS
        <5>2. up' = stored \/ up' = [stored EXCEPT !.waiting = TRUE]
          BY <3>4, <5>1 DEF SpendPut
        <5>3. stored \in Ups /\ stored.shown = up.shown /\ stored.days \in {up.days, WithRead.days}
          BY <1>0, <5>1, WithReadIs DEF Ups
        <5> QED BY <5>2, <5>3 DEF Ups
      <4>4. ~broken => Good(up'.days) /\ Good(up'.shown)
        BY <1>0, <2>3, <4>1, <4>3, WithReadIs DEF Holds
      <4> QED BY <4>1, <4>2, <4>4
    <3>5. ASSUME NEW f \in Fates, SpendSave(f) PROVE ReadHere /\ DaysFine
      <4>1. read'.pc \in {"keep", "idle"} /\ read.pc = "save"
        <5>1. PICK state : state = [status |-> "ok", through |-> read.through, at |-> now]
          OBVIOUS
        <5>2. read' = [read EXCEPT !.pc = "keep", !.state = state] \/ read' = NoRead
          BY <3>5, <5>1 DEF SpendSave
        <5>3. read.pc = "save"
          BY <3>5 DEF SpendSave
        <5>4. CASE read' = NoRead
          BY <5>3, <5>4 DEF NoRead
        <5>5. CASE read' = [read EXCEPT !.pc = "keep", !.state = state]
          BY <1>0, <5>3, <5>5 DEF Reads
        <5> QED BY <5>2, <5>3, <5>4, <5>5
      <4>2. Quiet
        <5>1. PICK db : db = [status |-> "ok", through |-> read.through, at |-> now]
          OBVIOUS
        <5>2. PICK stored : stored = IF Stored(f) THEN [up EXCEPT !.db = db] ELSE up
          OBVIOUS
        <5>3. up' = stored \/ up' = [stored EXCEPT !.waiting = TRUE]
          BY <3>5, <5>1, <5>2 DEF SpendSave
        <5> QED BY <1>0, <5>2, <5>3 DEF Ups
      <4> QED BY <2>3, <4>1, <4>2
    <3>6. CASE SpendKeep
      <4>1. read.pc = "keep" /\ read'.pc = "list" /\ up'.shown = up.shown
        BY <1>0, <3>6 DEF SpendKeep, Ups, Reads
      <4>2. up'.days = up.days \/ up'.days = Pruned(up.days)
        BY <1>0, <3>6 DEF SpendKeep, Ups
      <4>3. ~broken => Good(up'.days) /\ Good(up'.shown)
        BY <1>0, <1>b, <2>3, <4>1, <4>2
      <4> QED BY <2>3, <4>1, <4>3
    <3>7. ASSUME NEW b \in BOOLEAN, SpendList(b) PROVE ReadHere /\ DaysFine
      <4>1. CASE b
        <5>1. up' = up /\ read.pc = "list" /\ read'.pc = "show" /\ read'.got = Pruned(up.days)
          BY <1>0, <3>7, <4>1 DEF SpendList, Reads
        <5>2. ~broken => Good(read'.got)
          BY <1>0, <1>b, <2>3, <5>1
        <5> QED BY <2>3, <5>1, <5>2
      <4>2. CASE ~b
        BY <3>7, <4>2, <2>2 DEF SpendList, NoRead
      <4> QED BY <4>1, <4>2
    <3>8. CASE SpendShow
      <4>1. read.pc = "show" /\ read'.pc = "idle" /\ up'.days = up.days /\ up'.shown = read.got
        BY <1>0, <3>8 DEF SpendShow, Ups, NoRead
      <4>2. ~broken => Good(read.got)
        BY <2>1, <4>1 DEF SiteInv, Reading
      <4> QED BY <2>3, <4>1, <4>2
    <3>9. CASE RetryDue
      <4>1. Quiet /\ read' = read
        BY <1>0, <3>9 DEF RetryDue, Ups
      <4> QED BY <2>1, <4>1 DEF SiteInv, Reading
    <3> QED BY <3>1, <3>2, <3>3, <3>4, <3>5, <3>6, <3>7, <3>8, <3>9 DEF Spend
  <2> HIDE DEF ReadHere, DaysFine
  <2> QED BY <1>1, <2>4, <2>5
<1> QED BY <1>2, <1>3

LEMMA UpNext ==
  ASSUME SiteInv, ~own, [Next]_vars
  PROVE  Split' /\ GoneIsStill' /\ SpendPart'
<1>0. /\ users \in Accounts /\ move \in Moves /\ up \in Ups
      /\ run.pc = "idle" /\ users.points = {} /\ users.alert = None /\ Holds(users.usage, {None})
      /\ move.pc \in {"idle", "days", "state", "memory", "done"}
      /\ (~raced /\ move.pc # "idle" => read.pc = "idle")
      /\ \A d \in Days : NoDays[d] = None
  BY DEF SiteInv, TypeOK, Split, Reading, NoDays
<1>1. CASE Spend
  <2>1. UNCHANGED <<own, site, there, move, broken, users, run>> /\ SpendPart'
    BY <1>1, SpendReads
  <2>2. Split' /\ GoneIsStill'
    BY <1>0, <2>1 DEF SiteInv, Split, GoneIsStill, Holds
  <2> QED BY <2>1, <2>2
<1>2. CASE UserOps
  BY <1>0, <1>2 DEF UserOps, UserStart, UserFurther, UserList, UserPoints, UserAsk, UserUsage, UserWritten,
     UserRow, UserPlan, UserDay, UserDayWritten, UserAlert, UserEnd
<1>4. ASSUME NEW kind \in {"address", "purge"}, MoveBegin(kind)
      PROVE  Split' /\ GoneIsStill' /\ SpendPart'
  <2>1. /\ UNCHANGED <<own, there, broken, up, read, users, run>> /\ there /\ move'.pc = "days"
        /\ raced' = (read.pc # "idle")
    BY <1>4 DEF MoveBegin
  <2>2. Split' /\ GoneIsStill'
    BY <1>0, <2>1 DEF Split, GoneIsStill, Holds
  <2>3. Reading' /\ DaysHere' /\ ShownHere'
    BY <2>1 DEF Reading, DaysHere, ShownHere, Past
  <2> QED BY <2>2, <2>3 DEF SpendPart
<1>5. ASSUME NEW f \in Fates, MoveStep(f) PROVE Split' /\ GoneIsStill' /\ SpendPart'
  <2>1. /\ UNCHANGED <<own, site, there, raced, read, run>> /\ there /\ move.pc \in {"days", "state"}
        /\ users' = users
    BY <1>0, <1>5 DEF MoveStep, SiteInv, GoneIsStill, Still
  <2>2. IF f = "works" THEN move'.pc = IF move.pc = "days" THEN "state" ELSE "memory"
                 ELSE move'.pc = "idle" /\ broken'
    BY <1>0, <1>5, <2>1 DEF MoveStep, Moves, Still
  <2>3. /\ up'.days = IF Stored(f) /\ move.pc = "days" THEN NoDays ELSE up.days
        /\ up'.shown = up.shown
    BY <1>0, <1>5 DEF MoveStep, Ups
  <2>4. Split' /\ GoneIsStill'
    BY <1>0, <2>1, <2>2 DEF Split, GoneIsStill, Holds
  <2>5. Reading'
    BY <1>0, <2>1 DEF Reading
  <2>6. DaysHere' /\ ShownHere'
    BY <1>0, <2>1, <2>2, <2>3 DEF SiteInv, DaysHere, ShownHere, Past, Holds, Stored
  <2> QED BY <2>4, <2>5, <2>6 DEF SpendPart
<1>6. CASE MoveMemory
  <2>1. /\ UNCHANGED <<own, site, there, broken, raced, read, users, run>> /\ move.pc = "memory"
        /\ there
    BY <1>6 DEF MoveMemory, SiteInv, GoneIsStill, Still
  <2>2. move'.pc = "done" /\ up'.days = up.days /\ up'.shown = NoDays
    BY <1>0, <1>6 DEF MoveMemory, Ups, Moves
  <2>3. Split' /\ GoneIsStill'
    BY <1>0, <2>1, <2>2 DEF Split, GoneIsStill, Holds
  <2>4. Reading' /\ DaysHere' /\ ShownHere'
    BY <1>0, <2>1, <2>2 DEF SiteInv, Reading, DaysHere, ShownHere, Past, Holds
  <2> QED BY <2>3, <2>4 DEF SpendPart
<1>7. ASSUME NEW works \in BOOLEAN, MoveDone(works) PROVE Split' /\ GoneIsStill' /\ SpendPart'
  <2>1. /\ UNCHANGED <<own, site, raced, up, read, users, run>> /\ move.pc = "done"
        /\ move' = Still /\ move'.pc = "idle" /\ broken' = ~works
    BY <1>7 DEF MoveDone, Still
  <2>2. Split' /\ GoneIsStill'
    BY <1>0, <2>1 DEF Split, GoneIsStill, Holds
  <2>3. Reading' /\ DaysHere' /\ ShownHere'
    BY <1>0, <2>1 DEF SiteInv, Reading, DaysHere, ShownHere, Past, Holds
  <2> QED BY <2>2, <2>3 DEF SpendPart
<1>8. CASE Crash
  <2>1. /\ UNCHANGED <<own, site, there, raced>> /\ read'.pc = "idle" /\ run'.pc = "idle"
        /\ move' = Still /\ move'.pc = "idle" /\ broken' = (broken \/ move.pc # "idle")
    BY <1>8 DEF Crash, NoRead, NoRun, Still
  <2>2. up'.days = up.days /\ up'.shown = up.days
    BY <1>0, <1>8 DEF Crash, Ups
  <2>3. users'.points = users.points /\ users'.usage = users.usage /\ users'.alert = users.alert
    BY <1>0, <1>8 DEF Crash, Accounts
  <2>4. Split' /\ GoneIsStill'
    BY <1>0, <2>1, <2>3 DEF Split, GoneIsStill, Holds
  <2>5. Reading' /\ DaysHere' /\ ShownHere'
    BY <2>1, <2>2 DEF SiteInv, Reading, DaysHere, ShownHere, Past, Holds
  <2> QED BY <2>4, <2>5 DEF SpendPart
<1>a. ASSUME UNCHANGED <<own, site, there, move, broken, raced, up, read, users, run>>
      PROVE  Split' /\ GoneIsStill' /\ SpendPart'
  BY <1>a DEF SiteInv, Split, GoneIsStill, SpendPart, Reading, DaysHere, ShownHere, Past, Holds
<1>9. CASE NextDay
  BY <1>9, <1>a DEF NextDay
<1>10. CASE UNCHANGED vars
  BY <1>10, <1>a DEF vars
<1> QED BY <1>1, <1>2, <1>4, <1>5, <1>6, <1>7, <1>8, <1>9, <1>10 DEF Next

LEMMA InvNext ==
  ASSUME SiteInv, [Next]_vars
  PROVE  SiteInv'
<1>1. TypeOK'
  BY TypeNext DEF SiteInv
<1>2. own' = own
  BY DEF Next, vars, Spend, SpendStart, SpendRequest, SpendRefused, SpendPut, SpendSave,
     SpendKeep, SpendList, SpendShow, RetryDue, UserOps, UserStart, UserFurther, UserFrame, UserList,
     UserPoints, UserAsk, UserUsage, UserWritten, UserRow, UserPlan, UserDay, UserDayWritten,
     UserAlert, UserEnd, MoveBegin, MoveStep, MoveMemory, MoveDone, Crash, NextDay
<1>3. CASE own
  <2>1. Split' /\ GoneIsStill' /\ UserPart'
    BY <1>3, OwnNext
  <2>2. Reading' /\ DaysHere' /\ ShownHere'
    BY <1>2, <1>3 DEF Reading, DaysHere, ShownHere
  <2> QED BY <1>1, <2>1, <2>2 DEF SiteInv, UserPart
<1>4. CASE ~own
  <2>1. Split' /\ GoneIsStill' /\ SpendPart'
    BY <1>4, UpNext
  <2>2. FromHere' /\ NoneAlive' /\ PointsHere' /\ UsageHere' /\ AlertHere'
    BY <1>2, <1>4, <2>1 DEF Split, FromHere, NoneAlive, PointsHere, UsageHere, AlertHere
  <2> QED BY <1>1, <2>1, <2>2 DEF SiteInv, SpendPart
<1> QED BY <1>3, <1>4

\* The invariant says what OnlyThisSite asks for.
LEMMA InvSays == SiteInv => OnlyThisSite
<1> SUFFICES ASSUME SiteInv, move.pc = "idle", ~broken, ~raced PROVE OfThisSite
  BY DEF OnlyThisSite
<1> DEFINE left == {None} \cup IF there THEN {site} ELSE {}
<1>1. /\ up.days \in [Days -> Values] /\ up.shown \in [Days -> Values]
      /\ users.usage \in [Days -> Values]
  BY DEF SiteInv, TypeOK, Ups, Accounts
<1>2. Holds(up.days, left) /\ Holds(up.shown, left)
  BY DEF SiteInv, Split, DaysHere, ShownHere, Past, Holds
<1>3. users.points \subseteq left
  BY DEF SiteInv, Split, PointsHere, Past, Purging
<1>4. Holds(users.usage, left)
  BY DEF SiteInv, Split, UsageHere, Past, Purging, Holds
<1>6. users.alert \in left
  BY DEF SiteInv, Split, AlertHere, Past, Purging
<1>5. Range(up.days) \subseteq left /\ Range(up.shown) \subseteq left /\ Range(users.usage) \subseteq left
  <2> HIDE DEF left
  <2> QED BY <1>1, <1>2, <1>4 DEF Holds, Range
<1> QED BY <1>3, <1>5, <1>6 DEF OfThisSite, Kept

(* What background work keeps of a station is of the station's present     *)
(* address, and nothing is kept of one that was purged, for every number   *)
(* of days, moves, faults and statements of a write.  Set apart is what    *)
(* OnlyThisSite sets apart: a forgetting that was broken off, or that met  *)
(* a reading of days, a round begun during a purge, or the further         *)
(* statement of a round that was over (broken, raced).                     *)
THEOREM OnlyThisSiteAlways == Spec => []OnlyThisSite
<1>1. SiteInv /\ [Next]_vars => SiteInv'
  BY InvNext
<1> QED BY InvInit, InvSays, <1>1, PTL DEF Spec

-----------------------------------------------------------------------------
(* What the progress says.                                                 *)

SpendIn(s) == s.status = "ok" => \A d \in (now - BackfillDays)..s.through : up.days[d] = site
UsageFrom(u) == Complete(u.row) => \A d \in u.row.cursor..u.row.started : u.usage[d] = site

(* No day that is counted lies ahead, and a backfill that goes on has a    *)
(* day before it.                                                          *)
RowBounds(row) == row.target >= None /\ row.cursor <= now + 1 /\ row.started <= now
RunBounds(r) ==
  /\ RowBounds(r.row)
  /\ r.pc \in {"step", "day"} => r.row.target >= 0 /\ r.cursor <= now + 1
  /\ r.pc = "day" => r.cursor > r.row.target
Calendar ==
  /\ now >= BackfillDays /\ now <= MaxTime
  /\ up.mem.through < now /\ up.db.through < now /\ read.state.through < now
  /\ read.pc \in {"reading", "save"} => read.from >= 0 /\ read.through < now /\ read.from <= read.next
  /\ RowBounds(users.row) /\ RunBounds(run)

(* The backfill of a round that is still alive is the one that is stored,  *)
(* unless the forgetting has taken that away; then the row lacks its       *)
(* target until a round begins anew.  All this once the row is forgotten.  *)
InStep(u, r) ==
  r.pc # "idle" /\ r.gen = u.gen /\ u.row.target # None =>
    /\ r.pc = "row" => u.row = r.row
    /\ r.pc \in {"step", "day"} => u.row.cursor = r.cursor
    /\ r.pc = "day" => u.usage[r.cursor - 1] = site
BackfillOf(u, r) == own /\ ~raced /\ Past({"alert", "done"}) => UsageFrom(u) /\ InStep(u, r)
Backfill == BackfillOf(users, run)

(* An own site has no spend, an upstream no users. *)
Apart ==
  IF own THEN up.mem.status = "none" /\ up.db.status = "none"
  ELSE users.row = NoRow

(* A reading of days fills the gap behind what the memory says was read.   *)
Progress ==
  ~own /\ ~raced =>
    /\ Past({"memory", "done"}) => SpendIn(up.db)
    /\ Past({"done"}) => SpendIn(up.mem)
    /\ read.pc \in {"reading", "save"} =>
         read.from <= now - BackfillDays \/ (up.mem.status = "ok" /\ read.from <= up.mem.through + 1)
    /\ read.pc = "reading" => \A d \in read.from..(read.next - 1) : read.got[d] = site
    /\ read.pc = "save" => \A d \in read.from..read.through : up.days[d] = site
    /\ read.pc = "keep" /\ ~broken => SpendIn(read.state)

LEMMA MaxIs ==
  ASSUME NEW a \in Int, NEW b \in Int
  PROVE  Max({a, b}) \in {a, b} /\ Max({a, b}) >= a /\ Max({a, b}) >= b
<1>1. \E x \in {a, b} : \A y \in {a, b} : x >= y
  <2>1. CASE a >= b
    BY <2>1
  <2>2. CASE b >= a
    BY <2>2
  <2> QED BY <2>1, <2>2
<1> QED BY <1>1 DEF Max

LEMMA CoverInit == Init => Calendar /\ Backfill /\ Apart /\ Progress
<1> SUFFICES ASSUME Init PROVE Calendar /\ Backfill /\ Apart /\ Progress
  OBVIOUS
<1>1. /\ now \in Nat /\ now >= BackfillDays /\ now <= MaxTime /\ now > 0
  BY SiteAssumption DEF Init
<1>2. /\ NoRow.target = None /\ NoRow.cursor = None /\ NoRow.started = None
      /\ NoState.status = "none" /\ NoState.through = None /\ None = -1
  BY DEF NoRow, NoState, None
<1>3. /\ up.mem = NoState /\ up.db = NoState /\ read.state = NoState /\ read.pc = "idle"
      /\ users.row = NoRow /\ run.row = NoRow /\ run.pc = "idle"
  BY DEF Init, NoUp, NoRead, NoUsers, NoRun
<1>4. Calendar
  BY <1>1, <1>2, <1>3 DEF Calendar, RowBounds, RunBounds
<1> QED BY <1>1, <1>2, <1>3, <1>4 DEF Backfill, BackfillOf, InStep, UsageFrom, Complete, Apart, Progress, SpendIn

-----------------------------------------------------------------------------
(* A step of a round.                                                      *)

(* What a step that gives u and r has to show, when the round is alive.    *)
Goods(u, r) == RowBounds(u.row) /\ RunBounds(r) /\ BackfillOf(u, r)

LEMMA GiveGood ==
  ASSUME TypeOK, Calendar, Backfill, NEW u, NEW r, Give(u, r), Alive => Goods(u, r)
  PROVE  Goods(users', run')
<1>1. CASE Alive /\ users' = u /\ run' = r
  BY <1>1
<1>2. CASE users' = users /\ run' = NoRun
  <2>1. /\ NoRun.pc = "idle" /\ NoRun.row = NoRow
        /\ NoRow.target = None /\ NoRow.cursor = None /\ NoRow.started = None
    BY DEF NoRun, NoRow
  <2>2. now \in Nat
    BY DEF TypeOK
  <2>3. RunBounds(NoRun)
    BY <2>1, <2>2 DEF RunBounds, RowBounds, None
  <2> QED BY <1>2, <2>1, <2>3 DEF Goods, Calendar, Backfill, BackfillOf, InStep
<1> QED BY <1>1, <1>2, GiveCases

LEMMA RowKept ==
  ASSUME TypeOK
  PROVE  /\ Row(users).target = IF users.row.there THEN users.row.target ELSE None
         /\ Row(users).cursor = IF users.row.there THEN users.row.cursor ELSE None
         /\ Row(users).started = IF users.row.there THEN users.row.started ELSE None
         /\ users.row.there => Row(users) = users.row
         /\ Row(users) \in Rows
<1>1. users \in Accounts
  BY DEF TypeOK
<1>2. Row(users) \in Rows
  BY <1>1, AccountTypes
<1>3. [NoRow EXCEPT !.there = TRUE].target = None /\ [NoRow EXCEPT !.there = TRUE].cursor = None
      /\ [NoRow EXCEPT !.there = TRUE].started = None
  BY DEF NoRow
<1> QED BY <1>2, <1>3 DEF Row

LEMMA NotedGood ==
  ASSUME TypeOK, Calendar, Backfill, run.pc # "idle", NEW u \in Accounts, NEW r \in Rounds,
         u.row = users.row, u.usage = users.usage, u.gen = users.gen, r.row = run.row,
         r.pc \notin {"row", "step", "day"}
  PROVE  Goods(u, r) /\ Goods(Noted(u), r)
<1>1. Noted(u).row = Row(users) /\ Noted(u).usage = users.usage /\ Noted(u).gen = users.gen
  BY DEF Noted, Row, Accounts
<1>2. RunBounds(r)
  BY DEF Calendar, RunBounds
<1>3. Goods(u, r)
  BY <1>2 DEF Goods, Calendar, Backfill, BackfillOf, UsageFrom, InStep
<1>4. RowBounds(Row(users))
  <2>1. now \in Nat
    BY DEF TypeOK
  <2> QED BY <2>1, RowKept DEF Calendar, RowBounds, None
<1>5. BackfillOf(Noted(u), r)
  <2>1. CASE users.row.there
    BY <1>1, <2>1, RowKept DEF Backfill, BackfillOf, UsageFrom, InStep
  <2>2. CASE ~users.row.there
    BY <1>1, <2>2, RowKept DEF BackfillOf, UsageFrom, InStep, Complete
  <2> QED BY <2>1, <2>2
<1> QED BY <1>1, <1>2, <1>3, <1>4, <1>5 DEF Goods

(* A day of usage that a round stores is of this site. *)
LEMMA UsageGood ==
  ASSUME TypeOK, FromHere, Calendar, Backfill, run.pc # "idle", Alive, own, ~raced, Past({"alert", "done"}), NEW d \in Days
  PROVE  LET usage == [users.usage EXCEPT ![d] = run.from] IN
         /\ usage[d] = site /\ \A e \in Int : users.usage[e] = site => usage[e] = site
         /\ Complete(users.row) => \A e \in users.row.cursor..users.row.started : usage[e] = site
<1>1. run.from = site
  BY DEF FromHere, Past
<1>2. users.usage \in [Days -> Values] /\ users.row.cursor \in Int /\ users.row.started \in Int
  BY DEF TypeOK, Accounts, Rows
<1>3. PICK usage : usage = [users.usage EXCEPT ![d] = run.from]
  OBVIOUS
<1>4. usage[d] = site /\ \A e : e # d => usage[e] = users.usage[e]
  BY <1>1, <1>2, <1>3
<1>5. Complete(users.row) => \A e \in users.row.cursor..users.row.started : users.usage[e] = site
  BY DEF Backfill, BackfillOf, UsageFrom
<1> QED BY <1>3, <1>4, <1>5

LEMMA StepKeeps ==
  ASSUME TypeOK, FromHere, Calendar, Backfill, own, UserStep
  PROVE  Goods(users', run')
<1>0. /\ users \in Accounts /\ run \in Rounds /\ run.cursor \in Int /\ run.row \in Rows /\ users.row \in Rows
      /\ run.chunk \in Nat /\ run.steps \in Nat /\ now \in Nat /\ now <= MaxTime /\ site \in Values /\ run.from \in Values
      /\ users.usage \in [Days -> Values]
  BY DEF TypeOK, Rounds, Accounts, Calendar, Values
<1>d. /\ RowBounds(users.row) /\ RunBounds(run) /\ BackfillOf(users, run)
  BY DEF Calendar, Backfill
<1>1. CASE UserList
  <2>1. PICK v \in {[run EXCEPT !.pc = "noted", !.chunk = 0], [run EXCEPT !.pc = "points", !.chunk = 1]},
             u \in {users, [users EXCEPT !.points = @ \cup {run.from}]} : Give(Noted(u), v) \/ Give(u, v)
    BY <1>1 DEF UserList
  <2>2. v \in Rounds /\ v.row = run.row /\ v.pc \notin {"row", "step", "day"} /\ run.pc # "idle"
    <3>1. run.pc = "users"
      BY <1>1 DEF UserList
    <3>2. CASE v = [run EXCEPT !.pc = "noted", !.chunk = 0]
      BY <1>0, <3>1, <3>2 DEF Rounds
    <3>3. CASE v = [run EXCEPT !.pc = "points", !.chunk = 1]
      BY <1>0, <3>1, <3>3 DEF Rounds
    <3> QED BY <2>1, <3>2, <3>3
  <2>3. u \in Accounts
    BY <1>0, AccountTypes
  <2>4. u.row = users.row /\ u.usage = users.usage /\ u.gen = users.gen
    BY <1>0 DEF Accounts
  <2>5. Goods(u, v) /\ Goods(Noted(u), v)
    BY <2>2, <2>3, <2>4, NotedGood
  <2> QED BY <2>1, <2>5, GiveGood
<1>2. CASE UserPoints
  <2>1. PICK u : u = [users EXCEPT !.known = @ \cup {run.from}]
    OBVIOUS
  <2>2. PICK v : v = [run EXCEPT !.pc = "noted", !.chunk = 0]
    OBVIOUS
  <2>3. Give(Noted(u), v) /\ run.pc # "idle"
    BY <1>2, <2>1, <2>2 DEF UserPoints
  <2>4. v \in Rounds /\ v.row = run.row /\ v.pc \notin {"row", "step", "day"}
    BY <1>0, <2>2 DEF Rounds
  <2>5. u \in Accounts
    BY <1>0, <2>1, AccountTypes
  <2>6. u.row = users.row /\ u.usage = users.usage /\ u.gen = users.gen
    BY <1>0, <2>1 DEF Accounts
  <2>7. Goods(Noted(u), v)
    BY <2>3, <2>4, <2>5, <2>6, NotedGood
  <2> QED BY <2>3, <2>7, GiveGood
<1>3. CASE UserAsk
  <2>1. PICK v : v = [run EXCEPT !.pc = "usage", !.from = site, !.chunk = 0]
    OBVIOUS
  <2>2. Give(users, v) /\ run.pc # "idle"
    BY <1>3, <2>1 DEF UserAsk
  <2>3. v \in Rounds /\ v.row = run.row /\ v.pc \notin {"row", "step", "day"}
    BY <1>0, <2>1 DEF Rounds
  <2>4. Goods(users, v)
    BY <1>0, <2>2, <2>3, NotedGood
  <2> QED BY <2>2, <2>4, GiveGood
<1>4. CASE UserUsage
  <2>1. PICK u : u = [users EXCEPT !.usage[now] = run.from]
    OBVIOUS
  <2>2. PICK v : v = [run EXCEPT !.pc = "written", !.chunk = 1]
    OBVIOUS
  <2>3. Give(u, v) /\ run.pc # "idle"
    BY <1>4, <2>1, <2>2 DEF UserUsage
  <2>4. v.row = run.row /\ v.pc = "written"
    BY <1>0, <2>2 DEF Rounds
  <2>5. u.row = users.row /\ u.usage = [users.usage EXCEPT ![now] = run.from]
    BY <1>0, <2>1 DEF Accounts
  <2>6. Alive /\ own /\ ~raced /\ Past({"alert", "done"}) => UsageFrom(u)
    <3>1. now \in Days
      BY <1>0 DEF Days
    <3> QED BY <2>3, <2>5, <3>1, UsageGood DEF UsageFrom
  <2>7. Alive => Goods(u, v)
    BY <1>d, <2>4, <2>5, <2>6 DEF Goods, BackfillOf, InStep, RunBounds
  <2> QED BY <2>3, <2>7, GiveGood
<1>5. CASE UserWritten
  <2>1. PICK v : v = [run EXCEPT !.pc = "synced", !.chunk = 0]
    OBVIOUS
  <2>2. Give(Noted(users), v) /\ run.pc # "idle"
    BY <1>5, <2>1 DEF UserWritten
  <2>3. v \in Rounds /\ v.row = run.row /\ v.pc \notin {"row", "step", "day"}
    BY <1>0, <2>1 DEF Rounds
  <2>4. Goods(Noted(users), v)
    BY <1>0, <2>2, <2>3, NotedGood
  <2> QED BY <2>2, <2>4, GiveGood
<1>6. CASE UserRow
  <2>1. PICK v : v = [run EXCEPT !.pc = "row", !.row = users.row, !.chunk = 0]
    OBVIOUS
  <2>2. Give(users, v)
    BY <1>6, <2>1 DEF UserRow
  <2>3. v.row = users.row /\ v.pc = "row"
    BY <1>0, <2>1 DEF Rounds
  <2>4. Goods(users, v)
    BY <1>d, <2>3 DEF Goods, BackfillOf, InStep, RunBounds
  <2> QED BY <2>2, <2>4, GiveGood
<1>7. CASE UserPlan
  <2>1. CASE Complete(run.row)
    <3>1. PICK v : v = [run EXCEPT !.pc = "step", !.cursor = run.row.cursor, !.from = site]
      OBVIOUS
    <3>2. Give(users, v) /\ run.pc = "row"
      BY <1>7, <2>1, <3>1 DEF UserPlan
    <3>3. v.row = run.row /\ v.pc = "step" /\ v.cursor = run.row.cursor /\ v.gen = run.gen
      BY <1>0, <3>1 DEF Rounds
    <3>4. run.row.target >= 0 /\ run.row.cursor <= now + 1
      BY <1>0, <1>d, <2>1 DEF RunBounds, RowBounds, Complete, None, Rows
    <3>5. RunBounds(v)
      BY <1>d, <3>3, <3>4 DEF RunBounds
    <3>6. BackfillOf(users, v)
      BY <1>d, <3>2, <3>3 DEF BackfillOf, InStep
    <3> QED BY <1>d, <3>2, <3>5, <3>6, GiveGood DEF Goods
  <2>2. CASE ~Complete(run.row)
    <3>1. PICK row : row = Begun
      OBVIOUS
    <3>2. PICK v : v = [run EXCEPT !.pc = "step", !.row = row, !.cursor = now + 1, !.from = site]
      OBVIOUS
    <3>3. PICK u : u = [users EXCEPT !.row = row]
      OBVIOUS
    <3>4. Give(u, v)
      BY <1>7, <2>2, <3>1, <3>2, <3>3 DEF UserPlan
    <3>5. row.cursor = now + 1 /\ row.started = now /\ row.target \in Int /\ row.target >= 0
      <4>1. now + 1 - UserDays \in Int /\ 0 \in Int
        BY <1>0, SiteAssumption
      <4>2. Max({0, now + 1 - UserDays}) \in Int /\ Max({0, now + 1 - UserDays}) >= 0
        BY <4>1, MaxIs, MaxType
      <4> QED BY <3>1, <4>2 DEF Begun
    <3>6. v.row = row /\ v.pc = "step" /\ v.cursor = now + 1
      BY <1>0, <3>2 DEF Rounds
    <3>7. u.row = row /\ u.usage = users.usage
      BY <1>0, <3>3 DEF Accounts
    <3>8. RowBounds(row) /\ RunBounds(v)
      BY <1>0, <3>5, <3>6 DEF RowBounds, RunBounds, None
    <3>9. BackfillOf(u, v)
      BY <1>0, <3>5, <3>6, <3>7 DEF BackfillOf, UsageFrom, InStep
    <3> QED BY <3>4, <3>7, <3>8, <3>9, GiveGood DEF Goods
  <2> QED BY <2>1, <2>2
<1>8. CASE UserDay
  <2>1. PICK d : d = run.cursor - 1
    OBVIOUS
  <2>2. PICK u : u = [users EXCEPT !.usage[d] = run.from]
    OBVIOUS
  <2>3. PICK v : v = [run EXCEPT !.pc = "day", !.chunk = 1]
    OBVIOUS
  <2>4. Give(u, v) /\ run.pc = "step" /\ run.cursor > run.row.target
    BY <1>8, <2>1, <2>2, <2>3 DEF UserDay, More
  <2>5. d \in Days
    <3>1. run.row.target >= 0 /\ run.cursor <= now + 1 /\ run.row.target \in Int
      BY <1>0, <1>d, <2>4 DEF RunBounds, Rows
    <3>2. MaxTime \in Nat
      BY SiteAssumption
    <3> QED BY <1>0, <2>1, <2>4, <3>1, <3>2 DEF Days
  <2>6. v.row = run.row /\ v.pc = "day" /\ v.cursor = run.cursor /\ v.gen = run.gen
    BY <1>0, <2>3 DEF Rounds
  <2>7. u.row = users.row /\ u.usage = [users.usage EXCEPT ![d] = run.from] /\ u.gen = users.gen
    BY <1>0, <2>2 DEF Accounts
  <2>8. Alive /\ own /\ ~raced /\ Past({"alert", "done"}) => UsageFrom(u) /\ u.usage[d] = site
    BY <2>4, <2>5, <2>7, UsageGood DEF UsageFrom
  <2>9. RunBounds(v)
    BY <1>d, <2>4, <2>6 DEF RunBounds
  <2>10. Alive => BackfillOf(u, v)
    <3>1. BackfillOf(users, run) /\ run.pc = "step"
      BY <1>d, <2>4
    <3> QED BY <2>1, <2>6, <2>7, <2>8, <3>1 DEF BackfillOf, InStep
  <2> QED BY <1>d, <2>4, <2>7, <2>9, <2>10, GiveGood DEF Goods
<1>9. CASE UserDayWritten
  <2>1. PICK old \in Rows : old = Row(users)
    BY RowKept
  <2>2. PICK row : row = [old EXCEPT !.cursor = run.cursor - 1]
    OBVIOUS
  <2>3. PICK v : v = [run EXCEPT !.pc = "step", !.cursor = @ - 1, !.steps = @ + 1, !.from = site, !.chunk = 0]
    OBVIOUS
  <2>4. PICK u : u = [users EXCEPT !.row = row]
    OBVIOUS
  <2>5. Give(u, v) /\ run.pc = "day"
    BY <1>9, <2>1, <2>2, <2>3, <2>4 DEF UserDayWritten
  <2>6. row.cursor = run.cursor - 1 /\ row.target = old.target /\ row.started = old.started
    BY <2>2 DEF Rows
  <2>7. v.row = run.row /\ v.pc = "step" /\ v.cursor = run.cursor - 1 /\ v.gen = run.gen
    BY <1>0, <2>3 DEF Rounds
  <2>8. u.row = row /\ u.usage = users.usage /\ u.gen = users.gen
    BY <1>0, <2>4 DEF Accounts
  <2>9. run.cursor > run.row.target /\ run.row.target >= 0 /\ run.cursor <= now + 1
    BY <1>d, <2>5 DEF RunBounds
  <2>10. RunBounds(v)
    BY <1>0, <1>d, <2>7, <2>9 DEF RunBounds
  <2>11. old.target = (IF users.row.there THEN users.row.target ELSE None)
         /\ old.started = (IF users.row.there THEN users.row.started ELSE None)
    BY <2>1, RowKept
  <2>12. RowBounds(row)
    BY <1>0, <1>d, <2>6, <2>9, <2>11 DEF RowBounds, None, Rows
  <2>13. ASSUME Alive, ~raced, Past({"alert", "done"}), row.target # None
         PROVE  UsageFrom(u)
    <3>1. users.row.there /\ users.row.target # None /\ old.started = users.row.started
      BY <2>6, <2>11, <2>13
    <3>2. users.row.cursor = run.cursor /\ users.usage[run.cursor - 1] = site
      BY <1>d, <2>5, <2>13, <3>1 DEF BackfillOf, InStep, Alive
    <3>3. Complete(users.row)
      BY <1>0, <2>9, <3>1, <3>2 DEF Complete, None, Rows
    <3>4. \A e \in run.cursor..users.row.started : users.usage[e] = site
      BY <1>d, <2>13, <3>2, <3>3 DEF BackfillOf, UsageFrom
    <3>5. \A e \in (run.cursor - 1)..users.row.started : e = run.cursor - 1 \/ e \in run.cursor..users.row.started
      BY <1>0 DEF Rows
    <3> QED BY <2>6, <2>8, <3>1, <3>2, <3>4, <3>5 DEF UsageFrom
  <2>14. Alive => BackfillOf(u, v)
    BY <2>6, <2>7, <2>8, <2>13 DEF BackfillOf, InStep, UsageFrom, Complete
  <2> QED BY <2>5, <2>8, <2>10, <2>12, <2>14, GiveGood DEF Goods
<1>10. CASE UserEnd
  <2>1. /\ NoRun.pc = "idle" /\ NoRun.row = NoRow
        /\ NoRow.target = None /\ NoRow.cursor = None /\ NoRow.started = None
    BY DEF NoRun, NoRow
  <2>2. users' = users /\ run' = NoRun
    BY <1>10 DEF UserEnd
  <2> QED BY <1>0, <1>d, <2>1, <2>2 DEF Goods, RunBounds, RowBounds, BackfillOf, InStep, None
<1>11. CASE UserAlert
  <2>1. /\ NoRun.pc = "idle" /\ NoRun.row = NoRow
        /\ NoRow.target = None /\ NoRow.cursor = None /\ NoRow.started = None
    BY DEF NoRun, NoRow
  <2>2. run' = NoRun /\ (users' = users \/ users' = [users EXCEPT !.alert = run.from])
    BY <1>11, GiveCases DEF UserAlert
  <2>3. users'.row = users.row /\ users'.usage = users.usage
    BY <1>0, <2>2 DEF Accounts
  <2> QED BY <1>0, <1>d, <2>1, <2>2, <2>3 DEF Goods, RunBounds, RowBounds, BackfillOf, UsageFrom, InStep, None
<1> QED BY <1>1, <1>2, <1>3, <1>4, <1>5, <1>6, <1>7, <1>8, <1>9, <1>10, <1>11 DEF UserStep

-----------------------------------------------------------------------------
(* The own site: steps and forgetting.                                     *)

\* A further statement of a write stores the day the first one stored.
LEMMA FurtherKeeps ==
  ASSUME TypeOK, FromHere, Calendar, Backfill, own, UserFurther
  PROVE  RowBounds(users.row)' /\ RunBounds(run)' /\ Backfill'
<1>0. /\ users \in Accounts /\ run \in Rounds /\ now \in Nat /\ run.cursor \in Int /\ run.row \in Rows
      /\ RowBounds(users.row) /\ RunBounds(run) /\ BackfillOf(users, run) /\ now <= MaxTime /\ MaxTime \in Nat
  BY SiteAssumption DEF TypeOK, Accounts, Rounds, Calendar, Backfill
<1>1. UNCHANGED <<now, own, site, move, broken>> /\ run.pc \in {"points", "written", "day"}
  BY DEF UserFurther
<1>2. /\ users'.row = users.row /\ run' = [run EXCEPT !.chunk = run.chunk + 1]
      /\ (Wrote /\ raced' = raced) \/ (Strayed /\ raced')
  BY FurtherGoes
<1>3. /\ run'.pc = run.pc /\ run'.gen = run.gen /\ run'.row = run.row /\ run'.cursor = run.cursor
  BY <1>0, <1>2 DEF Rounds
<1>4. RowBounds(users.row)' /\ RunBounds(run)'
  BY <1>0, <1>1, <1>2, <1>3 DEF RowBounds, RunBounds
<1>5. CASE raced'
  BY <1>4, <1>5 DEF Backfill, BackfillOf
<1>6. CASE ~raced' /\ Past({"alert", "done"})
  <2>1. Alive /\ ~raced /\ run.pc # "idle" /\ users'.gen = users.gen
    BY <1>2, <1>6 DEF Wrote
  <2>2. PICK d : d = IF run.pc = "written" THEN now ELSE run.cursor - 1
    OBVIOUS
  <2>3. users'.usage = users.usage \/ users'.usage = [users.usage EXCEPT ![d] = run.from]
    <3>1. CASE run.pc = "points"
      BY <1>0, <3>1 DEF UserFurther, Accounts
    <3>2. CASE run.pc = "written"
      BY <1>0, <2>2, <3>2 DEF UserFurther, Accounts
    <3>3. CASE run.pc = "day"
      BY <1>0, <2>2, <3>3 DEF UserFurther, Accounts
    <3> QED BY <1>1, <3>1, <3>2, <3>3
  <2>4. run.pc # "points" => d \in Days
    <3>1. run.pc = "day" => run.row.target >= 0 /\ run.cursor <= now + 1 /\ run.cursor > run.row.target
      BY <1>0 DEF RunBounds
    <3>2. run.row.target \in Int
      BY <1>0 DEF Rows
    <3> QED BY <1>0, <1>1, <2>2, <3>1, <3>2 DEF Days
  <2>5. UsageFrom(users) /\ InStep(users, run)
    BY <1>0, <1>6, <2>1 DEF BackfillOf
  <2>6. UsageFrom(users')
    <3>1. CASE users'.usage = users.usage
      BY <1>2, <2>5, <3>1 DEF UsageFrom
    <3>2. CASE users'.usage # users.usage
      <4>1. run.pc # "points"
        BY <1>0, <3>2 DEF UserFurther, Accounts
      <4>2. users'.usage = [users.usage EXCEPT ![d] = run.from] /\ d \in Days
        BY <2>3, <2>4, <3>2, <4>1
      <4> QED BY <1>2, <1>6, <2>1, <4>2, UsageGood DEF UsageFrom
    <3> QED BY <3>1, <3>2
  <2>7. InStep(users', run')
    <3>1. CASE run.pc # "day"
      BY <1>1, <1>3, <3>1 DEF InStep
    <3>2. CASE run.pc = "day"
      <4>1. d = run.cursor - 1 /\ d \in Days
        BY <2>2, <2>4, <3>2
      <4>2. users'.usage[d] = site \/ users'.usage = users.usage
        BY <1>6, <2>1, <2>3, <4>1, UsageGood
      <4> QED BY <1>2, <1>3, <2>1, <2>5, <3>2, <4>1, <4>2 DEF InStep
    <3> QED BY <3>1, <3>2
  <2> QED BY <1>1, <1>4, <2>6, <2>7 DEF Backfill, BackfillOf, UsageFrom, InStep
<1>7. CASE ~Past({"alert", "done"})
  BY <1>1, <1>4, <1>7 DEF Backfill, BackfillOf, Past
<1> QED BY <1>4, <1>5, <1>6, <1>7

LEMMA OwnCover ==
  ASSUME SiteInv, Calendar, Backfill, own, [Next]_vars
  PROVE  RowBounds(users.row)' /\ RunBounds(run)' /\ Backfill'
<1>0. /\ now \in Nat /\ users \in Accounts /\ run \in Rounds /\ users.row \in Rows /\ run.row \in Rows
      /\ run.cursor \in Int /\ move \in Moves
      /\ RowBounds(users.row) /\ RunBounds(run) /\ BackfillOf(users, run)
  BY DEF SiteInv, TypeOK, Accounts, Rounds, Calendar, Backfill
<1>r. NoRun.pc = "idle" /\ NoRun.row = NoRow /\ NoRow.target = None /\ NoRow.cursor = None /\ NoRow.started = None
  BY DEF NoRun, NoRow
<1>1. CASE UserStep
  <2>1. UNCHANGED <<now, own, site, move, broken, raced>>
    BY <1>1 DEF UserStep, UserFrame, UserList, UserPoints, UserAsk, UserUsage, UserWritten, UserRow,
       UserPlan, UserDay, UserDayWritten, UserAlert, UserEnd
  <2>2. Goods(users', run')
    BY <1>1, StepKeeps DEF SiteInv
  <2>3. RowBounds(users.row)' /\ RunBounds(run)'
    BY <2>1, <2>2 DEF Goods, RowBounds, RunBounds
  <2>4. Backfill'
    BY <2>1, <2>2 DEF Goods, Backfill, BackfillOf, UsageFrom, InStep, Past
  <2> QED BY <2>3, <2>4
<1>2. CASE UserStart
  <2>1. UNCHANGED <<now, own, site, move, broken>> /\ (raced => raced')
    BY <1>2 DEF UserStart
  <2>2. users'.row = users.row /\ users'.usage = users.usage /\ users'.gen = users.gen
    BY <1>0, <1>2 DEF UserStart, Accounts
  <2>3. run'.pc = "users" /\ run'.row = NoRow
    BY <1>2 DEF UserStart, NoRun
  <2>4. RowBounds(users.row)' /\ RunBounds(run)'
    BY <1>0, <1>r, <2>1, <2>2, <2>3 DEF RowBounds, RunBounds, None
  <2>5. Backfill'
    BY <1>0, <2>1, <2>2, <2>3 DEF Backfill, BackfillOf, UsageFrom, InStep, Past
  <2> QED BY <2>4, <2>5
<1>3. CASE Spend
  <2>1. UNCHANGED <<now, own, site, move, broken, users, run>> /\ (raced => raced')
    <3>1. raced' = raced \/ raced' = (raced \/ move.pc # "idle")
      BY <1>3 DEF Spend, SpendStart, SpendRequest, SpendRefused, SpendPut, SpendSave, SpendKeep,
         SpendList, SpendShow, RetryDue
    <3>2. raced => raced'
      BY <3>1
    <3>3. UNCHANGED <<now, own, site, move, broken, users, run>>
      BY <1>3 DEF Spend, SpendStart, SpendRequest, SpendRefused, SpendPut, SpendSave, SpendKeep,
         SpendList, SpendShow, RetryDue
    <3> QED BY <3>2, <3>3
  <2> QED BY <1>0, <2>1 DEF RowBounds, RunBounds, Backfill, BackfillOf, UsageFrom, InStep, Past
<1>4. ASSUME NEW kind \in {"address", "purge"}, MoveBegin(kind)
      PROVE  RowBounds(users.row)' /\ RunBounds(run)' /\ Backfill'
  <2>1. UNCHANGED <<now, users, run>> /\ move'.pc = "points"
    BY <1>4 DEF MoveBegin
  <2> QED BY <1>0, <2>1 DEF RowBounds, RunBounds, Backfill, BackfillOf, Past
<1>5. ASSUME NEW f \in Fates, MoveStep(f)
      PROVE  RowBounds(users.row)' /\ RunBounds(run)' /\ Backfill'
  <2>1. UNCHANGED <<now, run, raced>> /\ move.pc \in {"points", "usage", "row", "alert"}
    BY <1>5 DEF MoveStep, SiteInv, Split
  <2>2. Stored(f) /\ move.pc = "row" => users'.row = NoRow
    BY <1>0, <1>5 DEF MoveStep, Accounts
  <2>3. users'.row \in {NoRow, users.row}
    BY <1>0, <1>5 DEF MoveStep, Accounts
  <2>4. IF f = "works" THEN move'.pc = IF move.pc = "points" THEN "usage" ELSE IF move.pc = "usage" THEN "row"
                                      ELSE IF move.pc = "row" THEN "alert" ELSE "done"
        ELSE move'.pc = "idle" /\ broken'
    BY <1>0, <1>5, <2>1 DEF MoveStep, Moves, Still
  <2>5. RowBounds(users.row)' /\ RunBounds(run)'
    <3>1. CASE users'.row = NoRow
      BY <1>0, <1>r, <2>1, <3>1 DEF RowBounds, RunBounds, None
    <3>2. CASE users'.row = users.row
      BY <1>0, <2>1, <3>2 DEF RowBounds, RunBounds
    <3> QED BY <2>3, <3>1, <3>2
  <2>6. CASE move.pc # "alert"
    <3>1. Past({"alert", "done"})' => users'.row = NoRow
      BY <2>1, <2>2, <2>4, <2>6 DEF Past, Stored
    <3> QED BY <1>r, <2>5, <3>1 DEF Backfill, BackfillOf, UsageFrom, InStep, Complete
  <2>7. CASE move.pc = "alert"
    <3>1. users'.row = users.row /\ users'.usage = users.usage /\ users'.gen = users.gen
      BY <1>0, <1>5, <2>7 DEF MoveStep, Accounts
    <3>2. UNCHANGED <<own, site, raced, run>>
      BY <1>5 DEF MoveStep
    <3> QED BY <1>0, <2>5, <2>7, <3>1, <3>2 DEF Backfill, BackfillOf, UsageFrom, InStep, Past
  <2> QED BY <2>5, <2>6, <2>7
<1>6. CASE MoveMemory
  BY <1>6 DEF MoveMemory, SiteInv, Split
<1>7. ASSUME NEW works \in BOOLEAN, MoveDone(works)
      PROVE  RowBounds(users.row)' /\ RunBounds(run)' /\ Backfill'
  <2>1. UNCHANGED <<now, own, site, raced, users, run>> /\ move.pc = "done"
    BY <1>7 DEF MoveDone
  <2> QED BY <1>0, <2>1 DEF RowBounds, RunBounds, Backfill, BackfillOf, UsageFrom, InStep, Past
<1>8. CASE Crash
  <2>1. UNCHANGED <<now, own, site, raced>> /\ run' = NoRun /\ move'.pc = "idle" /\ broken' = (broken \/ move.pc # "idle")
    BY <1>8 DEF Crash, Still
  <2>2. users'.row = users.row /\ users'.usage = users.usage
    BY <1>0, <1>8 DEF Crash, Accounts
  <2>3. RowBounds(users.row)' /\ RunBounds(run)'
    BY <1>0, <1>r, <2>1, <2>2 DEF RowBounds, RunBounds, None
  <2>4. Backfill'
    BY <1>0, <1>r, <2>1, <2>2 DEF Backfill, BackfillOf, UsageFrom, InStep, Past
  <2> QED BY <2>3, <2>4
<1>9. CASE NextDay
  <2>1. now' = now + 1 /\ UNCHANGED <<own, site, move, broken, raced, users, run>>
    BY <1>9 DEF NextDay
  <2>2. RowBounds(users.row)' /\ RunBounds(run)'
    BY <1>0, <2>1 DEF RowBounds, RunBounds, Rows
  <2>3. Backfill'
    BY <1>0, <2>1 DEF Backfill, BackfillOf, UsageFrom, InStep, Past
  <2> QED BY <2>2, <2>3
<1>10. CASE UNCHANGED vars
  BY <1>0, <1>10 DEF vars, RowBounds, RunBounds, Backfill, BackfillOf, UsageFrom, InStep, Past
<1>11. CASE UserFurther
  BY <1>11, FurtherKeeps DEF SiteInv
<1> QED BY <1>1, <1>2, <1>3, <1>4, <1>5, <1>6, <1>7, <1>8, <1>9, <1>10, <1>11 DEF Next, UserOps, UserStep

-----------------------------------------------------------------------------
(* An upstream: reading its days, and forgetting them.                     *)

\* What the dates have to be after a step, the day being the same.
Dated(u, r) ==
  /\ u.mem.through < now /\ u.db.through < now /\ r.state.through < now
  /\ r.pc \in {"reading", "save"} => r.from >= 0 /\ r.through < now /\ r.from <= r.next

LEMMA NoDates ==
  /\ NoRead.pc = "idle" /\ NoRead.state = NoState
  /\ NoState.status = "none" /\ NoState.through = None /\ None = -1
BY DEF NoRead, NoState, None

LEMMA FailedKeeps ==
  ASSUME TypeOK, Failed
  PROVE  up'.mem = up.mem /\ up'.db = up.db /\ up'.days = up.days /\ read' = NoRead
BY DEF Failed, TypeOK, Ups

\* Where a reading begins, and how far it goes.
LEMMA StartsAt ==
  ASSUME TypeOK, Calendar, NEW b \in BOOLEAN, SpendStart(b)
  PROVE  /\ read'.pc = "reading" /\ read'.state = NoState /\ read'.next = read'.from
         /\ read'.from \in Int /\ read'.from >= 0 /\ read'.through < now
         /\ read'.from <= now - BackfillDays \/ (up.mem.status = "ok" /\ read'.from <= up.mem.through + 1)
<1>1. PICK first : first = First(up.mem)
  OBVIOUS
<1>2. PICK next : next = IF up.mem.status = "ok" THEN up.mem.through + 1 ELSE now - BackfillDays
  OBVIOUS
<1>3. now \in Nat /\ BackfillDays \in Nat /\ up.mem.through \in Int
  BY SiteAssumption DEF TypeOK, Ups, States
<1>4. now - BackfillDays \in Int /\ next \in Int
  BY <1>2, <1>3
<1>5. first = Max({now - BackfillDays, next})
  BY <1>1, <1>2 DEF First
<1>6. first \in {now - BackfillDays, next} /\ first >= now - BackfillDays
  BY <1>4, <1>5, MaxIs
<1>7. PICK through \in Int : through = now - IF b THEN 1 ELSE 2
  BY <1>3
<1>8. PICK before : before = (up.mem.status = "ok")
  OBVIOUS
<1>9. read' = [NoRead EXCEPT !.pc = "reading", !.from = first, !.through = through, !.next = first, !.before = before]
  BY <1>1, <1>7, <1>8 DEF SpendStart
<1>10. read'.pc = "reading" /\ read'.state = NoState /\ read'.next = first /\ read'.from = first /\ read'.through = through
  BY <1>9 DEF NoRead
<1>11. now >= BackfillDays
  BY DEF Calendar
<1>12. first \in Int /\ first >= 0 /\ through < now
  BY <1>3, <1>4, <1>6, <1>7, <1>11
<1>13. first <= now - BackfillDays \/ (up.mem.status = "ok" /\ first <= up.mem.through + 1)
  BY <1>2, <1>3, <1>4, <1>6
<1> QED BY <1>10, <1>12, <1>13

LEMMA SpendDates ==
  ASSUME TypeOK, Calendar, Spend
  PROVE  Dated(up', read')
<1>0. /\ up \in Ups /\ read \in Reads /\ now \in Nat /\ now >= 1
      /\ up.mem.through < now /\ up.db.through < now /\ read.state.through < now
      /\ read.pc \in {"reading", "save"} => read.from >= 0 /\ read.through < now /\ read.from <= read.next
  BY SiteAssumption DEF TypeOK, Calendar
<1>a. ASSUME Failed PROVE Dated(up', read')
  BY <1>0, <1>a, FailedKeeps, NoDates DEF Dated
<1>1. ASSUME NEW b \in BOOLEAN, SpendStart(b) PROVE Dated(up', read')
  <2>1. up' = up
    BY <1>1 DEF SpendStart
  <2> QED BY <1>0, <1>1, <2>1, StartsAt, NoDates DEF Dated
<1>2. CASE SpendRequest
  <2>1. /\ up' = up /\ read.pc = "reading" /\ read'.pc = "reading" /\ read'.state = read.state
        /\ read'.from = read.from /\ read'.through = read.through /\ read'.next = read.next + 1
    BY <1>0, <1>2 DEF SpendRequest, Reads
  <2>2. read.from \in Int /\ read.next \in Int
    BY <1>0 DEF Reads
  <2> QED BY <1>0, <2>1, <2>2 DEF Dated
<1>3. ASSUME NEW b \in BOOLEAN, SpendRefused(b) PROVE Dated(up', read')
  <2>1. CASE ~(b /\ ~read.before)
    BY <1>3, <1>a, <2>1 DEF SpendRefused
  <2>2. CASE b /\ ~read.before
    <3>1. PICK state : state = [status |-> "denied", through |-> None, at |-> now]
      OBVIOUS
    <3>2. (up' = up \/ up' = [up EXCEPT !.db = state]) /\ read' = [read EXCEPT !.pc = "keep", !.state = state]
      BY <1>3, <2>2, <3>1 DEF SpendRefused
    <3>3. state.through < now
      BY <1>0, <3>1 DEF None
    <3>4. read'.pc = "keep" /\ read'.state = state
      BY <1>0, <3>2 DEF Reads
    <3>5. up'.mem = up.mem /\ (up'.db = up.db \/ up'.db = state)
      BY <1>0, <3>2 DEF Ups
    <3> QED BY <1>0, <3>3, <3>4, <3>5 DEF Dated
  <2> QED BY <2>1, <2>2
<1>4. ASSUME NEW f \in Fates, SpendPut(f) PROVE Dated(up', read')
  <2>1. PICK stored : stored = IF Stored(f) THEN WithRead ELSE up
    OBVIOUS
  <2>2. stored \in Ups /\ stored.mem = up.mem /\ stored.db = up.db
    BY <1>0, <2>1, WithReadIs DEF Ups
  <2>3. CASE f = "works"
    <3>1. up' = stored
      BY <1>4, <2>1, <2>3 DEF SpendPut
    <3>2. /\ read.pc = "reading" /\ read'.pc = "save" /\ read'.state = read.state
          /\ read'.from = read.from /\ read'.through = read.through /\ read'.next = read.next
      BY <1>0, <1>4, <2>3 DEF SpendPut, Reads
    <3> QED BY <1>0, <2>2, <3>1, <3>2 DEF Dated
  <2>4. CASE f # "works"
    <3>1. up' = [stored EXCEPT !.waiting = TRUE] /\ read' = NoRead
      BY <1>4, <2>1, <2>4 DEF SpendPut
    <3>2. up'.mem = up.mem /\ up'.db = up.db
      BY <2>2, <3>1 DEF Ups
    <3> QED BY <1>0, <3>1, <3>2, NoDates DEF Dated
  <2> QED BY <2>3, <2>4
<1>5. ASSUME NEW f \in Fates, SpendSave(f) PROVE Dated(up', read')
  <2>1. PICK state : state = [status |-> "ok", through |-> read.through, at |-> now]
    OBVIOUS
  <2>2. PICK stored : stored = IF Stored(f) THEN [up EXCEPT !.db = state] ELSE up
    OBVIOUS
  <2>3. read.pc = "save" /\ state.through < now
    BY <1>0, <1>5, <2>1 DEF SpendSave
  <2>4. stored \in [days : [Days -> Values], db : {up.db, state}, mem : {up.mem}, shown : [Days -> Values],
                    waiting : BOOLEAN]
    BY <1>0, <2>2 DEF Ups
  <2>5. stored.mem = up.mem /\ stored.db \in {up.db, state}
    BY <2>4
  <2>6. CASE f = "works"
    <3>1. up' = stored /\ read' = [read EXCEPT !.pc = "keep", !.state = state]
      BY <1>5, <2>1, <2>2, <2>6 DEF SpendSave
    <3>2. read'.pc = "keep" /\ read'.state = state
      BY <1>0, <3>1 DEF Reads
    <3> QED BY <1>0, <2>3, <2>5, <3>1, <3>2 DEF Dated
  <2>7. CASE f # "works"
    <3>1. up' = [stored EXCEPT !.waiting = TRUE] /\ read' = NoRead
      BY <1>5, <2>1, <2>2, <2>7 DEF SpendSave
    <3>2. up'.mem = stored.mem /\ up'.db = stored.db
      BY <2>4, <3>1
    <3> QED BY <1>0, <2>3, <2>5, <3>1, <3>2, NoDates DEF Dated
  <2> QED BY <2>6, <2>7
<1>6. CASE SpendKeep
  <2>1. up'.mem = read.state /\ up'.db = up.db
    BY <1>0, <1>6 DEF SpendKeep, Ups
  <2>2. read'.pc = "list" /\ read'.state = read.state
    BY <1>0, <1>6 DEF SpendKeep, Reads
  <2> QED BY <1>0, <2>1, <2>2 DEF Dated
<1>7. ASSUME NEW b \in BOOLEAN, SpendList(b) PROVE Dated(up', read')
  <2>1. CASE b
    <3>1. up' = up /\ read'.pc = "show" /\ read'.state = read.state
      BY <1>0, <1>7, <2>1 DEF SpendList, Reads
    <3> QED BY <1>0, <3>1 DEF Dated
  <2>2. CASE ~b
    <3>1. Failed \/ (read' = NoRead /\ up' = up)
      BY <1>7, <2>2 DEF SpendList
    <3> QED BY <1>0, <1>a, <3>1, NoDates DEF Dated
  <2> QED BY <2>1, <2>2
<1>8. CASE SpendShow
  <2>1. up'.mem = up.mem /\ up'.db = up.db /\ read' = NoRead
    BY <1>0, <1>8 DEF SpendShow, Ups
  <2> QED BY <1>0, <2>1, NoDates DEF Dated
<1>9. CASE RetryDue
  <2>1. up'.mem = up.mem /\ up'.db = up.db /\ read' = read
    BY <1>0, <1>9 DEF RetryDue, Ups
  <2> QED BY <1>0, <2>1 DEF Dated
<1> QED BY <1>1, <1>2, <1>3, <1>4, <1>5, <1>6, <1>7, <1>8, <1>9 DEF Spend

\* The parts of Progress, for given days, states and reading.
SpendOf(days, s) == s.status = "ok" => \A d \in (now - BackfillDays)..s.through : days[d] = site
Gapless(u, r) ==
  /\ Past({"memory", "done"}) => SpendOf(u.days, u.db)
  /\ Past({"done"}) => SpendOf(u.days, u.mem)
  /\ r.pc \in {"reading", "save"} =>
       r.from <= now - BackfillDays \/ (u.mem.status = "ok" /\ r.from <= u.mem.through + 1)
  /\ r.pc = "reading" => \A d \in r.from..(r.next - 1) : r.got[d] = site
  /\ r.pc = "save" => \A d \in r.from..r.through : u.days[d] = site
  /\ r.pc = "keep" /\ ~broken => SpendOf(u.days, r.state)

LEMMA SpendGapless ==
  ASSUME SiteInv, Calendar, ~own, ~raced, ~raced', Gapless(up, read), Spend
  PROVE  Gapless(up', read')
<1>0. /\ up \in Ups /\ read \in Reads /\ now \in Nat /\ BackfillDays \in Nat /\ KeepDays \in Nat
      /\ KeepDays >= BackfillDays /\ now >= BackfillDays /\ now <= MaxTime /\ MaxTime \in Nat
      /\ up.mem.through < now /\ up.db.through < now
      /\ read.pc \in {"reading", "save"} => read.from >= 0 /\ read.through < now /\ read.from <= read.next
  BY SiteAssumption DEF SiteInv, TypeOK, Calendar
<1>i. /\ read.from \in Int /\ read.through \in Int /\ read.next \in Int
      /\ up.mem.through \in Int /\ up.db.through \in Int /\ read.state.through \in Int
      /\ up.days \in [Days -> Values] /\ read.got \in [Days -> Values]
  BY <1>0 DEF Reads, Ups, States
<1>r. read.pc # "idle" => move.pc = "idle"
  BY DEF SiteInv, Reading
<1>g. /\ Past({"memory", "done"}) => SpendOf(up.days, up.db)
      /\ Past({"done"}) => SpendOf(up.days, up.mem)
      /\ read.pc \in {"reading", "save"} =>
           read.from <= now - BackfillDays \/ (up.mem.status = "ok" /\ read.from <= up.mem.through + 1)
      /\ read.pc = "reading" => \A d \in read.from..(read.next - 1) : read.got[d] = site
      /\ read.pc = "save" => \A d \in read.from..read.through : up.days[d] = site
      /\ read.pc = "keep" /\ ~broken => SpendOf(up.days, read.state)
  BY DEF Gapless
<1>n. NoRead.pc = "idle"
  BY NoDates
<1>b. ASSUME up'.mem = up.mem, up'.db = up.db, up'.days = up.days, read'.pc \in {"idle", "list", "show"}
      PROVE  Gapless(up', read')
  BY <1>g, <1>b DEF Gapless
<1>a. ASSUME Failed PROVE Gapless(up', read')
  BY <1>a, <1>b, <1>n, FailedKeeps DEF SiteInv
<1>1. ASSUME NEW b \in BOOLEAN, SpendStart(b) PROVE Gapless(up', read')
  <2>1. up' = up
    BY <1>1 DEF SpendStart
  <2>2. /\ read'.pc = "reading" /\ read'.next = read'.from /\ read'.from \in Int
        /\ read'.from <= now - BackfillDays \/ (up.mem.status = "ok" /\ read'.from <= up.mem.through + 1)
    BY <1>1, StartsAt DEF SiteInv
  <2>3. PICK r : r = read'
    OBVIOUS
  <2>4. \A d \in r.from..(r.next - 1) : r.got[d] = site
    BY <2>2, <2>3
  <2>5. Gapless(up, r)
    BY <1>g, <2>2, <2>3, <2>4 DEF Gapless
  <2> QED BY <2>1, <2>3, <2>5
<1>2. CASE SpendRequest
  <2>1. PICK r : r = [read EXCEPT !.got[read.next] = site, !.next = @ + 1]
    OBVIOUS
  <2>2. up' = up /\ read' = r /\ read.pc = "reading" /\ read.next <= read.through
    BY <1>2, <2>1 DEF SpendRequest
  <2>3. r.pc = "reading" /\ r.from = read.from /\ r.next = read.next + 1 /\ r.got = [read.got EXCEPT ![read.next] = site]
    BY <1>0, <2>1, <2>2 DEF Reads
  <2>4. read.next \in Days
    BY <1>0, <1>i, <2>2 DEF Days
  <2>5. ASSUME NEW d \in r.from..(r.next - 1) PROVE r.got[d] = site
    <3>1. d \in read.from..(read.next - 1) \/ d = read.next
      BY <1>i, <2>3, <2>5
    <3> QED BY <1>g, <1>i, <2>2, <2>3, <2>4, <3>1
  <2>6. Gapless(up, r)
    BY <1>g, <2>2, <2>3, <2>5 DEF Gapless
  <2> QED BY <2>2, <2>6
<1>3. ASSUME NEW b \in BOOLEAN, SpendRefused(b) PROVE Gapless(up', read')
  <2>1. CASE ~(b /\ ~read.before)
    BY <1>3, <1>a, <2>1 DEF SpendRefused
  <2>2. CASE b /\ ~read.before
    <3>1. PICK state : state = [status |-> "denied", through |-> None, at |-> now]
      OBVIOUS
    <3>2. (up' = up \/ up' = [up EXCEPT !.db = state]) /\ read' = [read EXCEPT !.pc = "keep", !.state = state]
      BY <1>3, <2>2, <3>1 DEF SpendRefused
    <3>3. SpendOf(up.days, state)
      BY <3>1 DEF SpendOf
    <3>4. read'.pc = "keep" /\ read'.state = state
      BY <1>0, <3>2 DEF Reads
    <3>5. up'.mem = up.mem /\ up'.days = up.days /\ (up'.db = up.db \/ up'.db = state)
      BY <1>0, <3>2 DEF Ups
    <3> QED BY <1>g, <3>3, <3>4, <3>5 DEF Gapless
  <2> QED BY <2>1, <2>2
<1>4. ASSUME NEW f \in Fates, SpendPut(f) PROVE Gapless(up', read')
  <2>1. PICK days : days = [d \in Days |-> IF d \in read.from..read.through THEN read.got[d] ELSE up.days[d]]
    OBVIOUS
  <2>2. read.pc = "reading" /\ read.next > read.through
    BY <1>4 DEF SpendPut
  <2>3. \A d \in read.from..read.through : d \in Days /\ read.got[d] = site
    BY <1>0, <1>i, <1>g, <2>2 DEF Days
  <2>4. \A d \in read.from..read.through : days[d] = site
    BY <2>1, <2>3
  <2>5. \A d \in Days : up.days[d] = site => days[d] = site
    BY <2>1, <2>3
  <2>6. ASSUME NEW s, s.through \in Int, s.through < now, SpendOf(up.days, s) PROVE SpendOf(days, s)
    <3>1. \A d \in (now - BackfillDays)..s.through : d \in Days
      BY <1>0, <2>6 DEF Days
    <3> QED BY <2>5, <2>6, <3>1 DEF SpendOf
  <2>7. /\ Past({"memory", "done"}) => SpendOf(days, up.db)
        /\ Past({"done"}) => SpendOf(days, up.mem)
    BY <1>0, <1>i, <1>g, <2>6
  <2>8. PICK stored : stored = IF Stored(f) THEN WithRead ELSE up
    OBVIOUS
  <2>9. stored \in Ups /\ stored.mem = up.mem /\ stored.db = up.db
    BY <1>0, <2>8, WithReadIs DEF Ups
  <2>10. IF Stored(f) THEN stored.days = days ELSE stored.days = up.days
    BY <1>0, <2>1, <2>8 DEF WithRead, Ups
  <2>11. CASE f = "works"
    <3>1. up' = stored /\ stored.days = days
      BY <1>4, <2>8, <2>10, <2>11 DEF SpendPut, Stored
    <3>2. read'.pc = "save" /\ read'.from = read.from /\ read'.through = read.through
      BY <1>0, <1>4, <2>11 DEF SpendPut, Reads
    <3> QED BY <1>g, <2>2, <2>4, <2>7, <2>9, <3>1, <3>2 DEF Gapless
  <2>12. CASE f # "works"
    <3>1. up' = [stored EXCEPT !.waiting = TRUE] /\ read' = NoRead
      BY <1>4, <2>8, <2>12 DEF SpendPut
    <3>2. up'.mem = up.mem /\ up'.db = up.db /\ up'.days \in {days, up.days}
      BY <2>9, <2>10, <3>1 DEF Ups
    <3> QED BY <1>g, <1>n, <2>7, <3>1, <3>2 DEF Gapless
  <2> QED BY <2>11, <2>12
<1>5. ASSUME NEW f \in Fates, SpendSave(f) PROVE Gapless(up', read')
  <2>1. PICK state : state = [status |-> "ok", through |-> read.through, at |-> now]
    OBVIOUS
  <2>2. PICK stored : stored = IF Stored(f) THEN [up EXCEPT !.db = state] ELSE up
    OBVIOUS
  <2>3. read.pc = "save"
    BY <1>5 DEF SpendSave
  <2>4. stored \in [days : {up.days}, db : {up.db, state}, mem : {up.mem}, shown : [Days -> Values],
                    waiting : BOOLEAN]
    BY <1>0, <2>2 DEF Ups
  <2>5. stored.days = up.days /\ stored.mem = up.mem /\ stored.db \in {up.db, state}
    BY <2>4
  <2>6. ASSUME ~broken, NEW d \in (now - BackfillDays)..read.through PROVE up.days[d] = site
    <3>1. CASE d >= read.from
      BY <1>0, <1>i, <1>g, <2>3, <2>6, <3>1
    <3>2. CASE d < read.from
      <4>1. up.mem.status = "ok" /\ d \in (now - BackfillDays)..up.mem.through
        BY <1>0, <1>i, <1>g, <2>3, <2>6, <3>2
      <4>2. Past({"done"})
        BY <1>r, <2>3, <2>6 DEF Past
      <4> QED BY <1>g, <4>1, <4>2 DEF SpendOf
    <3> QED BY <1>0, <1>i, <3>1, <3>2
  <2>7. ~broken => SpendOf(up.days, state)
    BY <2>1, <2>6 DEF SpendOf
  <2>8. Past({"memory", "done"}) => ~broken
    BY <1>r, <2>3 DEF Past
  <2>9. Past({"memory", "done"}) => SpendOf(up.days, stored.db)
    BY <1>g, <2>5, <2>7, <2>8
  <2>10. CASE f = "works"
    <3>1. up' = stored /\ read' = [read EXCEPT !.pc = "keep", !.state = state]
      BY <1>5, <2>1, <2>2, <2>10 DEF SpendSave
    <3>2. read'.pc = "keep" /\ read'.state = state
      BY <1>0, <3>1 DEF Reads
    <3> QED BY <1>g, <2>5, <2>7, <2>9, <3>1, <3>2 DEF Gapless
  <2>11. CASE f # "works"
    <3>1. up' = [stored EXCEPT !.waiting = TRUE] /\ read' = NoRead
      BY <1>5, <2>1, <2>2, <2>11 DEF SpendSave
    <3>2. up'.mem = up.mem /\ up'.db = stored.db /\ up'.days = up.days
      BY <2>4, <2>5, <3>1
    <3> QED BY <1>g, <1>n, <2>9, <3>1, <3>2 DEF Gapless
  <2> QED BY <2>10, <2>11
<1>6. CASE SpendKeep
  <2>1. PICK days : days = IF read.state.status = "ok" THEN Pruned(up.days) ELSE up.days
    OBVIOUS
  <2>2. up'.mem = read.state /\ up'.db = up.db /\ up'.days = days
    BY <1>0, <1>6, <2>1 DEF SpendKeep, Ups
  <2>3. read'.pc = "list" /\ read.pc = "keep"
    BY <1>0, <1>6 DEF SpendKeep, Reads
  <2>4. ASSUME NEW d \in Int, d >= now - BackfillDays, d < now PROVE days[d] = up.days[d]
    <3>1. d \in Days /\ ~(d < now - KeepDays)
      BY <1>0, <2>4 DEF Days
    <3> QED BY <2>1, <3>1 DEF Pruned
  <2>5. ASSUME NEW s, s.through \in Int, s.through < now, SpendOf(up.days, s) PROVE SpendOf(days, s)
    <3>1. \A d \in (now - BackfillDays)..s.through : d \in Int /\ d >= now - BackfillDays /\ d < now
      BY <1>0, <2>5
    <3> QED BY <2>4, <2>5, <3>1 DEF SpendOf
  <2>6. /\ Past({"memory", "done"}) => SpendOf(days, up.db)
        /\ ~broken => SpendOf(days, read.state)
    BY <1>0, <1>i, <1>g, <2>3, <2>5 DEF Calendar
  <2>7. Past({"done"}) => ~broken
    BY <1>r, <2>3 DEF Past
  <2> QED BY <2>2, <2>3, <2>6, <2>7 DEF Gapless
<1>7. ASSUME NEW b \in BOOLEAN, SpendList(b) PROVE Gapless(up', read')
  <2>1. CASE b
    <3>1. up' = up /\ read'.pc = "show"
      BY <1>0, <1>7, <2>1 DEF SpendList, Reads
    <3> QED BY <1>b, <3>1
  <2>2. CASE ~b
    <3>1. Failed \/ (read' = NoRead /\ up' = up)
      BY <1>7, <2>2 DEF SpendList
    <3> QED BY <1>a, <1>b, <1>n, <3>1
  <2> QED BY <2>1, <2>2
<1>8. CASE SpendShow
  <2>1. up'.mem = up.mem /\ up'.db = up.db /\ up'.days = up.days /\ read' = NoRead
    BY <1>0, <1>8 DEF SpendShow, Ups
  <2> QED BY <1>b, <1>n, <2>1
<1>9. CASE RetryDue
  <2>1. up'.mem = up.mem /\ up'.db = up.db /\ up'.days = up.days /\ read' = read
    BY <1>0, <1>9 DEF RetryDue, Ups
  <2> QED BY <1>g, <2>1 DEF Gapless
<1> QED BY <1>1, <1>2, <1>3, <1>4, <1>5, <1>6, <1>7, <1>8, <1>9 DEF Spend

LEMMA ProgressIs == Progress <=> (~own /\ ~raced => Gapless(up, read))
BY DEF Progress, Gapless, SpendIn, SpendOf

SpendDays == Dated(up, read) /\ now >= BackfillDays /\ now <= MaxTime

LEMMA CalendarIs == Calendar <=> SpendDays /\ RowBounds(users.row) /\ RunBounds(run)
BY DEF Calendar, SpendDays, Dated

LEMMA UpCover ==
  ASSUME SiteInv, Calendar, Progress, ~own, [Next]_vars
  PROVE  SpendDays' /\ Progress'
<1>0. /\ up \in Ups /\ read \in Reads /\ now \in Nat /\ now >= 1 /\ BackfillDays \in Nat /\ MaxTime \in Nat
      /\ move \in Moves /\ up.mem.through \in Int /\ up.db.through \in Int
      /\ move.pc \in {"idle", "days", "state", "memory", "done"}
      /\ Dated(up, read) /\ now >= BackfillDays /\ now <= MaxTime
      /\ (~raced /\ move.pc # "idle" => read.pc = "idle")
  BY SiteAssumption, CalendarIs DEF SiteInv, TypeOK, Ups, States, Split, Reading, SpendDays
<1>g. ~raced =>
        /\ Past({"memory", "done"}) => SpendOf(up.days, up.db)
        /\ Past({"done"}) => SpendOf(up.days, up.mem)
  BY ProgressIs DEF Gapless
<1>1. CASE Spend
  <2>1. UNCHANGED <<now, own, site, move, broken>>
    BY <1>1 DEF Spend, SpendStart, SpendRequest, SpendRefused, SpendPut, SpendSave, SpendKeep,
       SpendList, SpendShow, RetryDue
  <2>2. raced => raced'
    BY <1>1, SpendReads
  <2>3. PICK u : u = up'
    OBVIOUS
  <2>4. PICK r : r = read'
    OBVIOUS
  <2>5. Dated(u, r)
    BY <1>1, <2>3, <2>4, SpendDates DEF SiteInv
  <2>6. ~raced' => Gapless(u, r)
    BY <1>1, <2>2, <2>3, <2>4, SpendGapless, ProgressIs
  <2>7. SpendDays'
    BY <1>0, <2>1, <2>3, <2>4, <2>5 DEF SpendDays, Dated
  <2>8. Progress'
    BY <2>1, <2>3, <2>4, <2>6 DEF Progress, Gapless, SpendIn, SpendOf, Past
  <2> QED BY <2>7, <2>8
<1>2. CASE UserOps
  BY <1>2 DEF SiteInv, Split, UserOps, UserStart, UserFurther, UserList, UserPoints, UserAsk, UserUsage, UserWritten,
     UserRow, UserPlan, UserDay, UserDayWritten, UserAlert, UserEnd
\* What is left to show when the day is the same and nothing is read.
<1>a. ASSUME now' = now, site' = site, own' = own, read' = read,
             ~raced' => read.pc = "idle",
             up'.mem.through < now, up'.db.through < now,
             ~raced' => (Past({"memory", "done"})' => SpendOf(up'.days, up'.db)) /\ (Past({"done"})' => SpendOf(up'.days, up'.mem))
      PROVE  SpendDays' /\ Progress'
  <2>1. SpendDays'
    BY <1>0, <1>a DEF SpendDays, Dated
  <2>2. Progress'
    BY <1>a DEF Progress, SpendIn, SpendOf
  <2> QED BY <2>1, <2>2
<1>4. ASSUME NEW kind \in {"address", "purge"}, MoveBegin(kind)
      PROVE  SpendDays' /\ Progress'
  <2>1. /\ UNCHANGED <<now, own, up, read>> /\ move'.pc = "days"
        /\ raced' = (read.pc # "idle")
    BY <1>4 DEF MoveBegin
  <2>2. SpendDays'
    BY <1>0, <2>1 DEF SpendDays, Dated
  <2>3. Progress'
    BY <2>1 DEF Progress, Past
  <2> QED BY <2>2, <2>3
<1>5. ASSUME NEW f \in Fates, MoveStep(f) PROVE SpendDays' /\ Progress'
  <2>1. UNCHANGED <<now, own, site, raced, read>> /\ move.pc \in {"days", "state"}
    BY <1>0, <1>5 DEF MoveStep
  <2>2. IF f = "works" THEN move'.pc = IF move.pc = "days" THEN "state" ELSE "memory"
                 ELSE move'.pc = "idle" /\ broken'
    BY <1>0, <1>5, <2>1 DEF MoveStep, Moves, Still
  <2>3. /\ up'.db = IF Stored(f) /\ move.pc = "state" THEN NoState ELSE up.db
        /\ up'.mem = up.mem
    BY <1>0, <1>5 DEF MoveStep, Ups
  <2>4. SpendOf(up'.days, NoState)
    BY NoDates DEF SpendOf
  <2>5. up'.mem.through < now /\ up'.db.through < now
    BY <1>0, <2>3, NoDates DEF Dated
  <2>6. (Past({"memory", "done"})' => SpendOf(up'.days, up'.db)) /\ (Past({"done"})' => SpendOf(up'.days, up'.mem))
    BY <2>1, <2>2, <2>3, <2>4 DEF Past, Stored
  <2>7. ~raced' => read.pc = "idle"
    BY <1>0, <2>1
  <2> QED BY <1>a, <2>1, <2>5, <2>6, <2>7
<1>6. CASE MoveMemory
  <2>1. UNCHANGED <<now, own, site, raced, read, broken>> /\ move.pc = "memory"
    BY <1>6 DEF MoveMemory
  <2>2. move'.pc = "done" /\ up'.days = up.days /\ up'.db = up.db /\ up'.mem = NoState
    BY <1>0, <1>6 DEF MoveMemory, Ups, Moves
  <2>3. SpendOf(up'.days, NoState)
    BY NoDates DEF SpendOf
  <2>4. up'.mem.through < now /\ up'.db.through < now
    BY <1>0, <2>2, NoDates DEF Dated
  <2>5. ~raced' => (Past({"memory", "done"})' => SpendOf(up'.days, up'.db)) /\ (Past({"done"})' => SpendOf(up'.days, up'.mem))
    BY <1>g, <2>1, <2>2, <2>3 DEF Past
  <2>6. ~raced' => read.pc = "idle"
    BY <1>0, <2>1
  <2> QED BY <1>a, <2>1, <2>4, <2>5, <2>6
<1>7. ASSUME NEW works \in BOOLEAN, MoveDone(works) PROVE SpendDays' /\ Progress'
  <2>1. UNCHANGED <<now, own, site, raced, read, up>> /\ move.pc = "done" /\ move'.pc = "idle"
    BY <1>7 DEF MoveDone, Still
  <2>2. up'.mem.through < now /\ up'.db.through < now
    BY <1>0, <2>1 DEF Dated
  <2>3. ~raced' => (Past({"memory", "done"})' => SpendOf(up'.days, up'.db)) /\ (Past({"done"})' => SpendOf(up'.days, up'.mem))
    BY <1>g, <2>1 DEF Past
  <2>4. ~raced' => read.pc = "idle"
    BY <1>0, <2>1
  <2> QED BY <1>a, <2>1, <2>2, <2>3, <2>4
<1>8. CASE Crash
  <2>1. /\ UNCHANGED <<now, own, site, raced>> /\ read' = NoRead
        /\ move'.pc = "idle" /\ broken' = (broken \/ move.pc # "idle")
    BY <1>8 DEF Crash, Still
  <2>2. up'.days = up.days /\ up'.mem = up.db /\ up'.db = up.db
    BY <1>0, <1>8 DEF Crash, Ups
  <2>3. SpendDays'
    BY <1>0, <2>1, <2>2, NoDates DEF SpendDays, Dated
  <2>4. Progress'
    BY <1>g, <2>1, <2>2, NoDates DEF Progress, SpendIn, SpendOf, Past
  <2> QED BY <2>3, <2>4
<1>9. CASE NextDay
  <2>1. now < MaxTime /\ now' = now + 1 /\ UNCHANGED <<own, site, move, broken, raced, up, read>>
    BY <1>9 DEF NextDay
  <2>2. read.state.through \in Int /\ read.through \in Int /\ read.from \in Int
    BY <1>0 DEF Reads, States
  <2>3. SpendDays'
    BY <1>0, <2>1, <2>2 DEF SpendDays, Dated
  <2>4. ASSUME NEW s \in States, SpendIn(s) PROVE SpendIn(s)'
    <3>1. \A d \in (now' - BackfillDays)..s.through : d \in (now - BackfillDays)..s.through
      BY <1>0, <2>1 DEF States
    <3> QED BY <2>1, <2>4, <3>1 DEF SpendIn
  <2>5. up.mem \in States /\ up.db \in States /\ read.state \in States
    BY <1>0 DEF Ups, Reads
  <2>6. Progress'
    <3>1. read.from <= now - BackfillDays => read.from <= now' - BackfillDays
      BY <1>0, <2>1, <2>2
    <3>2. /\ SpendIn(up.mem) => SpendIn(up.mem)'
          /\ SpendIn(up.db) => SpendIn(up.db)'
          /\ SpendIn(read.state) => SpendIn(read.state)'
      BY <2>1, <2>4, <2>5 DEF SpendIn
    <3> QED BY <2>1, <3>1, <3>2 DEF Progress, Past
  <2> QED BY <2>3, <2>6
<1>10. CASE UNCHANGED vars
  BY <1>0, <1>10 DEF vars, SpendDays, Dated, Progress, SpendIn, Past
<1> QED BY <1>1, <1>2, <1>4, <1>5, <1>6, <1>7, <1>8, <1>9, <1>10 DEF Next

\* The own site has no spend, and an upstream no users.
LEMMA ApartNext ==
  ASSUME SiteInv, Apart, [Next]_vars
  PROVE  Apart'
<1>0. /\ up \in Ups /\ users \in Accounts /\ read \in Reads
      /\ own => read.pc = "idle"
      /\ ~own => run.pc = "idle" /\ users.row = NoRow
      /\ own => up.mem.status = "none" /\ up.db.status = "none"
  BY DEF SiteInv, TypeOK, Split, Apart
<1>1. CASE Spend
  <2>1. UNCHANGED <<own, users>>
    BY <1>1 DEF Spend, SpendStart, SpendRequest, SpendRefused, SpendPut, SpendSave, SpendKeep,
       SpendList, SpendShow, RetryDue
  <2>2. own => up'.mem = up.mem /\ up'.db = up.db
    BY <1>0, <1>1 DEF Spend, SpendStart, SpendRequest, SpendRefused, SpendPut, SpendSave, SpendKeep,
       SpendList, SpendShow, RetryDue, Ups
  <2> QED BY <1>0, <2>1, <2>2 DEF Apart
<1>2. CASE UserOps
  <2>1. UNCHANGED <<own, up>> /\ own
    BY <1>0, <1>2 DEF UserOps, UserStart, UserFurther, UserFrame, UserList, UserPoints, UserAsk, UserUsage, UserWritten,
       UserRow, UserPlan, UserDay, UserDayWritten, UserAlert, UserEnd
  <2> QED BY <1>0, <2>1 DEF Apart
<1>4. ASSUME NEW kind \in {"address", "purge"}, MoveBegin(kind) PROVE Apart'
  BY <1>0, <1>4 DEF MoveBegin, Apart
<1>5. ASSUME NEW f \in Fates, MoveStep(f) PROVE Apart'
  <2>1. own' = own
    BY <1>5 DEF MoveStep
  <2>2. users'.row = users.row \/ users'.row = NoRow
    BY <1>0, <1>5 DEF MoveStep, Accounts
  <2>3. up'.mem = up.mem /\ (up'.db = up.db \/ up'.db = NoState)
    BY <1>0, <1>5 DEF MoveStep, Ups
  <2> QED BY <1>0, <2>1, <2>2, <2>3, NoDates DEF Apart
<1>6. CASE MoveMemory
  <2>1. UNCHANGED <<own, users>> /\ up'.mem = NoState /\ up'.db = up.db
    BY <1>0, <1>6 DEF MoveMemory, Ups
  <2> QED BY <1>0, <2>1, NoDates DEF Apart
<1>7. ASSUME NEW works \in BOOLEAN, MoveDone(works) PROVE Apart'
  BY <1>0, <1>7 DEF MoveDone, Apart
<1>8. CASE Crash
  <2>1. own' = own /\ users'.row = users.row /\ up'.mem = up.db /\ up'.db = up.db
    BY <1>0, <1>8 DEF Crash, Ups, Accounts
  <2> QED BY <1>0, <2>1 DEF Apart
<1>9. CASE NextDay
  BY <1>0, <1>9 DEF NextDay, Apart
<1>10. CASE UNCHANGED vars
  BY <1>0, <1>10 DEF vars, Apart
<1> QED BY <1>1, <1>2, <1>4, <1>5, <1>6, <1>7, <1>8, <1>9, <1>10 DEF Next

LEMMA OwnDates ==
  ASSUME SiteInv, Calendar, own, [Next]_vars
  PROVE  SpendDays'
<1>0. /\ up \in Ups /\ now \in Nat /\ now >= 1 /\ MaxTime \in Nat /\ BackfillDays \in Nat
      /\ read.pc = "idle" /\ Dated(up, read) /\ now >= BackfillDays /\ now <= MaxTime
      /\ up.mem.through \in Int /\ up.db.through \in Int /\ read.state.through \in Int
  BY SiteAssumption, CalendarIs DEF SiteInv, TypeOK, Ups, Reads, States, Split, SpendDays
\* The states are the ones there were, or none.
<1>1. /\ now' \in {now, now + 1} /\ now' <= MaxTime
      /\ read' = read \/ read' = NoRead
      /\ up'.mem \in {up.mem, up.db, NoState} /\ up'.db \in {up.db, NoState}
  <2>1. CASE Spend
    BY <1>0, <2>1 DEF Spend, SpendStart, SpendRequest, SpendRefused, SpendPut, SpendSave, SpendKeep,
       SpendList, SpendShow, RetryDue, Ups
  <2>2. CASE UserOps
    BY <1>0, <2>2 DEF UserOps, UserStart, UserFurther, UserFrame, UserList, UserPoints, UserAsk, UserUsage, UserWritten,
       UserRow, UserPlan, UserDay, UserDayWritten, UserAlert, UserEnd
  <2>3. ASSUME NEW kind \in {"address", "purge"}, MoveBegin(kind)
        PROVE  now' = now /\ read' = read /\ up' = up
    BY <2>3 DEF MoveBegin
  <2>4. ASSUME NEW f \in Fates, MoveStep(f)
        PROVE  now' = now /\ read' = read /\ up'.mem = up.mem /\ up'.db \in {up.db, NoState}
    BY <1>0, <2>4 DEF MoveStep, Ups
  <2>5. CASE MoveMemory
    BY <1>0, <2>5 DEF MoveMemory, Ups
  <2>6. ASSUME NEW works \in BOOLEAN, MoveDone(works)
        PROVE  now' = now /\ read' = read /\ up' = up
    BY <2>6 DEF MoveDone
  <2>7. CASE Crash
    BY <1>0, <2>7 DEF Crash, Ups
  <2>8. CASE NextDay
    BY <1>0, <2>8 DEF NextDay
  <2>9. CASE UNCHANGED vars
    BY <1>0, <2>9 DEF vars
  <2> QED BY <1>0, <2>1, <2>2, <2>3, <2>4, <2>5, <2>6, <2>7, <2>8, <2>9 DEF Next
<1>2. up'.mem.through < now /\ up'.db.through < now
  BY <1>0, <1>1, NoDates DEF Dated
<1>3. up'.mem.through \in Int /\ up'.db.through \in Int
  BY <1>0, <1>1, NoDates
<1>4. read'.pc = "idle" /\ read'.state.through < now /\ read'.state.through \in Int
  BY <1>0, <1>1, NoDates DEF Dated
<1> QED BY <1>0, <1>1, <1>2, <1>3, <1>4 DEF SpendDays, Dated

\* Nothing of a round happens to an upstream.
LEMMA RunRests ==
  ASSUME SiteInv, ~own, [Next]_vars
  PROVE  /\ run'.pc = "idle" /\ (run'.row = run.row \/ run'.row = NoRow)
         /\ now \in Nat /\ now' \in Nat /\ now' >= now
<1>0. run.pc = "idle" /\ now \in Nat
  BY DEF SiteInv, TypeOK, Split
<1>1. run' = run \/ run' = NoRun
  BY <1>0 DEF Next, vars, Spend, SpendStart, SpendRequest, SpendRefused, SpendPut, SpendSave,
     SpendKeep, SpendList, SpendShow, RetryDue, UserOps, UserStart, UserFurther, UserFrame, UserList,
     UserPoints, UserAsk, UserUsage, UserWritten, UserRow, UserPlan, UserDay, UserDayWritten,
     UserAlert, UserEnd, MoveBegin, MoveStep, MoveMemory, MoveDone, Crash, NextDay
<1>2. now' = now \/ now' = now + 1
  BY <1>0 DEF Next, vars, Spend, SpendStart, SpendRequest, SpendRefused, SpendPut, SpendSave,
     SpendKeep, SpendList, SpendShow, RetryDue, UserOps, UserStart, UserFurther, UserFrame, UserList,
     UserPoints, UserAsk, UserUsage, UserWritten, UserRow, UserPlan, UserDay, UserDayWritten,
     UserAlert, UserEnd, MoveBegin, MoveStep, MoveMemory, MoveDone, Crash, NextDay
<1> QED BY <1>0, <1>1, <1>2 DEF NoRun

CoverInv == Calendar /\ Backfill /\ Apart /\ Progress

LEMMA CoverNext ==
  ASSUME SiteInv, CoverInv, [Next]_vars
  PROVE  CoverInv'
<1>1. own' = own
  BY DEF Next, vars, Spend, SpendStart, SpendRequest, SpendRefused, SpendPut, SpendSave,
     SpendKeep, SpendList, SpendShow, RetryDue, UserOps, UserStart, UserFurther, UserFrame, UserList,
     UserPoints, UserAsk, UserUsage, UserWritten, UserRow, UserPlan, UserDay, UserDayWritten,
     UserAlert, UserEnd, MoveBegin, MoveStep, MoveMemory, MoveDone, Crash, NextDay
<1>2. Apart'
  BY ApartNext DEF CoverInv
<1>3. CASE own
  <2>1. RowBounds(users.row)' /\ RunBounds(run)' /\ Backfill'
    BY <1>3, OwnCover DEF CoverInv
  <2>2. Progress'
    BY <1>1, <1>3 DEF Progress
  <2>3. SpendDays'
    BY <1>3, OwnDates DEF CoverInv
  <2>4. Calendar'
    BY <2>1, <2>3 DEF Calendar, SpendDays, Dated
  <2> QED BY <1>2, <2>1, <2>2, <2>4 DEF CoverInv
<1>4. CASE ~own
  <2>1. SpendDays' /\ Progress'
    BY <1>4, UpCover DEF CoverInv
  <2>2. Backfill'
    BY <1>1, <1>4 DEF Backfill, BackfillOf
  <2>3. RowBounds(users.row)' /\ RunBounds(run)'
    <3>1. users'.row = NoRow
      BY <1>1, <1>2, <1>4 DEF Apart
    <3>2. run'.pc = "idle" /\ (run'.row = run.row \/ run'.row = NoRow)
      BY <1>4, RunRests
    <3>3. now' \in Nat /\ now' >= now /\ now \in Nat
      BY <1>4, RunRests
    <3>4. RowBounds(run.row) /\ run.row \in Rows
      BY DEF CoverInv, Calendar, RunBounds, SiteInv, TypeOK, Rounds
    <3>5. RowBounds(users.row)'
      <4>1. NoRow.target = -1 /\ NoRow.cursor = -1 /\ NoRow.started = -1
        BY DEF NoRow, None
      <4>2. PICK n \in Nat : n = now'
        BY <3>3
      <4>3. -1 >= -1 /\ -1 <= n + 1 /\ -1 <= n
        OBVIOUS
      <4> QED BY <3>1, <4>1, <4>2, <4>3 DEF RowBounds, None
    <3>6. RunBounds(run)'
      BY <3>2, <3>3, <3>4 DEF RunBounds, RowBounds, Rows, NoRow, None
    <3> QED BY <3>5, <3>6
  <2>4. Calendar'
    BY <2>1, <2>3 DEF Calendar, SpendDays, Dated
  <2> QED BY <1>2, <2>1, <2>2, <2>4 DEF CoverInv
<1> QED BY <1>3, <1>4

LEMMA CoverSays == SiteInv /\ CoverInv => Covered
<1> SUFFICES ASSUME SiteInv, CoverInv, there, move.pc = "idle", ~broken, ~raced
             PROVE  /\ \A s \in {up.mem, up.db} :
                         s.status = "ok" => \A d \in (now - BackfillDays)..s.through : up.days[d] = site
                    /\ Complete(users.row) => \A d \in users.row.cursor..users.row.started : users.usage[d] = site
  BY DEF Covered
<1>1. Past({"memory", "done"}) /\ Past({"done"}) /\ Past({"alert", "done"})
  BY DEF Past
<1>2. CASE own
  <2>1. up.mem.status = "none" /\ up.db.status = "none"
    BY <1>2 DEF CoverInv, Apart
  <2>2. UsageFrom(users)
    BY <1>1, <1>2 DEF CoverInv, Backfill, BackfillOf
  <2> QED BY <2>1, <2>2 DEF UsageFrom
<1>3. CASE ~own
  <2>1. SpendIn(up.mem) /\ SpendIn(up.db)
    BY <1>1, <1>3 DEF CoverInv, Progress
  <2>2. ~Complete(users.row)
    BY <1>3 DEF CoverInv, Apart, Complete, NoRow
  <2> QED BY <2>1, <2>2 DEF SpendIn
<1> QED BY <1>2, <1>3

(* What the progress says has been read is there, and is of this site: the *)
(* days of an upstream up to the one its state names, however readings     *)
(* fail, are taken up again, or meet a crash, and the days the backfill of *)
(* the own site has behind it.  For every number of days, moves, faults    *)
(* and statements of a write; set apart is a forgetting that was broken    *)
(* off, or that met what the code does not guard against it.               *)
THEOREM CoveredAlways == Spec => []Covered
<1>1. Init => SiteInv /\ CoverInv
  BY InvInit, CoverInit DEF CoverInv
<1>2. SiteInv /\ CoverInv /\ [Next]_vars => (SiteInv /\ CoverInv)'
  BY InvNext, CoverNext
<1> QED BY CoverSays, <1>1, <1>2, PTL DEF Spec
=============================================================================
