------------------------------ MODULE SiteData ------------------------------
(***************************************************************************)
(* What background work stores about one station, and forgetting it when   *)
(* the station gets another address or is purged.  Of an upstream the      *)
(* money spent per day is read (src/server/upstream-spend.js); of the own  *)
(* site the users' balances and their hourly usage (src/server/            *)
(* user-ops.js).  Every value carries the address it was read from.        *)
(*                                                                         *)
(* Time is counted in days.  A statement takes effect when it is sent, and *)
(* its answer is a step of its own, so that other work gets in between.    *)
(* One that fails may have taken effect all the same.                      *)
(***************************************************************************)
EXTENDS Integers, FiniteSets, FiniteSetsExt, Functions

CONSTANTS BackfillDays, \* upstream-spend: BACKFILL_DAYS
          KeepDays,     \* upstream-spend: KEEP_DAYS
          DeniedRetry,  \* upstream-spend: DENIED_RETRY_MS, in days
          UserDays,     \* user-ops: BACKFILL_DAYS
          PerRun,       \* user-ops: BACKFILL_PER_RUN
          Chunks,       \* the statements one write of rows takes
          MaxTime,      \* bound: the last day
          MaxMoves,     \* bound: changes of the address
          MaxFaults     \* bound: failed statements and crashes

ASSUME SiteAssumption ==
  /\ {BackfillDays, KeepDays, UserDays, PerRun, Chunks} \subseteq Nat \ {0}
  /\ {DeniedRetry, MaxTime, MaxMoves, MaxFaults} \subseteq Nat
  /\ KeepDays >= BackfillDays
  /\ MaxTime > BackfillDays

VARIABLES
  now,
  own,       \* the station is the own site
  site,      \* its address
  there,     \* it has not been removed
  move,      \* the address change or purge under way
  broken,    \* history: the last one was broken off in the middle
  raced,     \* history: it met a statement that is not guarded against it
  faults,
  up,        \* the spend of an upstream: its days and state in the database, the
             \* state in memory, what is shown, and whether a failed read waits
  read,      \* the reading of days under way
  users,     \* what is kept of the own site's users
  run        \* the round of user operations under way

vars == <<now, own, site, there, move, broken, raced, faults, up, read, users, run>>

None == -1
Days == 0..MaxTime
Sites == 0..MaxMoves
NoDays == [d \in Days |-> None]

NoState == [status |-> "none", through |-> None, at |-> None]
NoUp == [days |-> NoDays, db |-> NoState, mem |-> NoState, shown |-> NoDays, waiting |-> FALSE]
NoRead == [pc |-> "idle", from |-> 0, through |-> None, next |-> 0, got |-> NoDays, before |-> FALSE, state |-> NoState]

NoRow == [there |-> FALSE, cursor |-> None, target |-> None, started |-> None]
NoUsers == [points |-> {}, usage |-> NoDays, alert |-> None, row |-> NoRow, gen |-> 0, seen |-> 0, known |-> {}]
NoRun == [pc |-> "idle", gen |-> 0, from |-> None, chunk |-> 0, row |-> NoRow, cursor |-> None, steps |-> 0]

Still == [pc |-> "idle", kind |-> "address"]

Values == {None} \cup Sites
States == [status : {"none", "ok", "denied"}, through : Int, at : Int]
Ups == [days : [Days -> Values], db : States, mem : States, shown : [Days -> Values],
        waiting : BOOLEAN]
Reads == [pc : {"idle", "reading", "save", "keep", "list", "show"}, from : Int, through : Int,
          next : Int, got : [Days -> Values], before : BOOLEAN, state : States]
Rows == [there : BOOLEAN, cursor : Int, target : Int, started : Int]
Accounts == [points : SUBSET Values, usage : [Days -> Values], alert : Values, row : Rows,
             gen : Nat, seen : Nat, known : SUBSET Values]
Rounds == [pc : {"idle", "users", "points", "noted", "usage", "written", "synced", "row",
                 "step", "day"},
           gen : Nat, from : Values, chunk : Nat, row : Rows, cursor : Int, steps : Nat]
Moves == [pc : {"idle", "points", "usage", "row", "alert", "days", "state", "memory", "done"},
          kind : {"address", "purge"}]

TypeOK ==
  /\ now \in Nat /\ site \in Sites /\ faults \in Nat
  /\ own \in BOOLEAN /\ there \in BOOLEAN /\ broken \in BOOLEAN /\ raced \in BOOLEAN
  /\ move \in Moves /\ up \in Ups /\ read \in Reads
  /\ users \in Accounts /\ run \in Rounds

Init ==
  /\ own \in BOOLEAN
  /\ now = BackfillDays + IF own THEN 1 ELSE 0
  /\ site = 0 /\ there = TRUE
  /\ move = Still /\ broken = FALSE /\ raced = FALSE
  /\ faults = 0
  /\ up = NoUp /\ read = NoRead
  /\ users = NoUsers /\ run = NoRun

(* A statement works, fails, or fails although it took effect: the answer  *)
(* is lost.                                                                *)
Fates == {"works", "fails", "unsaid"}
Fate(f) ==
  IF f = "works" THEN faults' = faults ELSE faults < MaxFaults /\ faults' = faults + 1
Stored(f) == f # "fails"

-----------------------------------------------------------------------------
(* createUpstreamSpend: reading the days of an upstream.                   *)

(* plan: from the day after the last one read, at most BackfillDays back,  *)
(* to yesterday, or the day before while yesterday is not complete yet.    *)
First(state) ==
  Max({now - BackfillDays, IF state.status = "ok" THEN state.through + 1 ELSE now - BackfillDays})

SpendStart(complete) ==
  /\ ~own /\ there /\ read.pc = "idle" /\ ~up.waiting
  /\ up.mem.status = "denied" => now - up.mem.at >= DeniedRetry
  /\ LET through == now - IF complete THEN 1 ELSE 2 IN
     /\ First(up.mem) <= through
     /\ read' = [NoRead EXCEPT !.pc = "reading", !.from = First(up.mem), !.through = through,
                               !.next = First(up.mem), !.before = up.mem.status = "ok"]
  /\ raced' = (raced \/ move.pc # "idle")
  /\ UNCHANGED <<now, own, site, there, move, broken, faults, up, users, run>>

(* One request per day, at the address the station has by then.  A site    *)
(* that answers for all days at once is the case with nothing in between.  *)
SpendRequest ==
  /\ read.pc = "reading" /\ read.next <= read.through
  /\ read' = [read EXCEPT !.got[read.next] = site, !.next = @ + 1]
  /\ UNCHANGED <<now, own, site, there, move, broken, raced, faults, up, users, run>>

Failed == read' = NoRead /\ up' = [up EXCEPT !.waiting = TRUE]

(* A request fails, or the site does not give its figures away: that is    *)
(* only noted of a site that never gave any.                               *)
SpendRefused(denied) ==
  /\ read.pc = "reading" /\ read.next <= read.through
  /\ IF denied /\ ~read.before
     THEN LET state == [status |-> "denied", through |-> None, at |-> now] IN
          /\ \E f \in Fates : Fate(f) /\ up' = IF Stored(f) THEN [up EXCEPT !.db = state] ELSE up
          /\ read' = [read EXCEPT !.pc = "keep", !.state = state]
     ELSE Failed /\ UNCHANGED faults
  /\ UNCHANGED <<now, own, site, there, move, broken, raced, users, run>>

(* The days read, over the ones there were. *)
WithRead == [up EXCEPT !.days = [d \in Days |-> IF d \in read.from..read.through THEN read.got[d] ELSE @[d]]]

\* Mutant: that the days could not be stored is passed over.
SpendPutOrNot(f) ==
  /\ read.pc = "reading" /\ read.next > read.through
  /\ Fate(f)
  /\ up' = IF Stored(f) THEN WithRead ELSE up
  /\ read' = [read EXCEPT !.pc = "save"]
  /\ UNCHANGED <<now, own, site, there, move, broken, raced, users, run>>

(* The days are stored before the state that says they were read. *)
SpendPut(f) ==
  /\ read.pc = "reading" /\ read.next > read.through
  /\ Fate(f)
  /\ LET stored == IF Stored(f) THEN WithRead ELSE up IN
     IF f = "works" THEN up' = stored /\ read' = [read EXCEPT !.pc = "save"]
     ELSE up' = [stored EXCEPT !.waiting = TRUE] /\ read' = NoRead
  /\ UNCHANGED <<now, own, site, there, move, broken, raced, users, run>>

SpendSave(f) ==
  /\ read.pc = "save"
  /\ Fate(f)
  /\ LET state == [status |-> "ok", through |-> read.through, at |-> now]
         stored == IF Stored(f) THEN [up EXCEPT !.db = state] ELSE up IN
     IF f = "works" THEN up' = stored /\ read' = [read EXCEPT !.pc = "keep", !.state = state]
     ELSE up' = [stored EXCEPT !.waiting = TRUE] /\ read' = NoRead
  /\ UNCHANGED <<now, own, site, there, move, broken, raced, users, run>>

Pruned(days) == [d \in Days |-> IF d < now - KeepDays THEN None ELSE days[d]]

SpendKeep ==
  /\ read.pc = "keep"
  /\ up' = [up EXCEPT !.mem = read.state, !.waiting = FALSE,
                      !.days = IF read.state.status = "ok" THEN Pruned(@) ELSE @]
  /\ read' = [read EXCEPT !.pc = "list"]
  /\ UNCHANGED <<now, own, site, there, move, broken, raced, faults, users, run>>

(* publish: the days are listed, and shown when the answer is there. *)
SpendList(works) ==
  /\ read.pc = "list"
  /\ Fate(IF works THEN "works" ELSE "fails")
  /\ IF works THEN read' = [read EXCEPT !.pc = "show", !.got = Pruned(up.days)] /\ UNCHANGED up
     ELSE IF read.state.status = "ok" THEN Failed
     ELSE read' = NoRead /\ UNCHANGED up
  /\ UNCHANGED <<now, own, site, there, move, broken, raced, users, run>>

SpendShow ==
  /\ read.pc = "show"
  /\ up' = [up EXCEPT !.shown = read.got]
  /\ read' = NoRead
  /\ UNCHANGED <<now, own, site, there, move, broken, raced, faults, users, run>>

(* The wait after a failed read is over; it is never longer than a day. *)
RetryDue ==
  /\ up.waiting
  /\ up' = [up EXCEPT !.waiting = FALSE]
  /\ UNCHANGED <<now, own, site, there, move, broken, raced, faults, read, users, run>>

Spend ==
  \/ \E b \in BOOLEAN : SpendStart(b) \/ SpendRefused(b) \/ SpendList(b)
  \/ \E f \in Fates : SpendPut(f) \/ SpendSave(f)
  \/ SpendRequest \/ SpendKeep \/ SpendShow
  \/ RetryDue

-----------------------------------------------------------------------------
(* createUserOps: one round.  It remembers the generation it began in, and *)
(* every call of the store compares before it sends and when the answer is *)
(* there.                                                                  *)
Alive == run.gen = users.gen

\* Mutant: the generation is not compared.
GiveAnyway(u, r) == users' = u /\ run' = r

Give(u, r) == IF Alive THEN users' = u /\ run' = r ELSE users' = users /\ run' = NoRun

(* The list of users is asked for at once, at the address of the moment. *)
UserStart ==
  /\ own /\ there /\ run.pc = "idle"
  /\ run' = [NoRun EXCEPT !.pc = "users", !.gen = users.gen, !.from = site]
  /\ users' = IF users.seen = users.gen THEN users ELSE [users EXCEPT !.known = {}, !.seen = users.gen]
  /\ raced' = (raced \/ (move.pc # "idle" /\ move.kind = "purge"))
  /\ UNCHANGED <<now, own, site, there, move, broken, faults, up, read>>

UserFrame == UNCHANGED <<now, own, site, there, move, broken, raced, faults, up, read>>

(* saveProgress: only the fields that are given; a row that is not there   *)
(* begins with the others empty.                                           *)
Row(u) == IF u.row.there THEN u.row ELSE [NoRow EXCEPT !.there = TRUE]
Noted(u) == [u EXCEPT !.row = Row(u)]

(* snapshotBalances: only changes are stored. *)
UserList ==
  /\ run.pc = "users"
  /\ IF run.from \in users.known
     THEN Give(Noted(users), [run EXCEPT !.pc = "noted", !.chunk = 0])
     ELSE Give([users EXCEPT !.points = @ \cup {run.from}], [run EXCEPT !.pc = "points", !.chunk = 1])
  /\ UserFrame

(* The further statements of one write are sent without a comparison: that *)
(* of a round that is over by then is not guarded against the forgetting.  *)
UserFurther ==
  /\ run.pc \in {"points", "written", "day"} /\ run.chunk < Chunks
  /\ users' = CASE run.pc = "points"  -> [users EXCEPT !.points = @ \cup {run.from}]
                [] run.pc = "written" -> [users EXCEPT !.usage[now] = run.from]
                [] run.pc = "day"     -> [users EXCEPT !.usage[run.cursor - 1] = run.from]
  /\ run' = [run EXCEPT !.chunk = @ + 1]
  /\ raced' = (raced \/ ~Alive)
  /\ UNCHANGED <<now, own, site, there, move, broken, faults, up, read>>

UserPoints ==
  /\ run.pc = "points" /\ run.chunk >= Chunks
  /\ Give(Noted([users EXCEPT !.known = @ \cup {run.from}]), [run EXCEPT !.pc = "noted", !.chunk = 0])
  /\ UserFrame

(* syncUsage: today's usage is asked for when the snapshots are done, or   *)
(* failed; a failure is noted and the round goes on.                       *)
UserAsk ==
  /\ run.pc \in {"users", "points", "noted"}
  /\ Give(users, [run EXCEPT !.pc = "usage", !.from = site, !.chunk = 0])
  /\ UserFrame

UserUsage ==
  /\ run.pc = "usage"
  /\ Give([users EXCEPT !.usage[now] = run.from], [run EXCEPT !.pc = "written", !.chunk = 1])
  /\ UserFrame

UserWritten ==
  /\ run.pc = "written" /\ run.chunk >= Chunks
  /\ Give(Noted(users), [run EXCEPT !.pc = "synced", !.chunk = 0])
  /\ UserFrame

(* backfill: the row is read, and written anew unless it is complete.  The *)
(* days from cursor to the one it started on are there.                    *)
UserRow ==
  /\ run.pc \in {"usage", "written", "synced"}
  /\ Give(users, [run EXCEPT !.pc = "row", !.row = users.row, !.chunk = 0])
  /\ UserFrame

Complete(row) == row.cursor # None /\ row.target # None
Begun == [there |-> TRUE, cursor |-> now + 1, target |-> Max({0, now + 1 - UserDays}), started |-> now]

UserPlan ==
  /\ run.pc = "row"
  /\ IF Complete(run.row)
     THEN Give(users, [run EXCEPT !.pc = "step", !.cursor = run.row.cursor, !.from = site])
     ELSE Give([users EXCEPT !.row = Begun],
               [run EXCEPT !.pc = "step", !.row = Begun, !.cursor = now + 1, !.from = site])
  /\ UserFrame

More == run.cursor > run.row.target /\ run.steps < PerRun

(* One day further back; the progress follows once it is stored. *)
UserDay ==
  /\ run.pc = "step" /\ More
  /\ Give([users EXCEPT !.usage[run.cursor - 1] = run.from], [run EXCEPT !.pc = "day", !.chunk = 1])
  /\ UserFrame

UserDayWritten ==
  /\ run.pc = "day" /\ run.chunk >= Chunks
  /\ Give([users EXCEPT !.row = [Row(users) EXCEPT !.cursor = run.cursor - 1]],
          [run EXCEPT !.pc = "step", !.cursor = @ - 1, !.steps = @ + 1, !.from = site, !.chunk = 0])
  /\ UserFrame

(* The backfill is over: its days are read, or a request or statement      *)
(* failed, or the budget is used up.  Then what a user was reminded of is  *)
(* stored: one user stands for all.                                        *)
UserAlert ==
  /\ run.pc \in {"row", "step", "day"}
  /\ Give([users EXCEPT !.alert = run.from], NoRun)
  /\ UserFrame

(* A round that only brings the page up to date stops after the backfill.  *)
UserEnd ==
  /\ run.pc \in {"row", "step", "day"}
  /\ run' = NoRun
  /\ UNCHANGED users
  /\ UserFrame

UserOps ==
  \/ UserStart \/ UserList \/ UserFurther \/ UserPoints \/ UserAsk \/ UserUsage \/ UserWritten
  \/ UserRow \/ UserPlan \/ UserDay \/ UserDayWritten \/ UserAlert \/ UserEnd

-----------------------------------------------------------------------------
(* The address is edited and published, or the station is purged: what was *)
(* stored is deleted table by table.                                       *)
MoveBegin(kind) ==
  /\ there /\ move.pc = "idle"
  /\ IF kind = "address" THEN site < MaxMoves /\ site' = site + 1 ELSE UNCHANGED site
  /\ move' = [pc |-> IF own THEN "points" ELSE "days", kind |-> kind]
  /\ raced' = (read.pc # "idle")
  /\ UNCHANGED <<now, own, there, broken, faults, up, read, users, run>>

(* forgetUserOps begins a new generation before its first statement; of    *)
(* the upstream's state the memory goes last.                              *)
MoveStep(f) ==
  /\ move.pc \in {"points", "usage", "row", "alert", "days", "state"}
  /\ Fate(f)
  /\ users' = LET u == IF move.pc = "points" THEN [users EXCEPT !.gen = @ + 1] ELSE users IN
              CASE Stored(f) /\ move.pc = "points" -> [u EXCEPT !.points = {}]
                [] Stored(f) /\ move.pc = "usage"  -> [u EXCEPT !.usage = NoDays]
                [] Stored(f) /\ move.pc = "row"    -> [u EXCEPT !.row = NoRow]
                [] Stored(f) /\ move.pc = "alert"  -> [u EXCEPT !.alert = None]
                [] OTHER -> u
  /\ up' = CASE Stored(f) /\ move.pc = "days"  -> [up EXCEPT !.days = NoDays]
             [] Stored(f) /\ move.pc = "state" -> [up EXCEPT !.db = NoState]
             [] OTHER -> up
  /\ IF f = "works"
     THEN /\ move' = [move EXCEPT !.pc = [points |-> "usage", usage |-> "row", row |-> "alert", alert |-> "done",
                                          days |-> "state", state |-> "memory"][move.pc]]
          /\ UNCHANGED broken
     ELSE move' = Still /\ broken' = TRUE
  /\ UNCHANGED <<now, own, site, there, raced, read, run>>

MoveMemory ==
  /\ move.pc = "memory"
  /\ up' = [up EXCEPT !.mem = NoState, !.waiting = FALSE, !.shown = NoDays]
  /\ move' = [move EXCEPT !.pc = "done"]
  /\ UNCHANGED <<now, own, site, there, broken, raced, faults, read, users, run>>

(* The station itself goes last, and stays when that could not be stored;  *)
(* what a removal that was stored all the same leaves behind is a matter   *)
(* of the table of stations.                                               *)
MoveDone(works) ==
  /\ move.pc = "done"
  /\ Fate(IF works THEN "works" ELSE "fails") /\ (move.kind = "address" => works)
  /\ there' = (move.kind = "address" \/ ~works)
  /\ move' = Still /\ broken' = ~works
  /\ UNCHANGED <<now, own, site, raced, up, read, users, run>>

(* What was under way is lost; the states and days are loaded again. *)
Crash ==
  /\ faults < MaxFaults
  /\ faults' = faults + 1
  /\ read' = NoRead /\ run' = NoRun /\ move' = Still
  /\ broken' = (broken \/ move.pc # "idle")
  /\ up' = [up EXCEPT !.mem = up.db, !.shown = up.days, !.waiting = FALSE]
  /\ users' = [users EXCEPT !.gen = 0, !.seen = 0, !.known = {}]
  /\ UNCHANGED <<now, own, site, there, raced>>

NextDay ==
  /\ now < MaxTime
  /\ now' = now + 1
  /\ UNCHANGED <<own, site, there, move, broken, raced, faults, up, read, users, run>>

Next ==
  \/ Spend \/ UserOps
  \/ \E kind \in {"address", "purge"} : MoveBegin(kind)
  \/ \E f \in Fates : MoveStep(f)
  \/ MoveMemory
  \/ \E works \in BOOLEAN : MoveDone(works)
  \/ Crash
  \/ NextDay

Spec == Init /\ [][Next]_vars

-----------------------------------------------------------------------------
Kept == Range(up.days) \cup Range(up.shown) \cup users.points \cup Range(users.usage) \cup {users.alert}
OfThisSite == Kept \subseteq {None} \cup IF there THEN {site} ELSE {}

(* After an address change nothing of the old site is kept, and after a    *)
(* purge nothing at all, whatever was under way at the time and however    *)
(* many statements it takes.  Set apart is a forgetting that was broken    *)
(* off, or that met what the code does not guard against it: a reading of  *)
(* days, a round of user operations begun while a purge goes on, and the   *)
(* further statement of a write whose round is over.                       *)
OnlyThisSite == move.pc = "idle" /\ ~broken /\ ~raced => OfThisSite

(* What the progress says has been read is stored, and read from this      *)
(* site: the last days up to the day of the state, and the days the        *)
(* backfill has behind it.                                                 *)
Covered ==
  there /\ move.pc = "idle" /\ ~broken /\ ~raced =>
    /\ \A s \in {up.mem, up.db} :
         s.status = "ok" => \A d \in (now - BackfillDays)..s.through : up.days[d] = site
    /\ Complete(users.row) => \A d \in users.row.cursor..users.row.started : users.usage[d] = site
=============================================================================
