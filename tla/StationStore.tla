--------------------------- MODULE StationStore ---------------------------
(***************************************************************************)
(* The documents of the upstream stations (src/db/store.js): one copy in   *)
(* memory that the whole service reads, one in the database.  Every change *)
(* goes through one queue: at its turn it is computed from the memory,     *)
(* written as a whole, and only then published to the memory.  Operations  *)
(* hold the locks of their stations meanwhile; the background reader       *)
(* changes tokens in place without any lock and saves the whole store.     *)
(*                                                                         *)
(* Operations: edit, archive, restore and remove of a person; confirming   *)
(* the account of a station; updating the login information of several     *)
(* stations from a preview; merging two stations and undoing it; binding a *)
(* Key to a station (a row outside the store).                             *)
(***************************************************************************)
EXTENDS Integers, FiniteSets, FiniteSetsExt, Sequences

CONSTANTS Ids,          \* stations, ordered the way their locks are
          Creds,        \* login informations
          AccountOf,    \* the account a login information belongs to
          None,
          FirstCreds,   \* the login informations of the initial state
          Read,         \* bound: the stations that are read
          MaxRequests,  \* bound: updates of login information previewed
          MaxOps,       \* bound: operations begun
          MaxFaults     \* bound: failed writes, failed logins and crashes

ASSUME StoreAssumption ==
  /\ Ids \subseteq Nat \ {0}
  /\ IsFiniteSet(Ids)
  /\ None \notin Creds
  /\ FirstCreds \subseteq Creds
  /\ Read \subseteq Ids
  /\ MaxRequests \in Nat
  /\ MaxOps \in Nat
  /\ MaxFaults \in Nat

VARIABLES
  mem,      \* this.data.stations: what the service sees
  db,       \* the stations table
  rule,     \* reconciliation_rules: the station the Key is bound to
  merge,    \* upstream_merge_log: the merge that can be undone
  queue,    \* _saveChain: changes waiting for their turn
  writing,  \* the change whose turn it is
  lockq,    \* _stationLocks: per lock the operations in line, the holder first
  job,      \* the operation each actor is in
  reader,   \* per station the read in flight, and the tokens it uses
  preview,  \* the preview of an update of login information
  shown,    \* history: the settings shown by the preview, and saved from it
  unsaid,   \* history: writes stored although reported as failed: whether the
            \* newest stored one is, and who made them
  ops, faults

vars == <<mem, db, rule, merge, queue, writing, lockq, job, reader, preview, shown, unsaid, ops, faults>>

Source == 0                              \* _channelSourceChain, taken before any station
Actors == {"edit", "confirm", "auth", "merge", "bind"}
Accounts == {AccountOf[c] : c \in Creds}

Doc == [here : BOOLEAN, cred : Creds, av : Nat, ident : Accounts \cup {None},
        tok : Creds \cup {None}, arch : BOOLEAN,
        into : Ids \cup {0}, ref : Nat \X Nat]
NoRef == <<0, 0>>

(* Store.get: a merged station is not found. *)
Visible(d) == d.here /\ d.into = 0
(* Store.list and the checks of the reader: not archived either. *)
Listed(d) == Visible(d) /\ ~d.arch

(* stationBusinessVersion: what an operation compares to see that a station *)
(* it looked at is still the same.                                          *)
Version(d) == [here |-> Visible(d), av |-> d.av, arch |-> d.arch, ident |-> d.ident]
NoVersion == [here |-> FALSE, av |-> 0, arch |-> FALSE, ident |-> None]

(* What a person set; the rest is what the reader keeps. *)
Settings(d) == [here |-> d.here, cred |-> d.cred, av |-> d.av, ident |-> d.ident,
                arch |-> d.arch, into |-> d.into, ref |-> d.ref]

NoVersions == [i \in Ids |-> NoVersion]
Targets(vers) == {i \in Ids : vers[i] # NoVersion}
IdleJob == [pc |-> "idle", op |-> "none", need |-> {}, held |-> {}, at |-> 0, cred |-> None,
            ident |-> None, bound |-> 0, vers |-> NoVersions, todo |-> {}]
NoPreview == [live |-> FALSE, req |-> 0, cred |-> None, vers |-> NoVersions]
NoMerge == [keep |-> 0, gone |-> 0, moved |-> FALSE]
NoWrite == [who |-> "none", at |-> 0, docs |-> <<>>, fields |-> <<>>, stored |-> FALSE]
IdleReader == [pc |-> "idle", cred |-> None, attached |-> FALSE]

(* Stations whose accounts are confirmed or not, and possibly one that was *)
(* merged into another one with or without its binding.                    *)
Init ==
  /\ \E c \in [Ids -> FirstCreds], confirmed \in BOOLEAN, m \in [keep : Ids, gone : Ids, moved : BOOLEAN] \cup {NoMerge} :
       /\ m # NoMerge => m.keep < m.gone /\ confirmed /\ AccountOf[c[m.keep]] = AccountOf[c[m.gone]]
       /\ mem = [i \in Ids |-> [here |-> TRUE, cred |-> c[i], av |-> 1,
                                ident |-> IF confirmed THEN AccountOf[c[i]] ELSE None, tok |-> None,
                                arch |-> FALSE, into |-> IF i = m.gone THEN m.keep ELSE 0, ref |-> NoRef]]
       /\ merge = m
       /\ rule = IF m.moved THEN m.keep ELSE 0
  /\ db = mem
  /\ queue = <<>>
  /\ writing = NoWrite
  /\ lockq = [l \in Ids \cup {Source} |-> <<>>]
  /\ job = [a \in Actors |-> IdleJob]
  /\ reader = [i \in Ids |-> IdleReader]
  /\ preview = NoPreview
  /\ shown = <<>>
  /\ unsaid = [now |-> FALSE, by |-> {}]
  /\ ops = 0
  /\ faults = 0

-----------------------------------------------------------------------------
(* withStationLocks: one lock after the other in ascending order, each in  *)
(* the order of arrival.                                                   *)

\* Mutant: a binding takes the lock of the sources last.
NextLockSourcesLast(a) ==
  IF a = "bind" THEN CHOOSE l \in job[a].need \ job[a].held : job[a].need \ job[a].held # {Source} => l # Source
  ELSE Min(job[a].need \ job[a].held)

NextLock(a) == Min(job[a].need \ job[a].held)

Hold(a, l) ==
  job' = [job EXCEPT ![a].held = @ \cup {l}, ![a].pc = IF job[a].need = job[a].held \cup {l} THEN "held" ELSE @]

(* A free lock is taken at once; otherwise a goes to the end of its line. *)
JoinLine(a) ==
  /\ job[a].pc = "lock"
  /\ LET l == NextLock(a) IN
     /\ \A n \in 1..Len(lockq[l]) : lockq[l][n] # a
     /\ lockq' = [lockq EXCEPT ![l] = Append(@, a)]
     /\ IF lockq[l] = <<>> THEN Hold(a, l) ELSE UNCHANGED job
  /\ UNCHANGED <<mem, db, rule, merge, queue, writing, reader, preview, shown, unsaid, ops, faults>>

\* Mutant: the lock is taken before the one in front gives it back.
TakeLockAnyway(a) ==
  /\ job[a].pc = "lock"
  /\ \E n \in 1..Len(lockq[NextLock(a)]) : lockq[NextLock(a)][n] = a
  /\ Hold(a, NextLock(a))
  /\ UNCHANGED <<mem, db, rule, merge, queue, writing, lockq, reader, preview, shown, unsaid, ops, faults>>

TakeLock(a) ==
  /\ job[a].pc = "lock"
  /\ LET l == NextLock(a) IN
     /\ lockq[l] # <<>> /\ Head(lockq[l]) = a
     /\ Hold(a, l)
  /\ UNCHANGED <<mem, db, rule, merge, queue, writing, lockq, reader, preview, shown, unsaid, ops, faults>>

(* The operation of a is over: its locks go to the next in line. *)
Finish(a) ==
  /\ job' = [job EXCEPT ![a] = IdleJob]
  /\ lockq' = [l \in DOMAIN lockq |-> IF l \in job[a].held THEN Tail(lockq[l]) ELSE lockq[l]]

(* A change joins the queue of the store. *)
Enqueue(a, i) ==
  /\ queue' = Append(queue, [who |-> a, at |-> i])
  /\ job' = [job EXCEPT ![a].pc = "queued", ![a].at = i]
  /\ UNCHANGED lockq

Begin(a, j) ==
  /\ job[a].pc = "idle"
  /\ ops < MaxOps
  /\ ops' = ops + 1
  /\ job' = [job EXCEPT ![a] = j]

-----------------------------------------------------------------------------
(* What the next write of actor a stores for station i.                    *)

\* Mutant: the confirmed account is kept when the login information changes.
WithCredKeepsIdent(d, c) ==
  IF c = d.cred THEN d ELSE [d EXCEPT !.cred = c, !.av = @ + 1, !.tok = None, !.ref = NoRef]

(* updateLocked with new login information: whatever was confirmed, cached *)
(* or marked for the old one goes.                                         *)
WithCred(d, c) ==
  IF c = d.cred THEN d
  ELSE [d EXCEPT !.cred = c, !.av = @ + 1, !.tok = None, !.ident = None, !.ref = NoRef]

EditDoc(d) ==
  LET j == job["edit"] IN
  CASE j.op = "cred"    -> WithCred(d, j.cred)
    [] j.op = "archive" -> [d EXCEPT !.arch = TRUE]
    [] j.op = "restore" -> [d EXCEPT !.arch = FALSE]
    [] j.op = "remove"  -> [d EXCEPT !.here = FALSE]

AuthDoc(d) ==
  LET n == WithCred(d, job["auth"].cred) IN
  [n EXCEPT !.ident = AccountOf[job["auth"].cred], !.ref = <<preview.req, n.av>>]

NewDoc(a, i) ==
  CASE a = "edit"    -> IF i = job[a].at THEN EditDoc(mem[i]) ELSE mem[i]
    [] a = "confirm" -> IF i = job[a].at THEN [mem[i] EXCEPT !.ident = job[a].ident] ELSE mem[i]
    [] a = "auth"    -> IF i = job[a].at THEN AuthDoc(mem[i]) ELSE mem[i]
    [] a = "merge"   -> IF job[a].op = "merge"
                        THEN IF i = Max(job[a].todo) THEN [mem[i] EXCEPT !.into = Min(job[a].todo)] ELSE mem[i]
                        ELSE IF i = Max(job[a].todo) THEN [mem[i] EXCEPT !.into = 0] ELSE mem[i]
    [] OTHER         -> mem[i]

\* Mutant: the tokens are published only when they were set at the turn.
FieldsAltered(docs, i) == {f \in DOMAIN mem[i] : docs[i][f] # mem[i][f]}

(* The fields the change publishes: those it alters, and with new login    *)
(* information always the tokens, which a read of the old one may fetch    *)
(* while the write is out.                                                 *)
Fields(docs, i) ==
  {f \in DOMAIN mem[i] : docs[i][f] # mem[i][f]} \cup (IF docs[i].cred # mem[i].cred THEN {"tok"} ELSE {})

\* Mutant: only the expiry of the preview is checked.
AuthGuardLive == preview.live

(* The conditions of the change, checked at its turn. *)
AuthGuard ==
  /\ preview.live
  /\ \A i \in Targets(job["auth"].vers) : Version(mem[i]) = job["auth"].vers[i]

Mergeable(i, k) ==
  /\ Listed(mem[i]) /\ Listed(mem[k])
  /\ mem[i].ident # None
  /\ mem[i].ident = mem[k].ident

(* "nothing": the station is gone, or nothing differs, so nothing is       *)
(* written; "refused": an error for the caller.                            *)
Verdict(a, i) ==
  LET j == job[a] IN
  CASE a = "read"    -> "write"
    [] a = "edit"    -> IF j.op = "remove" THEN "write"
                        ELSE IF ~Visible(mem[i]) THEN "nothing"
                        ELSE IF j.vers[i] # NoVersion /\ j.vers[i] # Version(mem[i]) THEN "refused"
                        ELSE IF EditDoc(mem[i]) = mem[i] THEN "nothing" ELSE "write"
    [] a = "confirm" -> IF ~Visible(mem[i]) THEN "nothing"
                        ELSE IF j.vers[i] # Version(mem[i]) THEN "refused" ELSE "write"
    [] a = "auth"    -> IF ~Visible(mem[i]) THEN "nothing"
                        ELSE IF ~AuthGuard THEN "refused" ELSE "write"
    [] a = "merge"   -> IF j.op = "merge"
                        THEN IF Mergeable(Min(j.todo), Max(j.todo)) THEN "write" ELSE "refused"
                        ELSE IF mem[Min(j.todo)].here /\ mem[Max(j.todo)].here /\ mem[Max(j.todo)].into = Min(j.todo)
                             THEN "write" ELSE "refused"

(* The actor goes on: an update of login information with its next         *)
(* station, everybody else is done.                                        *)
Reply(a, i, ok) ==
  CASE a = "read" -> UNCHANGED <<job, lockq, preview>>
    [] a = "auth" -> /\ job' = [job EXCEPT ![a].pc = "held", ![a].todo = @ \ {i},
                                           ![a].vers[i] = IF ok THEN Version(mem'[i]) ELSE @]
                     /\ preview' = IF ok /\ preview.live THEN [preview EXCEPT !.vers[i] = Version(mem'[i])]
                                   ELSE preview
                     /\ UNCHANGED lockq
    [] OTHER      -> Finish(a) /\ UNCHANGED preview

(* _saveChange: the change at the head of the queue is computed from the   *)
(* memory; without a write its caller is answered at once.                 *)
Prepare ==
  /\ queue # <<>> /\ writing = NoWrite
  /\ queue' = Tail(queue)
  /\ LET a == Head(queue).who
         i == Head(queue).at
         docs == [k \in Ids |-> NewDoc(a, k)] IN
     \/ /\ Verdict(a, i) = "write"
        /\ writing' = [who |-> a, at |-> i, docs |-> docs,
                       fields |-> [k \in Ids |-> Fields(docs, k)], stored |-> FALSE]
        /\ UNCHANGED <<mem, lockq, job, preview>>
     \/ /\ Verdict(a, i) # "write"
        /\ UNCHANGED <<mem, writing>>
        /\ Reply(a, i, FALSE)
  /\ UNCHANGED <<db, rule, merge, reader, shown, unsaid, ops, faults>>

(* Before the commit the guard of the change is checked once more, and a   *)
(* merge checks in its transaction that the bindings are those of its plan.*)
MayCommit ==
  /\ writing.who = "auth" => AuthGuard
  /\ writing.who = "merge" =>
       LET j == job["merge"]
           gone == Max(j.todo) IN
       IF j.op = "merge" THEN (rule = gone) = (j.bound = gone)
       ELSE writing.docs[Min(j.todo)].here /\ writing.docs[gone].here

(* applyMergeRows and undoMergeRows: the bindings move in the transaction. *)
MoveBindings ==
  LET j == job["merge"]
      keep == Min(j.todo)
      gone == Max(j.todo) IN
  IF j.op = "merge"
  THEN /\ rule' = IF rule = gone THEN keep ELSE rule
       /\ merge' = [keep |-> keep, gone |-> gone, moved |-> rule = gone]
  ELSE /\ rule' = IF merge.moved /\ rule = keep THEN gone ELSE rule
       /\ merge' = NoMerge

Store ==
  /\ writing # NoWrite /\ ~writing.stored
  /\ MayCommit
  /\ db' = writing.docs
  /\ IF writing.who = "merge" THEN MoveBindings ELSE UNCHANGED <<rule, merge>>

Commit ==
  /\ Store
  /\ writing' = [writing EXCEPT !.stored = TRUE]
  /\ unsaid' = [unsaid EXCEPT !.now = FALSE]
  /\ UNCHANGED <<mem, queue, lockq, job, reader, preview, shown, ops, faults>>

\* Mutant: a change whose write failed is published all the same.
RollBackPublishes ==
  /\ writing # NoWrite /\ ~writing.stored
  /\ faults < MaxFaults /\ faults' = faults + 1
  /\ writing' = NoWrite
  /\ mem' = writing.docs
  /\ Reply(writing.who, writing.at, TRUE)
  /\ reader' = IF writing.who = "read" THEN [reader EXCEPT ![writing.at] = IdleReader] ELSE reader
  /\ UNCHANGED <<db, rule, merge, queue, shown, unsaid, ops>>

(* The change is not published, its caller told that it failed. *)
Drop ==
  /\ writing' = NoWrite
  /\ UNCHANGED mem
  /\ Reply(writing.who, writing.at, FALSE)
  /\ reader' = IF writing.who = "read" THEN [reader EXCEPT ![writing.at] = IdleReader] ELSE reader

(* The transaction is rolled back: refused by its guard, or SAVE_FAILED. *)
RollBack ==
  /\ writing # NoWrite /\ ~writing.stored
  /\ \/ ~MayCommit /\ UNCHANGED faults
     \/ faults < MaxFaults /\ faults' = faults + 1
  /\ Drop
  /\ UNCHANGED <<db, rule, merge, queue, shown, unsaid, ops>>

(* The commit took effect, but its answer is lost: SAVE_FAILED as well. *)
CommitUnsaid ==
  /\ Store
  /\ faults < MaxFaults /\ faults' = faults + 1
  /\ Drop
  /\ unsaid' = [now |-> TRUE, by |-> unsaid.by \cup {writing.who}]
  /\ UNCHANGED <<queue, shown, ops>>

(* publish: only the fields of the change, onto the documents of this      *)
(* moment.  Tokens a read is fetching for replaced ones are not kept.      *)
Publish ==
  /\ writing.stored
  /\ LET changed(i) == IF writing.who = "read" THEN {} ELSE writing.fields[i] IN
     /\ mem' = [i \in Ids |-> [f \in DOMAIN mem[i] |->
                  IF f \in changed(i) THEN writing.docs[i][f] ELSE mem[i][f]]]
     /\ reader' = [i \in Ids |->
                     IF writing.who = "read" /\ writing.at = i THEN IdleReader
                     ELSE IF "tok" \in changed(i) THEN [reader[i] EXCEPT !.attached = FALSE] ELSE reader[i]]
  /\ writing' = NoWrite
  /\ Reply(writing.who, writing.at, TRUE)
  /\ shown' = IF writing.who = "auth" THEN [shown EXCEPT ![writing.at] = Settings(mem'[writing.at])]
              ELSE shown
  /\ UNCHANGED <<db, rule, merge, queue, unsaid, ops, faults>>

-----------------------------------------------------------------------------
(* Edits of a person (PUT and DELETE of a station): from a page that was   *)
(* opened earlier, with the version it showed or without one.              *)

EditStart(i, op, c, checked) ==
  /\ Visible(mem[i])
  /\ Begin("edit", [IdleJob EXCEPT !.pc = IF checked THEN "asked" ELSE "lock", !.op = op, !.at = i,
                                   !.cred = c, !.need = {i},
                                   !.vers[i] = IF checked THEN Version(mem[i]) ELSE NoVersion])
  /\ UNCHANGED <<mem, db, rule, merge, queue, writing, lockq, reader, preview, shown, unsaid, faults>>

EditSubmit ==
  /\ job["edit"].pc = "asked"
  /\ job' = [job EXCEPT !["edit"].pc = "lock"]
  /\ UNCHANGED <<mem, db, rule, merge, queue, writing, lockq, reader, preview, shown, unsaid, ops, faults>>

(* confirmResourceIdentity: the account is asked of the upstream with the  *)
(* login information of the moment.                                        *)
ConfirmStart(i) ==
  /\ Listed(mem[i])
  /\ Begin("confirm", [IdleJob EXCEPT !.pc = "asked", !.at = i, !.cred = mem[i].cred, !.need = {i},
                                      !.vers[i] = Version(mem[i])])
  /\ UNCHANGED <<mem, db, rule, merge, queue, writing, lockq, reader, preview, shown, unsaid, faults>>

ConfirmAnswer ==
  LET j == job["confirm"] IN
  /\ j.pc = "asked"
  /\ IF Version(mem[j.at]) = j.vers[j.at] /\ mem[j.at].ident \in {None, AccountOf[j.cred]}
     THEN job' = [job EXCEPT !["confirm"].pc = "lock", !["confirm"].ident = AccountOf[j.cred]]
     ELSE job' = [job EXCEPT !["confirm"] = IdleJob]
  /\ UNCHANGED <<mem, db, rule, merge, queue, writing, lockq, reader, preview, shown, unsaid, ops, faults>>

(* prepareAuthorization: the stations of the account that login           *)
(* information c belongs to, none of them archived; the same request may   *)
(* not come with other login information than it saved or shows.           *)
AccountStations(c) ==
  {i \in Ids : Listed(mem[i]) /\ AccountOf[mem[i].cred] = AccountOf[c]
               /\ mem[i].ident \in {None, AccountOf[c]}}

SavedBy(r) == {i \in Ids : Listed(mem[i]) /\ mem[i].ref = <<r, mem[i].av>>}

SameOperation(r, c) == \A i \in SavedBy(r) : mem[i].cred = c

AuthPreview(r, c, targets) ==
  /\ job["auth"].pc = "idle"
  /\ ~preview.live
  /\ SameOperation(r, c)
  /\ targets # {} /\ targets \subseteq AccountStations(c)
  /\ \E i \in targets : mem[i].cred # c
  /\ preview' = [live |-> TRUE, req |-> r, cred |-> c,
                 vers |-> [i \in Ids |-> IF i \in targets THEN Version(mem[i]) ELSE NoVersion]]
  /\ shown' = [i \in targets |-> Settings(mem[i])]
  /\ UNCHANGED <<mem, db, rule, merge, queue, writing, lockq, job, reader, unsaid, ops, faults>>

PreviewExpires ==
  /\ preview.live
  /\ preview' = NoPreview
  /\ shown' = IF job["auth"].pc = "idle" THEN <<>> ELSE shown
  /\ UNCHANGED <<mem, db, rule, merge, queue, writing, lockq, job, reader, unsaid, ops, faults>>

(* updateAccountAuthorizationNow: everything is prepared anew, then the    *)
(* locks of all stations of the preview are taken.                         *)
AuthConfirm ==
  LET targets == Targets(preview.vers) IN
  /\ preview.live
  /\ SameOperation(preview.req, preview.cred)
  /\ Begin("auth", [IdleJob EXCEPT !.pc = "lock", !.cred = preview.cred, !.need = targets \cup {Source},
                                   !.vers = preview.vers,
                                   !.todo = targets \cap AccountStations(preview.cred)])
  /\ UNCHANGED <<mem, db, rule, merge, queue, writing, lockq, reader, preview, shown, unsaid, faults>>

(* applyUpstreamMerge: two stations with the same confirmed account; the   *)
(* older one, here the smaller, is kept.                                   *)
MergeStart(keep, gone) ==
  /\ keep < gone
  /\ Mergeable(keep, gone)
  /\ Begin("merge", [IdleJob EXCEPT !.pc = "lock", !.op = "merge", !.need = {keep, gone},
                                    !.todo = {keep, gone}, !.bound = rule])
  /\ UNCHANGED <<mem, db, rule, merge, queue, writing, lockq, reader, preview, shown, unsaid, faults>>

UndoStart ==
  /\ merge # NoMerge
  /\ mem[merge.keep].here /\ mem[merge.gone].here /\ mem[merge.gone].into = merge.keep
  /\ Begin("merge", [IdleJob EXCEPT !.pc = "lock", !.op = "undo", !.need = {merge.keep, merge.gone},
                                    !.todo = {merge.keep, merge.gone}])
  /\ UNCHANGED <<mem, db, rule, merge, queue, writing, lockq, reader, preview, shown, unsaid, faults>>

(* saveRule: the locks of all stations that can be billed, and whether     *)
(* they are still those that were read.                                    *)
Billable == {i \in Ids : Visible(mem[i])}

\* Mutant: only the sources are locked, not the stations.
BindStartUnlocked(i) ==
  /\ Visible(mem[i])
  /\ Begin("bind", [IdleJob EXCEPT !.pc = "lock", !.at = i, !.need = {Source},
                                   !.vers = [k \in Ids |-> IF k \in Billable THEN Version(mem[k]) ELSE NoVersion]])
  /\ UNCHANGED <<mem, db, rule, merge, queue, writing, lockq, reader, preview, shown, unsaid, faults>>

BindStart(i) ==
  /\ Visible(mem[i])
  /\ Begin("bind", [IdleJob EXCEPT !.pc = "lock", !.at = i, !.need = Billable \cup {Source},
                                   !.vers = [k \in Ids |-> IF k \in Billable THEN Version(mem[k]) ELSE NoVersion]])
  /\ UNCHANGED <<mem, db, rule, merge, queue, writing, lockq, reader, preview, shown, unsaid, faults>>

-----------------------------------------------------------------------------
(* What an operation does once it holds its locks.                         *)

EditHeld ==
  /\ job["edit"].pc = "held"
  /\ Enqueue("edit", job["edit"].at)
  /\ UNCHANGED <<mem, db, rule, merge, writing, reader, preview, shown, unsaid, ops, faults>>

ConfirmHeld ==
  LET j == job["confirm"] IN
  /\ j.pc = "held"
  /\ IF Version(mem[j.at]) = j.vers[j.at] /\ mem[j.at].ident # j.ident
     THEN Enqueue("confirm", j.at) ELSE Finish("confirm") /\ UNCHANGED queue
  /\ UNCHANGED <<mem, db, rule, merge, writing, reader, preview, shown, unsaid, ops, faults>>

(* One station after the other; one that is refused or already done does   *)
(* not stop the rest.                                                      *)
AuthHeld ==
  LET j == job["auth"]
      i == Min(j.todo)
      done == i \in SavedBy(preview.req) /\ mem[i].cred = j.cred IN
  /\ j.pc = "held"
  /\ IF j.todo = {} THEN Finish("auth") /\ UNCHANGED queue
     ELSE IF ~AuthGuard \/ done
     THEN job' = [job EXCEPT !["auth"].todo = @ \ {i}] /\ UNCHANGED <<queue, lockq>>
     ELSE Enqueue("auth", i)
  /\ UNCHANGED <<mem, db, rule, merge, writing, reader, preview, shown, unsaid, ops, faults>>

MergeHeld ==
  /\ job["merge"].pc = "held"
  /\ Enqueue("merge", 0)
  /\ UNCHANGED <<mem, db, rule, merge, writing, reader, preview, shown, unsaid, ops, faults>>

(* The row of the binding is written while the locks are held. *)
BindHeld ==
  LET j == job["bind"] IN
  /\ j.pc = "held"
  /\ rule' = IF Targets(j.vers) = Billable /\ \A i \in Billable : Version(mem[i]) = j.vers[i]
             THEN j.at ELSE rule
  /\ Finish("bind")
  /\ UNCHANGED <<mem, db, merge, queue, writing, reader, preview, shown, unsaid, ops, faults>>

-----------------------------------------------------------------------------
(* doRefreshOne: the balance of a station is read with its tokens, which   *)
(* are fetched with its login information when there are none or they are  *)
(* spent.  The read changes the tokens of the document in place.           *)

ReadStart(i) ==
  /\ reader[i].pc = "idle"
  /\ Listed(mem[i])
  /\ \/ /\ mem[i].tok # None
        /\ reader' = [reader EXCEPT ![i] = [pc |-> "asked", cred |-> mem[i].tok, attached |-> TRUE]]
     \/ /\ mem[i].tok = None
        /\ reader' = [reader EXCEPT ![i] = [pc |-> "login", cred |-> mem[i].cred, attached |-> TRUE]]
  /\ UNCHANGED <<mem, db, rule, merge, queue, writing, lockq, job, preview, shown, unsaid, ops, faults>>

LoggedIn(i) ==
  /\ reader[i].pc = "login"
  /\ mem' = IF reader[i].attached THEN [mem EXCEPT ![i].tok = reader[i].cred] ELSE mem
  /\ reader' = [reader EXCEPT ![i].pc = "asked"]
  /\ UNCHANGED <<db, rule, merge, queue, writing, lockq, job, preview, shown, unsaid, ops, faults>>

(* The login is refused or the upstream does not answer: the failure is the *)
(* result of the read.                                                      *)
LoginFails(i) ==
  /\ reader[i].pc = "login"
  /\ faults < MaxFaults
  /\ faults' = faults + 1
  /\ reader' = [reader EXCEPT ![i].pc = "failed"]
  /\ UNCHANGED <<mem, db, rule, merge, queue, writing, lockq, job, preview, shown, unsaid, ops>>

(* The upstream rejects the tokens: they are fetched again with what is    *)
(* configured now.                                                         *)
Rejected(i) ==
  /\ reader[i].pc = "asked"
  /\ faults < MaxFaults
  /\ faults' = faults + 1
  /\ reader' = [reader EXCEPT ![i].pc = "login", ![i].cred = mem[i].cred]
  /\ mem' = IF reader[i].attached THEN [mem EXCEPT ![i].tok = None] ELSE mem
  /\ UNCHANGED <<db, rule, merge, queue, writing, lockq, job, preview, shown, unsaid, ops>>

(* The answer and the tokens are saved with the whole store; an answer for *)
(* a station that is gone or archived is dropped.                          *)
Answered(i) ==
  /\ reader[i].pc \in {"asked", "failed"}
  /\ IF Listed(mem[i])
     THEN /\ queue' = Append(queue, [who |-> "read", at |-> i])
          /\ reader' = [reader EXCEPT ![i] = [IdleReader EXCEPT !.pc = "saving"]]
     ELSE /\ reader' = [reader EXCEPT ![i] = IdleReader]
          /\ UNCHANGED queue
  /\ UNCHANGED <<mem, db, rule, merge, writing, lockq, job, preview, shown, unsaid, ops, faults>>

-----------------------------------------------------------------------------
(* The process ends; it starts again with what the database holds. *)
Crash ==
  /\ faults < MaxFaults
  /\ faults' = faults + 1
  /\ mem' = db
  /\ queue' = <<>>
  /\ writing' = NoWrite
  /\ lockq' = [l \in DOMAIN lockq |-> <<>>]
  /\ job' = [a \in Actors |-> IdleJob]
  /\ reader' = [i \in Ids |-> IdleReader]
  /\ preview' = NoPreview
  /\ shown' = <<>>
  /\ unsaid' = [unsaid EXCEPT !.now = FALSE]
  /\ UNCHANGED <<db, rule, merge, ops>>

-----------------------------------------------------------------------------
Persons ==
  \/ \E i \in Ids, op \in {"archive", "restore", "remove"} : EditStart(i, op, mem[i].cred, FALSE)
  \/ \E i \in Ids, c \in Creds, checked \in BOOLEAN : EditStart(i, "cred", c, checked)
  \/ EditSubmit
  \/ \E i \in Ids : ConfirmStart(i)
  \/ \E r \in 1..MaxRequests, c \in Creds, targets \in SUBSET Ids : AuthPreview(r, c, targets)
  \/ PreviewExpires
  \/ AuthConfirm
  \/ \E keep, gone \in Ids : MergeStart(keep, gone)
  \/ UndoStart
  \/ \E i \in Ids : BindStart(i)

Operation(a) ==
  \/ JoinLine(a)
  \/ TakeLock(a)
  \/ CASE a = "edit"    -> EditHeld
       [] a = "confirm" -> ConfirmAnswer \/ ConfirmHeld
       [] a = "auth"    -> AuthHeld
       [] a = "merge"   -> MergeHeld
       [] a = "bind"    -> BindHeld

Reads(i) == ReadStart(i) \/ LoggedIn(i) \/ LoginFails(i) \/ Rejected(i) \/ Answered(i)

Next ==
  \/ Persons
  \/ \E a \in Actors : Operation(a)
  \/ Prepare \/ Commit \/ RollBack \/ CommitUnsaid \/ Publish
  \/ \E i \in Read : Reads(i)
  \/ Crash

Spec == Init /\ [][Next]_vars

-----------------------------------------------------------------------------
TypeOK ==
  /\ mem \in [Ids -> Doc] /\ db \in [Ids -> Doc]
  /\ rule \in Ids \cup {0}
  /\ merge \in [keep : Ids \cup {0}, gone : Ids \cup {0}, moved : BOOLEAN]
  /\ queue \in Seq([who : Actors \cup {"read"}, at : Ids \cup {0}])
  /\ writing.who \in Actors \cup {"read", "none"} /\ writing.stored \in BOOLEAN
  /\ lockq \in [Ids \cup {Source} -> Seq(Actors)]
  /\ \A a \in Actors :
       /\ job[a].pc \in {"idle", "asked", "lock", "held", "queued"}
       /\ job[a].held \subseteq job[a].need
       /\ \A l \in job[a].held : lockq[l] # <<>> /\ Head(lockq[l]) = a
       /\ job[a].pc = "lock" => job[a].held # job[a].need
  /\ reader \in [Ids -> [pc : {"idle", "login", "asked", "failed", "saving"}, cred : Creds \cup {None},
                         attached : BOOLEAN]]
  /\ preview.live \in BOOLEAN /\ preview.req \in Nat
  /\ DOMAIN shown \subseteq Ids
  /\ unsaid \in [now : BOOLEAN, by : SUBSET (Actors \cup {"read"})]
  /\ ops \in 0..MaxOps /\ faults \in 0..MaxFaults

(* A confirmed account is the one the login information belongs to, in the *)
(* memory and in the database: an account that was asked with replaced     *)
(* login information is never recorded for the new one.                    *)
IdentityMatches ==
  \A i \in Ids : \A d \in {mem[i], db[i]} : d.here /\ d.ident # None => d.ident = AccountOf[d.cred]

(* The tokens kept for a station were fetched with the login information   *)
(* it has, although they arrive in the middle of a write that replaces it. *)
TokensMatch ==
  \A i \in Ids : \A d \in {mem[i], db[i]} : d.here /\ d.tok # None => d.tok = d.cred

(* What the service sees is what the database holds: the two differ only   *)
(* between the commit of a change and its publication, and then by that    *)
(* change, or after a write that was stored although it was reported as    *)
(* failed, until the next write or start.                                  *)
PublishedIsStored ==
  ~unsaid.now =>
    \A i \in Ids : Settings(db[i]) = Settings(IF writing.stored THEN writing.docs[i] ELSE mem[i])

(* No Key is left bound to a station that was merged into another one.     *)
(* Except after a merge or its undoing that was stored although it was     *)
(* reported as failed: the next save of the memory takes back what it did  *)
(* to the stations, but not to the bindings.                               *)
NoBindingToMerged ==
  "merge" \notin unsaid.by /\ rule # 0 => ~(db[rule].here /\ db[rule].into # 0)

(* What the table gets from an update of login information, before the     *)
(* service sees it, replaces what its preview has shown, or what the       *)
(* update itself has saved: nobody's edit is lost.                         *)
AuthRespectsEdits ==
  [][\A i \in Ids : db'[i].ref # db[i].ref /\ db'[i].ref \notin {NoRef, mem[i].ref} =>
       i \in DOMAIN shown /\ shown[i] = Settings(mem[i])]_vars

(* Operations never wait for each other in a circle: as long as one is     *)
(* waiting, some operation can go on.                                      *)
Begun(a) == job[a].pc \in {"lock", "held", "queued"}
Blocked(a) == job[a].pc = "lock" /\ \E n \in 2..Len(lockq[NextLock(a)]) : lockq[NextLock(a)][n] = a

NoLockCircle == (\E a \in Actors : Blocked(a)) => \E a \in Actors : Begun(a) /\ ~Blocked(a)
=============================================================================
