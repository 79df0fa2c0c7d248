------------------------- MODULE StationStoreProofs -------------------------
(* Proofs about StationStore.tla, for any stations, login informations, reads  *)
(* and any number of operations and faults.                                    *)
EXTENDS StationStore, TLAPS, WellFoundedInduction, SequenceTheorems

-----------------------------------------------------------------------------
(* Numbers and sequences.                                                      *)

\* A set of numbers that is not empty has a smallest element.
Less == {p \in Nat \X Nat : p[1] < p[2]}

LEMMA LessIsWellFounded == IsWellFoundedOn(Less, Nat)
  BY NatLessThanWellFounded DEF OpToRel, Less

LEMMA MinOfNumbers ==
  ASSUME NEW S, S \subseteq Nat, S # {}
  PROVE  Min(S) \in S /\ \A y \in S : Min(S) <= y
<1>1. \A x \in S : x \in Nat
  OBVIOUS
<1>2. PICK x \in S : \A y \in S : ~ (<<y, x>> \in Less)
  BY WFMin, LessIsWellFounded
<1>3. \A u, v \in Nat : u < v => <<u, v>> \in Less
  BY DEF Less
<1>4. \A y \in S : ~(y < x)
  BY <1>1, <1>2, <1>3
<1>5. \A y \in S : x <= y
  BY <1>1, <1>4
<1> QED BY <1>5 DEF Min

LEMMA MinMaxOfTwo ==
  ASSUME NEW k \in Nat, NEW g \in Nat, k < g
  PROVE  Min({k, g}) = k /\ Max({k, g}) = g
<1>1. Min({k, g}) = k
  BY MinOfNumbers, {k, g} \subseteq Nat
<1>2. \E x \in {k, g} : \A y \in {k, g} : x >= y
  <2>1. g \in {k, g} /\ \A y \in {k, g} : g >= y
    OBVIOUS
  <2> QED BY <2>1
<1>3. Max({k, g}) \in {k, g} /\ \A y \in {k, g} : Max({k, g}) >= y
  BY <1>2 DEF Max
<1> QED BY <1>1, <1>3

\* What is at which place of a line that grows at its end or loses its head.
LEMMA AppendPlaces ==
  ASSUME NEW T, NEW q \in Seq(T), NEW e \in T
  PROVE  /\ Append(q, e) \in Seq(T) /\ Append(q, e) # <<>>
         /\ Len(Append(q, e)) = Len(q) + 1 /\ Len(q) \in Nat
         /\ \A n \in 1..Len(q) : Append(q, e)[n] = q[n] /\ q[n] \in T
         /\ Append(q, e)[Len(q) + 1] = e
BY AppendProperties, LenProperties, ElementOfSeq

LEMMA TailPlaces ==
  ASSUME NEW T, NEW q \in Seq(T), q # <<>>
  PROVE  /\ Tail(q) \in Seq(T) /\ Head(q) \in T /\ Head(q) = q[1]
         /\ Len(q) \in Nat \ {0} /\ Len(Tail(q)) = Len(q) - 1
         /\ \A n \in 1..Len(Tail(q)) : Tail(q)[n] = q[n + 1] /\ n + 1 \in 1..Len(q)
BY HeadTailProperties, LenProperties, EmptySeq

-----------------------------------------------------------------------------
(* Documents and versions.                                                     *)

Locks == Ids \cup {Source}
Versions == [here : BOOLEAN, av : Nat, arch : BOOLEAN, ident : Accounts \cup {None}]

LEMMA Assumptions ==
  /\ Ids \subseteq Nat /\ 0 \notin Ids /\ Locks \subseteq Nat /\ 0 \in Locks
  /\ None \notin Creds
  /\ \A c \in Creds : AccountOf[c] \in Accounts
  /\ NoRef \in Nat \X Nat
BY StoreAssumption DEF Locks, Source, Accounts, NoRef

LEMMA DocFields ==
  ASSUME NEW d \in Doc
  PROVE  DOMAIN d = {"here", "cred", "av", "ident", "tok", "arch", "into", "ref"}
BY DEF Doc

\* The document that a publication leaves.
LEMMA PublishedDoc ==
  ASSUME NEW d \in Doc, NEW w \in Doc, NEW F,
         NEW p, p = [f \in DOMAIN d |-> IF f \in F THEN w[f] ELSE d[f]]
  PROVE  /\ p \in Doc
         /\ \A f \in DOMAIN d : p[f] = IF f \in F THEN w[f] ELSE d[f]
<1>1. DOMAIN p = DOMAIN d /\ \A f \in DOMAIN d : p[f] = IF f \in F THEN w[f] ELSE d[f]
  OBVIOUS
<1>2. p = [here |-> p.here, cred |-> p.cred, av |-> p.av, ident |-> p.ident, tok |-> p.tok,
           arch |-> p.arch, into |-> p.into, ref |-> p.ref]
  BY DocFields
<1>3. /\ p.here \in BOOLEAN /\ p.arch \in BOOLEAN
  BY <1>1, DocFields DEF Doc
<1>4. /\ p.cred \in Creds /\ p.av \in Nat /\ p.ident \in Accounts \cup {None}
      /\ p.tok \in Creds \cup {None} /\ p.into \in Ids \cup {0} /\ p.ref \in Nat \X Nat
  BY <1>1, DocFields DEF Doc
<1> QED BY <1>1, <1>2, <1>3, <1>4 DEF Doc

LEMMA VersionType ==
  ASSUME NEW d \in Doc
  PROVE  /\ Version(d) \in Versions
         /\ Visible(d) => Version(d) # NoVersion
BY DEF Doc, Version, Versions, Visible, NoVersion

LEMMA NoVersionType == NoVersion \in Versions /\ NoVersions \in [Ids -> Versions]
BY DEF NoVersion, Versions, NoVersions

\* What new login information changes, and what it leaves alone.
LEMMA WithCredDoes ==
  ASSUME NEW d \in Doc, NEW c \in Creds
  PROVE  /\ WithCred(d, c) \in Doc
         /\ WithCred(d, c).cred = c
         /\ WithCred(d, c).here = d.here /\ WithCred(d, c).arch = d.arch
         /\ WithCred(d, c).into = d.into
         /\ \/ c = d.cred /\ WithCred(d, c) = d
            \/ /\ c # d.cred /\ WithCred(d, c).av = d.av + 1
               /\ WithCred(d, c).tok = None /\ WithCred(d, c).ident = None
               /\ WithCred(d, c).ref = NoRef
<1>1. CASE c = d.cred
  BY <1>1 DEF WithCred, Doc
<1>2. CASE c # d.cred
  <2>1. WithCred(d, c) = [d EXCEPT !.cred = c, !.av = d.av + 1, !.tok = None, !.ident = None,
                                   !.ref = NoRef]
    BY <1>2 DEF WithCred
  <2>2. d.av + 1 \in Nat
    BY DEF Doc
  <2> QED BY <1>2, <2>1, <2>2, Assumptions DEF Doc
<1> QED BY <1>1, <1>2

-----------------------------------------------------------------------------
(* The jobs.                                                                   *)

Jobs == [pc : {"idle", "asked", "lock", "held", "queued"},
         op : {"none", "cred", "archive", "restore", "remove", "merge", "undo"},
         need : SUBSET Locks, held : SUBSET Locks, at : Ids \cup {0},
         cred : Creds \cup {None}, ident : Accounts \cup {None}, bound : Ids \cup {0},
         vers : [Ids -> Versions], todo : SUBSET Ids]

FieldNames == {"here", "cred", "av", "ident", "tok", "arch", "into", "ref"}
Entries == [who : Actors \cup {"read"}, at : Ids \cup {0}]
Changes == [who : Actors \cup {"read"}, at : Ids \cup {0}, docs : [Ids -> Doc],
            fields : [Ids -> SUBSET FieldNames], stored : BOOLEAN]
Readers == [pc : {"idle", "login", "asked", "failed", "saving"}, cred : Creds \cup {None},
            attached : BOOLEAN]
Previews == [live : BOOLEAN, req : Nat, cred : Creds \cup {None}, vers : [Ids -> Versions]]

\* What each operation has in hand while it is going on.
JobOK(a, j) ==
  /\ j \in Jobs
  /\ IF j.pc = "idle" THEN j = IdleJob ELSE j.need # {}
  /\ a = "edit" /\ j.pc # "idle" =>
       j.at \in Ids /\ j.cred \in Creds /\ j.op \in {"cred", "archive", "restore", "remove"}
  /\ a = "confirm" /\ j.pc # "idle" =>
       j.at \in Ids /\ j.cred \in Creds /\ (j.pc # "asked" => j.ident = AccountOf[j.cred])
  /\ a = "auth" /\ j.pc # "idle" =>
       j.cred \in Creds /\ j.todo \subseteq Targets(j.vers) /\ (j.pc = "queued" => j.at \in j.todo)
  /\ a = "merge" /\ j.pc # "idle" =>
       /\ j.op \in {"merge", "undo"}
       /\ \E k, g \in Ids : k < g /\ j.todo = {k, g} /\ j.need = {k, g}
  /\ a = "bind" /\ j.pc # "idle" =>
       j.at \in Ids /\ j.at \in j.need /\ j.vers[j.at] # NoVersion /\ j.pc # "queued"

MergeOK == merge = NoMerge \/ (merge.keep \in Ids /\ merge.gone \in Ids /\ merge.keep < merge.gone)

Types ==
  /\ mem \in [Ids -> Doc] /\ db \in [Ids -> Doc]
  /\ rule \in Ids \cup {0}
  /\ merge \in [keep : Ids \cup {0}, gone : Ids \cup {0}, moved : BOOLEAN] /\ MergeOK
  /\ queue \in Seq(Entries)
  /\ writing \in Changes \cup {NoWrite}
  /\ lockq \in [Locks -> Seq(Actors)]
  /\ job \in [Actors -> Jobs] /\ \A a \in Actors : JobOK(a, job[a])
  /\ reader \in [Ids -> Readers]
  /\ preview \in Previews
  /\ IF preview.live THEN preview.cred \in Creds ELSE preview = NoPreview
  /\ DOMAIN shown \subseteq Ids
  /\ ops \in 0..MaxOps /\ faults \in 0..MaxFaults

\* Whoever is in the queue or has its turn is waiting for it, once.
Waits(e) ==
  /\ e.who \in Actors => job[e.who].pc = "queued"
  /\ e.who \in {"edit", "confirm", "auth"} => e.at = job[e.who].at
  /\ e.who = "read" => e.at \in Ids

QueueInv ==
  /\ \A n \in 1..Len(queue) :
       /\ Waits(queue[n])
       /\ writing.who = queue[n].who => writing.who \notin Actors
       /\ \A m \in 1..Len(queue) : queue[m].who = queue[n].who /\ m # n => queue[n].who \notin Actors
  /\ writing # NoWrite => Waits(writing)

LEMMA IdleJobOK == IdleJob \in Jobs /\ \A a \in Actors : JobOK(a, IdleJob)
<1>1. IdleJob \in Jobs
  BY NoVersionType DEF IdleJob, Jobs
<1> QED BY <1>1 DEF JobOK, IdleJob

-----------------------------------------------------------------------------
(* The locks.                                                                  *)

\* The locks an operation has and the ones it still needs; the ones it has are
\* the smaller ones, and it is the first in their lines.
LockJob(a) ==
  LET j == job[a] IN
  /\ j.held \subseteq j.need
  /\ j.pc \in {"idle", "asked"} => j.held = {}
  /\ j.pc \in {"held", "queued"} => j.held = j.need
  /\ j.pc = "lock" => j.held # j.need
  /\ \A h \in j.held, k \in j.need \ j.held : h < k
  /\ \A l \in j.held : lockq[l] # <<>> /\ Head(lockq[l]) = a

\* Who stands in a line has the lock, as the first, or has come to need it as
\* its next one; nobody stands there twice.
LockLine(l) ==
  \A n \in 1..Len(lockq[l]) :
    /\ \/ n = 1 /\ l \in job[lockq[l][n]].held
       \/ job[lockq[l][n]].pc = "lock" /\ l = NextLock(lockq[l][n])
    /\ \A m \in 1..Len(lockq[l]) : m # n => lockq[l][m] # lockq[l][n]

LockInv == (\A a \in Actors : LockJob(a)) /\ (\A l \in Locks : LockLine(l))

TypeInv == Types /\ QueueInv /\ LockInv

-----------------------------------------------------------------------------
(* What a step leaves of the invariants that it does not concern.              *)

LEMMA JobChanges ==
  ASSUME Types, NEW a \in Actors, NEW j, JobOK(a, j), job' = [job EXCEPT ![a] = j]
  PROVE  /\ job' \in [Actors -> Jobs] /\ \A b \in Actors : JobOK(b, job'[b])
         /\ job'[a] = j /\ \A b \in Actors \ {a} : job'[b] = job[b]
<1>1. j \in Jobs
  BY DEF JobOK
<1>2. job'[a] = j /\ \A b \in Actors \ {a} : job'[b] = job[b]
  BY DEF Types
<1> QED BY <1>1, <1>2 DEF Types

\* Nobody who waits for its change goes on.
LEMMA QueueStays ==
  ASSUME QueueInv, UNCHANGED <<queue, writing>>,
         \A b \in Actors : job[b].pc = "queued" => job'[b].pc = "queued" /\ job'[b].at = job[b].at
  PROVE  QueueInv'
<1>1. \A e : Waits(e) => Waits(e)'
  BY DEF Waits, Actors
<1> QED BY <1>1 DEF QueueInv

\* An entry joins the queue; its caller was not waiting before.
LEMMA QueueGrows ==
  ASSUME Types, QueueInv, UNCHANGED writing, NEW e \in Entries, queue' = Append(queue, e),
         e.who \in Actors => job[e.who].pc # "queued",
         \A b \in Actors : job[b].pc = "queued" => job'[b] = job[b],
         Waits(e)'
  PROVE  QueueInv' /\ queue' \in Seq(Entries)
<1>1. \A x : Waits(x) => Waits(x)'
  BY DEF Waits, Actors
<1>2. /\ queue' \in Seq(Entries) /\ Len(queue') = Len(queue) + 1 /\ Len(queue) \in Nat
      /\ \A n \in 1..Len(queue) : queue'[n] = queue[n]
      /\ queue'[Len(queue) + 1] = e
  BY AppendPlaces DEF Types
<1>3. \A n \in 1..Len(queue) : e.who \in Actors => queue[n].who # e.who
  BY DEF QueueInv, Waits
<1>4. writing # NoWrite => (e.who \in Actors => writing.who # e.who)
  BY DEF QueueInv, Waits
<1>5. writing = NoWrite => writing.who \notin Actors
  BY DEF NoWrite, Actors
<1>6. \A n \in 1..Len(queue') : n \in 1..Len(queue) \/ n = Len(queue) + 1
  BY <1>2
<1>7. ASSUME NEW n \in 1..Len(queue')
      PROVE  /\ \A x : x = queue'[n] => Waits(x)'
             /\ writing.who = queue'[n].who => writing.who \notin Actors
             /\ \A m \in 1..Len(queue') : queue'[m].who = queue'[n].who /\ m # n => queue'[n].who \notin Actors
  <2>1. CASE n \in 1..Len(queue)
    BY <2>1, <1>1, <1>2, <1>3, <1>6 DEF QueueInv
  <2>2. CASE n = Len(queue) + 1
    <3>1. queue'[n] = e
      BY <2>2, <1>2
    <3>2. writing.who = e.who => writing.who \notin Actors
      BY <1>4, <1>5
    <3>3. \A m \in 1..Len(queue') : queue'[m].who = e.who /\ m # n => e.who \notin Actors
      BY <2>2, <1>2, <1>3, <1>6
    <3> QED BY <3>1, <3>2, <3>3
  <2> QED BY <2>1, <2>2, <1>6
<1>8. writing # NoWrite => Waits(writing)'
  BY <1>1 DEF QueueInv
<1> QED BY <1>2, <1>7, <1>8 DEF QueueInv

\* The change that had its turn is over, or one without a write is.
LEMMA QueueShrinks ==
  ASSUME Types, QueueInv, queue # <<>>, writing = NoWrite, writing' = NoWrite, queue' = Tail(queue),
         \A b \in Actors \ {Head(queue).who} : job'[b] = job[b]
  PROVE  QueueInv' /\ queue' \in Seq(Entries)
<1>1. /\ queue' \in Seq(Entries) /\ Head(queue) = queue[1]
      /\ Len(queue) \in Nat \ {0} /\ Len(queue') = Len(queue) - 1
      /\ \A n \in 1..Len(queue') : queue'[n] = queue[n + 1] /\ n + 1 \in 1..Len(queue)
  BY TailPlaces DEF Types
<1>2. \A x : Waits(x) /\ (x.who = Head(queue).who => x.who \notin Actors) => Waits(x)'
  BY DEF Waits, Actors
<1>3. ASSUME NEW n \in 1..Len(queue')
      PROVE  /\ \A x : x = queue'[n] => Waits(x)'
             /\ \A m \in 1..Len(queue') : queue'[m].who = queue'[n].who /\ m # n => queue'[n].who \notin Actors
  <2>1. n + 1 \in 1..Len(queue) /\ 1 \in 1..Len(queue) /\ n + 1 # 1
    BY <1>1
  <2>2. queue[n + 1].who = queue[1].who => queue[n + 1].who \notin Actors
    BY <2>1 DEF QueueInv
  <2>3. \A x : x = queue'[n] => Waits(x)'
    BY <2>1, <2>2, <1>1, <1>2 DEF QueueInv
  <2>4. \A m \in 1..Len(queue') : m # n => m + 1 # n + 1 /\ m + 1 \in 1..Len(queue)
    BY <1>1
  <2> QED BY <2>1, <2>3, <2>4, <1>1 DEF QueueInv
<1>4. NoWrite.who \notin Actors
  BY DEF NoWrite, Actors
<1> QED BY <1>1, <1>3, <1>4 DEF QueueInv

\* The change under way is over, and its caller goes on.
LEMMA QueueAnswers ==
  ASSUME Types, QueueInv, writing # NoWrite, writing' = NoWrite, UNCHANGED queue,
         \A b \in Actors \ {writing.who} : job'[b] = job[b]
  PROVE  QueueInv'
<1>1. \A x : Waits(x) /\ (x.who = writing.who => x.who \notin Actors) => Waits(x)'
  BY DEF Waits, Actors
<1>2. NoWrite.who \notin Actors
  BY DEF NoWrite, Actors
<1> QED BY <1>1, <1>2 DEF QueueInv

\* The locks of an operation are not touched, or it has none.
KeepsLocks(j, k) ==
  \/ k.need = j.need /\ k.held = j.held /\ (k.pc = j.pc \/ {j.pc, k.pc} \subseteq {"held", "queued"})
  \/ /\ j.held = {} /\ k.held = {} /\ j.pc \in {"idle", "asked"} /\ k.pc \in {"idle", "asked", "lock"}
     /\ k.pc = "lock" => k.need # {}

LEMMA LocksStay ==
  ASSUME Types, LockInv, UNCHANGED lockq, \A a \in Actors : KeepsLocks(job[a], job'[a])
  PROVE  LockInv'
<1>1. ASSUME NEW a \in Actors PROVE LockJob(a)'
  BY <1>1 DEF LockInv, LockJob, KeepsLocks
<1>2. ASSUME NEW l \in Locks, NEW n \in 1..Len(lockq[l])
      PROVE  \/ n = 1 /\ l \in job'[lockq[l][n]].held
             \/ job'[lockq[l][n]].pc = "lock" /\ l = NextLock(lockq[l][n])'
  <2>1. lockq[l][n] \in Actors
    BY ElementOfSeq DEF Types
  <2>2. KeepsLocks(job[lockq[l][n]], job'[lockq[l][n]])
    BY <2>1
  <2>3. \/ n = 1 /\ l \in job[lockq[l][n]].held
        \/ job[lockq[l][n]].pc = "lock" /\ l = NextLock(lockq[l][n])
    BY DEF LockInv, LockLine
  <2> QED BY <2>2, <2>3 DEF KeepsLocks, NextLock
<1>3. ASSUME NEW l \in Locks PROVE LockLine(l)'
  BY <1>2 DEF LockInv, LockLine
<1> QED BY <1>1, <1>3 DEF LockInv

\* One operation goes on, without a change of its own in the queue.
LEMMA JobStep ==
  ASSUME TypeInv, NEW a \in Actors, NEW j, JobOK(a, j), job' = [job EXCEPT ![a] = j],
         KeepsLocks(job[a], j), job[a].pc # "queued", ops' \in 0..MaxOps,
         UNCHANGED <<mem, db, rule, merge, queue, writing, lockq, reader, preview, shown, faults>>
  PROVE  TypeInv'
<1>1. /\ job' \in [Actors -> Jobs] /\ \A b \in Actors : JobOK(b, job'[b])
      /\ job'[a] = j /\ \A b \in Actors \ {a} : job'[b] = job[b]
  BY JobChanges DEF TypeInv
<1>2. Types'
  BY <1>1 DEF TypeInv, Types, MergeOK
<1>3. QueueInv'
  BY <1>1, QueueStays DEF TypeInv
<1>4. \A b \in Actors : KeepsLocks(job[b], job'[b])
  BY <1>1 DEF KeepsLocks
<1>5. LockInv'
  BY <1>4, LocksStay DEF TypeInv
<1> QED BY <1>2, <1>3, <1>5 DEF TypeInv

LEMMA BeginStep ==
  ASSUME TypeInv, NEW a \in Actors, NEW j, JobOK(a, j), Begin(a, j),
         j.pc \in {"asked", "lock"}, j.held = {}, j.need # {},
         UNCHANGED <<mem, db, rule, merge, queue, writing, lockq, reader, preview, shown, faults>>
  PROVE  TypeInv' /\ job'[a] = j /\ \A b \in Actors \ {a} : job'[b] = job[b]
<1>1. job[a] = IdleJob /\ IdleJob.held = {} /\ IdleJob.pc = "idle"
  BY DEF TypeInv, Types, JobOK, Begin, IdleJob
<1>2. ops' \in 0..MaxOps
  BY StoreAssumption DEF Begin, TypeInv, Types
<1>3. KeepsLocks(job[a], j)
  BY <1>1 DEF KeepsLocks
<1>4. job' = [job EXCEPT ![a] = j] /\ job[a].pc # "queued"
  BY DEF Begin
<1>5. job'[a] = j /\ \A b \in Actors \ {a} : job'[b] = job[b]
  BY <1>4, JobChanges DEF TypeInv
<1> QED BY <1>2, <1>3, <1>4, <1>5, JobStep

\* Nothing that operations do with each other is touched.
LEMMA JobsStay ==
  ASSUME TypeInv, UNCHANGED <<queue, writing, lockq, job>>
  PROVE  QueueInv' /\ LockInv'
<1>1. QueueInv'
  BY QueueStays DEF TypeInv
<1>2. \A a \in Actors : KeepsLocks(job[a], job'[a])
  BY DEF KeepsLocks
<1> QED BY <1>1, <1>2, LocksStay DEF TypeInv

-----------------------------------------------------------------------------
(* Taking locks and giving them back.                                          *)

LEMMA NextLockOK ==
  ASSUME TypeInv, NEW a \in Actors, job[a].pc = "lock"
  PROVE  /\ NextLock(a) \in job[a].need \ job[a].held /\ NextLock(a) \in Locks
         /\ \A k \in job[a].need \ job[a].held : NextLock(a) <= k
         /\ job[a].need \subseteq Locks
<1>1. job[a].need \subseteq Locks /\ job[a].held \subseteq job[a].need /\ job[a].held # job[a].need
  BY DEF TypeInv, Types, Jobs, LockInv, LockJob
<1>2. job[a].need \ job[a].held \subseteq Nat /\ job[a].need \ job[a].held # {}
  BY <1>1, Assumptions
<1> QED BY <1>1, <1>2, MinOfNumbers DEF NextLock

LEMMA HoldDoes ==
  ASSUME TypeInv, NEW a \in Actors, job[a].pc = "lock", Hold(a, NextLock(a))
  PROVE  /\ job' \in [Actors -> Jobs] /\ \A b \in Actors : JobOK(b, job'[b])
         /\ \A b \in Actors \ {a} : job'[b] = job[b]
         /\ job'[a].need = job[a].need
         /\ job'[a].held = job[a].held \cup {NextLock(a)}
         /\ job'[a].pc = IF job'[a].held = job'[a].need THEN "held" ELSE "lock"
<1> DEFINE h == job[a].held \cup {NextLock(a)}
           p == IF job[a].need = h THEN "held" ELSE "lock"
           j == [job[a] EXCEPT !.held = h, !.pc = p]
<1>1. job[a] \in Jobs /\ JobOK(a, job[a])
  BY DEF TypeInv, Types
<1>2. job' = [job EXCEPT ![a] = j]
  BY DEF Hold, TypeInv, Types
<1>3. h \subseteq Locks /\ p \in {"held", "lock"}
  BY <1>1, NextLockOK DEF Jobs
<1>4. j \in Jobs /\ j.pc = p /\ j.held = h /\ j.need = job[a].need /\ j.at = job[a].at /\ j.op = job[a].op
      /\ j.cred = job[a].cred /\ j.ident = job[a].ident /\ j.todo = job[a].todo /\ j.vers = job[a].vers
  BY <1>1, <1>3 DEF Jobs
<1> HIDE DEF j
<1>5. JobOK(a, j)
  <2> HIDE DEF h, p
  <2> QED BY <1>1, <1>3, <1>4 DEF JobOK
<1>6. /\ job' \in [Actors -> Jobs] /\ \A b \in Actors : JobOK(b, job'[b])
      /\ job'[a] = j /\ \A b \in Actors \ {a} : job'[b] = job[b]
  BY <1>2, <1>5, JobChanges DEF TypeInv
<1> QED BY <1>4, <1>6

LEMMA TakeLockLocks ==
  ASSUME TypeInv, NEW a \in Actors, TakeLock(a)
  PROVE  LockInv'
<1> DEFINE l == NextLock(a)
<1>1. job[a].pc = "lock" /\ lockq[l] # <<>> /\ Head(lockq[l]) = a /\ Hold(a, l) /\ UNCHANGED lockq
  BY DEF TakeLock
<1>2. /\ \A b \in Actors \ {a} : job'[b] = job[b]
      /\ job'[a].need = job[a].need /\ job'[a].held = job[a].held \cup {l}
      /\ job'[a].pc = IF job'[a].held = job'[a].need THEN "held" ELSE "lock"
  BY <1>1, HoldDoes
<1>3. /\ l \in job[a].need \ job[a].held /\ l \in Locks /\ job[a].need \subseteq Locks
      /\ \A k \in job[a].need \ job[a].held : l <= k
  BY <1>1, NextLockOK
<1>4. lockq[l] \in Seq(Actors) /\ \A m \in Locks : lockq[m] \in Seq(Actors)
  BY <1>3 DEF TypeInv, Types
<1>5. lockq[l][1] = a /\ 1 \in 1..Len(lockq[l])
  BY <1>1, <1>4, TailPlaces
<1> HIDE DEF l
<1>6. LockJob(a)'
  <2>1. LockJob(a)
    BY DEF TypeInv, LockInv
  <2>2. \A h \in job[a].held \cup {l}, k \in job[a].need \ (job[a].held \cup {l}) : h < k
    <3>1. \A k \in job[a].need : k \in Nat
      BY <1>3, Assumptions
    <3> QED BY <2>1, <3>1, <1>3 DEF LockJob
  <2> QED BY <2>1, <2>2, <1>1, <1>2, <1>3 DEF LockJob
<1>7. \A b \in Actors \ {a} : LockJob(b)'
  BY <1>1, <1>2 DEF TypeInv, LockInv, LockJob
<1>8. ASSUME NEW m \in Locks, NEW n \in 1..Len(lockq[m])
      PROVE  \/ n = 1 /\ m \in job'[lockq[m][n]].held
             \/ job'[lockq[m][n]].pc = "lock" /\ m = NextLock(lockq[m][n])'
  <2> DEFINE b == lockq[m][n]
  <2>1. b \in Actors
    BY <1>4, ElementOfSeq
  <2>2. (n = 1 /\ m \in job[b].held) \/ (job[b].pc = "lock" /\ m = NextLock(b))
    BY DEF TypeInv, LockInv, LockLine
  <2>3. CASE b # a
    <3>1. job'[b] = job[b]
      BY <1>2, <2>1, <2>3
    <3> QED BY <2>2, <3>1, <1>1 DEF NextLock
  <2>4. CASE b = a /\ m \in job[a].held /\ n = 1
    BY <2>4, <1>2
  <2>5. CASE b = a /\ m = l
    <3>1. n = 1
      BY <1>3, <1>5, <2>5 DEF TypeInv, LockInv, LockLine
    <3> QED BY <3>1, <2>5, <1>2
  <2> QED BY <2>2, <2>3, <2>4, <2>5 DEF l
<1>9. \A m \in Locks : LockLine(m)'
  BY <1>1, <1>8 DEF TypeInv, LockInv, LockLine
<1> QED BY <1>6, <1>7, <1>9 DEF LockInv

LEMMA JoinLineLocks ==
  ASSUME TypeInv, NEW a \in Actors, JoinLine(a)
  PROVE  LockInv' /\ lockq' \in [Locks -> Seq(Actors)]
<1>0. PICK l : l = NextLock(a)
  OBVIOUS
<1>1. /\ job[a].pc = "lock" /\ \A n \in 1..Len(lockq[l]) : lockq[l][n] # a
      /\ lockq' = [lockq EXCEPT ![l] = Append(@, a)]
      /\ IF lockq[l] = <<>> THEN Hold(a, l) ELSE UNCHANGED job
  BY <1>0 DEF JoinLine
<1>2. /\ l \in job[a].need \ job[a].held /\ l \in Locks /\ job[a].need \subseteq Locks
      /\ \A k \in job[a].need \ job[a].held : l <= k
  BY <1>0, <1>1, NextLockOK
<1>3. lockq \in [Locks -> Seq(Actors)]
  BY DEF TypeInv, Types
<1>4. /\ lockq'[l] = Append(lockq[l], a) /\ lockq[l] \in Seq(Actors)
      /\ \A m \in Locks \ {l} : lockq'[m] = lockq[m]
  BY <1>1, <1>2, <1>3
<1>5. /\ lockq'[l] \in Seq(Actors) /\ lockq'[l] # <<>>
      /\ Len(lockq'[l]) = Len(lockq[l]) + 1 /\ Len(lockq[l]) \in Nat
      /\ \A n \in 1..Len(lockq[l]) : lockq'[l][n] = lockq[l][n]
      /\ lockq'[l][Len(lockq[l]) + 1] = a
  BY <1>4, AppendPlaces
<1>6. lockq' \in [Locks -> Seq(Actors)]
  BY <1>1, <1>3, <1>4, <1>5
<1>7. Head(lockq'[l]) = lockq'[l][1] /\ (lockq[l] # <<>> => Head(lockq[l]) = lockq[l][1] /\ 1 \in 1..Len(lockq[l]))
  BY <1>4, <1>5, TailPlaces
<1>8. /\ \A b \in Actors \ {a} : job'[b] = job[b]
      /\ job'[a].need = job[a].need
      /\ lockq[l] = <<>> => /\ job'[a].held = job[a].held \cup {l}
                            /\ job'[a].pc = IF job'[a].held = job'[a].need THEN "held" ELSE "lock"
      /\ lockq[l] # <<>> => job'[a] = job[a]
  BY <1>0, <1>1, HoldDoes
<1>9. \A b \in Actors : \A m \in job[b].held : lockq'[m] # <<>> /\ Head(lockq'[m]) = b
  <2>1. \A b \in Actors : \A m \in job[b].held : m \in Locks /\ lockq[m] # <<>> /\ Head(lockq[m]) = b
    BY DEF TypeInv, LockInv, LockJob, Types, Jobs
  <2> QED BY <2>1, <1>4, <1>5, <1>7
<1>10. LockJob(a)'
  <2>1. LockJob(a)
    BY DEF TypeInv, LockInv
  <2>2. CASE lockq[l] = <<>>
    <3>1. \A h \in job[a].held \cup {l}, k \in job[a].need \ (job[a].held \cup {l}) : h < k
      <4>1. \A k \in job[a].need : k \in Nat
        BY <1>2, Assumptions
      <4> QED BY <2>1, <4>1, <1>2 DEF LockJob
    <3>2. Len(lockq[l]) = 0
      BY <2>2, <1>4
    <3>3. Head(lockq'[l]) = a
      BY <3>2, <1>5, <1>7
    <3> QED BY <2>1, <2>2, <3>1, <3>3, <1>2, <1>5, <1>8, <1>9 DEF LockJob
  <2>3. CASE lockq[l] # <<>>
    BY <2>1, <2>3, <1>8, <1>9 DEF LockJob
  <2> QED BY <2>2, <2>3
<1>11. \A b \in Actors \ {a} : LockJob(b)'
  BY <1>8, <1>9 DEF TypeInv, LockInv, LockJob
<1>12. ASSUME NEW m \in Locks, NEW n \in 1..Len(lockq[m])
       PROVE  \/ n = 1 /\ m \in job'[lockq[m][n]].held
              \/ job'[lockq[m][n]].pc = "lock" /\ \A b \in Actors : b = lockq[m][n] => m = NextLock(b)'
  <2> DEFINE b == lockq[m][n]
  <2>1. b \in Actors
    BY <1>3, ElementOfSeq
  <2>2. (n = 1 /\ m \in job[b].held) \/ (job[b].pc = "lock" /\ m = NextLock(b))
    BY DEF TypeInv, LockInv, LockLine
  <2>3. CASE b # a
    <3>1. job'[b] = job[b]
      BY <1>8, <2>1, <2>3
    <3> QED BY <2>2, <3>1 DEF NextLock
  <2>4. CASE b = a /\ m \in job[a].held /\ n = 1
    BY <2>4, <1>8
  <2>5. CASE b = a /\ m = NextLock(a)
    BY <2>5, <1>0, <1>1
  <2> QED BY <2>2, <2>3, <2>4, <2>5
<1>13. ASSUME NEW m \in Locks \ {l} PROVE LockLine(m)'
  <2>1. lockq'[m] = lockq[m] /\ m \in Locks
    BY <1>4
  <2>2. ASSUME NEW n \in 1..Len(lockq'[m])
        PROVE  \/ n = 1 /\ m \in job'[lockq'[m][n]].held
               \/ job'[lockq'[m][n]].pc = "lock" /\ \A b \in Actors : b = lockq'[m][n] => m = NextLock(b)'
    BY <2>1, <1>12
  <2>3. \A n, k \in 1..Len(lockq'[m]) : k # n => lockq'[m][k] # lockq'[m][n]
    BY <2>1 DEF TypeInv, LockInv, LockLine
  <2>4. \A n \in 1..Len(lockq'[m]) : lockq'[m][n] \in Actors
    BY <2>1, <1>3, ElementOfSeq
  <2> QED BY <2>2, <2>3, <2>4 DEF LockLine, NextLock
<1>14. LockLine(l)'
  <2>1. \A n \in 1..Len(lockq'[l]) : n \in 1..Len(lockq[l]) \/ n = Len(lockq[l]) + 1
    BY <1>5
  <2>2. ASSUME NEW n \in 1..Len(lockq'[l])
        PROVE  \/ n = 1 /\ l \in job'[lockq'[l][n]].held
               \/ job'[lockq'[l][n]].pc = "lock" /\ \A b \in Actors : b = lockq'[l][n] => l = NextLock(b)'
    <3>1. CASE n \in 1..Len(lockq[l])
      <4>1. lockq'[l][n] = lockq[l][n]
        BY <3>1, <1>5
      <4> QED BY <3>1, <4>1, <1>2, <1>12
    <3>2. CASE n = Len(lockq[l]) + 1 /\ lockq[l] = <<>>
      <4>1. n = 1
        BY <3>2, <1>4
      <4> QED BY <3>2, <4>1, <1>5, <1>8
    <3>3. CASE n = Len(lockq[l]) + 1 /\ lockq[l] # <<>>
      BY <3>3, <1>0, <1>1, <1>5, <1>8 DEF NextLock
    <3> QED BY <2>1, <3>1, <3>2, <3>3
  <2>3. \A n, m \in 1..Len(lockq'[l]) : m # n => lockq'[l][m] # lockq'[l][n]
    <3>1. \A n, m \in 1..Len(lockq[l]) : m # n => lockq[l][m] # lockq[l][n]
      BY <1>2 DEF TypeInv, LockInv, LockLine
    <3>2. \A n \in 1..Len(lockq[l]) : lockq[l][n] # a
      BY <1>1
    <3> QED BY <2>1, <3>1, <3>2, <1>5
  <2>4. \A n \in 1..Len(lockq'[l]) : lockq'[l][n] \in Actors
    BY <1>5, ElementOfSeq
  <2> QED BY <2>2, <2>3, <2>4 DEF LockLine, NextLock
<1> QED BY <1>6, <1>10, <1>11, <1>13, <1>14 DEF LockInv, Locks

LEMMA FinishLocks ==
  ASSUME TypeInv, NEW a \in Actors, job[a].pc \in {"held", "queued"}, Finish(a)
  PROVE  LockInv' /\ lockq' \in [Locks -> Seq(Actors)]
<1>1. /\ job'[a] = IdleJob /\ \A b \in Actors \ {a} : job'[b] = job[b]
      /\ lockq' = [l \in Locks |-> IF l \in job[a].held THEN Tail(lockq[l]) ELSE lockq[l]]
  BY DEF Finish, TypeInv, Types
<1>2. IdleJob.held = {} /\ IdleJob.need = {} /\ IdleJob.pc = "idle"
  BY DEF IdleJob
<1>3. \A l \in Locks : lockq[l] \in Seq(Actors)
  BY DEF TypeInv, Types
<1>4. \A l \in job[a].held : l \in Locks /\ lockq[l] # <<>> /\ Head(lockq[l]) = a
  BY DEF TypeInv, LockInv, LockJob, Types, Jobs
<1>5. ASSUME NEW l \in job[a].held
      PROVE  /\ lockq'[l] \in Seq(Actors) /\ lockq[l][1] = a /\ 1 \in 1..Len(lockq[l])
             /\ Len(lockq[l]) \in Nat
             /\ \A n \in 1..Len(lockq'[l]) : lockq'[l][n] = lockq[l][n + 1] /\ n + 1 \in 1..Len(lockq[l])
  <2>1. lockq'[l] = Tail(lockq[l])
    BY <1>1, <1>4
  <2> QED BY <2>1, <1>3, <1>4, TailPlaces
<1>6. lockq' \in [Locks -> Seq(Actors)]
  <2>1. \A l \in Locks : lockq'[l] \in Seq(Actors)
    BY <1>1, <1>3, <1>5
  <2> QED BY <2>1, <1>1
<1>7. LockJob(a)'
  BY <1>1, <1>2 DEF LockJob
<1>8. ASSUME NEW b \in Actors \ {a} PROVE LockJob(b)'
  <2>1. \A l \in job[b].held : l \in Locks /\ Head(lockq[l]) = b /\ lockq[l] # <<>>
    BY DEF TypeInv, LockInv, LockJob, Types, Jobs
  <2>2. \A l \in job[b].held : lockq'[l] = lockq[l]
    BY <2>1, <1>1, <1>4
  <2>3. LockJob(b) /\ job'[b] = job[b]
    BY <1>1 DEF TypeInv, LockInv
  <2> QED BY <2>1, <2>2, <2>3 DEF LockJob
<1>9. ASSUME NEW l \in Locks, NEW n \in 1..Len(lockq[l])
      PROVE  /\ lockq[l][n] \in Actors
             /\ \/ n = 1 /\ l \in job[lockq[l][n]].held
                \/ job[lockq[l][n]].pc = "lock" /\ \A b \in Actors : b = lockq[l][n] => l = NextLock(b)
             /\ \A m \in 1..Len(lockq[l]) : m # n => lockq[l][m] # lockq[l][n]
  BY <1>3, ElementOfSeq DEF TypeInv, LockInv, LockLine
<1>10. ASSUME NEW l \in Locks PROVE LockLine(l)'
  <2>1. CASE l \in job[a].held
    <3>1. ASSUME NEW n \in 1..Len(lockq'[l])
          PROVE  /\ lockq'[l][n] \in Actors
                 /\ job'[lockq'[l][n]].pc = "lock" /\ \A b \in Actors : b = lockq'[l][n] => l = NextLock(b)'
                 /\ \A m \in 1..Len(lockq'[l]) : m # n => lockq'[l][m] # lockq'[l][n]
      <4>1. lockq'[l][n] = lockq[l][n + 1] /\ n + 1 \in 1..Len(lockq[l]) /\ n \in Nat \ {0}
        BY <2>1, <1>5
      <4>2. lockq[l][n + 1] # a /\ n + 1 # 1
        BY <4>1, <2>1, <1>5, <1>9
      <4>3. lockq'[l][n] \in Actors /\ job'[lockq'[l][n]] = job[lockq[l][n + 1]]
        BY <4>1, <4>2, <1>1, <1>9
      <4>4. job'[lockq'[l][n]].pc = "lock" /\ \A b \in Actors : b = lockq'[l][n] => l = NextLock(b)'
        BY <4>1, <4>2, <4>3, <1>9 DEF NextLock
      <4>5. \A m \in 1..Len(lockq'[l]) : m # n => lockq'[l][m] # lockq'[l][n]
        <5>1. \A m \in 1..Len(lockq'[l]) : m # n => m + 1 # n + 1
          BY <4>1
        <5> QED BY <5>1, <4>1, <2>1, <1>5, <1>9
      <4> QED BY <4>3, <4>4, <4>5
    <3> QED BY <3>1 DEF LockLine, NextLock
  <2>2. CASE l \notin job[a].held
    <3>1. lockq'[l] = lockq[l]
      BY <2>2, <1>1
    <3>2. ASSUME NEW n \in 1..Len(lockq[l])
          PROVE  lockq[l][n] # a /\ job'[lockq[l][n]] = job[lockq[l][n]]
      BY <2>2, <1>1, <1>9
    <3> QED BY <3>1, <3>2, <1>9 DEF LockLine, NextLock
  <2> QED BY <2>1, <2>2
<1> QED BY <1>6, <1>7, <1>8, <1>10 DEF LockInv, Locks

-----------------------------------------------------------------------------
(* The change that has its turn.                                               *)

\* The two stations of a merge or of its undoing.
LEMMA TwoOfMerge ==
  ASSUME TypeInv, job["merge"].pc # "idle"
  PROVE  \E k, g \in Ids : /\ k < g /\ job["merge"].todo = {k, g} /\ job["merge"].need = {k, g}
                           /\ Min(job["merge"].todo) = k /\ Max(job["merge"].todo) = g
<1>1. JobOK("merge", job["merge"])
  BY DEF TypeInv, Types, Actors
<1>2. PICK k, g \in Ids : k < g /\ job["merge"].todo = {k, g} /\ job["merge"].need = {k, g}
  BY <1>1 DEF JobOK
<1>3. k \in Nat /\ g \in Nat
  BY Assumptions
<1> QED BY <1>2, <1>3, MinMaxOfTwo

LEMMA EditDocDoes ==
  ASSUME TypeInv, job["edit"].pc = "queued", NEW d \in Doc
  PROVE  /\ EditDoc(d) \in Doc
         /\ EditDoc(d).into = d.into
         /\ EditDoc(d).here => d.here
         /\ \/ EditDoc(d) = WithCred(d, job["edit"].cred) /\ job["edit"].cred \in Creds
            \/ EditDoc(d).cred = d.cred /\ EditDoc(d).av = d.av /\ EditDoc(d).ident = d.ident
               /\ EditDoc(d).tok = d.tok /\ EditDoc(d).ref = d.ref
<1>1. JobOK("edit", job["edit"])
  BY DEF TypeInv, Types, Actors
<1>2. job["edit"].cred \in Creds /\ job["edit"].op \in {"cred", "archive", "restore", "remove"}
  BY <1>1 DEF JobOK
<1>3. CASE job["edit"].op = "cred"
  <2>1. EditDoc(d) = WithCred(d, job["edit"].cred)
    BY <1>3 DEF EditDoc
  <2> QED BY <1>2, <2>1, WithCredDoes
<1>4. CASE job["edit"].op = "archive"
  <2>1. EditDoc(d) = [d EXCEPT !.arch = TRUE]
    BY <1>4 DEF EditDoc
  <2> QED BY <2>1 DEF Doc
<1>5. CASE job["edit"].op = "restore"
  <2>1. EditDoc(d) = [d EXCEPT !.arch = FALSE]
    BY <1>5 DEF EditDoc
  <2> QED BY <2>1 DEF Doc
<1>6. CASE job["edit"].op = "remove"
  <2>1. EditDoc(d) = [d EXCEPT !.here = FALSE]
    BY <1>6 DEF EditDoc
  <2> QED BY <2>1 DEF Doc
<1> QED BY <1>2, <1>3, <1>4, <1>5, <1>6

LEMMA AuthDocDoes ==
  ASSUME TypeInv, job["auth"].pc = "queued", NEW d \in Doc
  PROVE  LET c == job["auth"].cred IN
         /\ AuthDoc(d) \in Doc /\ c \in Creds
         /\ AuthDoc(d).ident = AccountOf[c] /\ AuthDoc(d).cred = c
         /\ AuthDoc(d).here = d.here /\ AuthDoc(d).arch = d.arch /\ AuthDoc(d).into = d.into
         /\ AuthDoc(d).tok = WithCred(d, c).tok /\ AuthDoc(d).av = WithCred(d, c).av
<1> DEFINE c == job["auth"].cred
           n == WithCred(d, c)
<1>1. JobOK("auth", job["auth"])
  BY DEF TypeInv, Types, Actors
<1>2. c \in Creds
  BY <1>1 DEF JobOK
<1>3. n \in Doc /\ n.cred = c /\ n.here = d.here /\ n.arch = d.arch /\ n.into = d.into
  BY <1>2, WithCredDoes
<1>4. AccountOf[c] \in Accounts
  BY <1>2, Assumptions
<1>5. preview.req \in Nat
  BY DEF TypeInv, Types, Previews
<1>6. AuthDoc(d) = [n EXCEPT !.ident = AccountOf[c], !.ref = <<preview.req, n.av>>]
  BY DEF AuthDoc
<1> HIDE DEF c, n
<1>7. n.av \in Nat
  BY <1>3 DEF Doc
<1>8. AuthDoc(d) \in Doc /\ AuthDoc(d).ident = AccountOf[c] /\ AuthDoc(d).cred = n.cred
      /\ AuthDoc(d).here = n.here /\ AuthDoc(d).arch = n.arch /\ AuthDoc(d).into = n.into
      /\ AuthDoc(d).tok = n.tok /\ AuthDoc(d).av = n.av
  <2>1. PICK r \in Nat \X Nat : r = <<preview.req, n.av>>
    BY <1>5, <1>7
  <2>2. PICK x \in Accounts : x = AccountOf[c]
    BY <1>4
  <2>3. AuthDoc(d) = [n EXCEPT !.ident = x, !.ref = r]
    BY <1>6, <2>1, <2>2
  <2> QED BY <1>3, <2>2, <2>3 DEF Doc
<1> QED BY <1>2, <1>3, <1>8 DEF c, n

\* What the document of a station becomes, by the kind of the change.
LEMMA NewDocIs ==
  ASSUME TypeInv, NEW e, Waits(e), e.who \in Actors \cup {"read"}, NEW i \in Ids
  PROVE  LET n == NewDoc(e.who, i)
             d == mem[i]
             j == job[e.who] IN
         /\ d \in Doc
         /\ \/ n = d
            \/ e.who = "edit" /\ i = e.at /\ n = EditDoc(d)
            \/ e.who = "confirm" /\ i = e.at /\ n = [d EXCEPT !.ident = j.ident]
            \/ e.who = "auth" /\ i = e.at /\ n = AuthDoc(d)
            \/ e.who = "merge" /\ j.op = "merge" /\ i = Max(j.todo) /\ n = [d EXCEPT !.into = Min(j.todo)]
            \/ e.who = "merge" /\ j.op = "undo" /\ i = Max(j.todo) /\ n = [d EXCEPT !.into = 0]
<1>1. mem[i] \in Doc
  BY DEF TypeInv, Types
<1>2. CASE e.who = "edit"
  BY <1>1, <1>2 DEF NewDoc, Waits
<1>3. CASE e.who = "confirm"
  BY <1>1, <1>3 DEF NewDoc, Waits
<1>4. CASE e.who = "auth"
  BY <1>1, <1>4 DEF NewDoc, Waits
<1>5. CASE e.who = "merge"
  <2>1. job["merge"].op \in {"merge", "undo"}
    <3>1. JobOK("merge", job["merge"]) /\ job["merge"].pc = "queued"
      BY <1>5 DEF TypeInv, Types, Actors, Waits
    <3> QED BY <3>1 DEF JobOK
  <2> QED BY <1>1, <1>5, <2>1 DEF NewDoc
<1>6. CASE e.who = "bind"
  BY <1>1, <1>6 DEF NewDoc
<1>7. CASE e.who = "read"
  BY <1>1, <1>7 DEF NewDoc
<1> QED BY <1>2, <1>3, <1>4, <1>5, <1>6, <1>7 DEF Actors

LEMMA NewDocType ==
  ASSUME TypeInv, NEW e, Waits(e), e.who \in Actors \cup {"read"}, NEW i \in Ids
  PROVE  NewDoc(e.who, i) \in Doc
<1> DEFINE n == NewDoc(e.who, i)
           d == mem[i]
           j == job[e.who]
<1>1. d \in Doc
  BY NewDocIs
<1>2. e.who \in Actors => j.pc = "queued" /\ j \in Jobs
  BY DEF Waits, TypeInv, Types
<1>3. ASSUME e.who = "confirm", n = [d EXCEPT !.ident = j.ident] PROVE n \in Doc
  <2>1. j.ident \in Accounts \cup {None}
    BY <1>2, <1>3 DEF Jobs, Actors
  <2> HIDE DEF j, d
  <2> QED BY <1>1, <1>3, <2>1 DEF Doc
<1>4. ASSUME e.who = "merge", n = [d EXCEPT !.into = Min(j.todo)] PROVE n \in Doc
  <2>1. Min(j.todo) \in Ids \cup {0}
    BY <1>2, <1>4, TwoOfMerge DEF Actors
  <2> HIDE DEF j, d
  <2> QED BY <1>1, <1>4, <2>1 DEF Doc
<1>5. ASSUME n = [d EXCEPT !.into = 0] PROVE n \in Doc
  <2> HIDE DEF d
  <2> QED BY <1>1, <1>5 DEF Doc
<1>6. e.who = "edit" => EditDoc(d) \in Doc
  BY <1>1, <1>2, EditDocDoes DEF Actors
<1>7. e.who = "auth" => AuthDoc(d) \in Doc
  BY <1>1, <1>2, AuthDocDoes DEF Actors
<1> QED BY <1>1, <1>3, <1>4, <1>5, <1>6, <1>7, NewDocIs

\* The caller of a change goes on: an update of login information with its next
\* station, everybody else is done.
LEMMA ReplyDoes ==
  ASSUME TypeInv, NEW e, Waits(e), e.who \in Actors \cup {"read"}, NEW ok \in BOOLEAN,
         mem' \in [Ids -> Doc], Reply(e.who, e.at, ok)
  PROVE  /\ job' \in [Actors -> Jobs] /\ \A b \in Actors : JobOK(b, job'[b])
         /\ lockq' \in [Locks -> Seq(Actors)] /\ LockInv'
         /\ preview' \in Previews
         /\ IF preview'.live THEN preview'.cred \in Creds ELSE preview' = NoPreview
         /\ \A b \in Actors \ {e.who} : job'[b] = job[b]
         /\ e.who \in Actors /\ e.who # "auth" => job'[e.who] = IdleJob
         /\ e.who # "auth" => UNCHANGED preview
         /\ e.who = "auth" =>
              /\ e.at \in Ids /\ e.at \in Targets(job["auth"].vers)
              /\ job'["auth"].cred = job["auth"].cred /\ job'["auth"].pc = "held"
              /\ job'["auth"].vers = [job["auth"].vers EXCEPT ![e.at] = IF ok THEN Version(mem'[e.at]) ELSE @]
              /\ preview' = IF ok /\ preview.live THEN [preview EXCEPT !.vers[e.at] = Version(mem'[e.at])]
                            ELSE preview
<1>1. /\ job \in [Actors -> Jobs] /\ \A b \in Actors : JobOK(b, job[b])
      /\ preview \in Previews /\ IF preview.live THEN preview.cred \in Creds ELSE preview = NoPreview
      /\ lockq \in [Locks -> Seq(Actors)] /\ LockInv
  BY DEF TypeInv, Types
<1>2. CASE e.who = "read"
  <2>1. UNCHANGED <<job, lockq, preview>>
    BY <1>2 DEF Reply
  <2>2. LockInv'
    BY <2>1, <1>1, LocksStay DEF KeepsLocks, TypeInv
  <2> QED BY <1>1, <1>2, <2>1, <2>2 DEF Actors
<1>3. CASE e.who \in {"edit", "confirm", "merge", "bind"}
  <2>1. Finish(e.who) /\ UNCHANGED preview
    BY <1>3 DEF Reply
  <2>2. e.who \in Actors /\ job[e.who].pc = "queued"
    BY <1>3 DEF Waits, Actors
  <2>3. LockInv' /\ lockq' \in [Locks -> Seq(Actors)]
    BY <2>1, <2>2, FinishLocks
  <2>4. /\ job' \in [Actors -> Jobs] /\ \A b \in Actors : JobOK(b, job'[b])
        /\ job'[e.who] = IdleJob /\ \A b \in Actors \ {e.who} : job'[b] = job[b]
    BY <2>1, <2>2, IdleJobOK, JobChanges DEF TypeInv, Finish
  <2> QED BY <1>1, <1>3, <2>1, <2>3, <2>4
<1>4. CASE e.who = "auth"
  <2> DEFINE j == job["auth"]
             i == e.at
             v == IF ok THEN Version(mem'[i]) ELSE j.vers[i]
             k == [j EXCEPT !.pc = "held", !.todo = j.todo \ {i}, !.vers = [j.vers EXCEPT ![i] = v]]
  <2>1. /\ job' = [job EXCEPT !["auth"].pc = "held", !["auth"].todo = @ \ {i},
                              !["auth"].vers[i] = IF ok THEN Version(mem'[i]) ELSE @]
        /\ preview' = IF ok /\ preview.live THEN [preview EXCEPT !.vers[i] = Version(mem'[i])] ELSE preview
        /\ UNCHANGED lockq
    BY <1>4 DEF Reply
  <2>2. "auth" \in Actors /\ j \in Jobs /\ JobOK("auth", j) /\ j.pc = "queued" /\ i = j.at
    BY <1>1, <1>4 DEF Actors, Waits
  <2>3. job' = [job EXCEPT !["auth"] = k]
    <3> DEFINE j1 == [j EXCEPT !.pc = "held"]
               j2 == [j1 EXCEPT !.todo = j.todo \ {i}]
               j3 == [j2 EXCEPT !.vers = [j.vers EXCEPT ![i] = v]]
    <3>1. [job EXCEPT !["auth"].pc = "held"] = [job EXCEPT !["auth"] = j1]
      OBVIOUS
    <3>2. [job EXCEPT !["auth"].pc = "held", !["auth"].todo = @ \ {i}] = [job EXCEPT !["auth"] = j2]
      BY <2>2, <1>1 DEF Jobs
    <3>3. j2.vers = j.vers /\ DOMAIN j2 = DOMAIN j
      BY <2>2 DEF Jobs
    <3>4. job' = [job EXCEPT !["auth"] = j3]
      <4>1. job' = [[job EXCEPT !["auth"].pc = "held", !["auth"].todo = @ \ {i}]
                     EXCEPT !["auth"].vers[i] = IF ok THEN Version(mem'[i]) ELSE @]
        BY <2>1
      <4> HIDE DEF j2
      <4>2. [[job EXCEPT !["auth"] = j2] EXCEPT !["auth"].vers[i] = IF ok THEN Version(mem'[i]) ELSE @]
              = [job EXCEPT !["auth"] = [j2 EXCEPT !.vers = [j2.vers EXCEPT ![i] = IF ok THEN Version(mem'[i]) ELSE @]]]
        BY <2>2, <1>1
      <4>3. [j2.vers EXCEPT ![i] = IF ok THEN Version(mem'[i]) ELSE @] = [j.vers EXCEPT ![i] = v]
        BY <3>3
      <4> QED BY <4>1, <4>2, <4>3, <3>2
    <3>5. j3 = k
      BY <2>2 DEF Jobs
    <3> QED BY <3>4, <3>5
  <2>4. i \in j.todo /\ j.todo \subseteq Targets(j.vers) /\ j.cred \in Creds
    BY <2>2 DEF JobOK
  <2>5. i \in Ids /\ j.vers \in [Ids -> Versions]
    BY <2>2, <2>4 DEF Targets, Jobs
  <2>6. Version(mem'[i]) \in Versions /\ v \in Versions
    BY <2>5, VersionType
  <2>7. [j.vers EXCEPT ![i] = v] \in [Ids -> Versions] /\ j.todo \ {i} \subseteq Targets([j.vers EXCEPT ![i] = v])
    BY <2>4, <2>5, <2>6 DEF Targets
  <2>8. /\ k \in Jobs /\ k.pc = "held" /\ k.need = j.need /\ k.held = j.held /\ k.cred = j.cred
        /\ k.vers = [j.vers EXCEPT ![i] = v] /\ k.todo = j.todo \ {i}
    <3> DEFINE u == [j.vers EXCEPT ![i] = v]
               t == j.todo \ {i}
    <3>1. u \in [Ids -> Versions] /\ t \subseteq Ids
      BY <2>2, <2>7 DEF Jobs
    <3>2. k = [j EXCEPT !.pc = "held", !.todo = t, !.vers = u]
      OBVIOUS
    <3> HIDE DEF u, t, k, j
    <3>3. /\ k \in Jobs /\ k.pc = "held" /\ k.need = j.need /\ k.held = j.held /\ k.cred = j.cred
          /\ k.vers = u /\ k.todo = t
      BY <2>2, <3>1, <3>2 DEF Jobs
    <3> QED BY <3>3 DEF u, t
  <2> HIDE DEF k
  <2>9. JobOK("auth", k)
    BY <2>2, <2>4, <2>7, <2>8 DEF JobOK
  <2>10. /\ job' \in [Actors -> Jobs] /\ \A b \in Actors : JobOK(b, job'[b])
         /\ job'["auth"] = k /\ \A b \in Actors \ {"auth"} : job'[b] = job[b]
    BY <2>3, <2>2, <2>9, JobChanges DEF TypeInv
  <2>11. LockInv'
    <3>1. \A b \in Actors : KeepsLocks(job[b], job'[b])
      BY <2>2, <2>8, <2>10 DEF KeepsLocks
    <3> QED BY <2>1, <3>1, LocksStay DEF TypeInv
  <2>12. preview' \in Previews /\ IF preview'.live THEN preview'.cred \in Creds ELSE preview' = NoPreview
    <3>1. CASE ok /\ preview.live
      <4> DEFINE u == [preview.vers EXCEPT ![i] = Version(mem'[i])]
      <4>1. u \in [Ids -> Versions]
        BY <1>1, <2>5, <2>6 DEF Previews
      <4>2. preview' = [preview EXCEPT !.vers = u]
        BY <2>1, <3>1, <1>1 DEF Previews
      <4> HIDE DEF u
      <4>3. preview' \in Previews /\ preview'.live = preview.live /\ preview'.cred = preview.cred
        BY <1>1, <4>1, <4>2 DEF Previews
      <4> QED BY <1>1, <3>1, <4>3
    <3>2. CASE ~(ok /\ preview.live)
      BY <1>1, <2>1, <3>2
    <3> QED BY <3>1, <3>2
  <2>13. job'["auth"].vers = [job["auth"].vers EXCEPT ![e.at] = IF ok THEN Version(mem'[e.at]) ELSE @]
    BY <2>8, <2>10
  <2> QED BY <1>4, <1>1, <2>1, <2>4, <2>5, <2>8, <2>10, <2>11, <2>12, <2>13
<1> QED BY <1>2, <1>3, <1>4 DEF Actors

-----------------------------------------------------------------------------
(* Every step keeps the types, the queue and the locks.                        *)

LEMMA InitTypes == Init => TypeInv
<1> SUFFICES ASSUME Init PROVE TypeInv
  OBVIOUS
<1>1. \A c \in [Ids -> FirstCreds], i \in Ids : c[i] \in Creds /\ AccountOf[c[i]] \in Accounts
  BY StoreAssumption, Assumptions
<1>2. mem \in [Ids -> Doc] /\ merge \in [keep : Ids \cup {0}, gone : Ids \cup {0}, moved : BOOLEAN]
      /\ MergeOK /\ rule \in Ids \cup {0}
  <2>1. PICK c \in [Ids -> FirstCreds], confirmed \in BOOLEAN,
             m \in [keep : Ids, gone : Ids, moved : BOOLEAN] \cup {NoMerge} :
          /\ m # NoMerge => m.keep < m.gone /\ confirmed /\ AccountOf[c[m.keep]] = AccountOf[c[m.gone]]
          /\ mem = [i \in Ids |-> [here |-> TRUE, cred |-> c[i], av |-> 1,
                                   ident |-> IF confirmed THEN AccountOf[c[i]] ELSE None, tok |-> None,
                                   arch |-> FALSE, into |-> IF i = m.gone THEN m.keep ELSE 0, ref |-> NoRef]]
          /\ merge = m
          /\ rule = IF m.moved THEN m.keep ELSE 0
    BY DEF Init
  <2>2. m.keep \in Ids \cup {0} /\ m.gone \in Ids \cup {0} /\ m.moved \in BOOLEAN
        /\ m \in [keep : Ids \cup {0}, gone : Ids \cup {0}, moved : BOOLEAN]
    <3>1. CASE m = NoMerge
      BY <3>1 DEF NoMerge
    <3>2. CASE m \in [keep : Ids, gone : Ids, moved : BOOLEAN]
      BY <3>2
    <3> QED BY <3>1, <3>2
  <2>3. m = NoMerge => m.gone = 0
    BY DEF NoMerge
  <2>4. ASSUME NEW i \in Ids PROVE mem[i] \in Doc
    <3>1. c[i] \in Creds /\ AccountOf[c[i]] \in Accounts
      BY <1>1
    <3>2. PICK x \in Accounts \cup {None} : x = IF confirmed THEN AccountOf[c[i]] ELSE None
      BY <3>1
    <3>3. PICK y \in Ids \cup {0} : y = IF i = m.gone THEN m.keep ELSE 0
      BY <2>2
    <3>4. mem[i] = [here |-> TRUE, cred |-> c[i], av |-> 1, ident |-> x, tok |-> None,
                    arch |-> FALSE, into |-> y, ref |-> NoRef]
      BY <2>1, <3>2, <3>3
    <3> QED BY <3>1, <3>4, Assumptions DEF Doc
  <2>5. mem \in [Ids -> Doc]
    BY <2>1, <2>4
  <2>6. merge \in [keep : Ids \cup {0}, gone : Ids \cup {0}, moved : BOOLEAN]
    BY <2>1, <2>2
  <2>7. MergeOK /\ rule \in Ids \cup {0}
    BY <2>1, <2>2 DEF MergeOK
  <2> QED BY <2>5, <2>6, <2>7
<1>3. IdleReader \in Readers /\ NoPreview \in Previews
  BY NoVersionType DEF IdleReader, Readers, NoPreview, Previews
<1>4. queue = <<>> /\ queue \in Seq(Entries) /\ lockq \in [Locks -> Seq(Actors)]
      /\ \A l \in Locks : lockq[l] = <<>>
  BY EmptySeq DEF Init, Locks
<1>5. job \in [Actors -> Jobs] /\ \A a \in Actors : job[a] = IdleJob /\ JobOK(a, job[a])
  <2>1. job = [a \in Actors |-> IdleJob]
    BY DEF Init
  <2>2. ASSUME NEW a \in Actors PROVE job[a] = IdleJob /\ JobOK(a, job[a])
    <3>1. job[a] = IdleJob
      BY <2>1
    <3> QED BY <3>1, IdleJobOK
  <2>3. job \in [Actors -> Jobs]
    BY <2>1, IdleJobOK
  <2> QED BY <2>2, <2>3
<1>6. DOMAIN shown \subseteq Ids
  BY DEF Init
<1>7. ops \in 0..MaxOps /\ faults \in 0..MaxFaults
  BY StoreAssumption DEF Init
<1>8. Types
  <2>1. reader \in [Ids -> Readers] /\ preview = NoPreview /\ ~preview.live /\ writing = NoWrite /\ db = mem
    BY <1>3 DEF Init, NoPreview
  <2> QED BY <2>1, <1>2, <1>3, <1>4, <1>5, <1>6, <1>7 DEF Types
<1>9. QueueInv
  BY <1>4 DEF QueueInv, Init
<1>10. LockInv
  BY <1>4, <1>5 DEF LockInv, LockJob, LockLine, IdleJob
<1> QED BY <1>8, <1>9, <1>10 DEF TypeInv

LEMMA EditStartStep ==
  ASSUME TypeInv, NEW i \in Ids, NEW op \in {"cred", "archive", "restore", "remove"}, NEW c \in Creds,
         NEW checked \in BOOLEAN, EditStart(i, op, c, checked)
  PROVE  TypeInv' /\ \A b \in Actors \ {"edit"} : job'[b] = job[b]
<1> DEFINE p == IF checked THEN "asked" ELSE "lock"
           x == IF checked THEN Version(mem[i]) ELSE NoVersion
           v == [NoVersions EXCEPT ![i] = x]
           j == [IdleJob EXCEPT !.pc = p, !.op = op, !.at = i, !.cred = c, !.need = {i}, !.vers = v]
<1>1. Begin("edit", j) /\ UNCHANGED <<mem, db, rule, merge, queue, writing, lockq, reader, preview, shown, faults>>
  BY DEF EditStart, IdleJob
<1>2. x \in Versions
  BY VersionType, NoVersionType DEF TypeInv, Types
<1>3. v \in [Ids -> Versions]
  BY <1>2, NoVersionType
<1>4. p \in {"asked", "lock"} /\ {i} \subseteq Locks
  BY DEF Locks
<1> HIDE DEF p, v
<1>5. j \in Jobs /\ j.pc = p /\ j.held = {} /\ j.need = {i} /\ j.at = i /\ j.cred = c /\ j.op = op
  BY <1>3, <1>4, IdleJobOK DEF Jobs, IdleJob
<1> HIDE DEF j
<1>6. JobOK("edit", j)
  BY <1>4, <1>5 DEF JobOK
<1> QED BY <1>1, <1>4, <1>5, <1>6, BeginStep DEF Actors

LEMMA EditSubmitStep ==
  ASSUME TypeInv, EditSubmit
  PROVE  TypeInv' /\ \A b \in Actors \ {"edit"} : job'[b] = job[b]
<1> DEFINE j == [job["edit"] EXCEPT !.pc = "lock"]
<1>1. job["edit"] \in Jobs /\ JobOK("edit", job["edit"]) /\ LockJob("edit") /\ job["edit"].pc = "asked"
  BY DEF TypeInv, Types, LockInv, Actors, EditSubmit
<1>2. job' = [job EXCEPT !["edit"] = j] /\ "edit" \in Actors /\ job["edit"].pc = "asked"
  BY DEF EditSubmit, Actors
<1>3. /\ j \in Jobs /\ j.pc = "lock" /\ j.need = job["edit"].need /\ j.held = job["edit"].held
      /\ j.at = job["edit"].at /\ j.cred = job["edit"].cred /\ j.op = job["edit"].op
  BY <1>1 DEF Jobs
<1>4. ops' \in 0..MaxOps
  BY DEF EditSubmit, TypeInv, Types
<1> HIDE DEF j
<1>5. JobOK("edit", j)
  BY <1>1, <1>3 DEF JobOK
<1>6. KeepsLocks(job["edit"], j)
  BY <1>1, <1>3 DEF KeepsLocks, JobOK, LockJob
<1>7. \A b \in Actors \ {"edit"} : job'[b] = job[b]
  BY <1>2, <1>5, JobChanges DEF TypeInv
<1> QED BY <1>2, <1>4, <1>5, <1>6, <1>7, JobStep DEF EditSubmit

LEMMA ConfirmStartStep ==
  ASSUME TypeInv, NEW i \in Ids, ConfirmStart(i)
  PROVE  /\ TypeInv' /\ \A b \in Actors \ {"confirm"} : job'[b] = job[b]
         /\ job'["confirm"].at = i /\ job'["confirm"].cred = mem[i].cred
         /\ job'["confirm"].vers[i] = Version(mem[i])
<1> DEFINE v == [NoVersions EXCEPT ![i] = Version(mem[i])]
           j == [IdleJob EXCEPT !.pc = "asked", !.at = i, !.cred = mem[i].cred, !.need = {i}, !.vers = v]
<1>1. /\ Begin("confirm", j)
      /\ UNCHANGED <<mem, db, rule, merge, queue, writing, lockq, reader, preview, shown, faults>>
  BY DEF ConfirmStart, IdleJob
<1>2. v \in [Ids -> Versions] /\ v[i] = Version(mem[i])
  BY VersionType, NoVersionType DEF TypeInv, Types
<1>3. mem[i].cred \in Creds /\ {i} \subseteq Locks
  BY DEF Locks, TypeInv, Types, Doc
<1> HIDE DEF v
<1>4. /\ j \in Jobs /\ j.pc = "asked" /\ j.held = {} /\ j.need = {i} /\ j.at = i /\ j.cred = mem[i].cred
      /\ j.vers = v
  BY <1>2, <1>3, IdleJobOK DEF Jobs, IdleJob
<1> HIDE DEF j
<1>5. JobOK("confirm", j)
  BY <1>3, <1>4 DEF JobOK
<1>6. "confirm" \in Actors
  BY DEF Actors
<1>7. TypeInv' /\ job'["confirm"] = j /\ \A b \in Actors \ {"confirm"} : job'[b] = job[b]
  BY <1>1, <1>4, <1>5, <1>6, BeginStep
<1> QED BY <1>2, <1>4, <1>7

LEMMA ConfirmAnswerStep ==
  ASSUME TypeInv, ConfirmAnswer
  PROVE  /\ TypeInv' /\ \A b \in Actors \ {"confirm"} : job'[b] = job[b]
         /\ \/ job'["confirm"].pc = "idle"
            \/ /\ job'["confirm"].at = job["confirm"].at /\ job'["confirm"].cred = job["confirm"].cred
               /\ job'["confirm"].vers = job["confirm"].vers
<1> DEFINE j == job["confirm"]
           k == [j EXCEPT !.pc = "lock", !.ident = AccountOf[j.cred]]
<1>1. j \in Jobs /\ JobOK("confirm", j) /\ LockJob("confirm") /\ j.pc = "asked"
  BY DEF TypeInv, Types, LockInv, Actors, ConfirmAnswer
<1>2. job' = [job EXCEPT !["confirm"] = k] \/ job' = [job EXCEPT !["confirm"] = IdleJob]
  BY DEF ConfirmAnswer, TypeInv, Types, Actors
<1>3. "confirm" \in Actors
  BY DEF Actors
<1>4. ops' \in 0..MaxOps
  BY DEF ConfirmAnswer, TypeInv, Types
<1>5. j.cred \in Creds
  BY <1>1 DEF JobOK
<1>6. PICK x \in Accounts : x = AccountOf[j.cred]
  BY <1>5, Assumptions
<1>7. /\ k \in Jobs /\ k.pc = "lock" /\ k.need = j.need /\ k.held = j.held /\ k.at = j.at /\ k.cred = j.cred
      /\ k.ident = AccountOf[k.cred] /\ k.vers = j.vers
  <2>1. k = [j EXCEPT !.pc = "lock", !.ident = x]
    BY <1>6
  <2> HIDE DEF j, k
  <2>2. /\ k \in Jobs /\ k.pc = "lock" /\ k.need = j.need /\ k.held = j.held /\ k.at = j.at /\ k.cred = j.cred
        /\ k.ident = x /\ k.vers = j.vers
    BY <1>1, <1>6, <2>1 DEF Jobs
  <2> QED BY <1>6, <2>2
<1> HIDE DEF k
<1>8. JobOK("confirm", k)
  BY <1>1, <1>7 DEF JobOK
<1>9. KeepsLocks(job["confirm"], k) /\ KeepsLocks(job["confirm"], IdleJob)
  BY <1>1, <1>7 DEF KeepsLocks, JobOK, LockJob, IdleJob
<1>10. CASE job' = [job EXCEPT !["confirm"] = k]
  <2>1. job'["confirm"] = k /\ \A b \in Actors \ {"confirm"} : job'[b] = job[b]
    BY <1>3, <1>8, <1>10, JobChanges DEF TypeInv
  <2>2. TypeInv'
    BY <1>1, <1>3, <1>4, <1>8, <1>9, <1>10, JobStep DEF ConfirmAnswer
  <2> QED BY <1>7, <2>1, <2>2
<1>11. CASE job' = [job EXCEPT !["confirm"] = IdleJob]
  <2>1. job'["confirm"] = IdleJob /\ \A b \in Actors \ {"confirm"} : job'[b] = job[b]
    BY <1>3, <1>11, IdleJobOK, JobChanges DEF TypeInv
  <2>2. TypeInv'
    BY <1>1, <1>3, <1>4, <1>9, <1>11, IdleJobOK, JobStep DEF ConfirmAnswer
  <2>3. IdleJob.pc = "idle"
    BY DEF IdleJob
  <2> QED BY <2>1, <2>2, <2>3
<1> QED BY <1>2, <1>10, <1>11

LEMMA AuthPreviewStep ==
  ASSUME TypeInv, NEW r \in 1..MaxRequests, NEW c \in Creds, NEW targets \in SUBSET Ids,
         AuthPreview(r, c, targets)
  PROVE  TypeInv'
<1> DEFINE v == [i \in Ids |-> IF i \in targets THEN Version(mem[i]) ELSE NoVersion]
<1>1. v \in [Ids -> Versions]
  BY VersionType, NoVersionType DEF TypeInv, Types
<1>2. preview' = [live |-> TRUE, req |-> r, cred |-> c, vers |-> v]
  BY DEF AuthPreview
<1>3. r \in Nat
  BY StoreAssumption
<1>4. preview' \in Previews /\ preview'.live /\ preview'.cred \in Creds
  <2> HIDE DEF v
  <2> QED BY <1>1, <1>2, <1>3 DEF Previews
<1>5. DOMAIN shown' \subseteq Ids
  BY DEF AuthPreview
<1>6. Types'
  BY <1>4, <1>5 DEF AuthPreview, TypeInv, Types, MergeOK
<1> QED BY <1>6, JobsStay DEF AuthPreview, TypeInv

LEMMA PreviewExpiresStep ==
  ASSUME TypeInv, PreviewExpires
  PROVE  TypeInv'
<1>1. preview' = NoPreview /\ NoPreview \in Previews /\ ~NoPreview.live
  BY NoVersionType DEF PreviewExpires, NoPreview, Previews
<1>2. DOMAIN shown' \subseteq Ids
  <2>1. shown' = <<>> \/ shown' = shown
    BY DEF PreviewExpires
  <2> QED BY <2>1 DEF TypeInv, Types
<1>3. Types'
  BY <1>1, <1>2 DEF PreviewExpires, TypeInv, Types, MergeOK
<1> QED BY <1>3, JobsStay DEF PreviewExpires, TypeInv

LEMMA AuthConfirmStep ==
  ASSUME TypeInv, AuthConfirm
  PROVE  /\ TypeInv' /\ \A b \in Actors \ {"auth"} : job'[b] = job[b]
         /\ job'["auth"].vers = preview.vers
<1> DEFINE n == Targets(preview.vers) \cup {Source}
           t == Targets(preview.vers) \cap AccountStations(preview.cred)
           j == [IdleJob EXCEPT !.pc = "lock", !.cred = preview.cred, !.need = n, !.vers = preview.vers,
                                !.todo = t]
<1>1. /\ Begin("auth", j) /\ preview.live
      /\ UNCHANGED <<mem, db, rule, merge, queue, writing, lockq, reader, preview, shown, faults>>
  BY DEF AuthConfirm, IdleJob
<1>2. preview.cred \in Creds /\ preview.vers \in [Ids -> Versions]
  BY <1>1 DEF TypeInv, Types, Previews
<1>3. n \subseteq Locks /\ n # {} /\ t \subseteq Ids /\ t \subseteq Targets(preview.vers)
  BY DEF Targets, Locks
<1> HIDE DEF n, t
<1>4. /\ j \in Jobs /\ j.pc = "lock" /\ j.held = {} /\ j.need = n /\ j.cred = preview.cred
      /\ j.vers = preview.vers /\ j.todo = t
  BY <1>2, <1>3, IdleJobOK DEF Jobs, IdleJob
<1> HIDE DEF j
<1>5. JobOK("auth", j)
  BY <1>2, <1>3, <1>4 DEF JobOK
<1>6. "auth" \in Actors
  BY DEF Actors
<1>7. TypeInv' /\ job'["auth"] = j /\ \A b \in Actors \ {"auth"} : job'[b] = job[b]
  BY <1>1, <1>3, <1>4, <1>5, <1>6, BeginStep
<1> QED BY <1>4, <1>7

LEMMA MergeStartStep ==
  ASSUME TypeInv, NEW keep \in Ids, NEW gone \in Ids, MergeStart(keep, gone)
  PROVE  TypeInv' /\ \A b \in Actors \ {"merge"} : job'[b] = job[b]
<1> DEFINE n == {keep, gone}
           j == [IdleJob EXCEPT !.pc = "lock", !.op = "merge", !.need = n, !.todo = n, !.bound = rule]
<1>1. /\ Begin("merge", j) /\ keep < gone
      /\ UNCHANGED <<mem, db, rule, merge, queue, writing, lockq, reader, preview, shown, faults>>
  BY DEF MergeStart, IdleJob
<1>2. rule \in Ids \cup {0} /\ n \subseteq Locks /\ n \subseteq Ids
  BY DEF TypeInv, Types, Locks
<1> HIDE DEF n
<1>3. j \in Jobs /\ j.pc = "lock" /\ j.held = {} /\ j.need = n /\ j.todo = n /\ j.op = "merge"
  BY <1>2, IdleJobOK DEF Jobs, IdleJob
<1> HIDE DEF j
<1>4. JobOK("merge", j) /\ j.need # {}
  BY <1>1, <1>3 DEF JobOK, n
<1> QED BY <1>1, <1>3, <1>4, BeginStep DEF Actors

LEMMA UndoStartStep ==
  ASSUME TypeInv, UndoStart
  PROVE  TypeInv' /\ \A b \in Actors \ {"merge"} : job'[b] = job[b]
<1> DEFINE n == {merge.keep, merge.gone}
           j == [IdleJob EXCEPT !.pc = "lock", !.op = "undo", !.need = n, !.todo = n]
<1>1. /\ Begin("merge", j) /\ merge.keep \in Ids /\ merge.gone \in Ids /\ merge.keep < merge.gone
      /\ UNCHANGED <<mem, db, rule, merge, queue, writing, lockq, reader, preview, shown, faults>>
  BY DEF UndoStart, IdleJob, TypeInv, Types, MergeOK
<1>2. n \subseteq Locks /\ n \subseteq Ids
  BY <1>1 DEF Locks
<1> HIDE DEF n
<1>3. j \in Jobs /\ j.pc = "lock" /\ j.held = {} /\ j.need = n /\ j.todo = n /\ j.op = "undo"
  BY <1>2, IdleJobOK DEF Jobs, IdleJob
<1> HIDE DEF j
<1>4. JobOK("merge", j) /\ j.need # {}
  BY <1>1, <1>3 DEF JobOK, n
<1> QED BY <1>1, <1>3, <1>4, BeginStep DEF Actors

LEMMA BindStartStep ==
  ASSUME TypeInv, NEW i \in Ids, BindStart(i)
  PROVE  TypeInv' /\ \A b \in Actors \ {"bind"} : job'[b] = job[b]
<1> DEFINE v == [k \in Ids |-> IF k \in Billable THEN Version(mem[k]) ELSE NoVersion]
           n == Billable \cup {Source}
           j == [IdleJob EXCEPT !.pc = "lock", !.at = i, !.need = n, !.vers = v]
<1>1. /\ Begin("bind", j) /\ Visible(mem[i])
      /\ UNCHANGED <<mem, db, rule, merge, queue, writing, lockq, reader, preview, shown, faults>>
  BY DEF BindStart, IdleJob
<1>2. v \in [Ids -> Versions] /\ i \in Billable /\ v[i] # NoVersion
  BY <1>1, VersionType, NoVersionType DEF TypeInv, Types, Billable
<1>3. n \subseteq Locks /\ i \in n
  BY <1>2 DEF Locks, Billable
<1> HIDE DEF v, n
<1>4. /\ j \in Jobs /\ j.pc = "lock" /\ j.held = {} /\ j.need = n /\ j.at = i /\ j.vers = v
  BY <1>2, <1>3, IdleJobOK DEF Jobs, IdleJob
<1> HIDE DEF j
<1>5. JobOK("bind", j)
  BY <1>2, <1>3, <1>4 DEF JobOK
<1> QED BY <1>1, <1>3, <1>4, <1>5, BeginStep DEF Actors

\* An operation that waits for locks: only its locks and whether it has them all.
LEMMA LockStep ==
  ASSUME TypeInv, NEW a \in Actors, JoinLine(a) \/ TakeLock(a)
  PROVE  /\ TypeInv'
         /\ \A b \in Actors : /\ job'[b] = job[b] \/ (job'[b].pc # "idle" /\ job[b].pc # "idle")
                              /\ job'[b].vers = job[b].vers /\ job'[b].at = job[b].at
                              /\ job'[b].cred = job[b].cred
                              /\ job[b].pc = "queued" => job'[b] = job[b]
<1> DEFINE l == NextLock(a)
<1>1. /\ job[a].pc = "lock" /\ (Hold(a, l) \/ UNCHANGED job)
      /\ UNCHANGED <<mem, db, rule, merge, queue, writing, reader, preview, shown, ops, faults>>
  BY DEF JoinLine, TakeLock
<1>2. job[a].pc = "lock" /\ job[a] \in Jobs
  BY DEF JoinLine, TakeLock, TypeInv, Types
<1>3. LockInv' /\ lockq' \in [Locks -> Seq(Actors)]
  BY TakeLockLocks, JoinLineLocks DEF TakeLock, TypeInv, Types
<1>4. /\ job' \in [Actors -> Jobs] /\ \A b \in Actors : JobOK(b, job'[b])
      /\ \A b \in Actors \ {a} : job'[b] = job[b]
  BY <1>1, <1>2, HoldDoes DEF TypeInv, Types
<1>5. /\ job'[a] = job[a] \/ job'[a].pc \in {"lock", "held"}
      /\ job'[a].vers = job[a].vers /\ job'[a].at = job[a].at /\ job'[a].cred = job[a].cred
  <2>1. CASE UNCHANGED job
    BY <2>1
  <2>2. CASE Hold(a, l)
    <3>1. job'[a].pc \in {"lock", "held"}
      BY <2>2, <1>2, HoldDoes
    <3> QED BY <2>2, <3>1, <1>2 DEF Hold, Jobs, TypeInv, Types
  <2> QED BY <1>1, <2>1, <2>2
<1>6. Types'
  BY <1>1, <1>3, <1>4 DEF TypeInv, Types, MergeOK
<1>7. QueueInv'
  BY <1>1, <1>2, <1>4, QueueStays DEF TypeInv
<1> QED BY <1>2, <1>3, <1>4, <1>5, <1>6, <1>7 DEF TypeInv

LEMMA EnqueueStep ==
  ASSUME TypeInv, NEW a \in {"edit", "confirm", "auth", "merge"}, NEW i \in Ids \cup {0},
         job[a].pc = "held", Enqueue(a, i), a \in {"edit", "confirm"} => i \in Ids,
         a = "auth" => i \in job[a].todo,
         UNCHANGED <<mem, db, rule, merge, writing, reader, preview, shown, ops, faults>>
  PROVE  /\ TypeInv' /\ \A b \in Actors \ {a} : job'[b] = job[b]
         /\ job'[a].at = i /\ job'[a].vers = job[a].vers /\ job'[a].cred = job[a].cred
<1> DEFINE j == [job[a] EXCEPT !.pc = "queued", !.at = i]
           e == [who |-> a, at |-> i]
<1>1. a \in Actors /\ job[a] \in Jobs /\ JobOK(a, job[a]) /\ e \in Entries
  BY DEF TypeInv, Types, Actors, Entries
<1>2. job' = [job EXCEPT ![a] = j] /\ queue' = Append(queue, e) /\ UNCHANGED lockq
  <2>1. job' = [job EXCEPT ![a].pc = "queued", ![a].at = i]
    BY DEF Enqueue
  <2>2. job' = [job EXCEPT ![a] = j]
    BY <2>1, <1>1 DEF TypeInv, Types
  <2> QED BY <2>2 DEF Enqueue
<1>3. /\ j \in Jobs /\ j.pc = "queued" /\ j.at = i /\ j.need = job[a].need /\ j.held = job[a].held
      /\ j.cred = job[a].cred /\ j.op = job[a].op /\ j.ident = job[a].ident /\ j.todo = job[a].todo
      /\ j.vers = job[a].vers
  <2> DEFINE J == job[a]
  <2>1. J \in Jobs /\ j = [J EXCEPT !.pc = "queued", !.at = i]
    BY <1>1
  <2> HIDE DEF J, j
  <2>2. /\ j \in Jobs /\ j.pc = "queued" /\ j.at = i /\ j.need = J.need /\ j.held = J.held
        /\ j.cred = J.cred /\ j.op = J.op /\ j.ident = J.ident /\ j.todo = J.todo /\ j.vers = J.vers
    BY <2>1 DEF Jobs
  <2> QED BY <2>2 DEF J
<1> HIDE DEF j
<1>4. JobOK(a, j)
  BY <1>1, <1>3 DEF JobOK
<1>5. /\ job' \in [Actors -> Jobs] /\ \A b \in Actors : JobOK(b, job'[b])
      /\ job'[a] = j /\ \A b \in Actors \ {a} : job'[b] = job[b]
  BY <1>1, <1>2, <1>4, JobChanges DEF TypeInv
<1>6. Waits(e)'
  BY <1>1, <1>3, <1>5 DEF Waits, Actors
<1>7. QueueInv' /\ queue' \in Seq(Entries)
  <2>1. e.who = a /\ \A b \in Actors : job[b].pc = "queued" => job'[b] = job[b]
    BY <1>5
  <2> HIDE DEF e
  <2> QED BY <2>1, <1>1, <1>2, <1>6, QueueGrows DEF TypeInv
<1>8. LockInv'
  <2>1. \A b \in Actors : KeepsLocks(job[b], job'[b])
    BY <1>3, <1>5 DEF KeepsLocks
  <2> QED BY <2>1, <1>2, LocksStay DEF TypeInv
<1>9. Types'
  BY <1>2, <1>5, <1>7 DEF TypeInv, Types, MergeOK
<1> QED BY <1>3, <1>5, <1>7, <1>8, <1>9 DEF TypeInv

\* An operation is over without a change.
LEMMA FinishStep ==
  ASSUME TypeInv, NEW a \in Actors, job[a].pc = "held", Finish(a), rule' \in Ids \cup {0},
         UNCHANGED <<mem, db, merge, queue, writing, reader, preview, shown, ops, faults>>
  PROVE  TypeInv' /\ job'[a] = IdleJob /\ \A b \in Actors \ {a} : job'[b] = job[b]
<1>1. LockInv' /\ lockq' \in [Locks -> Seq(Actors)]
  BY FinishLocks
<1>2. /\ job' \in [Actors -> Jobs] /\ \A b \in Actors : JobOK(b, job'[b])
      /\ job'[a] = IdleJob /\ \A b \in Actors \ {a} : job'[b] = job[b]
  BY IdleJobOK, JobChanges DEF Finish, TypeInv
<1>3. Types'
  BY <1>1, <1>2 DEF TypeInv, Types, MergeOK
<1>4. QueueInv'
  BY <1>2, QueueStays DEF TypeInv
<1> QED BY <1>1, <1>2, <1>3, <1>4 DEF TypeInv

LEMMA EditHeldStep ==
  ASSUME TypeInv, EditHeld
  PROVE  TypeInv' /\ \A b \in Actors \ {"edit"} : job'[b] = job[b]
<1>1. JobOK("edit", job["edit"]) /\ job["edit"].pc = "held"
  BY DEF TypeInv, Types, Actors, EditHeld
<1>2. job["edit"].at \in Ids
  BY <1>1 DEF JobOK
<1> QED BY <1>1, <1>2, EnqueueStep DEF EditHeld

LEMMA ConfirmHeldStep ==
  ASSUME TypeInv, ConfirmHeld
  PROVE  /\ TypeInv' /\ \A b \in Actors \ {"confirm"} : job'[b] = job[b]
         /\ \/ job'["confirm"].pc = "idle"
            \/ /\ job'["confirm"].at = job["confirm"].at /\ job'["confirm"].cred = job["confirm"].cred
               /\ job'["confirm"].vers = job["confirm"].vers
<1>1. JobOK("confirm", job["confirm"]) /\ job["confirm"].pc = "held" /\ "confirm" \in Actors
  BY DEF TypeInv, Types, Actors, ConfirmHeld
<1>2. job["confirm"].at \in Ids
  BY <1>1 DEF JobOK
<1>3. CASE Enqueue("confirm", job["confirm"].at)
  BY <1>1, <1>2, <1>3, EnqueueStep DEF ConfirmHeld
<1>4. CASE Finish("confirm") /\ UNCHANGED queue
  BY <1>1, <1>4, FinishStep DEF ConfirmHeld, IdleJob, TypeInv, Types
<1> QED BY <1>3, <1>4 DEF ConfirmHeld

LEMMA AuthHeldStep ==
  ASSUME TypeInv, AuthHeld
  PROVE  /\ TypeInv' /\ \A b \in Actors \ {"auth"} : job'[b] = job[b]
         /\ job'["auth"].vers = job["auth"].vers \/ job'["auth"].vers = NoVersions
<1> DEFINE j == job["auth"]
           i == Min(j.todo)
<1>1. "auth" \in Actors /\ j \in Jobs /\ JobOK("auth", j) /\ j.pc = "held"
  BY DEF TypeInv, Types, Actors, AuthHeld
<1>2. j.todo \subseteq Ids /\ j.todo \subseteq Targets(j.vers)
  BY <1>1 DEF Jobs, JobOK
<1>3. j.todo # {} => i \in j.todo
  BY <1>2, MinOfNumbers, Assumptions
<1>4. \/ Finish("auth") /\ UNCHANGED queue
      \/ j.todo # {} /\ job' = [job EXCEPT !["auth"].todo = @ \ {i}] /\ UNCHANGED <<queue, lockq>>
      \/ j.todo # {} /\ Enqueue("auth", i)
  BY DEF AuthHeld
<1>5. CASE Finish("auth") /\ UNCHANGED queue
  BY <1>1, <1>5, FinishStep DEF AuthHeld, IdleJob, TypeInv, Types
<1>6. CASE j.todo # {} /\ job' = [job EXCEPT !["auth"].todo = @ \ {i}] /\ UNCHANGED <<queue, lockq>>
  <2> DEFINE t == j.todo \ {i}
             k == [j EXCEPT !.todo = t]
  <2>1. job' = [job EXCEPT !["auth"] = k]
    BY <1>6, <1>1 DEF TypeInv, Types
  <2>2. t \subseteq Ids /\ t \subseteq Targets(j.vers)
    BY <1>2
  <2> HIDE DEF t, j
  <2>3. /\ k \in Jobs /\ k.pc = "held" /\ k.need = j.need /\ k.held = j.held /\ k.cred = j.cred
        /\ k.vers = j.vers /\ k.todo = t
    BY <1>1, <2>2 DEF Jobs
  <2> HIDE DEF k
  <2>4. JobOK("auth", k)
    BY <1>1, <2>2, <2>3 DEF JobOK
  <2>5. KeepsLocks(j, k)
    BY <1>1, <2>3 DEF KeepsLocks
  <2>6. ops' \in 0..MaxOps
    BY DEF AuthHeld, TypeInv, Types
  <2>7. TypeInv'
    BY <1>1, <1>6, <2>1, <2>4, <2>5, <2>6, JobStep DEF AuthHeld, j
  <2>8. job'["auth"] = k /\ \A b \in Actors \ {"auth"} : job'[b] = job[b]
    BY <1>1, <2>1, <2>4, JobChanges DEF TypeInv
  <2> QED BY <2>3, <2>7, <2>8 DEF j
<1>7. CASE j.todo # {} /\ Enqueue("auth", i)
  BY <1>1, <1>2, <1>3, <1>7, EnqueueStep DEF AuthHeld
<1> QED BY <1>4, <1>5, <1>6, <1>7

LEMMA MergeHeldStep ==
  ASSUME TypeInv, MergeHeld
  PROVE  TypeInv' /\ \A b \in Actors \ {"merge"} : job'[b] = job[b]
BY EnqueueStep DEF MergeHeld

LEMMA BindHeldStep ==
  ASSUME TypeInv, BindHeld
  PROVE  TypeInv' /\ \A b \in Actors \ {"bind"} : job'[b] = job[b]
<1>1. "bind" \in Actors /\ JobOK("bind", job["bind"]) /\ job["bind"].pc = "held"
  BY DEF TypeInv, Types, Actors, BindHeld
<1>2. job["bind"].at \in Ids /\ rule \in Ids \cup {0}
  BY <1>1 DEF JobOK, TypeInv, Types
<1>3. rule' \in Ids \cup {0}
  BY <1>2 DEF BindHeld
<1> QED BY <1>1, <1>3, FinishStep DEF BindHeld

LEMMA PrepareStep ==
  ASSUME TypeInv, Prepare
  PROVE  LET e == Head(queue) IN
         /\ TypeInv' /\ Waits(e) /\ e.who \in Actors \cup {"read"} /\ writing = NoWrite
         /\ UNCHANGED <<mem, db, rule, merge, reader, shown>>
         /\ \A b \in Actors \ {e.who} : job'[b] = job[b]
         /\ \/ /\ Verdict(e.who, e.at) = "write"
               /\ writing' = [who |-> e.who, at |-> e.at, docs |-> [k \in Ids |-> NewDoc(e.who, k)],
                              fields |-> [k \in Ids |-> Fields([m \in Ids |-> NewDoc(e.who, m)], k)],
                              stored |-> FALSE]
               /\ UNCHANGED <<job, preview>>
            \/ writing' = NoWrite /\ Reply(e.who, e.at, FALSE)
<1> DEFINE e == Head(queue)
           docs == [k \in Ids |-> NewDoc(e.who, k)]
<1>1. /\ queue \in Seq(Entries) /\ queue # <<>> /\ writing = NoWrite /\ queue' = Tail(queue)
      /\ UNCHANGED <<db, rule, merge, reader, shown, ops, faults>>
  BY DEF Prepare, TypeInv, Types
<1>2. e \in Entries /\ Waits(e) /\ e = queue[1] /\ Len(queue) \in Nat \ {0}
  <2>1. Head(queue) \in Entries /\ Head(queue) = queue[1] /\ Len(queue) \in Nat \ {0}
    BY <1>1, TailPlaces
  <2>2. Waits(queue[1])
    BY <2>1 DEF TypeInv, QueueInv
  <2> QED BY <2>1, <2>2
<1>3. e.who \in Actors \cup {"read"} /\ e.at \in Ids \cup {0}
  BY <1>2 DEF Entries
<1>4. \/ /\ Verdict(e.who, e.at) = "write"
         /\ writing' = [who |-> e.who, at |-> e.at, docs |-> docs, fields |-> [k \in Ids |-> Fields(docs, k)],
                        stored |-> FALSE]
         /\ UNCHANGED <<mem, lockq, job, preview>>
      \/ UNCHANGED <<mem, writing>> /\ Reply(e.who, e.at, FALSE)
  BY DEF Prepare
<1>5. CASE UNCHANGED <<mem, writing>> /\ Reply(e.who, e.at, FALSE)
  <2>1. mem' \in [Ids -> Doc]
    BY <1>5 DEF TypeInv, Types
  <2>2. /\ job' \in [Actors -> Jobs] /\ \A b \in Actors : JobOK(b, job'[b])
        /\ lockq' \in [Locks -> Seq(Actors)] /\ LockInv'
        /\ preview' \in Previews /\ IF preview'.live THEN preview'.cred \in Creds ELSE preview' = NoPreview
        /\ \A b \in Actors \ {e.who} : job'[b] = job[b]
    BY <1>2, <1>3, <1>5, <2>1, ReplyDoes
  <2>3. QueueInv' /\ queue' \in Seq(Entries)
    BY <1>1, <1>5, <2>2, QueueShrinks DEF TypeInv
  <2>4. Types'
    BY <1>1, <1>5, <2>1, <2>2, <2>3 DEF TypeInv, Types, MergeOK
  <2> QED BY <1>1, <1>2, <1>3, <1>5, <2>2, <2>3, <2>4 DEF TypeInv
<1>6. CASE /\ Verdict(e.who, e.at) = "write"
           /\ writing' = [who |-> e.who, at |-> e.at, docs |-> docs,
                          fields |-> [k \in Ids |-> Fields(docs, k)], stored |-> FALSE]
           /\ UNCHANGED <<mem, lockq, job, preview>>
  <2>1. docs \in [Ids -> Doc]
    BY <1>2, <1>3, NewDocType
  <2>2. ASSUME NEW k \in Ids PROVE Fields(docs, k) \in SUBSET FieldNames
    <3>1. DOMAIN mem[k] = FieldNames
      BY DocFields DEF TypeInv, Types, FieldNames
    <3> HIDE DEF docs
    <3> QED BY <3>1 DEF Fields, FieldNames
  <2>3. [k \in Ids |-> Fields(docs, k)] \in [Ids -> SUBSET FieldNames]
    <3> HIDE DEF docs
    <3> QED BY <2>2
  <2>4. /\ writing' \in Changes /\ writing'.who = e.who /\ writing'.at = e.at
    <3> HIDE DEF docs, e
    <3> QED BY <1>3, <1>6, <2>1, <2>3 DEF Changes
  <2>5. /\ queue' \in Seq(Entries) /\ Len(queue') = Len(queue) - 1
        /\ \A n \in 1..Len(queue') : queue'[n] = queue[n + 1] /\ n + 1 \in 1..Len(queue)
    BY <1>1, TailPlaces
  <2>6. \A x : Waits(x) => Waits(x)'
    BY <1>6 DEF Waits
  <2>7. ASSUME NEW n \in 1..Len(queue')
        PROVE  /\ \A x : x = queue'[n] => Waits(x)'
               /\ e.who = queue'[n].who => e.who \notin Actors
               /\ \A m \in 1..Len(queue') : queue'[m].who = queue'[n].who /\ m # n => queue'[n].who \notin Actors
    <3>1. n + 1 \in 1..Len(queue) /\ 1 \in 1..Len(queue) /\ n + 1 # 1
      BY <1>2, <2>5
    <3>2. \A m \in 1..Len(queue') : m # n => m + 1 # n + 1 /\ m + 1 \in 1..Len(queue)
      BY <2>5
    <3>3. Waits(queue[n + 1]) /\ (queue[1].who = queue[n + 1].who => queue[1].who \notin Actors)
      BY <3>1 DEF TypeInv, QueueInv
    <3>4. \A m \in 1..Len(queue') : queue[m + 1].who = queue[n + 1].who /\ m # n => queue[n + 1].who \notin Actors
      BY <3>1, <3>2 DEF TypeInv, QueueInv
    <3> QED BY <3>1, <3>3, <3>4, <1>2, <2>5, <2>6
  <2>8. Waits(writing)'
    <3>1. \A x : x = writing' => Waits(x)'
      <4> HIDE DEF e, docs
      <4>1. \A x : x.who = e.who /\ x.at = e.at /\ Waits(e) => Waits(x)
        BY DEF Waits
      <4> QED BY <4>1, <1>2, <2>4, <2>6
    <3> QED BY <3>1 DEF Waits
  <2>9. QueueInv'
    BY <2>4, <2>7, <2>8 DEF QueueInv
  <2>10. LockInv'
    BY <1>6, JobsStay, LocksStay DEF KeepsLocks, TypeInv
  <2>11. Types'
    BY <1>1, <1>6, <2>4, <2>5 DEF TypeInv, Types, MergeOK
  <2> QED BY <1>1, <1>2, <1>3, <1>6, <2>9, <2>10, <2>11 DEF TypeInv
<1> QED BY <1>4, <1>5, <1>6

\* The change under way, and who waits for it.
LEMMA UnderWay ==
  ASSUME TypeInv, writing # NoWrite
  PROVE  /\ writing \in Changes /\ writing.who \in Actors \cup {"read"} /\ Waits(writing)
         /\ writing.docs \in [Ids -> Doc]
         /\ writing.who \in Actors => job[writing.who].pc = "queued"
         /\ writing.who = "read" => writing.at \in Ids
BY DEF TypeInv, Types, QueueInv, Waits, Changes

\* What a write that takes effect stores, and what it makes of the bindings.
LEMMA StoreStep ==
  ASSUME TypeInv, Store
  PROVE  /\ writing # NoWrite /\ ~writing.stored /\ writing \in Changes /\ Waits(writing)
         /\ writing.who \in Actors \cup {"read"}
         /\ db' = writing.docs /\ db' \in [Ids -> Doc]
         /\ rule' \in Ids \cup {0} /\ MergeOK'
         /\ merge' \in [keep : Ids \cup {0}, gone : Ids \cup {0}, moved : BOOLEAN]
<1>1. writing # NoWrite /\ ~writing.stored /\ db' = writing.docs
  BY DEF Store
<1>2. /\ writing \in Changes /\ Waits(writing) /\ writing.docs \in [Ids -> Doc]
      /\ writing.who \in Actors \cup {"read"}
  BY <1>1, UnderWay
<1>3. /\ rule' \in Ids \cup {0} /\ MergeOK'
      /\ merge' \in [keep : Ids \cup {0}, gone : Ids \cup {0}, moved : BOOLEAN]
  <2>1. CASE writing.who # "merge"
    <3>1. UNCHANGED <<rule, merge>>
      BY <2>1 DEF Store
    <3> QED BY <3>1 DEF TypeInv, Types, MergeOK
  <2>2. CASE writing.who = "merge"
    <3>1. MoveBindings
      BY <2>2 DEF Store
    <3>2. job["merge"].pc = "queued"
      BY <1>2, <2>2 DEF Waits, Actors
    <3>3. PICK k, g \in Ids : k < g /\ Min(job["merge"].todo) = k /\ Max(job["merge"].todo) = g
      BY <3>2, TwoOfMerge
    <3>4. rule \in Ids \cup {0}
      BY DEF TypeInv, Types
    <3>5. CASE job["merge"].op = "merge"
      <4>1. /\ rule' = IF rule = g THEN k ELSE rule
            /\ merge' = [keep |-> k, gone |-> g, moved |-> rule = g]
        BY <3>1, <3>3, <3>5 DEF MoveBindings
      <4>2. (rule = g) \in BOOLEAN
        OBVIOUS
      <4> QED BY <3>3, <3>4, <4>1, <4>2 DEF MergeOK
    <3>6. CASE job["merge"].op # "merge"
      <4>1. /\ rule' = IF merge.moved /\ rule = k THEN g ELSE rule
            /\ merge' = NoMerge
        BY <3>1, <3>3, <3>6 DEF MoveBindings
      <4> QED BY <3>3, <3>4, <4>1 DEF MergeOK, NoMerge
    <3> QED BY <3>5, <3>6
  <2> QED BY <2>1, <2>2
<1> QED BY <1>1, <1>2, <1>3

LEMMA CommitStep ==
  ASSUME TypeInv, Commit
  PROVE  /\ TypeInv' /\ writing # NoWrite /\ writing' # NoWrite /\ writing'.stored
         /\ writing'.who = writing.who /\ writing'.at = writing.at
         /\ writing'.docs = writing.docs /\ writing'.fields = writing.fields
<1>1. /\ Store /\ writing' = [writing EXCEPT !.stored = TRUE]
      /\ UNCHANGED <<mem, queue, lockq, job, reader, preview, shown, ops, faults>>
  BY DEF Commit
<1>2. /\ writing # NoWrite /\ writing \in Changes /\ Waits(writing) /\ db' \in [Ids -> Doc]
      /\ rule' \in Ids \cup {0} /\ MergeOK'
      /\ merge' \in [keep : Ids \cup {0}, gone : Ids \cup {0}, moved : BOOLEAN]
  BY <1>1, StoreStep
<1>3. /\ writing' \in Changes /\ writing'.who = writing.who /\ writing'.at = writing.at
      /\ writing'.docs = writing.docs /\ writing'.fields = writing.fields /\ writing'.stored
  BY <1>1, <1>2 DEF Changes
<1>4. writing' # NoWrite
  BY <1>3 DEF NoWrite
<1>5. Types'
  BY <1>1, <1>2, <1>3 DEF TypeInv, Types
<1>6. LockInv'
  BY <1>1, LocksStay DEF KeepsLocks, TypeInv
<1>7. QueueInv'
  <2>1. \A x : Waits(x) => Waits(x)'
    BY <1>1 DEF Waits
  <2>2. \A x : x = writing' => Waits(x)'
    <3>1. \A x : x.who = writing.who /\ x.at = writing.at /\ Waits(writing) => Waits(x)
      BY DEF Waits
    <3> QED BY <3>1, <2>1, <1>2, <1>3
  <2>3. Waits(writing)'
    BY <2>2 DEF Waits
  <2> QED BY <1>1, <1>3, <2>1, <2>3 DEF TypeInv, QueueInv
<1> QED BY <1>2, <1>3, <1>4, <1>5, <1>6, <1>7 DEF TypeInv

\* The change under way ends without being published, whatever the table got.
LEMMA DropStep ==
  ASSUME TypeInv, writing # NoWrite, Drop, UNCHANGED <<queue, shown, ops>>,
         faults' = faults \/ (faults < MaxFaults /\ faults' = faults + 1),
         db' \in [Ids -> Doc], rule' \in Ids \cup {0}, MergeOK',
         merge' \in [keep : Ids \cup {0}, gone : Ids \cup {0}, moved : BOOLEAN]
  PROVE  /\ TypeInv' /\ writing' = NoWrite /\ UNCHANGED <<mem, shown>>
         /\ Reply(writing.who, writing.at, FALSE)
         /\ \A b \in Actors \ {writing.who} : job'[b] = job[b]
         /\ \A i \in Ids : reader'[i] = reader[i] \/ reader'[i] = IdleReader
<1>1. /\ writing' = NoWrite /\ Reply(writing.who, writing.at, FALSE) /\ UNCHANGED mem
      /\ reader' = IF writing.who = "read" THEN [reader EXCEPT ![writing.at] = IdleReader] ELSE reader
  BY DEF Drop
<1>2. faults' \in 0..MaxFaults
  BY StoreAssumption DEF TypeInv, Types
<1>3. /\ writing.who \in Actors \cup {"read"} /\ Waits(writing)
  BY UnderWay
<1>4. mem' \in [Ids -> Doc]
  BY <1>1 DEF TypeInv, Types
<1>5. /\ job' \in [Actors -> Jobs] /\ \A b \in Actors : JobOK(b, job'[b])
      /\ lockq' \in [Locks -> Seq(Actors)] /\ LockInv'
      /\ preview' \in Previews /\ IF preview'.live THEN preview'.cred \in Creds ELSE preview' = NoPreview
      /\ \A b \in Actors \ {writing.who} : job'[b] = job[b]
  BY <1>1, <1>3, <1>4, ReplyDoes
<1>6. reader' \in [Ids -> Readers] /\ \A i \in Ids : reader'[i] = reader[i] \/ reader'[i] = IdleReader
  <2>1. IdleReader \in Readers
    BY DEF IdleReader, Readers
  <2> QED BY <1>1, <2>1 DEF TypeInv, Types
<1>7. QueueInv'
  BY <1>1, <1>5, QueueAnswers DEF TypeInv
<1>8. Types'
  BY <1>1, <1>2, <1>5, <1>6 DEF TypeInv, Types, MergeOK
<1> QED BY <1>1, <1>5, <1>6, <1>7, <1>8 DEF TypeInv

LEMMA RollBackStep ==
  ASSUME TypeInv, RollBack
  PROVE  /\ TypeInv' /\ writing # NoWrite /\ ~writing.stored /\ writing' = NoWrite
         /\ UNCHANGED <<mem, db, rule, merge, shown, unsaid>>
         /\ Reply(writing.who, writing.at, FALSE)
         /\ \A b \in Actors \ {writing.who} : job'[b] = job[b]
         /\ \A i \in Ids : reader'[i] = reader[i] \/ reader'[i] = IdleReader
<1>1. /\ writing # NoWrite /\ ~writing.stored /\ Drop
      /\ UNCHANGED <<db, rule, merge, queue, shown, unsaid, ops>>
      /\ faults' = faults \/ (faults < MaxFaults /\ faults' = faults + 1)
  BY DEF RollBack
<1>2. /\ db' \in [Ids -> Doc] /\ rule' \in Ids \cup {0} /\ MergeOK'
      /\ merge' \in [keep : Ids \cup {0}, gone : Ids \cup {0}, moved : BOOLEAN]
  BY <1>1 DEF TypeInv, Types, MergeOK
<1> QED BY <1>1, <1>2, DropStep

\* The same for a change that was stored although it is reported as failed.
LEMMA CommitUnsaidStep ==
  ASSUME TypeInv, CommitUnsaid
  PROVE  /\ TypeInv' /\ writing # NoWrite /\ ~writing.stored /\ writing' = NoWrite
         /\ db' = writing.docs /\ UNCHANGED <<mem, shown>>
         /\ Reply(writing.who, writing.at, FALSE)
         /\ \A b \in Actors \ {writing.who} : job'[b] = job[b]
         /\ \A i \in Ids : reader'[i] = reader[i] \/ reader'[i] = IdleReader
<1>1. /\ Store /\ Drop /\ UNCHANGED <<queue, shown, ops>>
      /\ faults' = faults \/ (faults < MaxFaults /\ faults' = faults + 1)
  BY DEF CommitUnsaid
<1>2. /\ writing # NoWrite /\ ~writing.stored /\ db' = writing.docs
      /\ db' \in [Ids -> Doc] /\ rule' \in Ids \cup {0} /\ MergeOK'
      /\ merge' \in [keep : Ids \cup {0}, gone : Ids \cup {0}, moved : BOOLEAN]
  BY <1>1, StoreStep
<1> QED BY <1>1, <1>2, DropStep

\* The fields of station i that are published with the change under way.
Altered(i) == IF writing.who = "read" THEN {} ELSE writing.fields[i]

LEMMA PublishStep ==
  ASSUME TypeInv, Publish
  PROVE  /\ TypeInv' /\ writing # NoWrite /\ writing.stored /\ writing' = NoWrite
         /\ Reply(writing.who, writing.at, TRUE)
         /\ \A b \in Actors \ {writing.who} : job'[b] = job[b]
         /\ \A i \in Ids :
              /\ mem'[i] \in Doc
              /\ \A f \in FieldNames : mem'[i][f] = IF f \in Altered(i) THEN writing.docs[i][f] ELSE mem[i][f]
              /\ \/ reader'[i] = IdleReader
                 \/ "tok" \in Altered(i) /\ reader'[i] = [reader[i] EXCEPT !.attached = FALSE]
                 \/ "tok" \notin Altered(i) /\ reader'[i] = reader[i]
<1>1. writing.stored /\ writing # NoWrite
  BY DEF Publish, NoWrite
<1>2. /\ writing' = NoWrite /\ Reply(writing.who, writing.at, TRUE)
      /\ UNCHANGED <<db, rule, merge, queue, ops, faults>>
      /\ mem' = [i \in Ids |-> [f \in DOMAIN mem[i] |->
                   IF f \in Altered(i) THEN writing.docs[i][f] ELSE mem[i][f]]]
      /\ reader' = [i \in Ids |->
                      IF writing.who = "read" /\ writing.at = i THEN IdleReader
                      ELSE IF "tok" \in Altered(i) THEN [reader[i] EXCEPT !.attached = FALSE] ELSE reader[i]]
      /\ shown' = IF writing.who = "auth" THEN [shown EXCEPT ![writing.at] = Settings(mem'[writing.at])]
                  ELSE shown
  BY DEF Publish, Altered
<1>3. /\ writing.who \in Actors \cup {"read"} /\ Waits(writing) /\ writing.docs \in [Ids -> Doc]
  BY <1>1, UnderWay
<1>4. ASSUME NEW i \in Ids
      PROVE  /\ mem'[i] \in Doc
             /\ \A f \in FieldNames : mem'[i][f] = IF f \in Altered(i) THEN writing.docs[i][f] ELSE mem[i][f]
  <2>1. mem[i] \in Doc /\ writing.docs[i] \in Doc
    BY <1>3 DEF TypeInv, Types
  <2>2. mem'[i] = [f \in DOMAIN mem[i] |-> IF f \in Altered(i) THEN writing.docs[i][f] ELSE mem[i][f]]
    BY <1>2
  <2>3. DOMAIN mem[i] = FieldNames
    BY <2>1, DocFields DEF FieldNames
  <2>4. PICK d \in Doc, w \in Doc : d = mem[i] /\ w = writing.docs[i]
    BY <2>1
  <2>5. PICK p : p = mem'[i]
    OBVIOUS
  <2>6. PICK altered : altered = Altered(i)
    OBVIOUS
  <2>7. p = [f \in DOMAIN d |-> IF f \in altered THEN w[f] ELSE d[f]]
    BY <2>2, <2>4, <2>5, <2>6
  <2>8. p \in Doc /\ \A f \in DOMAIN d : p[f] = IF f \in altered THEN w[f] ELSE d[f]
    BY <2>7, PublishedDoc
  <2> QED BY <2>3, <2>4, <2>5, <2>6, <2>8
<1>5. mem' \in [Ids -> Doc]
  <2>1. DOMAIN mem' = Ids
    BY <1>2
  <2>2. mem' = [i \in Ids |-> mem'[i]]
    BY <1>2, <2>1
  <2> QED BY <1>4, <2>2
<1>6. /\ job' \in [Actors -> Jobs] /\ \A b \in Actors : JobOK(b, job'[b])
      /\ lockq' \in [Locks -> Seq(Actors)] /\ LockInv'
      /\ preview' \in Previews /\ IF preview'.live THEN preview'.cred \in Creds ELSE preview' = NoPreview
      /\ \A b \in Actors \ {writing.who} : job'[b] = job[b]
  BY <1>2, <1>3, <1>5, ReplyDoes
<1>7. ASSUME NEW i \in Ids
      PROVE  /\ reader'[i] \in Readers
             /\ \/ reader'[i] = IdleReader
                \/ "tok" \in Altered(i) /\ reader'[i] = [reader[i] EXCEPT !.attached = FALSE]
                \/ "tok" \notin Altered(i) /\ reader'[i] = reader[i]
  <2>1. IdleReader \in Readers
    BY DEF IdleReader, Readers
  <2>2. reader[i] \in Readers /\ [reader[i] EXCEPT !.attached = FALSE] \in Readers
    <3>1. reader[i] \in Readers
      BY DEF TypeInv, Types
    <3> QED BY <3>1 DEF Readers
  <2> QED BY <1>2, <2>1, <2>2
<1>8. reader' \in [Ids -> Readers]
  <2>1. reader' = [i \in Ids |-> reader'[i]]
    BY <1>2
  <2> QED BY <1>7, <2>1
<1>9. DOMAIN shown' \subseteq Ids
  <2>1. DOMAIN shown' = DOMAIN shown
    BY <1>2
  <2> QED BY <2>1 DEF TypeInv, Types
<1>10. QueueInv'
  BY <1>1, <1>2, <1>6, QueueAnswers DEF TypeInv
<1>11. Types'
  BY <1>2, <1>5, <1>6, <1>8, <1>9 DEF TypeInv, Types, MergeOK
<1> QED BY <1>1, <1>2, <1>4, <1>6, <1>7, <1>10, <1>11 DEF TypeInv

\* The background reader touches the tokens of the memory and what it reads.
LEMMA ReadStep ==
  ASSUME TypeInv, NEW i \in Ids, Reads(i)
  PROVE  /\ TypeInv'
         /\ UNCHANGED <<db, rule, merge, writing, lockq, job, preview, shown>>
         /\ \A k \in Ids \ {i} : mem'[k] = mem[k] /\ reader'[k] = reader[k]
         /\ \/ mem'[i] = mem[i]
            \/ /\ \/ mem'[i] = [mem[i] EXCEPT !.tok = None]
                  \/ /\ mem'[i] = [mem[i] EXCEPT !.tok = reader[i].cred]
                     /\ reader[i].pc = "login" /\ reader[i].attached
               /\ mem[i] \in Doc
         /\ reader'[i].pc = "login" => reader'[i].cred = mem[i].cred
<1>1. mem[i] \in Doc /\ reader[i] \in Readers /\ faults \in 0..MaxFaults
  BY DEF TypeInv, Types
<1>2. mem[i].tok \in Creds \cup {None} /\ mem[i].cred \in Creds /\ reader[i].cred \in Creds \cup {None}
  BY <1>1 DEF Doc, Readers
<1>3. \A t \in Creds \cup {None} : [mem[i] EXCEPT !.tok = t] \in Doc
  BY <1>1 DEF Doc
<1>4. faults < MaxFaults => faults + 1 \in 0..MaxFaults
  BY <1>1, StoreAssumption
<1>5. CASE ReadStart(i)
  <2>1. PICK r \in Readers : reader' = [reader EXCEPT ![i] = r] /\ (r.pc = "login" => r.cred = mem[i].cred)
    <3>1. CASE mem[i].tok # None
      <4>1. reader' = [reader EXCEPT ![i] = [pc |-> "asked", cred |-> mem[i].tok, attached |-> TRUE]]
        BY <1>5, <3>1 DEF ReadStart
      <4>2. [pc |-> "asked", cred |-> mem[i].tok, attached |-> TRUE] \in Readers
        BY <1>2 DEF Readers
      <4> QED BY <4>1, <4>2
    <3>2. CASE mem[i].tok = None
      <4>1. reader' = [reader EXCEPT ![i] = [pc |-> "login", cred |-> mem[i].cred, attached |-> TRUE]]
        BY <1>5, <3>2 DEF ReadStart
      <4>2. [pc |-> "login", cred |-> mem[i].cred, attached |-> TRUE] \in Readers
        BY <1>2 DEF Readers
      <4> QED BY <4>1, <4>2
    <3> QED BY <3>1, <3>2
  <2>2. reader' \in [Ids -> Readers] /\ reader'[i] = r /\ \A k \in Ids \ {i} : reader'[k] = reader[k]
    BY <2>1 DEF TypeInv, Types
  <2>3. UNCHANGED <<mem, db, rule, merge, queue, writing, lockq, job, preview, shown, ops, faults>>
    BY <1>5 DEF ReadStart
  <2>4. Types'
    BY <2>2, <2>3 DEF TypeInv, Types, MergeOK
  <2> QED BY <2>1, <2>2, <2>3, <2>4, JobsStay DEF TypeInv
<1>6. CASE LoggedIn(i)
  <2> DEFINE r == [reader[i] EXCEPT !.pc = "asked"]
  <2>1. /\ reader[i].pc = "login" /\ reader' = [reader EXCEPT ![i] = r]
        /\ mem' = IF reader[i].attached THEN [mem EXCEPT ![i].tok = reader[i].cred] ELSE mem
        /\ UNCHANGED <<db, rule, merge, queue, writing, lockq, job, preview, shown, ops, faults>>
    BY <1>6 DEF LoggedIn
  <2>2. r \in Readers /\ r.pc # "login"
    BY <1>1 DEF Readers
  <2>3. reader' \in [Ids -> Readers] /\ reader'[i] = r /\ \A k \in Ids \ {i} : reader'[k] = reader[k]
    <3> HIDE DEF r
    <3> QED BY <2>1, <2>2 DEF TypeInv, Types
  <2>4. /\ mem' \in [Ids -> Doc] /\ \A k \in Ids \ {i} : mem'[k] = mem[k]
        /\ \/ mem'[i] = mem[i]
           \/ reader[i].attached /\ mem'[i] = [mem[i] EXCEPT !.tok = reader[i].cred]
    <3>1. CASE reader[i].attached
      <4>1. mem' = [mem EXCEPT ![i] = [mem[i] EXCEPT !.tok = reader[i].cred]]
        BY <2>1, <3>1 DEF TypeInv, Types
      <4>2. [mem[i] EXCEPT !.tok = reader[i].cred] \in Doc
        BY <1>2, <1>3
      <4> QED BY <3>1, <4>1, <4>2 DEF TypeInv, Types
    <3>2. CASE ~reader[i].attached
      BY <2>1, <3>2 DEF TypeInv, Types
    <3> QED BY <3>1, <3>2
  <2>5. Types'
    BY <2>1, <2>3, <2>4 DEF TypeInv, Types, MergeOK
  <2> QED BY <1>1, <2>1, <2>2, <2>3, <2>4, <2>5, JobsStay DEF TypeInv
<1>7. CASE LoginFails(i)
  <2> DEFINE r == [reader[i] EXCEPT !.pc = "failed"]
  <2>1. /\ reader' = [reader EXCEPT ![i] = r] /\ faults < MaxFaults /\ faults' = faults + 1
        /\ UNCHANGED <<mem, db, rule, merge, queue, writing, lockq, job, preview, shown, ops>>
    BY <1>7 DEF LoginFails
  <2>2. r \in Readers /\ r.pc # "login"
    BY <1>1 DEF Readers
  <2>3. reader' \in [Ids -> Readers] /\ reader'[i] = r /\ \A k \in Ids \ {i} : reader'[k] = reader[k]
    <3> HIDE DEF r
    <3> QED BY <2>1, <2>2 DEF TypeInv, Types
  <2>4. Types'
    BY <1>4, <2>1, <2>3 DEF TypeInv, Types, MergeOK
  <2> QED BY <2>1, <2>2, <2>3, <2>4, JobsStay DEF TypeInv
<1>8. CASE Rejected(i)
  <2> DEFINE r == [reader[i] EXCEPT !.pc = "login", !.cred = mem[i].cred]
  <2>1. /\ reader' = [reader EXCEPT ![i] = r] /\ faults < MaxFaults /\ faults' = faults + 1
        /\ mem' = IF reader[i].attached THEN [mem EXCEPT ![i].tok = None] ELSE mem
        /\ UNCHANGED <<db, rule, merge, queue, writing, lockq, job, preview, shown, ops>>
    <3>1. reader' = [reader EXCEPT ![i].pc = "login", ![i].cred = mem[i].cred]
      BY <1>8 DEF Rejected
    <3>2. reader' = [reader EXCEPT ![i] = r]
      BY <3>1 DEF TypeInv, Types
    <3> QED BY <1>8, <3>2 DEF Rejected
  <2>2. r \in Readers /\ r.cred = mem[i].cred
    BY <1>1, <1>2 DEF Readers
  <2>3. reader' \in [Ids -> Readers] /\ reader'[i] = r /\ \A k \in Ids \ {i} : reader'[k] = reader[k]
    <3> HIDE DEF r
    <3> QED BY <2>1, <2>2 DEF TypeInv, Types
  <2>4. /\ mem' \in [Ids -> Doc] /\ \A k \in Ids \ {i} : mem'[k] = mem[k]
        /\ mem'[i] = mem[i] \/ mem'[i] = [mem[i] EXCEPT !.tok = None]
    <3>1. CASE reader[i].attached
      <4>1. mem' = [mem EXCEPT ![i] = [mem[i] EXCEPT !.tok = None]]
        BY <2>1, <3>1 DEF TypeInv, Types
      <4>2. [mem[i] EXCEPT !.tok = None] \in Doc
        BY <1>3
      <4> QED BY <4>1, <4>2 DEF TypeInv, Types
    <3>2. CASE ~reader[i].attached
      BY <2>1, <3>2 DEF TypeInv, Types
    <3> QED BY <3>1, <3>2
  <2>5. Types'
    BY <1>4, <2>1, <2>3, <2>4 DEF TypeInv, Types, MergeOK
  <2> QED BY <1>1, <2>1, <2>2, <2>3, <2>4, <2>5, JobsStay DEF TypeInv
<1>9. CASE Answered(i)
  <2> DEFINE e == [who |-> "read", at |-> i]
             r == [IdleReader EXCEPT !.pc = "saving"]
  <2>1. /\ \/ reader' = [reader EXCEPT ![i] = r] /\ queue' = Append(queue, e)
           \/ reader' = [reader EXCEPT ![i] = IdleReader] /\ UNCHANGED queue
        /\ UNCHANGED <<mem, db, rule, merge, writing, lockq, job, preview, shown, ops, faults>>
    BY <1>9 DEF Answered
  <2>2. r \in Readers /\ r.pc # "login" /\ IdleReader \in Readers /\ IdleReader.pc # "login"
    BY DEF Readers, IdleReader
  <2>3. /\ reader' \in [Ids -> Readers] /\ reader'[i] \in {r, IdleReader}
        /\ \A k \in Ids \ {i} : reader'[k] = reader[k]
    <3> HIDE DEF r, e
    <3> QED BY <2>1, <2>2 DEF TypeInv, Types
  <2>4. QueueInv' /\ queue' \in Seq(Entries)
    <3>1. CASE UNCHANGED queue
      BY <2>1, <3>1, JobsStay DEF TypeInv, Types
    <3>2. CASE queue' = Append(queue, e)
      <4>1. e \in Entries /\ e.who \notin Actors
        BY DEF Entries, Actors
      <4>2. Waits(e)'
        BY DEF Waits, Actors
      <4> HIDE DEF e
      <4> QED BY <2>1, <3>2, <4>1, <4>2, QueueGrows DEF TypeInv
    <3> QED BY <2>1, <3>1, <3>2
  <2>5. LockInv'
    BY <2>1, LocksStay DEF KeepsLocks, TypeInv
  <2>6. Types'
    BY <2>1, <2>3, <2>4 DEF TypeInv, Types, MergeOK
  <2>7. reader'[i].pc # "login"
    BY <2>2, <2>3
  <2> QED BY <2>1, <2>3, <2>4, <2>5, <2>6, <2>7 DEF TypeInv
<1> QED BY <1>5, <1>6, <1>7, <1>8, <1>9 DEF Reads

LEMMA CrashStep ==
  ASSUME TypeInv, Crash
  PROVE  /\ TypeInv' /\ mem' = db /\ writing' = NoWrite /\ UNCHANGED <<db, rule, merge>>
         /\ \A a \in Actors : job'[a] = IdleJob
         /\ \A i \in Ids : reader'[i] = IdleReader
         /\ preview' = NoPreview
<1>1. /\ faults' = faults + 1 /\ faults < MaxFaults /\ mem' = db /\ queue' = <<>> /\ writing' = NoWrite
      /\ job' = [a \in Actors |-> IdleJob] /\ reader' = [i \in Ids |-> IdleReader]
      /\ lockq' = [l \in Locks |-> <<>>]
      /\ preview' = NoPreview /\ shown' = <<>> /\ UNCHANGED <<db, rule, merge, ops>>
  BY DEF Crash, TypeInv, Types
<1>2. faults' \in 0..MaxFaults
  BY <1>1, StoreAssumption DEF TypeInv, Types
<1>3. IdleReader \in Readers /\ NoPreview \in Previews /\ ~NoPreview.live
  BY NoVersionType DEF IdleReader, Readers, NoPreview, Previews
<1>4. queue' \in Seq(Entries) /\ \A l \in Locks : lockq'[l] = <<>> /\ lockq'[l] \in Seq(Actors)
  BY <1>1, EmptySeq
<1>5. lockq' \in [Locks -> Seq(Actors)]
  BY <1>1, <1>4
<1>6. job' \in [Actors -> Jobs] /\ \A a \in Actors : job'[a] = IdleJob /\ JobOK(a, job'[a])
  BY <1>1, IdleJobOK
<1>7. DOMAIN shown' \subseteq Ids
  BY <1>1
<1>8. Types'
  BY <1>1, <1>2, <1>3, <1>4, <1>5, <1>6, <1>7 DEF TypeInv, Types, MergeOK
<1>9. QueueInv'
  BY <1>1 DEF QueueInv
<1>10. LockInv'
  BY <1>4, <1>6 DEF LockInv, LockJob, LockLine, IdleJob
<1> QED BY <1>1, <1>6, <1>8, <1>9, <1>10 DEF TypeInv

\* A step, by what it is.
LEMMA StepKinds ==
  ASSUME TypeInv, Next
  PROVE  \/ \E i \in Ids, op \in {"cred", "archive", "restore", "remove"}, c \in Creds, checked \in BOOLEAN :
              EditStart(i, op, c, checked)
         \/ EditSubmit \/ ConfirmAnswer \/ PreviewExpires \/ AuthConfirm \/ UndoStart
         \/ EditHeld \/ ConfirmHeld \/ AuthHeld \/ MergeHeld \/ BindHeld
         \/ \E i \in Ids : ConfirmStart(i) \/ BindStart(i) \/ Reads(i)
         \/ \E r \in 1..MaxRequests, c \in Creds, targets \in SUBSET Ids : AuthPreview(r, c, targets)
         \/ \E keep, gone \in Ids : MergeStart(keep, gone)
         \/ \E a \in Actors : JoinLine(a) \/ TakeLock(a)
         \/ Prepare \/ Commit \/ RollBack \/ CommitUnsaid \/ Publish \/ Crash
<1>1. CASE Persons
  <2>1. ASSUME NEW i \in Ids, NEW op \in {"archive", "restore", "remove"}, EditStart(i, op, mem[i].cred, FALSE)
        PROVE  \E o \in {"cred", "archive", "restore", "remove"}, c \in Creds, checked \in BOOLEAN :
                 EditStart(i, o, c, checked)
    <3>1. mem[i].cred \in Creds
      BY DEF TypeInv, Types, Doc
    <3>2. op \in {"cred", "archive", "restore", "remove"}
      OBVIOUS
    <3> QED BY <2>1, <3>1, <3>2
  <2> QED BY <1>1, <2>1 DEF Persons
<1>2. ASSUME NEW a \in Actors, Operation(a)
      PROVE  \/ JoinLine(a) \/ TakeLock(a)
             \/ EditHeld \/ ConfirmAnswer \/ ConfirmHeld \/ AuthHeld \/ MergeHeld \/ BindHeld
  BY <1>2 DEF Operation, Actors
<1>3. Read \subseteq Ids
  BY StoreAssumption
<1> QED BY <1>1, <1>2, <1>3 DEF Next

LEMMA NextTypes == TypeInv /\ [Next]_vars => TypeInv'
<1> SUFFICES ASSUME TypeInv, [Next]_vars PROVE TypeInv'
  OBVIOUS
<1>1. CASE UNCHANGED vars
  <2>1. Types'
    BY <1>1 DEF vars, TypeInv, Types, MergeOK
  <2> QED BY <1>1, <2>1, JobsStay DEF vars, TypeInv
<1>2. CASE Next
  BY <1>2, StepKinds, EditStartStep, EditSubmitStep, ConfirmAnswerStep, PreviewExpiresStep, AuthConfirmStep,
     UndoStartStep, EditHeldStep, ConfirmHeldStep, AuthHeldStep, MergeHeldStep, BindHeldStep,
     ConfirmStartStep, BindStartStep, ReadStep, AuthPreviewStep, MergeStartStep, LockStep, PrepareStep,
     CommitStep, RollBackStep, CommitUnsaidStep, PublishStep, CrashStep
<1> QED BY <1>1, <1>2

\* Only the end of a write and a new start concern what is remembered of the
\* writes that were stored although they were reported as failed.
LEMMA UnsaidStays ==
  ASSUME TypeInv, Next, ~Commit, ~CommitUnsaid, ~Crash
  PROVE  UNCHANGED unsaid
<1>1. CASE Persons
  BY <1>1 DEF Persons, EditStart, EditSubmit, ConfirmStart, AuthPreview, PreviewExpires, AuthConfirm,
              MergeStart, UndoStart, BindStart
<1>2. ASSUME NEW a \in Actors, Operation(a) PROVE UNCHANGED unsaid
  <2>1. \/ JoinLine(a) \/ TakeLock(a)
        \/ EditHeld \/ ConfirmAnswer \/ ConfirmHeld \/ AuthHeld \/ MergeHeld \/ BindHeld
    BY <1>2 DEF Operation, Actors
  <2> QED BY <2>1 DEF JoinLine, TakeLock, EditHeld, ConfirmAnswer, ConfirmHeld, AuthHeld, MergeHeld, BindHeld
<1>3. CASE Prepare \/ RollBack \/ Publish
  BY <1>3 DEF Prepare, RollBack, Publish
<1>4. ASSUME NEW i \in Read, Reads(i) PROVE UNCHANGED unsaid
  BY <1>4 DEF Reads, ReadStart, LoggedIn, LoginFails, Rejected, Answered
<1> QED BY <1>1, <1>2, <1>3, <1>4 DEF Next

UnsaidOK == unsaid \in [now : BOOLEAN, by : SUBSET (Actors \cup {"read"})]

LEMMA NextUnsaid == TypeInv /\ UnsaidOK /\ [Next]_vars => UnsaidOK'
<1> SUFFICES ASSUME TypeInv, UnsaidOK, [Next]_vars PROVE UnsaidOK'
  OBVIOUS
<1>1. CASE UNCHANGED unsaid
  BY <1>1 DEF UnsaidOK
<1>2. CASE Commit \/ Crash
  <2>1. unsaid' = [unsaid EXCEPT !.now = FALSE]
    BY <1>2 DEF Commit, Crash
  <2> QED BY <2>1 DEF UnsaidOK
<1>3. CASE CommitUnsaid
  <2>1. Store /\ unsaid' = [now |-> TRUE, by |-> unsaid.by \cup {writing.who}]
    BY <1>3 DEF CommitUnsaid
  <2>2. writing.who \in Actors \cup {"read"}
    BY <2>1, StoreStep
  <2> QED BY <2>1, <2>2 DEF UnsaidOK
<1> QED BY <1>1, <1>2, <1>3, UnsaidStays DEF vars

(* The variables have their types; an operation holds locks of its need only,  *)
(* and is the first in line of each: withStationLocks of src/db/store.js.      *)
THEOREM TypeCorrect == Spec => []TypeOK
<1>1. TypeInv /\ UnsaidOK => TypeOK
  <2> SUFFICES ASSUME TypeInv, UnsaidOK PROVE TypeOK
    OBVIOUS
  <2>1. Types
    BY DEF TypeInv
  <2>2. \A a \in Actors : job[a] \in Jobs /\ LockJob(a)
    BY DEF TypeInv, Types, LockInv
  <2>3. \A a \in Actors :
          /\ job[a].pc \in {"idle", "asked", "lock", "held", "queued"}
          /\ job[a].held \subseteq job[a].need
          /\ \A l \in job[a].held : lockq[l] # <<>> /\ Head(lockq[l]) = a
          /\ job[a].pc = "lock" => job[a].held # job[a].need
    BY <2>2 DEF Jobs, LockJob
  <2>4. writing.who \in Actors \cup {"read", "none"} /\ writing.stored \in BOOLEAN
    <3>1. CASE writing = NoWrite
      BY <3>1 DEF NoWrite
    <3>2. CASE writing \in Changes
      BY <3>2 DEF Changes
    <3> QED BY <2>1, <3>1, <3>2 DEF Types
  <2>5. preview.live \in BOOLEAN /\ preview.req \in Nat
    BY <2>1 DEF Types, Previews
  <2> QED BY <2>1, <2>3, <2>4, <2>5 DEF Types, TypeOK, Entries, Locks, Readers, UnsaidOK
<1>2. Init => TypeInv /\ UnsaidOK
  <2>1. Init => UnsaidOK
    BY DEF Init, UnsaidOK
  <2> QED BY <2>1, InitTypes
<1>3. (TypeInv /\ UnsaidOK) /\ [Next]_vars => (TypeInv /\ UnsaidOK)'
  BY NextTypes, NextUnsaid
<1> QED BY <1>1, <1>2, <1>3, PTL DEF Spec

-----------------------------------------------------------------------------
(* No circle of operations that wait for each other.                           *)

\* Of some of the actors, one that waits for the highest lock.
LEMMA HighestLock ==
  ASSUME NEW A, A \subseteq Actors, A # {}, NEW f, \A a \in Actors : f[a] \in Nat
  PROVE  \E a \in A : \A b \in A : f[b] <= f[a]
<1> DEFINE s == f["edit"] + f["confirm"] + f["auth"] + f["merge"] + f["bind"]
           g(a) == s - f[a]
           G == {g(a) : a \in A}
<1>1. \A a \in Actors : g(a) \in Nat /\ f[a] = s - g(a)
  BY DEF Actors
<1>2. s \in Nat
  BY DEF Actors
<1> HIDE DEF s
<1>3. G \subseteq Nat /\ G # {}
  BY <1>1
<1>4. Min(G) \in G /\ \A y \in G : Min(G) <= y
  BY <1>3, MinOfNumbers
<1>5. PICK a \in A : Min(G) = g(a)
  BY <1>4
<1>6. ASSUME NEW b \in A PROVE f[b] <= f[a]
  <2>1. g(a) <= g(b)
    BY <1>4, <1>5
  <2>2. /\ g(a) \in Nat /\ g(b) \in Nat /\ f[a] = s - g(a) /\ f[b] = s - g(b)
        /\ f[a] \in Nat /\ f[b] \in Nat
    BY <1>1
  <2> QED BY <1>2, <2>1, <2>2
<1> QED BY <1>6

(* Operations never wait for each other in a circle, whichever stations they   *)
(* need: each takes its locks in ascending order (withStationLocks).           *)
THEOREM LocksNeverCircle == Spec => []NoLockCircle
<1>1. TypeInv => NoLockCircle
  <2> SUFFICES ASSUME TypeInv, NEW c \in Actors, Blocked(c),
                      \A a \in Actors : Begun(a) => Blocked(a)
               PROVE  FALSE
    BY DEF NoLockCircle
  <2> DEFINE B == {a \in Actors : Blocked(a)}
             f == [a \in Actors |-> IF Blocked(a) THEN NextLock(a) ELSE 0]
  <2>1. \A a \in B : NextLock(a) \in Locks /\ NextLock(a) \in Nat /\ job[a].pc = "lock"
    BY NextLockOK, Assumptions DEF Blocked
  <2>2. \A a \in Actors : f[a] \in Nat
    BY <2>1
  <2>3. PICK a \in B : \A b \in B : f[b] <= f[a]
    <3>1. B \subseteq Actors /\ B # {}
      OBVIOUS
    <3> HIDE DEF B, f
    <3> QED BY <2>2, <3>1, HighestLock
  <2>4. \A b \in B : NextLock(b) <= NextLock(a)
    BY <2>3
  <2>5. PICK l \in Locks : l = NextLock(a)
    BY <2>1
  <2>6. PICK n \in 2..Len(lockq[l]) : lockq[l][n] = a
    BY <2>5 DEF Blocked
  <2>7. lockq[l] \in Seq(Actors) /\ Len(lockq[l]) \in Nat
    BY LenProperties DEF TypeInv, Types
  <2>8. 1 \in 1..Len(lockq[l]) /\ lockq[l][1] \in Actors
    BY <2>6, <2>7, ElementOfSeq
  <2>9. PICK b \in Actors : b = lockq[l][1]
    BY <2>8
  <2>10. \A m \in 2..Len(lockq[l]) : lockq[l][m] # b
    <3>1. \A m \in 2..Len(lockq[l]) : m \in 1..Len(lockq[l]) /\ m # 1
      BY <2>7
    <3> QED BY <3>1, <2>8, <2>9 DEF TypeInv, LockInv, LockLine
  <2>11. l \in job[b].held \/ (job[b].pc = "lock" /\ l = NextLock(b))
    BY <2>8, <2>9 DEF TypeInv, LockInv, LockLine
  <2>12. CASE job[b].pc = "lock" /\ l = NextLock(b)
    <3>1. Begun(b) /\ ~Blocked(b)
      BY <2>10, <2>12 DEF Begun, Blocked
    <3> QED BY <3>1
  <2>13. CASE l \in job[b].held
    <3>1. LockJob(b) /\ job[b] \in Jobs
      BY DEF TypeInv, LockInv, Types
    <3>2. Begun(b)
      BY <2>13, <3>1 DEF LockJob, Begun, Jobs
    <3>3. b \in B
      BY <3>2
    <3>4. NextLock(b) \in job[b].need \ job[b].held
      BY <2>1, <3>3, NextLockOK
    <3>5. l < NextLock(b)
      BY <2>13, <3>1, <3>4 DEF LockJob
    <3>6. NextLock(b) <= l
      BY <2>4, <2>5, <3>3
    <3>7. NextLock(b) \in Nat /\ l \in Nat
      BY <2>1, <2>5, <3>3
    <3> QED BY <3>5, <3>6, <3>7
  <2> QED BY <2>11, <2>12, <2>13
<1> QED BY InitTypes, NextTypes, <1>1, PTL DEF Spec
=============================================================================
