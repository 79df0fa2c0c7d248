------------------------- MODULE StationDocsProofs -------------------------
(* Proofs about the documents of StationStore.tla: what the memory, the        *)
(* database and the change under way say of a station, what a preview has      *)
(* shown of it, and the binding of the Key.                                    *)
EXTENDS StationStoreProofs

-----------------------------------------------------------------------------
(* The documents of the memory, of the database and of the change under way.   *)

Matches(d) ==
  /\ d.ident # None => d.ident = AccountOf[d.cred]
  /\ d.tok # None => d.tok = d.cred

\* A station is never set back: what comes later has a higher version, or the
\* same one and the same login information.
Later(m, w) ==
  /\ w.av >= m.av
  /\ w.av = m.av => w.cred = m.cred
  /\ w.here => m.here

\* What a change of actor a may make of station i: w, of which the fields F
\* are published.
ChangeOK(a, at, i, w, F) ==
  LET m == mem[i]
      j == job["merge"] IN
  /\ Matches(w)
  /\ Later(m, w)
  /\ \A f \in FieldNames : f # "tok" /\ f \notin F => w[f] = m[f]
  /\ w.cred # m.cred => "tok" \in F
  /\ a # "auth" => w.ref \in {m.ref, NoRef} /\ (w.av = m.av => w.ref = m.ref)
  /\ a = "auth" => /\ w.here = m.here /\ w.into = m.into /\ w.arch = m.arch
                   /\ i # at => Settings(w) = Settings(m)
  /\ a = "read" => Settings(w) = Settings(m)
  /\ a # "merge" => w.into = m.into
  /\ a = "merge" => /\ w.here = m.here
                    /\ i # Max(j.todo) => w.into = m.into
                    /\ j.op = "merge" /\ i = Min(j.todo) => w.into = 0
                    /\ j.op = "undo" /\ i = Max(j.todo) => w.into = 0

DocsOK ==
  \A i \in Ids :
    /\ Matches(mem[i]) /\ Matches(db[i])
    /\ ~unsaid.now => Settings(db[i]) = Settings(IF writing.stored THEN writing.docs[i] ELSE mem[i])
    /\ reader[i].pc = "login" /\ reader[i].attached => reader[i].cred = mem[i].cred
    /\ writing # NoWrite => ChangeOK(writing.who, writing.at, i, writing.docs[i], writing.fields[i])

\* The account was asked with the login information of the version that was
\* looked at.
ConfirmOK ==
  LET j == job["confirm"] IN
  j.pc # "idle" =>
    j.vers[j.at].av <= mem[j.at].av /\ (j.vers[j.at].av = mem[j.at].av => j.cred = mem[j.at].cred)

StoreInv == TypeInv /\ DocsOK /\ ConfirmOK

LEMMA SettingsFields ==
  ASSUME NEW d, NEW w
  PROVE  Settings(d) = Settings(w) <=>
           /\ d.here = w.here /\ d.cred = w.cred /\ d.av = w.av /\ d.ident = w.ident
           /\ d.arch = w.arch /\ d.into = w.into /\ d.ref = w.ref
BY DEF Settings

LEMMA InitStore == Init => StoreInv
<1> SUFFICES ASSUME Init PROVE StoreInv
  OBVIOUS
<1>1. db = mem /\ ~writing.stored /\ writing = NoWrite /\ \A a \in Actors : job[a] = IdleJob
  BY DEF Init, NoWrite
<1>2. ASSUME NEW i \in Ids PROVE Matches(mem[i])
  <2>1. PICK c \in [Ids -> FirstCreds], confirmed \in BOOLEAN, m \in [keep : Ids, gone : Ids, moved : BOOLEAN] \cup {NoMerge} :
          /\ m # NoMerge => m.keep < m.gone /\ confirmed /\ AccountOf[c[m.keep]] = AccountOf[c[m.gone]]
          /\ mem = [k \in Ids |-> [here |-> TRUE, cred |-> c[k], av |-> 1,
                                   ident |-> IF confirmed THEN AccountOf[c[k]] ELSE None, tok |-> None,
                                   arch |-> FALSE, into |-> IF k = m.gone THEN m.keep ELSE 0, ref |-> NoRef]]
          /\ merge = m
          /\ rule = IF m.moved THEN m.keep ELSE 0
    BY DEF Init
  <2>2. mem[i].cred = c[i] /\ mem[i].tok = None /\ mem[i].ident = IF confirmed THEN AccountOf[c[i]] ELSE None
    BY <2>1
  <2> QED BY <2>2 DEF Matches
<1>3. ASSUME NEW i \in Ids PROVE reader[i].pc # "login"
  BY DEF Init, IdleReader
<1>4. ConfirmOK
  BY <1>1 DEF ConfirmOK, IdleJob, Actors
<1> QED BY <1>1, <1>2, <1>3, <1>4, InitTypes DEF StoreInv, DocsOK

\* A step of an operation that does not touch the documents.
LEMMA DocsStay ==
  ASSUME TypeInv, DocsOK, UNCHANGED <<mem, db, writing, reader, unsaid>>,
         job["merge"].pc = "queued" => job'["merge"] = job["merge"]
  PROVE  DocsOK'
<1>1. ASSUME NEW i \in Ids, writing # NoWrite
      PROVE  ChangeOK(writing.who, writing.at, i, writing.docs[i], writing.fields[i])'
  <2>1. ChangeOK(writing.who, writing.at, i, writing.docs[i], writing.fields[i])
    BY <1>1 DEF DocsOK
  <2>2. writing.who = "merge" => job'["merge"] = job["merge"]
    BY <1>1, UnderWay DEF Actors
  <2> QED BY <2>1, <2>2 DEF ChangeOK
<1> QED BY <1>1 DEF DocsOK

LEMMA ConfirmStays ==
  ASSUME TypeInv, ConfirmOK, UNCHANGED mem,
         \/ job'["confirm"].pc = "idle"
         \/ /\ job["confirm"].pc # "idle" /\ job'["confirm"].at = job["confirm"].at
            /\ job'["confirm"].cred = job["confirm"].cred /\ job'["confirm"].vers = job["confirm"].vers
         \/ job'["confirm"] = job["confirm"]
  PROVE  ConfirmOK'
BY DEF ConfirmOK

\* Documents that only get later.
LEMMA ConfirmMoves ==
  ASSUME TypeInv, ConfirmOK, \A i \in Ids : mem'[i] \in Doc /\ Later(mem[i], mem'[i]),
         job'["confirm"].pc = "idle" \/ job'["confirm"] = job["confirm"]
  PROVE  ConfirmOK'
<1> SUFFICES ASSUME job["confirm"].pc # "idle", job'["confirm"] = job["confirm"] PROVE ConfirmOK'
  BY DEF ConfirmOK
<1> DEFINE j == job["confirm"]
<1>1. j \in Jobs /\ JobOK("confirm", j)
  BY DEF TypeInv, Types, Actors
<1>2. j.at \in Ids
  BY <1>1 DEF JobOK
<1>3. j.vers[j.at].av \in Nat /\ mem[j.at].av \in Nat /\ mem'[j.at].av \in Nat
  <2>1. j.vers[j.at] \in Versions /\ mem[j.at] \in Doc /\ mem'[j.at] \in Doc
    BY <1>1, <1>2 DEF Jobs, TypeInv, Types
  <2> QED BY <2>1 DEF Versions, Doc
<1>4. mem'[j.at].av >= mem[j.at].av /\ (mem'[j.at].av = mem[j.at].av => mem'[j.at].cred = mem[j.at].cred)
  BY <1>2 DEF Later
<1>5. j.vers[j.at].av <= mem[j.at].av /\ (j.vers[j.at].av = mem[j.at].av => j.cred = mem[j.at].cred)
  BY DEF ConfirmOK
<1>6. j.vers[j.at].av <= mem'[j.at].av
  BY <1>3, <1>4, <1>5
<1>7. j.vers[j.at].av = mem'[j.at].av => j.vers[j.at].av = mem[j.at].av /\ mem'[j.at].av = mem[j.at].av
  BY <1>3, <1>4, <1>5
<1> QED BY <1>4, <1>5, <1>6, <1>7 DEF ConfirmOK

-----------------------------------------------------------------------------
(* The change that has its turn is a change of that kind.                      *)

LEMMA FieldsOfChange ==
  ASSUME TypeInv, NEW docs, NEW i \in Ids
  PROVE  /\ \A f \in FieldNames : f \notin Fields(docs, i) => docs[i][f] = mem[i][f]
         /\ docs[i].cred # mem[i].cred => "tok" \in Fields(docs, i)
<1>1. DOMAIN mem[i] = FieldNames
  BY DocFields DEF TypeInv, Types, FieldNames
<1> QED BY <1>1 DEF Fields

LEMMA WithCredMatches ==
  ASSUME NEW d \in Doc, Matches(d), NEW c \in Creds
  PROVE  Matches(WithCred(d, c)) /\ Later(d, WithCred(d, c))
<1>1. d.av \in Nat /\ WithCred(d, c).av \in Nat
  BY WithCredDoes DEF Doc
<1>2. CASE c = d.cred
  BY <1>1, <1>2, WithCredDoes DEF Matches, Later
<1>3. CASE c # d.cred
  <2>1. /\ WithCred(d, c).av = d.av + 1 /\ WithCred(d, c).tok = None /\ WithCred(d, c).ident = None
        /\ WithCred(d, c).here = d.here
    BY <1>3, WithCredDoes
  <2> QED BY <1>1, <2>1 DEF Matches, Later
<1> QED BY <1>2, <1>3

LEMMA UnchangedDocOK ==
  ASSUME NEW i \in Ids, NEW a, NEW at, NEW F, Matches(mem[i]), mem[i] \in Doc, a # "merge"
  PROVE  ChangeOK(a, at, i, mem[i], F)
<1>1. mem[i].av >= mem[i].av
  BY DEF Doc
<1> QED BY <1>1 DEF ChangeOK, Later

LEMMA PreparedDocOK ==
  ASSUME StoreInv, NEW e, Waits(e), e.who \in Actors \cup {"read"}, Verdict(e.who, e.at) = "write",
         NEW i \in Ids, NEW docs, docs[i] = NewDoc(e.who, i)
  PROVE  ChangeOK(e.who, e.at, i, docs[i], Fields(docs, i))
<1> DEFINE w == docs[i]
           F == Fields(docs, i)
           d == mem[i]
           j == job[e.who]
<1>1. d \in Doc /\ Matches(d)
  BY DEF StoreInv, TypeInv, Types, DocsOK
<1>2. /\ \A f \in FieldNames : f # "tok" /\ f \notin F => w[f] = d[f]
      /\ w.cred # d.cred => "tok" \in F
  BY FieldsOfChange DEF StoreInv
<1>3. e.who \in Actors => j.pc = "queued" /\ JobOK(e.who, j) /\ j \in Jobs
  BY DEF Waits, StoreInv, TypeInv, Types
<1>4. d.av \in Nat
  BY <1>1 DEF Doc
<1>5. CASE w = d /\ e.who # "merge"
  BY <1>1, <1>5, UnchangedDocOK
<1>6. CASE e.who = "edit" /\ w = EditDoc(d)
  <2>1. /\ w \in Doc /\ w.into = d.into /\ (w.here => d.here)
        /\ \/ w = WithCred(d, job["edit"].cred) /\ job["edit"].cred \in Creds
           \/ w.cred = d.cred /\ w.av = d.av /\ w.ident = d.ident /\ w.tok = d.tok /\ w.ref = d.ref
    BY <1>1, <1>3, <1>6, EditDocDoes DEF StoreInv, Actors
  <2>2. CASE w.cred = d.cred /\ w.av = d.av /\ w.ident = d.ident /\ w.tok = d.tok /\ w.ref = d.ref
    BY <1>1, <1>2, <1>4, <1>6, <2>1, <2>2 DEF ChangeOK, Matches, Later
  <2>3. CASE w = WithCred(d, job["edit"].cred) /\ job["edit"].cred \in Creds
    <3>1. Matches(w) /\ Later(d, w)
      BY <1>1, <2>3, WithCredMatches
    <3>2. w.ref \in {d.ref, NoRef} /\ (w.av = d.av => w.ref = d.ref)
      BY <1>1, <1>4, <2>3, WithCredDoes
    <3> QED BY <1>2, <1>6, <2>1, <3>1, <3>2 DEF ChangeOK
  <2> QED BY <2>1, <2>2, <2>3
<1>7. CASE e.who = "confirm" /\ i = e.at /\ w = [d EXCEPT !.ident = j.ident]
  <2>1. j.ident = AccountOf[j.cred] /\ e.at = j.at
    BY <1>3, <1>7 DEF JobOK, Waits, Actors
  <2>2. j.vers[j.at] = Version(mem[j.at])
    BY <1>7, <2>1 DEF Verdict
  <2>3. j.vers[j.at].av = mem[j.at].av
    BY <2>2 DEF Version
  <2>4. j.cred = d.cred
    BY <1>3, <1>7, <2>1, <2>3 DEF StoreInv, ConfirmOK, Actors
  <2>5. w.ident = j.ident /\ w.cred = d.cred /\ w.av = d.av /\ w.tok = d.tok /\ w.ref = d.ref
        /\ w.here = d.here /\ w.into = d.into
    BY <1>1, <1>7 DEF Doc
  <2>6. Matches(w) /\ Later(d, w)
    BY <1>1, <1>4, <2>1, <2>4, <2>5 DEF Matches, Later
  <2> QED BY <1>2, <1>7, <2>5, <2>6 DEF ChangeOK
<1>8. CASE e.who = "auth" /\ i = e.at /\ w = AuthDoc(d)
  <2> DEFINE c == job["auth"].cred
             n == WithCred(d, c)
  <2>1. /\ c \in Creds /\ w.ident = AccountOf[c] /\ w.cred = c /\ w.here = d.here /\ w.arch = d.arch
        /\ w.into = d.into /\ w.tok = n.tok /\ w.av = n.av
    BY <1>1, <1>3, <1>8, AuthDocDoes DEF StoreInv, Actors
  <2>2. Matches(n) /\ Later(d, n) /\ n.cred = c
    BY <1>1, <2>1, WithCredMatches, WithCredDoes
  <2> HIDE DEF c, n
  <2>3. Matches(w) /\ Later(d, w)
    BY <2>1, <2>2 DEF Matches, Later
  <2> QED BY <1>2, <1>8, <2>1, <2>3 DEF ChangeOK
<1>9. CASE e.who = "merge"
  <2> DEFINE J == job["merge"]
  <2>1. J.pc = "queued" /\ J.op \in {"merge", "undo"}
    BY <1>3, <1>9 DEF JobOK, Actors
  <2>2. PICK k, g \in Ids : k < g /\ Min(J.todo) = k /\ Max(J.todo) = g
    BY <2>1, TwoOfMerge DEF StoreInv
  <2>3. PICK x : /\ w = IF i = g THEN [d EXCEPT !.into = x] ELSE d
                 /\ J.op = "undo" => x = 0
    <3>1. CASE J.op = "merge"
      <4>1. w = IF i = g THEN [d EXCEPT !.into = k] ELSE d
        BY <1>9, <2>2, <3>1 DEF NewDoc
      <4> QED BY <3>1, <4>1
    <3>2. CASE J.op = "undo"
      BY <1>9, <2>2, <3>2 DEF NewDoc
    <3> QED BY <2>1, <3>1, <3>2
  <2>4. w = IF i = g THEN [d EXCEPT !.into = x] ELSE d
    BY <2>3
  <2>5. /\ w.here = d.here /\ w.cred = d.cred /\ w.av = d.av /\ w.ident = d.ident /\ w.tok = d.tok
        /\ w.ref = d.ref /\ (i = g => w.into = x) /\ (i # g => w.into = d.into)
    <3>1. CASE i = g
      <4>1. w = [d EXCEPT !.into = x]
        BY <2>4, <3>1
      <4> HIDE DEF w, d
      <4> QED BY <1>1, <3>1, <4>1 DEF Doc
    <3>2. CASE i # g
      BY <2>4, <3>2
    <3> QED BY <3>1, <3>2
  <2>6. J.op = "merge" /\ i = k => w.into = 0
    <3> SUFFICES ASSUME J.op = "merge", i = k PROVE w.into = 0
      OBVIOUS
    <3>1. Mergeable(k, g)
      BY <1>9, <2>2 DEF Verdict
    <3>2. i # g
      BY <2>2, Assumptions
    <3> QED BY <2>5, <3>1, <3>2 DEF Mergeable, Listed, Visible
  <2>7. Matches(w) /\ Later(d, w)
    BY <1>1, <1>4, <2>5 DEF Matches, Later
  <2> QED BY <1>2, <1>9, <2>2, <2>3, <2>5, <2>6, <2>7 DEF ChangeOK
<1>10. \/ w = d
       \/ e.who = "edit" /\ w = EditDoc(d)
       \/ e.who = "confirm" /\ i = e.at /\ w = [d EXCEPT !.ident = j.ident]
       \/ e.who = "auth" /\ i = e.at /\ w = AuthDoc(d)
       \/ e.who = "merge"
  BY NewDocIs DEF StoreInv
<1> QED BY <1>5, <1>6, <1>7, <1>8, <1>9, <1>10

-----------------------------------------------------------------------------
(* Every step keeps the documents in order.                                    *)

LEMMA PrepareDocs ==
  ASSUME StoreInv, Prepare
  PROVE  DocsOK' /\ ConfirmOK'
<1> DEFINE e == Head(queue)
           docs == [k \in Ids |-> NewDoc(e.who, k)]
<1>1. /\ Waits(e) /\ e.who \in Actors \cup {"read"} /\ writing = NoWrite
      /\ UNCHANGED <<mem, db, reader>> /\ \A b \in Actors \ {e.who} : job'[b] = job[b]
      /\ \/ /\ Verdict(e.who, e.at) = "write"
            /\ writing' = [who |-> e.who, at |-> e.at, docs |-> docs, fields |-> [k \in Ids |-> Fields(docs, k)],
                           stored |-> FALSE]
            /\ UNCHANGED job
         \/ writing' = NoWrite /\ Reply(e.who, e.at, FALSE)
  BY PrepareStep DEF StoreInv
<1>2. /\ UNCHANGED unsaid
      /\ \A i \in Ids : /\ Matches(mem[i]) /\ Matches(db[i])
                        /\ ~unsaid.now => Settings(db[i]) = Settings(mem[i])
                        /\ reader[i].pc = "login" /\ reader[i].attached => reader[i].cred = mem[i].cred
  BY <1>1 DEF StoreInv, DocsOK, NoWrite, Prepare
<1>3. CASE writing' = NoWrite /\ Reply(e.who, e.at, FALSE)
  <2>1. DocsOK'
    BY <1>1, <1>2, <1>3 DEF DocsOK, NoWrite
  <2>2. job'["confirm"].pc = "idle" \/ job'["confirm"] = job["confirm"]
    <3>1. mem' \in [Ids -> Doc]
      BY <1>1 DEF StoreInv, TypeInv, Types
    <3>2. e.who = "confirm" => job'["confirm"] = IdleJob
      BY <1>1, <1>3, <3>1, ReplyDoes DEF StoreInv, Actors
    <3> QED BY <1>1, <3>2 DEF IdleJob, Actors
  <2> QED BY <1>1, <2>1, <2>2, ConfirmStays DEF StoreInv
<1>4. CASE /\ Verdict(e.who, e.at) = "write"
           /\ writing' = [who |-> e.who, at |-> e.at, docs |-> docs, fields |-> [k \in Ids |-> Fields(docs, k)],
                          stored |-> FALSE]
           /\ UNCHANGED job
  <2>1. \A i \in Ids : ChangeOK(e.who, e.at, i, docs[i], Fields(docs, i))
    BY <1>1, <1>4, PreparedDocOK
  <2>2. /\ writing'.who = e.who /\ writing'.at = e.at /\ writing'.docs = docs /\ ~writing'.stored
        /\ \A i \in Ids : writing'.fields[i] = Fields(docs, i)
    <3> HIDE DEF docs, e
    <3> QED BY <1>4
  <2>3. \A a, at, i, w, F : ChangeOK(a, at, i, w, F) => ChangeOK(a, at, i, w, F)'
    BY <1>1, <1>4 DEF ChangeOK
  <2>4. ASSUME NEW i \in Ids
        PROVE  ChangeOK(writing.who, writing.at, i, writing.docs[i], writing.fields[i])'
    <3>1. \A a, at, w, F : a = writing'.who /\ at = writing'.at /\ w = writing'.docs[i] /\ F = writing'.fields[i]
                             => ChangeOK(a, at, i, w, F)'
      <4> HIDE DEF docs, e
      <4> QED BY <2>1, <2>2, <2>3
    <3> QED BY <3>1 DEF ChangeOK
  <2>5. DocsOK'
    <3> HIDE DEF docs, e
    <3> QED BY <1>1, <1>2, <2>2, <2>4 DEF DocsOK
  <2> QED BY <1>1, <1>4, <2>5, ConfirmStays DEF StoreInv
<1> QED BY <1>1, <1>3, <1>4

LEMMA CommitDocs ==
  ASSUME StoreInv, Commit
  PROVE  DocsOK' /\ ConfirmOK'
<1>1. /\ writing # NoWrite /\ writing'.stored /\ writing'.who = writing.who /\ writing'.at = writing.at
      /\ writing'.docs = writing.docs /\ writing'.fields = writing.fields
      /\ db' = writing.docs /\ UNCHANGED <<mem, job, reader>>
  BY CommitStep DEF Commit, Store, StoreInv
<1>2. ASSUME NEW i \in Ids
      PROVE  /\ ChangeOK(writing.who, writing.at, i, writing.docs[i], writing.fields[i])
             /\ ChangeOK(writing.who, writing.at, i, writing.docs[i], writing.fields[i])'
  BY <1>1 DEF StoreInv, DocsOK, ChangeOK
<1>3. \A i \in Ids : Matches(writing.docs[i])
  BY <1>2 DEF ChangeOK
<1>4. DocsOK'
  BY <1>1, <1>2, <1>3 DEF StoreInv, DocsOK
<1> QED BY <1>1, <1>4, ConfirmStays DEF StoreInv

\* The change under way is dropped: its caller is done, or goes on otherwise.
LEMMA DroppedConfirm ==
  ASSUME StoreInv, writing # NoWrite, Reply(writing.who, writing.at, FALSE), UNCHANGED mem,
         \A b \in Actors \ {writing.who} : job'[b] = job[b]
  PROVE  ConfirmOK'
<1>1. mem' \in [Ids -> Doc] /\ Waits(writing) /\ writing.who \in Actors \cup {"read"}
  BY UnderWay DEF StoreInv, TypeInv, Types
<1>2. writing.who = "confirm" => job'["confirm"] = IdleJob
  BY <1>1, ReplyDoes DEF StoreInv, Actors
<1>3. job'["confirm"].pc = "idle" \/ job'["confirm"] = job["confirm"]
  BY <1>2 DEF IdleJob, Actors
<1> QED BY <1>3, ConfirmStays DEF StoreInv

LEMMA RollBackDocs ==
  ASSUME StoreInv, RollBack
  PROVE  DocsOK' /\ ConfirmOK'
<1>1. /\ writing # NoWrite /\ ~writing.stored /\ writing' = NoWrite /\ Reply(writing.who, writing.at, FALSE)
      /\ \A b \in Actors \ {writing.who} : job'[b] = job[b]
      /\ \A i \in Ids : reader'[i] = reader[i] \/ reader'[i] = IdleReader
      /\ UNCHANGED <<mem, db, unsaid>>
  BY RollBackStep DEF StoreInv
<1>2. DocsOK'
  BY <1>1 DEF StoreInv, DocsOK, NoWrite, IdleReader
<1> QED BY <1>1, <1>2, DroppedConfirm

LEMMA CommitUnsaidDocs ==
  ASSUME StoreInv, CommitUnsaid
  PROVE  DocsOK' /\ ConfirmOK'
<1>1. /\ writing # NoWrite /\ writing' = NoWrite /\ Reply(writing.who, writing.at, FALSE)
      /\ \A b \in Actors \ {writing.who} : job'[b] = job[b]
      /\ \A i \in Ids : reader'[i] = reader[i] \/ reader'[i] = IdleReader
      /\ db' = writing.docs /\ UNCHANGED mem /\ unsaid'.now
  BY CommitUnsaidStep DEF StoreInv, CommitUnsaid
<1>2. \A i \in Ids : Matches(writing.docs[i])
  BY <1>1 DEF StoreInv, DocsOK, ChangeOK
<1>3. DocsOK'
  BY <1>1, <1>2 DEF StoreInv, DocsOK, NoWrite, IdleReader
<1> QED BY <1>1, <1>3, DroppedConfirm

\* What is published: the settings of the change, and its tokens unless they
\* are still those of the same login information.
LEMMA PublishedDocs ==
  ASSUME StoreInv, Publish, NEW i \in Ids
  PROVE  /\ Settings(mem'[i]) = Settings(writing.docs[i]) /\ mem'[i] \in Doc
         /\ Matches(mem'[i]) /\ Later(mem[i], mem'[i])
         /\ mem'[i].cred # mem[i].cred => "tok" \in Altered(i)
         /\ ChangeOK(writing.who, writing.at, i, writing.docs[i], writing.fields[i])
<1> DEFINE w == writing.docs[i]
           p == mem'[i]
           m == mem[i]
<1>1. /\ writing # NoWrite /\ writing.stored /\ p \in Doc
      /\ \A f \in FieldNames : p[f] = IF f \in Altered(i) THEN w[f] ELSE m[f]
  BY PublishStep DEF StoreInv
<1>2. ChangeOK(writing.who, writing.at, i, w, writing.fields[i])
  BY <1>1 DEF StoreInv, DocsOK
<1>3. writing.who = "read" => Settings(w) = Settings(m)
  BY <1>2 DEF ChangeOK
<1>4. ASSUME NEW f \in FieldNames \ {"tok"} PROVE p[f] = w[f]
  <2>1. CASE writing.who = "read"
    <3>1. p[f] = m[f]
      BY <1>1, <2>1 DEF Altered
    <3>2. w[f] = m[f]
      BY <1>3, <2>1, SettingsFields DEF FieldNames
    <3> QED BY <3>1, <3>2
  <2>2. CASE writing.who # "read"
    BY <1>1, <1>2, <2>2 DEF Altered, ChangeOK
  <2> QED BY <2>1, <2>2
<1>5. Settings(p) = Settings(w)
  BY <1>4, SettingsFields DEF FieldNames
<1>6. /\ p.cred = w.cred /\ p.ident = w.ident /\ p.av = w.av /\ p.here = w.here
      /\ p.tok = IF "tok" \in Altered(i) THEN w.tok ELSE m.tok
  BY <1>1, <1>4 DEF FieldNames
<1>7. w.cred # m.cred => "tok" \in Altered(i)
  BY <1>2, <1>3, SettingsFields DEF Altered, ChangeOK
<1>8. Matches(w) /\ Matches(m) /\ Later(m, w)
  BY <1>2 DEF StoreInv, DocsOK, ChangeOK
<1>9. Matches(p) /\ Later(m, p)
  <2> HIDE DEF p, w, m
  <2> QED BY <1>6, <1>7, <1>8 DEF Matches, Later
<1> QED BY <1>1, <1>2, <1>5, <1>6, <1>7, <1>9

LEMMA PublishDocs ==
  ASSUME StoreInv, Publish
  PROVE  DocsOK' /\ ConfirmOK'
<1>1. /\ writing # NoWrite /\ writing.stored /\ writing' = NoWrite /\ Reply(writing.who, writing.at, TRUE)
      /\ UNCHANGED <<db, unsaid>> /\ \A b \in Actors \ {writing.who} : job'[b] = job[b]
  BY PublishStep DEF StoreInv, Publish
<1>2. ASSUME NEW i \in Ids
      PROVE  reader'[i].pc = "login" /\ reader'[i].attached => reader'[i].cred = mem'[i].cred
  <2>1. \/ reader'[i] = IdleReader
        \/ "tok" \in Altered(i) /\ reader'[i] = [reader[i] EXCEPT !.attached = FALSE]
        \/ "tok" \notin Altered(i) /\ reader'[i] = reader[i]
    BY PublishStep DEF StoreInv
  <2>2. CASE reader'[i] = IdleReader
    BY <2>2 DEF IdleReader
  <2>3. CASE "tok" \in Altered(i) /\ reader'[i] = [reader[i] EXCEPT !.attached = FALSE]
    <3>1. reader[i] \in Readers
      BY DEF StoreInv, TypeInv, Types
    <3>2. ~reader'[i].attached
      BY <2>3, <3>1 DEF Readers
    <3> QED BY <3>2
  <2>4. CASE "tok" \notin Altered(i) /\ reader'[i] = reader[i]
    BY <2>4, PublishedDocs DEF StoreInv, DocsOK
  <2> QED BY <2>1, <2>2, <2>3, <2>4
<1>3. ~NoWrite.stored
  BY DEF NoWrite
<1>4. DocsOK'
  BY <1>1, <1>2, <1>3, PublishedDocs DEF StoreInv, DocsOK
<1>5. job'["confirm"].pc = "idle" \/ job'["confirm"] = job["confirm"]
  <2>1. mem' \in [Ids -> Doc] /\ Waits(writing) /\ writing.who \in Actors \cup {"read"}
    BY <1>1, UnderWay, PublishStep DEF StoreInv, TypeInv, Types
  <2>2. writing.who = "confirm" => job'["confirm"] = IdleJob
    <3>1. PICK ok \in BOOLEAN : Reply(writing.who, writing.at, ok)
      BY <1>1
    <3> QED BY <2>1, <3>1, ReplyDoes DEF StoreInv, Actors
  <2> QED BY <1>1, <2>2 DEF IdleJob, Actors
<1> QED BY <1>4, <1>5, PublishedDocs, ConfirmMoves DEF StoreInv

LEMMA ReadDocs ==
  ASSUME StoreInv, NEW i \in Ids, Reads(i)
  PROVE  /\ DocsOK' /\ ConfirmOK'
         /\ \A k \in Ids : Settings(mem'[k]) = Settings(mem[k])
<1>1. /\ UNCHANGED <<db, writing, job>>
      /\ \A k \in Ids \ {i} : mem'[k] = mem[k] /\ reader'[k] = reader[k]
      /\ reader'[i].pc = "login" => reader'[i].cred = mem[i].cred
  BY ReadStep DEF StoreInv
<1>2. /\ \A f \in FieldNames \ {"tok"} : mem'[i][f] = mem[i][f]
      /\ mem'[i].tok \in {mem[i].tok, None, mem[i].cred}
  <2>1. \/ mem'[i] = mem[i]
        \/ mem[i] \in Doc /\ mem'[i] = [mem[i] EXCEPT !.tok = None]
        \/ /\ mem[i] \in Doc /\ mem'[i] = [mem[i] EXCEPT !.tok = reader[i].cred]
           /\ reader[i].pc = "login" /\ reader[i].attached
    BY ReadStep DEF StoreInv
  <2>2. reader[i].pc = "login" /\ reader[i].attached => reader[i].cred = mem[i].cred
    BY DEF StoreInv, DocsOK
  <2>3. ASSUME NEW t, mem[i] \in Doc, mem'[i] = [mem[i] EXCEPT !.tok = t]
        PROVE  mem'[i].tok = t /\ \A f \in FieldNames \ {"tok"} : mem'[i][f] = mem[i][f]
    BY <2>3 DEF Doc, FieldNames
  <2> QED BY <2>1, <2>2, <2>3
<1>3. ASSUME NEW k \in Ids
      PROVE  /\ \A f \in FieldNames \ {"tok"} : mem'[k][f] = mem[k][f]
             /\ mem'[k].tok \in {mem[k].tok, None, mem[k].cred}
  BY <1>1, <1>2
<1>4. ASSUME NEW k \in Ids
      PROVE  /\ mem'[k].here = mem[k].here /\ mem'[k].cred = mem[k].cred /\ mem'[k].av = mem[k].av
             /\ mem'[k].ident = mem[k].ident /\ mem'[k].arch = mem[k].arch /\ mem'[k].into = mem[k].into
             /\ mem'[k].ref = mem[k].ref
  BY <1>3 DEF FieldNames
<1>5. \A k \in Ids : Settings(mem'[k]) = Settings(mem[k])
  BY <1>4 DEF Settings
<1>6. ASSUME NEW k \in Ids PROVE Matches(mem'[k])
  BY <1>3, <1>4 DEF StoreInv, DocsOK, Matches
<1>7. ASSUME NEW k \in Ids, writing # NoWrite
      PROVE  ChangeOK(writing.who, writing.at, k, writing.docs[k], writing.fields[k])'
  <2>1. ChangeOK(writing.who, writing.at, k, writing.docs[k], writing.fields[k])
    BY <1>7 DEF StoreInv, DocsOK
  <2>2. \A w : Settings(w) = Settings(mem[k]) => Settings(w) = Settings(mem'[k])
    BY <1>5
  <2> QED BY <1>1, <1>3, <1>4, <2>1, <2>2 DEF ChangeOK, Later
<1>8. ASSUME NEW k \in Ids
      PROVE  reader'[k].pc = "login" /\ reader'[k].attached => reader'[k].cred = mem'[k].cred
  BY <1>1, <1>4 DEF StoreInv, DocsOK
<1>0. UNCHANGED unsaid
  BY DEF Reads, ReadStart, LoggedIn, LoginFails, Rejected, Answered
<1>9. DocsOK'
  BY <1>0, <1>1, <1>5, <1>6, <1>7, <1>8 DEF StoreInv, DocsOK
<1>10. ConfirmOK'
  <2>1. \A k \in Ids : mem'[k] \in Doc /\ Later(mem[k], mem'[k])
    <3>1. \A k \in Ids : mem'[k] \in Doc /\ mem[k].av \in Nat
      BY ReadStep DEF StoreInv, TypeInv, Types, Doc
    <3> QED BY <1>4, <3>1 DEF Later
  <2> QED BY <1>1, <2>1, ConfirmMoves DEF StoreInv
<1> QED BY <1>5, <1>9, <1>10

LEMMA CrashDocs ==
  ASSUME StoreInv, Crash
  PROVE  DocsOK' /\ ConfirmOK'
<1>1. /\ mem' = db /\ UNCHANGED db /\ writing' = NoWrite
      /\ \A i \in Ids : reader'[i] = IdleReader
      /\ job'["confirm"] = IdleJob
  BY CrashStep DEF StoreInv, Actors
<1> QED BY <1>1 DEF StoreInv, DocsOK, ConfirmOK, NoWrite, IdleReader, IdleJob

\* The steps of operations that leave the documents alone.
LEMMA JobDocs ==
  ASSUME StoreInv, Next, ~Prepare, ~Commit, ~RollBack, ~CommitUnsaid, ~Publish, ~Crash, \A i \in Ids : ~Reads(i)
  PROVE  /\ DocsOK' /\ ConfirmOK' /\ UNCHANGED <<mem, db, writing, reader>>
         /\ UNCHANGED <<rule, merge>> \/ BindHeld
<1> DEFINE Keeps == /\ UNCHANGED <<mem, db, writing, reader>>
                    /\ UNCHANGED <<rule, merge>> \/ BindHeld
                    /\ job["merge"].pc = "queued" => job'["merge"] = job["merge"]
                    /\ \/ job'["confirm"].pc = "idle"
                       \/ /\ job["confirm"].pc # "idle" /\ job'["confirm"].at = job["confirm"].at
                          /\ job'["confirm"].cred = job["confirm"].cred
                          /\ job'["confirm"].vers = job["confirm"].vers
                       \/ job'["confirm"] = job["confirm"]
<1>1. TypeInv /\ "confirm" \in Actors /\ "merge" \in Actors /\ UNCHANGED unsaid
  BY UnsaidStays DEF StoreInv, Actors
<1>2. ASSUME Keeps PROVE DocsOK' /\ ConfirmOK'
  BY <1>1, <1>2, DocsStay, ConfirmStays DEF StoreInv
<1>3. ASSUME NEW i \in Ids, NEW op \in {"cred", "archive", "restore", "remove"}, NEW c \in Creds,
             NEW checked \in BOOLEAN, EditStart(i, op, c, checked)
      PROVE  Keeps
  <2>1. \A b \in Actors \ {"edit"} : job'[b] = job[b]
    BY <1>1, <1>3, EditStartStep
  <2> QED BY <1>1, <1>3, <2>1 DEF EditStart
<1>4. CASE EditSubmit
  <2>1. \A b \in Actors \ {"edit"} : job'[b] = job[b]
    BY <1>1, <1>4, EditSubmitStep
  <2> QED BY <1>1, <1>2, <1>4, <2>1 DEF EditSubmit
<1>5. CASE ConfirmAnswer
  <2>1. /\ \A b \in Actors \ {"confirm"} : job'[b] = job[b]
        /\ \/ job'["confirm"].pc = "idle"
           \/ /\ job'["confirm"].at = job["confirm"].at /\ job'["confirm"].cred = job["confirm"].cred
              /\ job'["confirm"].vers = job["confirm"].vers
    BY <1>1, <1>5, ConfirmAnswerStep
  <2> QED BY <1>1, <1>2, <1>5, <2>1 DEF ConfirmAnswer
<1>6. CASE PreviewExpires
  BY <1>2, <1>6 DEF PreviewExpires
<1>7. CASE AuthConfirm
  <2>1. \A b \in Actors \ {"auth"} : job'[b] = job[b]
    BY <1>1, <1>7, AuthConfirmStep
  <2> QED BY <1>1, <1>2, <1>7, <2>1 DEF AuthConfirm
<1>8. CASE UndoStart
  <2>1. \A b \in Actors \ {"merge"} : job'[b] = job[b]
    BY <1>1, <1>8, UndoStartStep
  <2>2. job["merge"].pc = "idle"
    BY <1>8 DEF UndoStart, Begin
  <2> QED BY <1>1, <1>2, <1>8, <2>1, <2>2 DEF UndoStart
<1>9. CASE EditHeld
  <2>1. \A b \in Actors \ {"edit"} : job'[b] = job[b]
    BY <1>1, <1>9, EditHeldStep
  <2> QED BY <1>1, <1>2, <1>9, <2>1 DEF EditHeld
<1>10. CASE ConfirmHeld
  <2>1. /\ \A b \in Actors \ {"confirm"} : job'[b] = job[b]
        /\ \/ job'["confirm"].pc = "idle"
           \/ /\ job'["confirm"].at = job["confirm"].at /\ job'["confirm"].cred = job["confirm"].cred
              /\ job'["confirm"].vers = job["confirm"].vers
    BY <1>1, <1>10, ConfirmHeldStep
  <2> QED BY <1>1, <1>2, <1>10, <2>1 DEF ConfirmHeld
<1>11. CASE AuthHeld
  <2>1. \A b \in Actors \ {"auth"} : job'[b] = job[b]
    BY <1>1, <1>11, AuthHeldStep
  <2> QED BY <1>1, <1>2, <1>11, <2>1 DEF AuthHeld
<1>12. CASE MergeHeld
  <2>1. \A b \in Actors \ {"merge"} : job'[b] = job[b]
    BY <1>1, <1>12, MergeHeldStep
  <2>2. job["merge"].pc = "held"
    BY <1>12 DEF MergeHeld
  <2> QED BY <1>1, <1>2, <1>12, <2>1, <2>2 DEF MergeHeld
<1>13. CASE BindHeld
  <2>1. \A b \in Actors \ {"bind"} : job'[b] = job[b]
    BY <1>1, <1>13, BindHeldStep
  <2>2. UNCHANGED <<mem, db, writing, reader>>
    BY <1>13 DEF BindHeld
  <2> QED BY <1>1, <1>2, <1>13, <2>1, <2>2
<1>14. ASSUME NEW i \in Ids, ConfirmStart(i)
       PROVE  /\ DocsOK' /\ ConfirmOK' /\ UNCHANGED <<mem, db, writing, reader>>
              /\ UNCHANGED <<rule, merge>> \/ BindHeld
  <2>1. /\ \A b \in Actors \ {"confirm"} : job'[b] = job[b]
        /\ job'["confirm"].at = i /\ job'["confirm"].cred = mem[i].cred
        /\ job'["confirm"].vers[i] = Version(mem[i])
    BY <1>1, <1>14, ConfirmStartStep
  <2>2. UNCHANGED <<mem, db, rule, merge, writing, reader>>
    BY <1>14 DEF ConfirmStart
  <2>3. DocsOK'
    BY <1>1, <2>1, <2>2, DocsStay DEF StoreInv
  <2>4. Version(mem[i]).av = mem[i].av /\ mem[i].av <= mem[i].av
    BY <1>1 DEF Version, TypeInv, Types, Doc
  <2>5. ConfirmOK'
    BY <2>1, <2>2, <2>4 DEF ConfirmOK
  <2> QED BY <2>2, <2>3, <2>5
<1>15. ASSUME NEW i \in Ids, BindStart(i) PROVE Keeps
  <2>1. \A b \in Actors \ {"bind"} : job'[b] = job[b]
    BY <1>1, <1>15, BindStartStep
  <2> QED BY <1>1, <1>15, <2>1 DEF BindStart
<1>16. ASSUME NEW r \in 1..MaxRequests, NEW c \in Creds, NEW targets \in SUBSET Ids, AuthPreview(r, c, targets)
       PROVE  Keeps
  BY <1>16 DEF AuthPreview
<1>17. ASSUME NEW keep \in Ids, NEW gone \in Ids, MergeStart(keep, gone) PROVE Keeps
  <2>1. \A b \in Actors \ {"merge"} : job'[b] = job[b]
    BY <1>1, <1>17, MergeStartStep
  <2>2. job["merge"].pc = "idle"
    BY <1>17 DEF MergeStart, Begin
  <2> QED BY <1>1, <1>17, <2>1, <2>2 DEF MergeStart
<1>18. ASSUME NEW a \in Actors, JoinLine(a) \/ TakeLock(a) PROVE Keeps
  <2>1. \A b \in Actors : /\ job'[b] = job[b] \/ (job'[b].pc # "idle" /\ job[b].pc # "idle")
                          /\ job'[b].vers = job[b].vers /\ job'[b].at = job[b].at
                          /\ job'[b].cred = job[b].cred
                          /\ job[b].pc = "queued" => job'[b] = job[b]
    BY <1>1, <1>18, LockStep
  <2>2. UNCHANGED <<mem, db, rule, merge, writing, reader>>
    BY <1>18 DEF JoinLine, TakeLock
  <2> QED BY <1>1, <2>1, <2>2
<1> HIDE DEF Keeps
<1>19. Keeps => /\ UNCHANGED <<mem, db, writing, reader>>
                /\ UNCHANGED <<rule, merge>> \/ BindHeld
  BY DEF Keeps
<1> QED BY <1>1, <1>2, <1>3, <1>4, <1>5, <1>6, <1>7, <1>8, <1>9, <1>10, <1>11, <1>12, <1>13, <1>14, <1>15,
           <1>16, <1>17, <1>18, <1>19, StepKinds

LEMMA NextStore == StoreInv /\ [Next]_vars => StoreInv'
<1> SUFFICES ASSUME StoreInv, [Next]_vars PROVE StoreInv'
  OBVIOUS
<1>1. TypeInv'
  BY NextTypes DEF StoreInv
<1>2. CASE UNCHANGED vars
  <2>1. DocsOK' /\ ConfirmOK'
    BY <1>2, DocsStay, ConfirmStays DEF StoreInv, vars
  <2> QED BY <1>1, <2>1 DEF StoreInv
<1>3. CASE Next
  BY <1>1, <1>3, PrepareDocs, CommitDocs, RollBackDocs, CommitUnsaidDocs, PublishDocs, ReadDocs, CrashDocs, JobDocs DEF StoreInv
<1> QED BY <1>2, <1>3

(* A confirmed account is the account of the login information beside it, in   *)
(* the memory and in the database: the identity that confirmResourceIdentity   *)
(* asked with replaced login information is never recorded for the new one.    *)
THEOREM AccountOfLogin == Spec => []IdentityMatches
<1>1. StoreInv => IdentityMatches
  BY DEF StoreInv, DocsOK, Matches, IdentityMatches
<1> QED BY InitStore, NextStore, <1>1, PTL DEF Spec

(* The tokens kept for a station were fetched with the login information it    *)
(* has, although doRefreshOne changes them in place, without a lock, in the    *)
(* middle of a write that replaces it.                                         *)
THEOREM TokensOfLogin == Spec => []TokensMatch
<1>1. StoreInv => TokensMatch
  BY DEF StoreInv, DocsOK, Matches, TokensMatch
<1> QED BY InitStore, NextStore, <1>1, PTL DEF Spec

(* What the service sees is what the database holds, but for the change that   *)
(* is committed and not yet published, and but for a write that was stored     *)
(* although the save was reported as failed, until the next write or start     *)
(* makes the two agree again (save and _saveChange of src/db/store.js).        *)
THEOREM SeenIsStored == Spec => []PublishedIsStored
<1>1. StoreInv => PublishedIsStored
  BY DEF StoreInv, DocsOK, PublishedIsStored
<1> QED BY InitStore, NextStore, <1>1, PTL DEF Spec

-----------------------------------------------------------------------------
(* The binding of the Key.                                                     *)

\* While no merge was stored and reported as failed, the database and the
\* memory agree on what is merged, also after other writes of that kind, and
\* the station of the binding is not merged.
BindingOK ==
  "merge" \notin unsaid.by =>
    /\ rule # 0 => db[rule].into = 0
    /\ \A i \in Ids : db[i].into = IF writing.stored THEN writing.docs[i].into ELSE mem[i].into

RuleInv == StoreInv /\ BindingOK

LEMMA InitRule == Init => RuleInv
<1> SUFFICES ASSUME Init PROVE BindingOK
  BY InitStore DEF RuleInv
<1>1. PICK c \in [Ids -> FirstCreds], confirmed \in BOOLEAN, m \in [keep : Ids, gone : Ids, moved : BOOLEAN] \cup {NoMerge} :
        /\ m # NoMerge => m.keep < m.gone /\ confirmed /\ AccountOf[c[m.keep]] = AccountOf[c[m.gone]]
        /\ mem = [i \in Ids |-> [here |-> TRUE, cred |-> c[i], av |-> 1,
                                 ident |-> IF confirmed THEN AccountOf[c[i]] ELSE None, tok |-> None,
                                 arch |-> FALSE, into |-> IF i = m.gone THEN m.keep ELSE 0, ref |-> NoRef]]
        /\ merge = m
        /\ rule = IF m.moved THEN m.keep ELSE 0
  BY DEF Init
<1>2. db = mem /\ ~writing.stored
  BY DEF Init, NoWrite
<1>3. rule # 0 => mem[rule].into = 0
  <2>1. CASE m = NoMerge
    BY <1>1, <2>1 DEF NoMerge
  <2>2. CASE m # NoMerge
    <3>1. m.keep \in Ids /\ m.gone \in Ids /\ m.keep < m.gone
      BY <1>1, <2>2
    <3>2. m.keep # m.gone
      <4>1. \A k, g \in Ids : k < g => k # g
        BY Assumptions
      <4> QED BY <3>1, <4>1
    <3>3. mem[m.keep].into = 0
      BY <1>1, <3>1, <3>2
    <3> QED BY <1>1, <3>3
  <2> QED BY <2>1, <2>2
<1> QED BY <1>2, <1>3 DEF BindingOK

\* A write of a merge or of its undoing moves the binding with the stations;
\* a write of anything else merges no station.
LEMMA StoreRule ==
  ASSUME RuleInv, Store, "merge" \notin unsaid.by
  PROVE  /\ rule' # 0 => db'[rule'].into = 0
         /\ writing.who # "merge" => \A i \in Ids : db'[i].into = mem[i].into
<1>1. /\ writing # NoWrite /\ ~writing.stored /\ db' = writing.docs
      /\ IF writing.who = "merge" THEN MoveBindings ELSE UNCHANGED <<rule, merge>>
  BY DEF Store
<1>2. ASSUME NEW i \in Ids
      PROVE  /\ ChangeOK(writing.who, writing.at, i, writing.docs[i], writing.fields[i])
             /\ db[i].into = mem[i].into
  BY <1>1 DEF RuleInv, StoreInv, DocsOK, BindingOK
<1>3. /\ rule \in Ids \cup {0} /\ rule' \in Ids \cup {0}
      /\ rule # 0 => db[rule].into = 0
  BY StoreStep DEF RuleInv, BindingOK, StoreInv, TypeInv, Types
<1>4. writing.who # "merge" => \A i \in Ids : db'[i].into = mem[i].into
  BY <1>1, <1>2 DEF ChangeOK
<1>5. CASE writing.who # "merge"
  BY <1>1, <1>2, <1>3, <1>4, <1>5
<1>6. CASE writing.who = "merge"
  <2> DEFINE j == job["merge"]
  <2>1. j.pc = "queued" /\ JobOK("merge", j)
    BY <1>1, <1>6, UnderWay DEF RuleInv, StoreInv, TypeInv, Types, Actors
  <2>2. PICK k, g \in Ids : k < g /\ Min(j.todo) = k /\ Max(j.todo) = g
    BY <2>1, TwoOfMerge DEF RuleInv, StoreInv
  <2>3. /\ \A i \in Ids \ {g} : db'[i].into = db[i].into
        /\ j.op = "merge" => db'[k].into = 0
        /\ j.op = "undo" => db'[g].into = 0
    BY <1>1, <1>2, <1>6, <2>2 DEF ChangeOK
  <2>4. j.op \in {"merge", "undo"}
    BY <2>1 DEF JobOK
  <2>5. CASE j.op = "merge"
    <3>1. rule' = IF rule = g THEN k ELSE rule
      BY <1>1, <1>6, <2>2, <2>5 DEF MoveBindings
    <3> QED BY <1>3, <1>6, <2>2, <2>3, <2>5, <3>1
  <2>6. CASE j.op = "undo"
    <3>1. rule' = rule \/ rule' = g
      BY <1>1, <1>6, <2>2, <2>6 DEF MoveBindings
    <3> QED BY <1>3, <1>6, <2>2, <2>3, <2>6, <3>1
  <2> QED BY <2>4, <2>5, <2>6
<1> QED BY <1>4, <1>5, <1>6

LEMMA CommitRule ==
  ASSUME RuleInv, Commit
  PROVE  BindingOK'
<1>1. Store /\ unsaid'.by = unsaid.by
  BY DEF Commit
<1>2. /\ writing'.stored /\ writing'.docs = writing.docs /\ db' = writing.docs
  BY <1>1, CommitStep DEF RuleInv, StoreInv, Store
<1> QED BY <1>1, <1>2, StoreRule DEF BindingOK

LEMMA CommitUnsaidRule ==
  ASSUME RuleInv, CommitUnsaid
  PROVE  BindingOK'
<1>1. /\ Store /\ unsaid'.by = unsaid.by \cup {writing.who} /\ UNCHANGED mem
      /\ writing' = NoWrite
  BY CommitUnsaidStep DEF CommitUnsaid, RuleInv, StoreInv
<1>2. CASE "merge" \in unsaid'.by
  BY <1>2 DEF BindingOK
<1>3. CASE "merge" \notin unsaid'.by
  <2>1. "merge" \notin unsaid.by /\ writing.who # "merge"
    BY <1>1, <1>3
  <2> QED BY <1>1, <2>1, StoreRule DEF BindingOK, NoWrite
<1> QED BY <1>2, <1>3

\* A Key is bound to a station that is not merged, also in the database: the
\* binding holds the lock of the station, so that no merge of it is under way.
LEMMA BindRule ==
  ASSUME RuleInv, BindHeld
  PROVE  BindingOK'
<1> DEFINE j == job["bind"]
<1>1. /\ TypeInv /\ JobOK("bind", j) /\ LockJob("bind") /\ j.pc = "held" /\ j \in Jobs
  BY DEF RuleInv, StoreInv, TypeInv, Types, LockInv, Actors, BindHeld
<1>2. j.at \in Ids /\ j.at \in j.need /\ j.vers[j.at] # NoVersion
  BY <1>1 DEF JobOK
<1>3. UNCHANGED <<mem, db, writing, unsaid>>
  BY DEF BindHeld
<1>4. CASE rule' = rule
  BY <1>3, <1>4 DEF RuleInv, BindingOK
<1>5. CASE rule' = j.at /\ Targets(j.vers) = Billable
  <2>1. mem[j.at].into = 0
    BY <1>2, <1>5 DEF Targets, Billable, Visible
  <2>2. writing.stored => writing.docs[j.at].into = 0
    <3> SUFFICES ASSUME writing.stored PROVE writing.docs[j.at].into = mem[j.at].into
      BY <2>1
    <3>1. writing # NoWrite
      BY DEF NoWrite
    <3>2. ChangeOK(writing.who, writing.at, j.at, writing.docs[j.at], writing.fields[j.at])
      BY <1>2, <3>1 DEF RuleInv, StoreInv, DocsOK
    <3>3. CASE writing.who # "merge"
      BY <3>2, <3>3 DEF ChangeOK
    <3>4. CASE writing.who = "merge"
      <4> DEFINE J == job["merge"]
      <4>1. J.pc = "queued" /\ LockJob("merge") /\ J \in Jobs
        BY <1>1, <3>1, <3>4, UnderWay DEF TypeInv, Types, LockInv, Actors
      <4>2. PICK k, g \in Ids : J.need = {k, g} /\ Max(J.todo) = g
        BY <1>1, <4>1, TwoOfMerge
      <4>3. g \in J.held
        BY <4>1, <4>2 DEF LockJob
      <4>4. j.at \in j.held
        BY <1>1, <1>2 DEF LockJob
      <4>5. Head(lockq[g]) = "merge" /\ Head(lockq[j.at]) = "bind"
        BY <1>1, <4>1, <4>3, <4>4 DEF LockJob
      <4>6. j.at # g
        BY <4>5
      <4> QED BY <3>2, <3>4, <4>2, <4>6 DEF ChangeOK
    <3> QED BY <3>3, <3>4
  <2>3. "merge" \notin unsaid.by => db[j.at].into = 0
    BY <1>2, <2>1, <2>2 DEF RuleInv, BindingOK
  <2> QED BY <1>3, <1>5, <2>3 DEF RuleInv, BindingOK
<1> QED BY <1>4, <1>5 DEF BindHeld

LEMMA NextRule == RuleInv /\ [Next]_vars => RuleInv'
<1> SUFFICES ASSUME RuleInv, [Next]_vars PROVE BindingOK'
  BY NextStore DEF RuleInv
<1>1. TypeInv /\ StoreInv /\ BindingOK
  BY DEF RuleInv, StoreInv
<1>2. ASSUME UNCHANGED <<db, rule, unsaid>>, ~writing.stored, ~writing'.stored,
             \A i \in Ids : mem'[i].into = mem[i].into
      PROVE  BindingOK'
  BY <1>1, <1>2 DEF BindingOK
<1>3. CASE UNCHANGED vars
  BY <1>1, <1>3 DEF BindingOK, vars
<1>4. CASE Commit \/ CommitUnsaid \/ BindHeld
  BY <1>4, CommitRule, CommitUnsaidRule, BindRule
<1>5. CASE Prepare
  <2>1. writing = NoWrite /\ UNCHANGED <<mem, db, rule, unsaid>>
    BY <1>1, <1>5, PrepareStep DEF Prepare
  <2>2. ~writing.stored /\ ~writing'.stored
    <3> DEFINE e == Head(queue)
               docs == [k \in Ids |-> NewDoc(e.who, k)]
               fields == [k \in Ids |-> Fields([m \in Ids |-> NewDoc(e.who, m)], k)]
    <3>1. \/ writing' = [who |-> e.who, at |-> e.at, docs |-> docs, fields |-> fields, stored |-> FALSE]
          \/ writing' = NoWrite
      BY <1>1, <1>5, PrepareStep
    <3> HIDE DEF docs, fields, e
    <3> QED BY <2>1, <3>1 DEF NoWrite
  <2> QED BY <1>2, <2>1, <2>2
<1>6. CASE RollBack
  <2>1. ~writing.stored /\ writing' = NoWrite /\ UNCHANGED <<mem, db, rule, unsaid>>
    BY <1>1, <1>6, RollBackStep
  <2> QED BY <1>2, <2>1 DEF NoWrite
<1>7. CASE Publish
  <2>1. writing.stored /\ writing' = NoWrite /\ UNCHANGED <<db, rule, unsaid>>
    BY <1>1, <1>7, PublishStep DEF Publish
  <2>2. \A i \in Ids : mem'[i].into = writing.docs[i].into
    BY <1>1, <1>7, PublishedDocs, SettingsFields
  <2> QED BY <1>1, <2>1, <2>2 DEF BindingOK, NoWrite
<1>8. CASE Crash
  <2>1. mem' = db /\ writing' = NoWrite /\ UNCHANGED <<db, rule>> /\ unsaid'.by = unsaid.by
    BY <1>1, <1>8, CrashStep DEF Crash
  <2> QED BY <1>1, <2>1 DEF BindingOK, NoWrite
<1>9. ASSUME NEW i \in Ids, Reads(i) PROVE BindingOK'
  <2>1. UNCHANGED <<db, rule, writing>>
    BY <1>1, <1>9, ReadStep
  <2>2. UNCHANGED unsaid
    BY <1>9 DEF Reads, ReadStart, LoggedIn, LoginFails, Rejected, Answered
  <2>3. \A k \in Ids : mem'[k].into = mem[k].into
    BY <1>1, <1>9, ReadDocs, SettingsFields
  <2> QED BY <1>1, <2>1, <2>2, <2>3 DEF BindingOK
<1>10. CASE /\ Next /\ ~Prepare /\ ~Commit /\ ~RollBack /\ ~CommitUnsaid /\ ~Publish /\ ~Crash /\ ~BindHeld
            /\ \A i \in Ids : ~Reads(i)
  <2>1. UNCHANGED <<mem, db, rule, writing>>
    BY <1>1, <1>10, JobDocs
  <2>2. UNCHANGED unsaid
    BY <1>1, <1>10, UnsaidStays
  <2> QED BY <1>1, <2>1, <2>2 DEF BindingOK
<1> QED BY <1>3, <1>4, <1>5, <1>6, <1>7, <1>8, <1>9, <1>10

(* No Key is left bound to a station that was merged into another one: the     *)
(* transaction of a merge moves the binding, and a binding that was prepared   *)
(* before holds the lock of its station and sees it again.  Only a merge or    *)
(* its undoing that is stored although it is reported as failed can break it.  *)
THEOREM BoundToLiving == Spec => []NoBindingToMerged
<1>1. RuleInv => NoBindingToMerged
  BY DEF RuleInv, BindingOK, NoBindingToMerged
<1> QED BY InitRule, NextRule, <1>1, PTL DEF Spec

-----------------------------------------------------------------------------
(* What an update of login information overwrites.                             *)

\* What a preview has shown of station i, or an update has saved of it, is what
\* its version v tells, and what the station still is while it has that version.
ShownAs(i, v) ==
  /\ i \in DOMAIN shown
  /\ \E d \in Doc : /\ shown[i] = Settings(d) /\ Version(d) = v /\ Visible(d)
                    /\ d.av <= mem[i].av
                    /\ d.av = mem[i].av => d.cred = mem[i].cred /\ d.ref = mem[i].ref

ShownInv ==
  /\ StoreInv
  /\ \A i \in Targets(preview.vers) : ShownAs(i, preview.vers[i])
  /\ \A i \in Targets(job["auth"].vers) : ShownAs(i, job["auth"].vers[i])
  /\ writing.who = "auth" /\ writing.stored =>
       \A i \in Targets(job["auth"].vers) : Version(mem[i]) = job["auth"].vers[i]

LEMMA NoTargets == Targets(NoVersions) = {} /\ Targets(NoPreview.vers) = {} /\ Targets(IdleJob.vers) = {}
BY DEF Targets, NoVersions, NoPreview, IdleJob

LEMMA InitShown == Init => ShownInv
<1> SUFFICES ASSUME Init PROVE ShownInv
  OBVIOUS
<1>1. preview = NoPreview /\ job["auth"] = IdleJob /\ writing = NoWrite
  BY DEF Init, Actors
<1> QED BY <1>1, NoTargets, InitStore DEF ShownInv, NoWrite

\* What was shown stays so while the station changes behind its back: then its
\* version is higher.
LEMMA ShownStays ==
  ASSUME TypeInv, NEW i \in Ids, NEW v, ShownAs(i, v), i \in DOMAIN shown', shown'[i] = shown[i],
         mem'[i] \in Doc, Later(mem[i], mem'[i]), mem'[i].av = mem[i].av => mem'[i].ref = mem[i].ref
  PROVE  ShownAs(i, v)'
<1>1. PICK d \in Doc : /\ shown[i] = Settings(d) /\ Version(d) = v /\ Visible(d)
                       /\ d.av <= mem[i].av
                       /\ d.av = mem[i].av => d.cred = mem[i].cred /\ d.ref = mem[i].ref
  BY DEF ShownAs
<1>2. d.av \in Nat /\ mem[i].av \in Nat /\ mem'[i].av \in Nat
  BY DEF TypeInv, Types, Doc
<1>3. d.av <= mem'[i].av /\ (d.av = mem'[i].av => d.av = mem[i].av /\ mem'[i].av = mem[i].av)
  BY <1>1, <1>2 DEF Later
<1>4. d.av = mem'[i].av => d.cred = mem'[i].cred /\ d.ref = mem'[i].ref
  BY <1>1, <1>3 DEF Later
<1> QED BY <1>1, <1>3, <1>4 DEF ShownAs

\* What is shown of a station as it is.
LEMMA ShownNow ==
  ASSUME NEW i, NEW m \in Doc, Visible(m), mem'[i] = m, i \in DOMAIN shown', shown'[i] = Settings(m),
         NEW v, v = Version(m)
  PROVE  ShownAs(i, v)'
<1>1. m.av <= m.av
  BY DEF Doc
<1> QED BY <1>1 DEF ShownAs

\* Nothing of the stations changed, or only their tokens.
LEMMA SameSettings ==
  ASSUME TypeInv, TypeInv', NEW i \in Ids, Settings(mem'[i]) = Settings(mem[i])
  PROVE  /\ mem'[i] \in Doc /\ Later(mem[i], mem'[i]) /\ mem'[i].ref = mem[i].ref
         /\ Version(mem'[i]) = Version(mem[i])
<1>1. mem'[i] \in Doc /\ mem[i] \in Doc
  BY DEF TypeInv, Types
<1>2. mem'[i].av >= mem[i].av
  BY <1>1, SettingsFields DEF Doc
<1> QED BY <1>1, <1>2, SettingsFields DEF Later, Version, Visible

\* The versions that a step of an operation leaves for the update of login
\* information, and what it leaves of the preview.
LEMMA JobShown ==
  ASSUME StoreInv, Next, ~Prepare, ~Commit, ~RollBack, ~CommitUnsaid, ~Publish, ~Crash, \A i \in Ids : ~Reads(i)
  PROVE  /\ \/ job'["auth"].vers = job["auth"].vers
            \/ job["auth"].pc # "queued" /\ job'["auth"].vers \in {NoVersions, preview.vers}
         /\ \/ UNCHANGED <<preview, shown>>
            \/ PreviewExpires
            \/ \E r \in 1..MaxRequests, c \in Creds, targets \in SUBSET Ids : AuthPreview(r, c, targets)
<1> DEFINE Vers == \/ job'["auth"].vers = job["auth"].vers
                   \/ job["auth"].pc # "queued" /\ job'["auth"].vers \in {NoVersions, preview.vers}
           Previewed == \E r \in 1..MaxRequests, c \in Creds, targets \in SUBSET Ids : AuthPreview(r, c, targets)
<1>1. TypeInv /\ "auth" \in Actors
  BY DEF StoreInv, Actors
<1>2. ASSUME NEW i \in Ids, NEW op \in {"cred", "archive", "restore", "remove"}, NEW c \in Creds,
             NEW checked \in BOOLEAN, EditStart(i, op, c, checked)
      PROVE  Vers /\ UNCHANGED <<preview, shown>>
  BY <1>1, <1>2, EditStartStep DEF EditStart
<1>3. CASE EditSubmit
  BY <1>1, <1>3, EditSubmitStep DEF EditSubmit
<1>4. CASE ConfirmAnswer
  BY <1>1, <1>4, ConfirmAnswerStep DEF ConfirmAnswer
<1>5. CASE PreviewExpires
  BY <1>5 DEF PreviewExpires
<1>6. CASE AuthConfirm
  <2>1. job'["auth"].vers = preview.vers /\ job["auth"].pc # "queued"
    BY <1>1, <1>6, AuthConfirmStep DEF AuthConfirm, Begin
  <2> QED BY <1>6, <2>1 DEF AuthConfirm
<1>7. CASE UndoStart
  BY <1>1, <1>7, UndoStartStep DEF UndoStart
<1>8. CASE EditHeld
  BY <1>1, <1>8, EditHeldStep DEF EditHeld
<1>9. CASE ConfirmHeld
  BY <1>1, <1>9, ConfirmHeldStep DEF ConfirmHeld
<1>10. CASE AuthHeld
  <2>1. /\ job'["auth"].vers = job["auth"].vers \/ job'["auth"].vers = NoVersions
        /\ job["auth"].pc # "queued"
    BY <1>1, <1>10, AuthHeldStep DEF AuthHeld
  <2> QED BY <1>10, <2>1 DEF AuthHeld
<1>11. CASE MergeHeld
  BY <1>1, <1>11, MergeHeldStep DEF MergeHeld
<1>12. CASE BindHeld
  <2>1. job'["auth"] = job["auth"]
    BY <1>1, <1>12, BindHeldStep
  <2> QED BY <1>12, <2>1 DEF BindHeld
<1>13. ASSUME NEW i \in Ids, ConfirmStart(i)
       PROVE  Vers /\ UNCHANGED <<preview, shown>>
  BY <1>1, <1>13, ConfirmStartStep DEF ConfirmStart
<1>14. ASSUME NEW i \in Ids, BindStart(i)
       PROVE  Vers /\ UNCHANGED <<preview, shown>>
  BY <1>1, <1>14, BindStartStep DEF BindStart
<1>15. ASSUME NEW r \in 1..MaxRequests, NEW c \in Creds, NEW targets \in SUBSET Ids, AuthPreview(r, c, targets)
       PROVE  Vers /\ Previewed
  BY <1>15 DEF AuthPreview
<1>16. ASSUME NEW keep \in Ids, NEW gone \in Ids, MergeStart(keep, gone)
       PROVE  Vers /\ UNCHANGED <<preview, shown>>
  BY <1>1, <1>16, MergeStartStep DEF MergeStart
<1>17. ASSUME NEW a \in Actors, JoinLine(a) \/ TakeLock(a)
       PROVE  Vers /\ UNCHANGED <<preview, shown>>
  BY <1>1, <1>17, LockStep DEF JoinLine, TakeLock
<1> HIDE DEF Vers, Previewed
<1>18. Vers /\ (UNCHANGED <<preview, shown>> \/ PreviewExpires \/ Previewed)
       => /\ \/ job'["auth"].vers = job["auth"].vers
             \/ job["auth"].pc # "queued" /\ job'["auth"].vers \in {NoVersions, preview.vers}
          /\ \/ UNCHANGED <<preview, shown>>
             \/ PreviewExpires
             \/ \E r \in 1..MaxRequests, c \in Creds, targets \in SUBSET Ids : AuthPreview(r, c, targets)
  BY DEF Vers, Previewed
<1> QED BY <1>1, <1>2, <1>3, <1>4, <1>5, <1>6, <1>7, <1>8, <1>9, <1>10, <1>11, <1>12, <1>13, <1>14, <1>15,
           <1>16, <1>17, <1>18, StepKinds

LEMMA PreviewShown ==
  ASSUME ShownInv, NEW r \in 1..MaxRequests, NEW c \in Creds, NEW targets \in SUBSET Ids,
         AuthPreview(r, c, targets), StoreInv'
  PROVE  ShownInv'
<1>1. /\ job["auth"].pc = "idle" /\ targets \subseteq AccountStations(c)
      /\ preview'.vers = [i \in Ids |-> IF i \in targets THEN Version(mem[i]) ELSE NoVersion]
      /\ shown' = [i \in targets |-> Settings(mem[i])]
      /\ UNCHANGED <<mem, writing, job>>
  BY DEF AuthPreview
<1>2. job["auth"] = IdleJob
  <2>1. JobOK("auth", job["auth"])
    BY DEF ShownInv, StoreInv, TypeInv, Types, Actors
  <2> QED BY <1>1, <2>1 DEF JobOK
<1>3. writing.who # "auth"
  <2>1. writing # NoWrite /\ writing.who = "auth" => job["auth"].pc = "queued"
    BY UnderWay DEF ShownInv, StoreInv, Actors
  <2> QED BY <1>1, <2>1 DEF NoWrite
<1>4. ASSUME NEW i \in Targets(preview.vers)' PROVE ShownAs(i, preview.vers[i])'
  <2>1. i \in Ids /\ i \in targets /\ preview'.vers[i] = Version(mem[i])
    BY <1>1 DEF Targets
  <2>2. Visible(mem[i])
    BY <1>1, <2>1 DEF AccountStations, Listed
  <2>3. mem'[i] = mem[i] /\ mem[i] \in Doc /\ i \in DOMAIN shown' /\ shown'[i] = Settings(mem[i])
    BY <1>1, <2>1 DEF ShownInv, StoreInv, TypeInv, Types
  <2>4. \A v : v = Version(mem[i]) => ShownAs(i, v)'
    BY <2>1, <2>2, <2>3, ShownNow
  <2>5. \A v : v = preview'.vers[i] => ShownAs(i, v)'
    BY <2>1, <2>4
  <2> QED BY <2>5 DEF ShownAs
<1>5. Targets(job["auth"].vers)' = {}
  BY <1>1, <1>2, NoTargets
<1> QED BY <1>1, <1>3, <1>4, <1>5 DEF ShownInv

LEMMA PublishShown ==
  ASSUME ShownInv, Publish, StoreInv'
  PROVE  ShownInv'
<1> DEFINE j == job["auth"]
<1>0. PICK a : a = writing.at
  OBVIOUS
<1>1. /\ TypeInv /\ writing # NoWrite /\ writing.stored /\ writing' = NoWrite
      /\ Reply(writing.who, writing.at, TRUE) /\ Waits(writing) /\ writing.who \in Actors \cup {"read"}
      /\ \A b \in Actors \ {writing.who} : job'[b] = job[b]
      /\ shown' = IF writing.who = "auth" THEN [shown EXCEPT ![a] = Settings(mem'[a])] ELSE shown
      /\ mem' \in [Ids -> Doc]
  <2>1. /\ TypeInv /\ TypeInv' /\ writing # NoWrite /\ writing.stored /\ writing' = NoWrite
        /\ Reply(writing.who, writing.at, TRUE)
        /\ \A b \in Actors \ {writing.who} : job'[b] = job[b]
    BY PublishStep DEF ShownInv, StoreInv
  <2>2. Waits(writing) /\ writing.who \in Actors \cup {"read"}
    BY <2>1, UnderWay
  <2>3. shown' = IF writing.who = "auth" THEN [shown EXCEPT ![a] = Settings(mem'[a])] ELSE shown
    BY <1>0 DEF Publish
  <2>4. mem' \in [Ids -> Doc]
    BY <2>1 DEF TypeInv, Types
  <2> QED BY <2>1, <2>2, <2>3, <2>4
<1>2. PICK ok \in BOOLEAN : ok = TRUE /\ Reply(writing.who, writing.at, ok)
  BY <1>1
<1>3. ASSUME NEW i \in Ids
      PROVE  /\ mem'[i] \in Doc /\ Later(mem[i], mem'[i]) /\ Settings(mem'[i]) = Settings(writing.docs[i])
             /\ ChangeOK(writing.who, writing.at, i, writing.docs[i], writing.fields[i])
  BY PublishedDocs DEF ShownInv
\* The stations that the change is not about.
<1>4. ASSUME NEW i \in Ids, NEW v, ShownAs(i, v), writing.who = "auth" => i # a
      PROVE  ShownAs(i, v)'
  <2>1. mem'[i].av = mem[i].av => mem'[i].ref = mem[i].ref
    <3>1. CASE writing.who # "auth"
      BY <1>3, <3>1, SettingsFields DEF ChangeOK
    <3>2. CASE writing.who = "auth"
      BY <1>0, <1>3, <1>4, <3>2, SettingsFields DEF ChangeOK
    <3> QED BY <3>1, <3>2
  <2>2. i \in DOMAIN shown' /\ shown'[i] = shown[i]
    BY <1>1, <1>4 DEF ShownAs
  <2> QED BY <1>1, <1>3, <1>4, <2>1, <2>2, ShownStays
<1>5. CASE writing.who # "auth"
  <2>1. UNCHANGED preview /\ job'["auth"] = j
    BY <1>1, <1>2, <1>5, ReplyDoes DEF Actors
  <2>2. ASSUME NEW i \in Targets(preview.vers)' PROVE ShownAs(i, preview.vers[i])'
    <3>1. i \in Targets(preview.vers) /\ i \in Ids
      BY <2>1 DEF Targets
    <3>2. \A v : v = preview.vers[i] => ShownAs(i, v)'
      BY <1>4, <1>5, <3>1 DEF ShownInv
    <3> QED BY <2>1, <3>2 DEF ShownAs
  <2>3. ASSUME NEW i \in Targets(job["auth"].vers)' PROVE ShownAs(i, job["auth"].vers[i])'
    <3>1. i \in Targets(job["auth"].vers) /\ i \in Ids
      BY <2>1 DEF Targets
    <3>2. \A v : v = job["auth"].vers[i] => ShownAs(i, v)'
      BY <1>4, <1>5, <3>1 DEF ShownInv
    <3> QED BY <2>1, <3>2 DEF ShownAs
  <2> QED BY <1>1, <2>2, <2>3 DEF ShownInv, NoWrite
<1>6. CASE writing.who = "auth"
  <2>1. /\ a \in Ids /\ a \in Targets(j.vers)
        /\ job'["auth"].vers = [j.vers EXCEPT ![a] = Version(mem'[a])]
        /\ preview' = IF preview.live THEN [preview EXCEPT !.vers[a] = Version(mem'[a])] ELSE preview
    BY <1>0, <1>1, <1>2, <1>6, ReplyDoes
  <2>2. j.vers \in [Ids -> Versions] /\ preview.vers \in [Ids -> Versions]
    BY <1>1 DEF TypeInv, Types, Jobs, Previews, Actors
  <2>3. Version(mem[a]) = j.vers[a] /\ ShownAs(a, j.vers[a])
    BY <1>1, <1>6, <2>1 DEF ShownInv
  <2>4. Visible(mem[a])
    BY <2>3 DEF ShownAs, Version
  <2>5. Visible(mem'[a])
    BY <1>3, <1>6, <2>1, <2>4, SettingsFields DEF Visible, ChangeOK
  <2>6. a \in DOMAIN shown' /\ shown'[a] = Settings(mem'[a])
    BY <1>1, <1>6, <2>3 DEF ShownAs
  <2>7. \A v : v = Version(mem'[a]) => ShownAs(a, v)'
    <3>1. PICK m \in Doc : m = mem'[a] /\ Visible(m) /\ shown'[a] = Settings(m)
      BY <1>3, <2>1, <2>5, <2>6
    <3> QED BY <2>6, <3>1, ShownNow
  <2>8. ASSUME NEW i \in Targets(preview.vers)' PROVE ShownAs(i, preview.vers[i])'
    <3>1. CASE preview.live
      <4>1. preview'.vers = [preview.vers EXCEPT ![a] = Version(mem'[a])]
        BY <1>1, <2>1, <3>1 DEF TypeInv, Types, Previews
      <4>2. i \in Ids /\ (i # a => i \in Targets(preview.vers) /\ preview'.vers[i] = preview.vers[i])
        BY <2>2, <4>1 DEF Targets
      <4>3. i = a => preview'.vers[i] = Version(mem'[a])
        BY <2>1, <2>2, <4>1
      <4>4. \A v : v = preview'.vers[i] => ShownAs(i, v)'
        BY <1>4, <2>7, <4>2, <4>3 DEF ShownInv
      <4> QED BY <4>4 DEF ShownAs
    <3>2. CASE ~preview.live
      <4>1. preview' = NoPreview
        BY <1>1, <2>1, <3>2 DEF TypeInv, Types
      <4> QED BY <4>1, NoTargets
    <3> QED BY <3>1, <3>2
  <2>9. ASSUME NEW i \in Targets(job["auth"].vers)' PROVE ShownAs(i, job["auth"].vers[i])'
    <3>1. i \in Ids /\ (i # a => i \in Targets(j.vers) /\ job'["auth"].vers[i] = j.vers[i])
      BY <2>1, <2>2 DEF Targets
    <3>2. i = a => job'["auth"].vers[i] = Version(mem'[a])
      BY <2>1, <2>2
    <3>3. \A v : v = job'["auth"].vers[i] => ShownAs(i, v)'
      BY <1>4, <2>7, <3>1, <3>2 DEF ShownInv
    <3> QED BY <3>3 DEF ShownAs
  <2> QED BY <1>1, <2>8, <2>9 DEF ShownInv, NoWrite
<1> QED BY <1>5, <1>6

\* Steps that leave what is looked at and what is shown of it alone.
LEMMA ShownKept ==
  ASSUME ShownInv, StoreInv', \A i \in Ids : Settings(mem'[i]) = Settings(mem[i]),
         preview'.vers = preview.vers, UNCHANGED shown,
         job'["auth"].vers \in {job["auth"].vers, NoVersions, preview.vers},
         writing'.who = "auth" /\ writing'.stored =>
           /\ job'["auth"].vers = job["auth"].vers
           /\ \A i \in Targets(job["auth"].vers) : Version(mem[i]) = job["auth"].vers[i]
  PROVE  ShownInv'
<1>1. TypeInv /\ TypeInv'
  BY DEF ShownInv, StoreInv
<1>2. ASSUME NEW i \in Ids, NEW v, ShownAs(i, v) PROVE ShownAs(i, v)'
  BY <1>1, <1>2, SameSettings, ShownStays DEF ShownAs
<1>3. ASSUME NEW i \in Targets(preview.vers)' PROVE ShownAs(i, preview.vers[i])'
  <2>1. i \in Targets(preview.vers) /\ i \in Ids
    BY DEF Targets
  <2>2. \A v : v = preview.vers[i] => ShownAs(i, v)'
    BY <1>2, <2>1 DEF ShownInv
  <2> QED BY <2>2 DEF ShownAs
<1>4. ASSUME NEW i \in Targets(job["auth"].vers)' PROVE ShownAs(i, job["auth"].vers[i])'
  <2>1. i \in Ids /\ job'["auth"].vers[i] # NoVersion
    BY DEF Targets
  <2>2. job'["auth"].vers # NoVersions
    BY <2>1 DEF NoVersions
  <2>3. \A v : v = job'["auth"].vers[i] => ShownAs(i, v)
    BY <2>1, <2>2 DEF ShownInv, Targets
  <2>4. \A v : v = job'["auth"].vers[i] => ShownAs(i, v)'
    BY <1>2, <2>1, <2>3
  <2> QED BY <2>4 DEF ShownAs
<1>5. ASSUME writing'.who = "auth", writing'.stored, NEW i \in Targets(job["auth"].vers)'
      PROVE  Version(mem'[i]) = job'["auth"].vers[i]
  <2>1. i \in Ids /\ i \in Targets(job["auth"].vers)
    BY <1>5 DEF Targets
  <2> QED BY <1>1, <1>5, <2>1, SameSettings
<1> QED BY <1>3, <1>4, <1>5 DEF ShownInv

LEMMA NextShown == ShownInv /\ [Next]_vars => ShownInv'
<1> SUFFICES ASSUME ShownInv, [Next]_vars PROVE ShownInv'
  OBVIOUS
<1>1. StoreInv' /\ StoreInv /\ TypeInv
  BY NextStore DEF ShownInv, StoreInv
<1>2. writing # NoWrite /\ writing.who = "auth" => job["auth"].pc = "queued"
  BY <1>1, UnderWay DEF Actors
<1>3. CASE UNCHANGED vars
  BY <1>1, <1>3, ShownKept DEF vars, ShownInv
<1>4. CASE Next /\ ~Prepare /\ ~Commit /\ ~RollBack /\ ~CommitUnsaid /\ ~Publish /\ ~Crash /\ \A i \in Ids : ~Reads(i)
  <2>1. UNCHANGED <<mem, writing>>
    BY <1>1, <1>4, JobDocs
  <2>2. /\ \/ job'["auth"].vers = job["auth"].vers
           \/ job["auth"].pc # "queued" /\ job'["auth"].vers \in {NoVersions, preview.vers}
        /\ \/ UNCHANGED <<preview, shown>>
           \/ PreviewExpires
           \/ \E r \in 1..MaxRequests, c \in Creds, targets \in SUBSET Ids : AuthPreview(r, c, targets)
    BY <1>1, <1>4, JobShown
  <2>3. CASE UNCHANGED <<preview, shown>>
    <3>1. ~NoWrite.stored
      BY DEF NoWrite
    <3>2. writing'.who = "auth" /\ writing'.stored =>
            /\ job'["auth"].vers = job["auth"].vers
            /\ \A i \in Targets(job["auth"].vers) : Version(mem[i]) = job["auth"].vers[i]
      BY <1>2, <2>1, <2>2, <3>1 DEF ShownInv
    <3> QED BY <1>1, <2>1, <2>2, <2>3, <3>2, ShownKept
  <2>4. CASE PreviewExpires
    <3>1. preview' = NoPreview /\ UNCHANGED job /\ Targets(preview.vers)' = {}
      BY <2>4, NoTargets DEF PreviewExpires
    <3>2. CASE job["auth"].pc = "idle"
      <4>1. job["auth"] = IdleJob
        BY <1>1, <3>2 DEF TypeInv, Types, JobOK, Actors
      <4>2. Targets(job["auth"].vers)' = {}
        BY <3>1, <4>1, NoTargets
      <4> QED BY <1>1, <3>1, <4>2 DEF ShownInv
    <3>3. CASE job["auth"].pc # "idle"
      <4>1. UNCHANGED shown
        BY <2>4, <3>3 DEF PreviewExpires
      <4>2. ASSUME NEW i \in Targets(job["auth"].vers)' PROVE ShownAs(i, job["auth"].vers[i])'
        BY <2>1, <3>1, <4>1 DEF ShownInv, ShownAs
      <4> QED BY <1>1, <2>1, <3>1, <4>2 DEF ShownInv
    <3> QED BY <3>2, <3>3
  <2>5. CASE \E r \in 1..MaxRequests, c \in Creds, targets \in SUBSET Ids : AuthPreview(r, c, targets)
    BY <1>1, <2>5, PreviewShown
  <2> QED BY <2>2, <2>3, <2>4, <2>5
<1>5. CASE Prepare
  <2> DEFINE e == Head(queue)
  <2>1. /\ Waits(e) /\ e.who \in Actors \cup {"read"} /\ UNCHANGED <<mem, shown>>
        /\ \A b \in Actors \ {e.who} : job'[b] = job[b]
        /\ \/ /\ writing' = [who |-> e.who, at |-> e.at, docs |-> [k \in Ids |-> NewDoc(e.who, k)],
                             fields |-> [k \in Ids |-> Fields([m \in Ids |-> NewDoc(e.who, m)], k)],
                             stored |-> FALSE]
              /\ UNCHANGED <<job, preview>>
           \/ writing' = NoWrite /\ Reply(e.who, e.at, FALSE)
    BY <1>1, <1>5, PrepareStep
  <2>2. ~writing'.stored
    <3> DEFINE docs == [k \in Ids |-> NewDoc(e.who, k)]
               fields == [k \in Ids |-> Fields([m \in Ids |-> NewDoc(e.who, m)], k)]
    <3>1. \/ writing' = [who |-> e.who, at |-> e.at, docs |-> docs, fields |-> fields, stored |-> FALSE]
          \/ writing' = NoWrite
      BY <2>1
    <3> HIDE DEF docs, fields, e
    <3> QED BY <3>1 DEF NoWrite
  <2>3. preview'.vers = preview.vers /\ job'["auth"].vers = job["auth"].vers
    <3>1. CASE UNCHANGED <<job, preview>>
      BY <3>1
    <3>2. CASE Reply(e.who, e.at, FALSE)
      <4>1. mem' \in [Ids -> Doc] /\ job["auth"].vers \in [Ids -> Versions]
        BY <1>1, <2>1 DEF TypeInv, Types, Jobs, Actors
      <4>2. PICK ok \in BOOLEAN : ok = FALSE /\ Reply(e.who, e.at, ok)
        BY <3>2
      <4>3. /\ e.who # "auth" => UNCHANGED preview
            /\ e.who = "auth" =>
                 /\ preview' = preview
                 /\ job'["auth"].vers = [job["auth"].vers EXCEPT ![e.at] = job["auth"].vers[e.at]]
        BY <1>1, <2>1, <4>1, <4>2, ReplyDoes
      <4>4. e.who # "auth" => job'["auth"] = job["auth"]
        BY <2>1 DEF Actors
      <4> QED BY <4>1, <4>3, <4>4
    <3> QED BY <2>1, <3>1, <3>2
  <2> QED BY <1>1, <2>1, <2>2, <2>3, ShownKept
<1>6. CASE Commit
  <2>1. /\ writing # NoWrite /\ writing'.who = writing.who /\ UNCHANGED <<mem, job, preview, shown>>
        /\ writing.who = "auth" => AuthGuard
    BY <1>1, <1>6, CommitStep DEF Commit, Store, MayCommit
  <2> QED BY <1>1, <2>1, ShownKept DEF AuthGuard
<1>7. CASE RollBack \/ CommitUnsaid
  <2>1. /\ writing # NoWrite /\ writing' = NoWrite /\ Reply(writing.who, writing.at, FALSE)
        /\ \A b \in Actors \ {writing.who} : job'[b] = job[b]
        /\ UNCHANGED <<mem, shown>>
    BY <1>1, <1>7, RollBackStep, CommitUnsaidStep
  <2>2. ~writing'.stored
    BY <2>1 DEF NoWrite
  <2>3. preview'.vers = preview.vers /\ job'["auth"].vers = job["auth"].vers
    <3>1. /\ mem' \in [Ids -> Doc] /\ job["auth"].vers \in [Ids -> Versions]
          /\ Waits(writing) /\ writing.who \in Actors \cup {"read"}
      BY <1>1, <2>1, UnderWay DEF TypeInv, Types, Jobs, Actors
    <3>2. PICK ok \in BOOLEAN : ok = FALSE /\ Reply(writing.who, writing.at, ok)
      BY <2>1
    <3>3. /\ writing.who # "auth" => UNCHANGED preview
          /\ writing.who = "auth" =>
               /\ preview' = preview
               /\ job'["auth"].vers = [job["auth"].vers EXCEPT ![writing.at] = job["auth"].vers[writing.at]]
      BY <1>1, <3>1, <3>2, ReplyDoes
    <3>4. writing.who # "auth" => job'["auth"] = job["auth"]
      BY <2>1 DEF Actors
    <3> QED BY <3>1, <3>3, <3>4
  <2> QED BY <1>1, <2>1, <2>2, <2>3, ShownKept
<1>8. CASE Publish
  BY <1>1, <1>8, PublishShown
<1>9. ASSUME NEW i \in Ids, Reads(i) PROVE ShownInv'
  <2>1. UNCHANGED <<writing, job, preview, shown>>
    BY <1>1, <1>9, ReadStep
  <2>2. \A k \in Ids : Settings(mem'[k]) = Settings(mem[k])
    BY <1>1, <1>9, ReadDocs
  <2> QED BY <1>1, <2>1, <2>2, ShownKept DEF ShownInv
<1>10. CASE Crash
  <2>1. job'["auth"] = IdleJob /\ preview' = NoPreview /\ writing' = NoWrite
    BY <1>1, <1>10, CrashStep DEF Actors
  <2> QED BY <1>1, <2>1, NoTargets DEF ShownInv, NoWrite
<1> QED BY <1>3, <1>4, <1>5, <1>6, <1>7, <1>8, <1>9, <1>10

\* A write that marks a station as updated by a request finds it as shown.
LEMMA StoredWasShown ==
  ASSUME ShownInv, Store, NEW i \in Ids,
         writing.docs[i].ref # mem[i].ref, writing.docs[i].ref # NoRef
  PROVE  i \in DOMAIN shown /\ shown[i] = Settings(mem[i])
<1>0. writing # NoWrite /\ MayCommit
  BY DEF Store
<1>1. ChangeOK(writing.who, writing.at, i, writing.docs[i], writing.fields[i])
  BY <1>0 DEF ShownInv, StoreInv, DocsOK
<1>2. writing.who = "auth"
  BY <1>1 DEF ChangeOK
<1>3. writing.at = i
  BY <1>1, <1>2, SettingsFields DEF ChangeOK
<1>4. job["auth"].pc = "queued" /\ JobOK("auth", job["auth"]) /\ job["auth"].at = i
  BY <1>0, <1>2, <1>3, UnderWay DEF ShownInv, StoreInv, TypeInv, Types, Waits, Actors
<1>5. i \in Targets(job["auth"].vers)
  BY <1>4 DEF JobOK
<1>6. Version(mem[i]) = job["auth"].vers[i] /\ ShownAs(i, job["auth"].vers[i])
  BY <1>0, <1>2, <1>5 DEF ShownInv, MayCommit, AuthGuard
<1>7. PICK d \in Doc : /\ shown[i] = Settings(d) /\ Version(d) = Version(mem[i]) /\ Visible(d)
                       /\ d.av = mem[i].av => d.cred = mem[i].cred /\ d.ref = mem[i].ref
  BY <1>6 DEF ShownAs
<1>8. d.av = mem[i].av /\ d.arch = mem[i].arch /\ d.ident = mem[i].ident /\ Visible(mem[i])
  BY <1>7 DEF Version
<1>9. mem[i] \in Doc
  BY DEF ShownInv, StoreInv, TypeInv, Types
<1>10. d.here = mem[i].here /\ d.into = mem[i].into
  BY <1>7, <1>8, <1>9 DEF Visible, Doc
<1>11. Settings(d) = Settings(mem[i])
  BY <1>7, <1>8, <1>10 DEF Settings
<1> QED BY <1>6, <1>7, <1>11 DEF ShownAs

(* What the table gets from an update of login information replaces what its   *)
(* preview has shown, or what the update itself has saved: no edit made after  *)
(* the preview is lost, also when the write is stored and reported as failed   *)
(* (updateAccountAuthorizationNow).                                            *)
THEOREM EditsRespected == Spec => AuthRespectsEdits
<1>1. ASSUME ShownInv, [Next]_vars, NEW i \in Ids, db'[i].ref # db[i].ref,
             db'[i].ref \notin {NoRef, mem[i].ref}
      PROVE  i \in DOMAIN shown /\ shown[i] = Settings(mem[i])
  <2>1. StoreInv /\ TypeInv
    BY <1>1 DEF ShownInv, StoreInv
  <2>2. CASE Commit \/ CommitUnsaid
    <3>1. Store /\ db' = writing.docs
      BY <2>2 DEF Commit, CommitUnsaid, Store
    <3> QED BY <1>1, <3>1, StoredWasShown
  <2>3. ASSUME NEW k \in Ids, Reads(k) PROVE FALSE
    BY <1>1, <2>1, <2>3, ReadStep
  <2>4. CASE Prepare \/ RollBack \/ Publish \/ Crash \/ UNCHANGED vars
    <3>1. UNCHANGED db
      BY <2>1, <2>4 DEF Prepare, RollBack, Publish, Crash, vars
    <3> QED BY <1>1, <3>1
  <2> QED BY <1>1, <2>1, <2>2, <2>3, <2>4, JobDocs
<1>2. ShownInv /\ [Next]_vars =>
        [\A i \in Ids : db'[i].ref # db[i].ref /\ db'[i].ref \notin {NoRef, mem[i].ref} =>
           i \in DOMAIN shown /\ shown[i] = Settings(mem[i])]_vars
  BY <1>1
<1> QED BY InitShown, NextShown, <1>2, PTL DEF Spec, AuthRespectsEdits
=============================================================================
