------------------------ MODULE BalanceAlertsProofs ------------------------
(***************************************************************************)
(* Theorems about the balance alerts, for any channels, rules, intervals   *)
(* and numbers of edits, switches and crashes.                             *)
(***************************************************************************)
EXTENDS BalanceAlerts, FiniteSetTheorems, TLAPS

-----------------------------------------------------------------------------
(* Types.                                                                  *)

States == {"unknown", "ok", "warn", "danger", "error"}
Incidents == [Keys -> Incident \cup {NoIncident}]
Alerts(t) == [state : States, count : 0..Threshold, notifiedAt : -1..t, etaAt : -1..t, remindedAt : -1..t,
              inc : Incidents]
Tellings(t) == [key : Keys \cup {"none"}, at : -1..t]
Sendings(t) ==
  [pc : {"idle", "sending"}, prev : Alerts(t), next : Alerts(t), raw : {"ok", "warn", "danger", "error"}, at : -1..t,
   fresh : Keys \cup {"none"}, to : SUBSET Channels, retries : SUBSET Keys, noRenewal : BOOLEAN, round : Nat,
   flips : Nat, told : Tellings(t)]

TypeInv ==
  /\ now \in 0..MaxTime /\ noRenewal \in BOOLEAN /\ archived \in BOOLEAN /\ enabled \in SUBSET Channels
  /\ alert \in Alerts(now)
  /\ sending \in Sendings(now)
  /\ edit \in [on : BOOLEAN, alert : Alerts(now)]
  /\ told \in Tellings(now)
  /\ got \in [Keys -> SUBSET Channels]
  /\ started \in [Keys -> -1..now]
  /\ round \in Nat /\ reminder \in [round : Nat, count : Nat]
  /\ flips \in 0..MaxFlips /\ switches \in 0..MaxSwitches
  /\ sending.pc = "sending" => sending.at # Never
  /\ sending.retries \subseteq Open(sending.next.inc)

LEMMA Parameters ==
  /\ Threshold \in Nat \ {0} /\ Renotify \in Nat /\ MaxDelay \in Nat /\ Window \in Nat /\ Gap \in Nat
  /\ MaxTime \in Nat /\ MaxFlips \in Nat /\ FlipsPerSend \in Nat /\ MaxSwitches \in Nat
  /\ Balances \subseteq {"ok", "warn", "danger", "error"} /\ EtaCases \subseteq BOOLEAN
  BY AlertAssumption DEF AlertAssumption

LEMMA MinOfTwo ==
  ASSUME NEW a \in Int, NEW b \in Int
  PROVE  Min({a, b}) = IF a <= b THEN a ELSE b
<1>1. CASE a <= b
  <2>1. \A x \in {a, b} : (\A y \in {a, b} : x <= y) => x = a
    BY <1>1
  <2>2. \A y \in {a, b} : a <= y
    BY <1>1
  <2> QED BY <2>1, <2>2, <1>1 DEF Min
<1>2. CASE ~(a <= b)
  <2>1. \A x \in {a, b} : (\A y \in {a, b} : x <= y) => x = b
    BY <1>2
  <2>2. \A y \in {a, b} : b <= y
    BY <1>2
  <2> QED BY <2>1, <2>2, <1>2 DEF Min
<1> QED BY <1>1, <1>2

(* A power of two counts the subsets of a set, so it is a natural number. *)
LEMMA PowerOfTwo ==
  ASSUME NEW n \in Nat
  PROVE  2 ^ n \in Nat
<1>1. IsFiniteSet(1..n) /\ Cardinality(1..n) = n
  BY FS_Interval
<1>2. IsFiniteSet(SUBSET (1..n)) /\ Cardinality(SUBSET (1..n)) = 2 ^ Cardinality(1..n)
  BY <1>1, FS_SUBSET
<1> QED BY <1>1, <1>2, FS_CardinalityType

LEMMA DelayType ==
  ASSUME NEW n \in Nat \ {0}
  PROVE  Delay(n) \in Nat
<1>1. 2 ^ (n - 1) \in Nat
  BY PowerOfTwo
<1>2. MaxDelay \in Int /\ 2 ^ (n - 1) \in Int
  BY <1>1, Parameters
<1>3. Min({MaxDelay, 2 ^ (n - 1)}) = IF MaxDelay <= 2 ^ (n - 1) THEN MaxDelay ELSE 2 ^ (n - 1)
  BY <1>2, MinOfTwo
<1> QED BY <1>1, <1>3, Parameters DEF Delay

LEMMA EventIn ==
  /\ EventOf["ok"] = "recover" /\ EventOf["warn"] = "low" /\ EventOf["danger"] = "exhaust"
  /\ EventOf["error"] = "error"
  BY DEF EventOf

LEMMA FreshType ==
  ASSUME NEW raw \in Balances, NEW eta \in EtaCases
  PROVE  Fresh(raw, eta) \in Keys \cup {"none"}
<1>1. raw \in {"ok", "warn", "danger", "error"}
  BY Parameters
<1>2. EventOf[raw] \in Keys
  BY <1>1, EventIn DEF Keys
<1> QED BY <1>2 DEF Fresh, Keys

LEMMA NoIncidentsType == NoIncidents \in Incidents /\ NoIncidents = [k \in Keys |-> NoIncident]
  BY DEF NoIncidents, Incidents

LEMMA KeptType ==
  ASSUME TypeInv, NEW raw \in Balances, NEW eta \in EtaCases, NEW k \in Keys
  PROVE  /\ Kept(k, raw, eta) \in Incident \cup {NoIncident}
         /\ LET i == alert.inc[k] IN
            Kept(k, raw, eta) = NoIncident
            \/ /\ i \in Incident /\ i # NoIncident
               /\ ~(i.leftAt # Never /\ now - i.leftAt >= Gap)
               /\ Kept(k, raw, eta) = [i EXCEPT !.remaining = @ \cap enabled, !.leftAt = LeftAt(k, raw, eta)]
               /\ LeftAt(k, raw, eta) \in {Never, now, i.leftAt}
<1>1. alert.inc[k] \in Incident \cup {NoIncident}
  BY DEF TypeInv, Alerts, Incidents
<1>2. LeftAt(k, raw, eta) \in {Never, now, alert.inc[k].leftAt}
  BY DEF LeftAt
<1>3. CASE alert.inc[k] = NoIncident \/ (alert.inc[k].leftAt # Never /\ now - alert.inc[k].leftAt >= Gap)
  BY <1>3 DEF Kept
<1>4. CASE ~(alert.inc[k] = NoIncident \/ (alert.inc[k].leftAt # Never /\ now - alert.inc[k].leftAt >= Gap))
  <2>1. PICK i \in Incident : i = alert.inc[k]
    BY <1>1, <1>4
  <2>2. PICK l : l = LeftAt(k, raw, eta)
    OBVIOUS
  <2>3. l \in Nat \cup {Never}
    BY <1>2, <2>1, <2>2 DEF TypeInv, Incident
  <2>4. Kept(k, raw, eta) = [i EXCEPT !.remaining = @ \cap enabled, !.leftAt = l]
    BY <1>4, <2>1, <2>2 DEF Kept
  <2>5. [i EXCEPT !.remaining = @ \cap enabled, !.leftAt = l] \in Incident
    BY <2>3 DEF Incident
  <2> QED BY <1>2, <1>4, <2>1, <2>2, <2>4, <2>5
<1> QED BY <1>3, <1>4

LEMMA CountType ==
  ASSUME TypeInv, NEW raw \in Balances
  PROVE  Count(raw) \in 0..Threshold
<1>1. alert.count \in 0..Threshold /\ Threshold \in Nat
  BY Parameters DEF TypeInv, Alerts
<1>2. Min({alert.count + 1, Threshold}) = IF alert.count + 1 <= Threshold THEN alert.count + 1 ELSE Threshold
  BY <1>1, MinOfTwo
<1> QED BY <1>1, <1>2 DEF Count

LEMMA EvaluatedType ==
  ASSUME TypeInv, NEW raw \in Balances, NEW eta \in EtaCases
  PROVE  Evaluated(raw, eta) \in Alerts(now)
<1>1. [k \in Keys |-> Kept(k, raw, eta)] \in Incidents
  BY KeptType DEF Incidents
<1>2. StateAfter(raw) \in States
  BY Parameters DEF StateAfter, States, TypeInv, Alerts
<1>3. Count(raw) \in 0..Threshold
  BY CountType
<1>4. /\ alert.notifiedAt \in -1..now /\ alert.etaAt \in -1..now /\ alert.remindedAt \in -1..now
      /\ now \in -1..now
  BY Parameters DEF TypeInv, Alerts
<1> QED BY <1>1, <1>2, <1>3, <1>4 DEF Evaluated, Alerts

LEMMA RetriesOpen ==
  ASSUME TypeInv, NEW raw \in Balances, NEW eta \in EtaCases
  PROVE  Retries(raw, eta) \in SUBSET Keys /\ Retries(raw, eta) \subseteq Open(Evaluated(raw, eta).inc)
<1>1. \A k \in Keys : Evaluated(raw, eta).inc[k] = Kept(k, raw, eta)
  BY DEF Evaluated
<1>2. NoIncident.remaining = {}
  BY DEF NoIncident
<1> QED BY <1>1, <1>2 DEF Retries, Open

LEMMA ResetType ==
  ASSUME NEW t \in Int, NEW a \in Alerts(t), t >= 0
  PROVE  /\ Reset(a) \in Alerts(t)
         /\ Reset(a).state = a.state /\ Reset(a).count = a.count /\ Reset(a).notifiedAt = a.notifiedAt
         /\ Reset(a).etaAt = a.etaAt /\ Reset(a).remindedAt = Never
         /\ Reset(a).inc["reminder"] = NoIncident
         /\ \A k \in Keys \ {"reminder"} : Reset(a).inc[k] = a.inc[k]
<1>1. PICK inc \in Incidents : inc = a.inc
  BY DEF Alerts
<1>2. Reset(a) = [[a EXCEPT !.remindedAt = Never] EXCEPT !.inc = [inc EXCEPT !["reminder"] = NoIncident]]
  BY <1>1 DEF Reset, Alerts
<1>3. [inc EXCEPT !["reminder"] = NoIncident] \in Incidents
  BY DEF Incidents
<1>4. Never \in -1..t
  BY DEF Never
<1>5. "reminder" \in Keys
  BY DEF Keys
<1>6. PICK new \in Incidents : new = [inc EXCEPT !["reminder"] = NoIncident]
  BY <1>3
<1>7. new["reminder"] = NoIncident /\ \A k \in Keys \ {"reminder"} : new[k] = inc[k]
  BY <1>5, <1>6 DEF Incidents
<1> HIDE <1>5
<1>8. Reset(a) = [state |-> a.state, count |-> a.count, notifiedAt |-> a.notifiedAt, etaAt |-> a.etaAt,
                  remindedAt |-> Never, inc |-> new]
  BY <1>2, <1>6 DEF Alerts
<1> QED BY <1>1, <1>4, <1>7, <1>8 DEF Alerts

LEMMA NoAlertType ==
  ASSUME NEW t \in Int, t >= 0
  PROVE  NoAlert \in Alerts(t) /\ NothingTold \in Tellings(t) /\ Idle \in Sendings(t) /\ NoEdit \in [on : BOOLEAN, alert : Alerts(t)]
         /\ Idle.pc = "idle" /\ Idle.retries = {}
<1>1. NoAlert \in Alerts(t)
  <2>1. Never \in -1..t
    BY DEF Never
  <2>2. 0 \in 0..Threshold
    BY Parameters
  <2> QED BY <2>1, <2>2, NoIncidentsType DEF NoAlert, Alerts, States
<1>2. NothingTold \in Tellings(t) /\ [key |-> "none", at |-> Never] = NothingTold
  BY DEF NothingTold, Tellings, Never
<1>3. Idle \in Sendings(t)
  BY <1>1, <1>2 DEF Idle, Sendings, Never
<1>4. NoEdit \in [on : BOOLEAN, alert : Alerts(t)]
  BY <1>1 DEF NoEdit
<1> QED BY <1>1, <1>2, <1>3, <1>4 DEF Idle

(* What is typed by an earlier moment is typed by a later one. *)
LEMMA TypesLater ==
  ASSUME NEW s \in Int, NEW t \in Int, s <= t
  PROVE  /\ Alerts(s) \subseteq Alerts(t) /\ Tellings(s) \subseteq Tellings(t) /\ Sendings(s) \subseteq Sendings(t)
<1>1. -1..s \subseteq -1..t
  OBVIOUS
<1>2. Alerts(s) \subseteq Alerts(t)
  BY <1>1 DEF Alerts
<1>3. Tellings(s) \subseteq Tellings(t)
  BY <1>1 DEF Tellings
<1>4. Sendings(s) \subseteq Sendings(t)
  BY <1>1, <1>2, <1>3 DEF Sendings
<1> QED BY <1>2, <1>3, <1>4

-----------------------------------------------------------------------------
(* What a delivery writes.                                                 *)

Incs(ok) == [k \in Keys |-> IF k \in Sends THEN Outcome(k, ok[k]) ELSE sending.next.inc[k]]
Alert(ok) == Written([sending.next EXCEPT !.inc = Incs(ok)])

(* Once its message went out, an incident has begun with this refresh, or  *)
(* it is the one it was, and nobody who received the message is left.      *)
LEMMA OutcomeIs ==
  ASSUME TypeInv, sending.pc = "sending", NEW k \in Keys \cap Sends, NEW ok \in SUBSET Channels, ok \subseteq Recipients(k)
  PROVE  LET i == sending.next.inc[k]
             o == Outcome(k, ok) IN
         /\ o \in Incident
         /\ i = NoIncident => /\ k = sending.fresh /\ sending.to # {}
                              /\ o.first = sending.at /\ o.leftAt = Never /\ o.remaining \cap ok = {}
         /\ i # NoIncident => /\ i \in Incident
                              /\ o.first = i.first /\ o.leftAt = i.leftAt
                              /\ o.remaining \subseteq i.remaining /\ o.remaining \cap ok = {}
<1>1. sending.at \in 0..MaxTime /\ now \in 0..MaxTime /\ sending.to \subseteq Channels
  BY Parameters DEF TypeInv, Sendings, Never
<1>2. sending.next.inc[k] \in Incident \cup {NoIncident}
  BY DEF TypeInv, Sendings, Alerts, Incidents
<1>3. CASE sending.next.inc[k] = NoIncident
  <2>1. k \notin sending.retries
    BY <1>3 DEF TypeInv, Open
  <2>2. k = sending.fresh /\ sending.to # {} /\ Recipients(k) = sending.to
    BY <2>1 DEF Sends, Recipients
  <2>3. PICK d \in Nat : d = Delay(1)
    BY DelayType
  <2>4. Outcome(k, ok) = [first |-> sending.at, remaining |-> sending.to \ ok, attempts |-> 1,
                          retryAt |-> now + d, leftAt |-> Never]
    BY <1>3, <2>3 DEF Outcome
  <2>5. now + d \in Nat
    BY <1>1
  <2> QED BY <1>1, <1>3, <2>2, <2>4, <2>5 DEF Incident
<1>4. CASE sending.next.inc[k] # NoIncident
  <2>1. PICK i \in Incident : i = sending.next.inc[k]
    BY <1>2, <1>4
  <2>2. PICK to \in SUBSET Channels : to = Recipients(k)
    BY <1>1, <2>1 DEF Recipients, Incident
  <2>3. PICK r \in Nat : r = now + Delay(i.attempts + 1)
    <3>1. i.attempts + 1 \in Nat \ {0}
      BY DEF Incident
    <3>2. Delay(i.attempts + 1) \in Nat
      BY <3>1, DelayType
    <3> QED BY <1>1, <3>2
  <2>4. Outcome(k, ok) = IF i.remaining \cap to = {} THEN i
                         ELSE [i EXCEPT !.attempts = @ + 1, !.retryAt = r,
                                        !.remaining = IF r - i.first >= Window THEN {} ELSE @ \ ok]
    BY <1>4, <2>1, <2>2, <2>3 DEF Outcome, Tried
  <2>5. CASE i.remaining \cap to = {}
    BY <1>4, <2>1, <2>2, <2>4, <2>5
  <2>6. CASE i.remaining \cap to # {}
    <3>1. PICK left : left = IF r - i.first >= Window THEN {} ELSE i.remaining \ ok
      OBVIOUS
    <3>2. left \subseteq i.remaining /\ left \cap ok = {}
      BY <3>1
    <3>3. Outcome(k, ok) = [first |-> i.first, remaining |-> left, attempts |-> i.attempts + 1, retryAt |-> r,
                            leftAt |-> i.leftAt]
      BY <2>4, <2>6, <3>1 DEF Incident
    <3>4. i.attempts + 1 \in Nat /\ left \in SUBSET Channels /\ i.first \in 0..MaxTime /\ i.leftAt \in Nat \cup {Never}
      BY <3>2 DEF Incident
    <3> QED BY <1>4, <2>1, <3>2, <3>3, <3>4 DEF Incident
  <2> QED BY <2>5, <2>6
<1> QED BY <1>3, <1>4

LEMMA IncsType ==
  ASSUME TypeInv, sending.pc = "sending", NEW ok \in [Sends -> SUBSET Channels], \A k \in Sends : ok[k] \subseteq Recipients(k)
  PROVE  Incs(ok) \in Incidents
<1>1. \A k \in Keys \cap Sends : Outcome(k, ok[k]) \in Incident
  BY OutcomeIs
<1>2. \A k \in Keys : sending.next.inc[k] \in Incident \cup {NoIncident}
  BY DEF TypeInv, Sendings, Alerts, Incidents
<1> QED BY <1>1, <1>2 DEF Incs, Incidents

LEMMA AlertIs ==
  ASSUME TypeInv, sending.pc = "sending", NEW ok \in [Sends -> SUBSET Channels], \A k \in Sends : ok[k] \subseteq Recipients(k)
  PROVE  /\ Alert(ok) \in Alerts(now)
         /\ Alert(ok).state = sending.next.state /\ Alert(ok).notifiedAt = sending.next.notifiedAt
         /\ Alert(ok).remindedAt = IF noRenewal # sending.noRenewal THEN Never ELSE sending.next.remindedAt
         /\ \A k \in Keys \ {"reminder"} : Alert(ok).inc[k] = Incs(ok)[k]
         /\ Alert(ok).inc["reminder"] \in {NoIncident, Incs(ok)["reminder"]}
<1>1. PICK inc \in Incidents : inc = Incs(ok)
  BY IncsType
<1>2. PICK n \in Alerts(now) : n = sending.next
  BY DEF TypeInv, Sendings
<1>3. PICK a : a = [n EXCEPT !.inc = inc]
  OBVIOUS
<1>4. a \in Alerts(now) /\ a.state = n.state /\ a.notifiedAt = n.notifiedAt /\ a.remindedAt = n.remindedAt /\ a.inc = inc
  BY <1>3 DEF Alerts
<1>5. Alert(ok) = IF noRenewal # sending.noRenewal THEN Reset(a) ELSE a
  BY <1>1, <1>2, <1>3 DEF Alert, Written
<1>6. now \in Int /\ now >= 0
  BY Parameters DEF TypeInv
<1>7. /\ Reset(a) \in Alerts(now)
      /\ Reset(a).state = a.state /\ Reset(a).notifiedAt = a.notifiedAt /\ Reset(a).remindedAt = Never
      /\ Reset(a).inc["reminder"] = NoIncident
      /\ \A k \in Keys \ {"reminder"} : Reset(a).inc[k] = a.inc[k]
  BY <1>4, <1>6, ResetType
<1>8. CASE noRenewal # sending.noRenewal
  <2>1. Alert(ok) = Reset(a)
    BY <1>5, <1>8
  <2> QED BY <1>1, <1>2, <1>4, <1>7, <1>8, <2>1
<1>9. CASE noRenewal = sending.noRenewal
  <2>1. Alert(ok) = a
    BY <1>5, <1>9
  <2> QED BY <1>1, <1>2, <1>4, <1>9, <2>1
<1> QED BY <1>8, <1>9

(* A delivery records what it did, or leaves everything as it was.         *)
Records(ok) ==
  /\ ~archived
  /\ alert' = Alert(ok)
  /\ got' = [k \in Keys |-> IF k \notin Sends THEN got[k]
                            ELSE IF sending.next.inc[k] = NoIncident THEN ok[k] ELSE got[k] \cup ok[k]]
  /\ started' = [k \in Keys |-> IF k \in Sends /\ sending.next.inc[k] = NoIncident THEN sending.at ELSE started[k]]
  /\ told' = IF sending.to # {} /\ sending.fresh \in {"low", "exhaust", "error"}
             THEN [key |-> sending.fresh, at |-> sending.at] ELSE sending.told
  /\ reminder' = Recorded(sending.fresh, sending.round, sending.to # {})

LEMMA SentIs ==
  ASSUME NEW ok \in [Sends -> SUBSET Channels], Sent(ok)
  PROVE  /\ sending.pc = "sending" /\ \A k \in Sends : ok[k] \subseteq Recipients(k)
         /\ sending' = [Idle EXCEPT !.at = now]
         /\ UNCHANGED <<now, noRenewal, archived, enabled, edit, round, flips, switches>>
         /\ Records(ok) \/ UNCHANGED <<alert, got, started, told, reminder>>
<1> DEFINE inc == [k \in Keys |-> IF k \in Sends THEN Outcome(k, ok[k]) ELSE sending.next.inc[k]]
           next == Written([sending.next EXCEPT !.inc = inc])
<1>1. next = Alert(ok)
  BY DEF Alert, Incs
<1>2. CASE ~archived /\ (next # sending.prev \/ sending.raw = "error")
  BY <1>1, <1>2 DEF Sent, Records
<1>3. CASE ~(~archived /\ (next # sending.prev \/ sending.raw = "error"))
  BY <1>3 DEF Sent
<1> HIDE DEF inc, next
<1>4. /\ sending.pc = "sending" /\ \A k \in Sends : ok[k] \subseteq Recipients(k)
      /\ sending' = [Idle EXCEPT !.at = now]
      /\ UNCHANGED <<now, noRenewal, archived, enabled, edit, round, flips, switches>>
  BY DEF Sent
<1> QED BY <1>2, <1>3, <1>4

(* A refresh that begins writes at once, or it begins to send.             *)
AtOnce(raw, eta) ==
  /\ alert' = Evaluated(raw, eta)
  /\ sending' = [Idle EXCEPT !.at = now]
  /\ told' = Seen(raw)
  /\ reminder' = Recorded(Fresh(raw, eta), round, FALSE)
Begins(raw, eta) ==
  /\ sending' = [pc |-> "sending", prev |-> alert, next |-> Evaluated(raw, eta), raw |-> raw, at |-> now,
                 fresh |-> Fresh(raw, eta), to |-> IF Fresh(raw, eta) = "none" THEN {} ELSE enabled,
                 retries |-> Retries(raw, eta), noRenewal |-> noRenewal, round |-> round,
                 flips |-> 0, told |-> Seen(raw)]
  /\ UNCHANGED <<alert, told, reminder>>

LEMMA AnswerIs ==
  ASSUME NEW raw, NEW eta, Answer(raw, eta)
  PROVE  /\ sending.pc = "idle" /\ ~archived /\ now > sending.at
         /\ UNCHANGED <<now, noRenewal, archived, enabled, edit, got, started, round, flips, switches>>
         /\ AtOnce(raw, eta) \/ Begins(raw, eta)
<1> DEFINE to == IF Fresh(raw, eta) = "none" THEN {} ELSE enabled
<1>1. CASE to = {} /\ Retries(raw, eta) = {}
  BY <1>1 DEF Answer, AtOnce
<1>2. CASE ~(to = {} /\ Retries(raw, eta) = {})
  BY <1>2 DEF Answer, Begins
<1>3. /\ sending.pc = "idle" /\ ~archived /\ now > sending.at
      /\ UNCHANGED <<now, noRenewal, archived, enabled, edit, got, started, round, flips, switches>>
  BY DEF Answer
<1> QED BY <1>1, <1>2, <1>3

(* The fields of a record that is written are read off here once.          *)
LEMMA EvaluatedIs ==
  ASSUME NEW raw, NEW eta
  PROVE  LET e == Evaluated(raw, eta)
             fresh == Fresh(raw, eta) IN
         /\ e.state = StateAfter(raw)
         /\ e.notifiedAt = IF fresh \in {"low", "exhaust", "error", "recover"} THEN now ELSE alert.notifiedAt
         /\ e.remindedAt = IF fresh = "reminder" THEN now ELSE alert.remindedAt
         /\ \A k \in Keys : e.inc[k] = Kept(k, raw, eta)
  BY DEF Evaluated

LEMMA IdleAt ==
  ASSUME NEW t \in Int, t >= 0, NEW at \in -1..t
  PROVE  /\ [Idle EXCEPT !.at = at] \in Sendings(t)
         /\ [Idle EXCEPT !.at = at].pc = "idle" /\ [Idle EXCEPT !.at = at].at = at
         /\ [Idle EXCEPT !.at = at].retries = {}
<1>1. Idle \in Sendings(t) /\ Idle.pc = "idle" /\ Idle.retries = {}
  BY NoAlertType
<1> QED BY <1>1 DEF Sendings

-----------------------------------------------------------------------------
(* Type correctness.                                                       *)

LEMMA InitTypes == Init => TypeInv
<1> SUFFICES ASSUME Init PROVE TypeInv
  OBVIOUS
<1>1. now = 0 /\ now \in Int /\ now \in 0..MaxTime /\ 0 \in 0..MaxFlips /\ 0 \in 0..MaxSwitches
  BY Parameters DEF Init
<1>2. /\ NoAlert \in Alerts(now) /\ NothingTold \in Tellings(now) /\ Idle \in Sendings(now)
      /\ NoEdit \in [on : BOOLEAN, alert : Alerts(now)]
      /\ Idle.pc = "idle" /\ Idle.retries = {}
  BY <1>1, NoAlertType
<1>3. Never \in -1..now
  BY <1>1 DEF Never
<1> QED BY <1>1, <1>2, <1>3 DEF Init, TypeInv

LEMMA AnswerTypes ==
  ASSUME TypeInv, NEW raw \in Balances, NEW eta \in EtaCases, Answer(raw, eta)
  PROVE  TypeInv'
<1>1. now \in Int /\ now >= 0 /\ now \in -1..now /\ now # Never
  BY Parameters DEF TypeInv, Never
<1>2. /\ sending.pc = "idle" /\ ~archived
      /\ UNCHANGED <<now, noRenewal, archived, enabled, edit, got, started, round, flips, switches>>
      /\ AtOnce(raw, eta) \/ Begins(raw, eta)
  BY AnswerIs
<1>3. PICK e \in Alerts(now) : e = Evaluated(raw, eta)
  BY EvaluatedType
<1>4. PICK fresh \in Keys \cup {"none"} : fresh = Fresh(raw, eta)
  BY FreshType
<1>5. PICK seen \in Tellings(now) : seen = Seen(raw)
  BY <1>1, NoAlertType DEF Seen, TypeInv
<1>6. PICK retries \in SUBSET Keys : retries = Retries(raw, eta) /\ retries \subseteq Open(e.inc)
  BY <1>3, RetriesOpen
<1>7. CASE AtOnce(raw, eta)
  <2>1. Recorded(fresh, round, FALSE) \in [round : Nat, count : Nat]
    BY DEF Recorded, TypeInv
  <2>2. /\ sending' \in Sendings(now) /\ sending'.pc = "idle" /\ sending'.retries = {}
    BY <1>1, <1>7, IdleAt DEF AtOnce
  <2>3. alert' \in Alerts(now) /\ told' \in Tellings(now) /\ reminder' \in [round : Nat, count : Nat]
    BY <1>3, <1>4, <1>5, <1>7, <2>1 DEF AtOnce
  <2> QED BY <1>2, <2>2, <2>3 DEF TypeInv
<1>8. CASE Begins(raw, eta)
  <2>1. PICK to \in SUBSET Channels : to = IF Fresh(raw, eta) = "none" THEN {} ELSE enabled
    BY DEF TypeInv
  <2>2. sending' = [pc |-> "sending", prev |-> alert, next |-> e, raw |-> raw, at |-> now,
                    fresh |-> fresh, to |-> to, retries |-> retries, noRenewal |-> noRenewal, round |-> round,
                    flips |-> 0, told |-> seen]
    BY <1>3, <1>4, <1>5, <1>6, <1>8, <2>1 DEF Begins
  <2>3. raw \in {"ok", "warn", "danger", "error"} /\ alert \in Alerts(now) /\ round \in Nat /\ noRenewal \in BOOLEAN
    BY Parameters DEF TypeInv
  <2>4. /\ sending' \in Sendings(now) /\ sending'.pc = "sending" /\ sending'.at = now
        /\ sending'.retries = retries /\ sending'.next = e
    BY <1>1, <2>2, <2>3 DEF Sendings
  <2>5. UNCHANGED <<alert, told, reminder>>
    BY <1>8 DEF Begins
  <2> QED BY <1>1, <1>2, <1>6, <2>4, <2>5 DEF TypeInv
<1> QED BY <1>2, <1>7, <1>8

LEMMA SentTypes ==
  ASSUME TypeInv, NEW ok \in [Sends -> SUBSET Channels], Sent(ok)
  PROVE  TypeInv'
<1>1. now \in Int /\ now >= 0 /\ now \in -1..now
  BY Parameters DEF TypeInv
<1>2. /\ sending.pc = "sending" /\ \A k \in Sends : ok[k] \subseteq Recipients(k)
      /\ sending' = [Idle EXCEPT !.at = now]
      /\ UNCHANGED <<now, noRenewal, archived, enabled, edit, round, flips, switches>>
      /\ Records(ok) \/ UNCHANGED <<alert, got, started, told, reminder>>
  BY SentIs
<1>3. sending' \in Sendings(now) /\ sending'.pc = "idle" /\ sending'.retries = {}
  BY <1>1, <1>2, IdleAt
<1>4. CASE Records(ok)
  <2>1. alert' \in Alerts(now)
    BY <1>2, <1>4, AlertIs DEF Records
  <2>2. got' \in [Keys -> SUBSET Channels]
    BY <1>4 DEF Records, TypeInv
  <2>3. started' \in [Keys -> -1..now]
    BY <1>4 DEF Records, TypeInv, Sendings
  <2>4. told' \in Tellings(now)
    <3>1. sending.at \in -1..now /\ sending.told \in Tellings(now)
      BY DEF TypeInv, Sendings
    <3>2. \A k \in {"low", "exhaust", "error"} : [key |-> k, at |-> sending.at] \in Tellings(now)
      BY <3>1 DEF Tellings, Keys
    <3> QED BY <1>4, <3>1, <3>2 DEF Records
  <2>5. reminder' \in [round : Nat, count : Nat]
    <3>1. sending.round \in Nat /\ reminder \in [round : Nat, count : Nat]
      BY DEF TypeInv, Sendings
    <3> QED BY <1>4, <3>1 DEF Records, Recorded
  <2> QED BY <1>2, <1>3, <2>1, <2>2, <2>3, <2>4, <2>5 DEF TypeInv
<1>5. CASE UNCHANGED <<alert, got, started, told, reminder>>
  BY <1>2, <1>3, <1>5 DEF TypeInv
<1> QED BY <1>2, <1>4, <1>5

LEMMA EditTypes ==
  ASSUME TypeInv, EditPrepare \/ EditPublish
  PROVE  TypeInv'
<1>1. now \in Int /\ now >= 0
  BY Parameters DEF TypeInv
<1>2. PICK r \in Alerts(now) : r = Reset(alert)
  BY <1>1, ResetType DEF TypeInv
<1>3. CASE EditPrepare
  <2>1. edit' \in [on : BOOLEAN, alert : Alerts(now)]
    BY <1>2, <1>3 DEF EditPrepare
  <2>2. flips' \in 0..MaxFlips
    BY <1>3, Parameters DEF EditPrepare, TypeInv
  <2> QED BY <1>3, <2>1, <2>2 DEF EditPrepare, TypeInv
<1>4. CASE EditPublish
  <2>1. edit' \in [on : BOOLEAN, alert : Alerts(now)]
    BY <1>1, <1>4, NoAlertType DEF EditPublish
  <2>2. /\ sending' \in Sendings(now) /\ sending'.pc = sending.pc /\ sending'.at = sending.at
        /\ sending'.retries = sending.retries /\ sending'.next = sending.next
    BY <1>4 DEF EditPublish, TypeInv, Sendings
  <2>3. noRenewal' \in BOOLEAN /\ round' \in Nat
    BY <1>4 DEF EditPublish, TypeInv
  <2>4. alert' \in Alerts(now)
    BY <1>2, <1>4 DEF EditPublish
  <2>5. UNCHANGED <<now, archived, enabled, told, got, started, reminder, flips, switches>>
    BY <1>4 DEF EditPublish
  <2> QED BY <2>1, <2>2, <2>3, <2>4, <2>5 DEF TypeInv
<1> QED BY <1>3, <1>4

LEMMA SwitchTypes ==
  ASSUME TypeInv, Switch
  PROVE  TypeInv'
<1>1. now \in Int /\ now >= 0 /\ sending.at \in -1..now
  BY Parameters DEF TypeInv, Sendings
<1>2. switches' \in 0..MaxSwitches
  BY Parameters DEF Switch, TypeInv
<1>3. UNCHANGED <<now, noRenewal, alert, told, got, started, round, reminder, flips>>
  BY DEF Switch
<1>4. CASE /\ \E c \in Channels : enabled' = IF c \in enabled THEN enabled \ {c} ELSE enabled \cup {c}
           /\ UNCHANGED <<archived, sending, edit>>
  <2>1. enabled' \in SUBSET Channels
    BY <1>4 DEF TypeInv
  <2> QED BY <1>2, <1>3, <1>4, <2>1 DEF TypeInv
<1>5. CASE archived' = ~archived /\ UNCHANGED <<enabled, sending, edit>>
  <2>1. archived' \in BOOLEAN
    BY <1>5
  <2> QED BY <1>2, <1>3, <1>5, <2>1 DEF TypeInv
<1>6. CASE sending' = [Idle EXCEPT !.at = sending.at] /\ edit' = NoEdit /\ UNCHANGED <<enabled, archived>>
  <2>1. sending' \in Sendings(now) /\ sending'.pc = "idle" /\ sending'.retries = {}
    BY <1>1, <1>6, IdleAt
  <2>2. edit' \in [on : BOOLEAN, alert : Alerts(now)]
    BY <1>1, <1>6, NoAlertType
  <2> QED BY <1>2, <1>3, <1>6, <2>1, <2>2 DEF TypeInv
<1> QED BY <1>4, <1>5, <1>6 DEF Switch

LEMMA TimeTypes ==
  ASSUME TypeInv, TimePasses
  PROVE  TypeInv'
<1>1. now \in Int /\ now' \in Int /\ now <= now' /\ now' \in 0..MaxTime
  BY Parameters DEF TimePasses, TypeInv
<1>2. /\ Alerts(now) \subseteq Alerts(now') /\ Tellings(now) \subseteq Tellings(now')
      /\ Sendings(now) \subseteq Sendings(now') /\ -1..now \subseteq -1..now'
  BY <1>1, TypesLater
<1>3. UNCHANGED <<noRenewal, archived, enabled, alert, sending, edit, told, got, started, round, reminder, flips, switches>>
  BY DEF TimePasses
<1>4. PICK t \in Int : t = now'
  BY <1>1
<1>5. /\ alert \in Alerts(t) /\ sending \in Sendings(t) /\ told \in Tellings(t) /\ started \in [Keys -> -1..t]
      /\ edit \in [on : BOOLEAN, alert : Alerts(t)]
  BY <1>2, <1>4 DEF TypeInv
<1>6. \A u : u = t => (u = now' => /\ alert' \in Alerts(u) /\ sending' \in Sendings(u) /\ told' \in Tellings(u)
                                   /\ started' \in [Keys -> -1..u] /\ edit' \in [on : BOOLEAN, alert : Alerts(u)])
  BY <1>3, <1>5
<1> QED BY <1>1, <1>3, <1>4, <1>6 DEF TypeInv

LEMMA NextTypes == TypeInv /\ [Next]_vars => TypeInv'
<1> SUFFICES ASSUME TypeInv, [Next]_vars PROVE TypeInv'
  OBVIOUS
<1>1. CASE UNCHANGED vars
  BY <1>1 DEF vars, TypeInv
<1>2. ASSUME NEW raw \in Balances, NEW eta \in EtaCases, Answer(raw, eta) PROVE TypeInv'
  BY <1>2, AnswerTypes
<1>3. ASSUME NEW ok \in [Sends -> SUBSET Channels], Sent(ok) PROVE TypeInv'
  BY <1>3, SentTypes
<1> QED BY <1>1, <1>2, <1>3, EditTypes, SwitchTypes, TimeTypes DEF Next

LEMMA TypesAreOK == TypeInv => TypeOK
<1> SUFFICES ASSUME TypeInv PROVE TypeOK
  OBVIOUS
<1>1. \A a \in {alert, sending.prev, sending.next, edit.alert} : a \in Alerts(now)
  BY DEF TypeInv, Sendings
<1>2. ASSUME NEW a \in Alerts(now)
      PROVE  /\ a.state \in States /\ a.count \in 0..Threshold
             /\ {a.notifiedAt, a.etaAt, a.remindedAt} \subseteq -1..now
             /\ \A k \in Keys : a.inc[k] = NoIncident \/ a.inc[k] \in Incident
  BY DEF Alerts, Incidents
<1>3. \A a \in {alert, sending.prev, sending.next, edit.alert} :
        /\ a.state \in {"unknown", "ok", "warn", "danger", "error"} /\ a.count \in 0..Threshold
        /\ {a.notifiedAt, a.etaAt, a.remindedAt} \subseteq -1..now
        /\ \A k \in Keys : a.inc[k] = NoIncident \/ a.inc[k] \in Incident
  BY <1>1, <1>2 DEF States
<1>4. /\ now \in 0..MaxTime /\ noRenewal \in BOOLEAN /\ archived \in BOOLEAN /\ enabled \subseteq Channels
      /\ sending.pc \in {"idle", "sending"}
      /\ sending.retries \subseteq Open(sending.next.inc)
      /\ sending.fresh \in Keys \cup {"none"} /\ sending.to \subseteq Channels
      /\ flips \in 0..MaxFlips /\ switches \in 0..MaxSwitches
  BY DEF TypeInv, Sendings
<1> QED BY <1>3, <1>4 DEF TypeOK

(* The types of the alert state, of what is being sent and of the          *)
(* histories, for any thresholds and intervals.                            *)
THEOREM TypeCorrect == Spec => []TypeOK
<1> QED BY InitTypes, NextTypes, TypesAreOK, PTL DEF Spec

-----------------------------------------------------------------------------
(* The steps of people and of the process, read off once.                  *)

LEMMA PublishIs ==
  ASSUME TypeInv, EditPublish
  PROVE  /\ edit.on
         /\ noRenewal' = ~noRenewal /\ round' = IF noRenewal' THEN round + 1 ELSE round
         /\ alert'.state = alert.state /\ alert'.notifiedAt = alert.notifiedAt /\ alert'.remindedAt = Never
         /\ alert'.inc["reminder"] = NoIncident
         /\ \A k \in Keys \ {"reminder"} : alert'.inc[k] = alert.inc[k]
         /\ sending'.pc = sending.pc /\ sending'.next = sending.next /\ sending'.at = sending.at
         /\ sending'.fresh = sending.fresh /\ sending'.to = sending.to /\ sending'.told = sending.told
         /\ sending'.noRenewal = sending.noRenewal /\ sending'.round = sending.round
         /\ sending.pc = "sending" => sending.flips < FlipsPerSend /\ sending'.flips = sending.flips + 1
         /\ UNCHANGED <<now, archived, told, got, started, reminder>>
<1>1. now \in Int /\ now >= 0 /\ alert \in Alerts(now) /\ sending \in Sendings(now)
  BY Parameters DEF TypeInv
<1>2. alert' = Reset(alert)
  BY DEF EditPublish
<1>3. /\ sending'.pc = sending.pc /\ sending'.next = sending.next /\ sending'.at = sending.at
      /\ sending'.fresh = sending.fresh /\ sending'.to = sending.to /\ sending'.told = sending.told
      /\ sending'.noRenewal = sending.noRenewal /\ sending'.round = sending.round
      /\ sending.pc = "sending" => sending'.flips = sending.flips + 1
  BY <1>1 DEF EditPublish, Sendings
<1>4. /\ edit.on /\ noRenewal' = ~noRenewal
      /\ sending.pc = "sending" => sending.flips < FlipsPerSend
      /\ UNCHANGED <<now, archived, told, got, started, reminder>>
  BY DEF EditPublish
<1>5. round' = IF noRenewal' THEN round + 1 ELSE round
  BY DEF EditPublish
<1>6. /\ Reset(alert).state = alert.state /\ Reset(alert).notifiedAt = alert.notifiedAt
      /\ Reset(alert).remindedAt = Never
      /\ Reset(alert).inc["reminder"] = NoIncident
      /\ \A k \in Keys \ {"reminder"} : Reset(alert).inc[k] = alert.inc[k]
  BY <1>1, ResetType
<1> QED BY <1>2, <1>3, <1>4, <1>5, <1>6

LEMMA SwitchIs ==
  ASSUME TypeInv, Switch
  PROVE  /\ UNCHANGED <<now, noRenewal, alert, told, got, started, round, reminder>>
         /\ sending' = sending \/ (sending'.pc = "idle" /\ sending'.at = sending.at)
<1>1. now \in Int /\ now >= 0 /\ sending.at \in -1..now
  BY Parameters DEF TypeInv, Sendings
<1>2. [Idle EXCEPT !.at = sending.at].pc = "idle" /\ [Idle EXCEPT !.at = sending.at].at = sending.at
  BY <1>1, IdleAt
<1> QED BY <1>2 DEF Switch

(* What a refresh writes, and where it leaves itself. *)
LEMMA AnswerFields ==
  ASSUME TypeInv, NEW raw \in Balances, NEW eta \in EtaCases, Answer(raw, eta)
  PROVE  /\ AtOnce(raw, eta) => sending'.pc = "idle" /\ sending'.at = now
         /\ Begins(raw, eta) =>
              /\ sending'.next = Evaluated(raw, eta) /\ sending'.at = now /\ sending'.fresh = Fresh(raw, eta)
              /\ sending'.told = Seen(raw) /\ sending'.noRenewal = noRenewal /\ sending'.round = round
              /\ sending'.flips = 0
<1>1. now \in Int /\ now >= 0 /\ now \in -1..now
  BY Parameters DEF TypeInv
<1>2. [Idle EXCEPT !.at = now].pc = "idle" /\ [Idle EXCEPT !.at = now].at = now
  BY <1>1, IdleAt
<1>3. AtOnce(raw, eta) => sending'.pc = "idle" /\ sending'.at = now
  BY <1>2 DEF AtOnce
<1>4. Begins(raw, eta) =>
        /\ sending'.next = Evaluated(raw, eta) /\ sending'.at = now /\ sending'.fresh = Fresh(raw, eta)
        /\ sending'.told = Seen(raw) /\ sending'.noRenewal = noRenewal /\ sending'.round = round
        /\ sending'.flips = 0
  BY DEF Begins
<1> QED BY <1>3, <1>4

LEMMA SentFields ==
  ASSUME TypeInv, NEW ok \in [Sends -> SUBSET Channels], Sent(ok)
  PROVE  sending'.pc = "idle" /\ sending'.at = now
<1>1. now \in Int /\ now >= 0 /\ now \in -1..now
  BY Parameters DEF TypeInv
<1> QED BY <1>1, IdleAt, SentIs

-----------------------------------------------------------------------------
(* Nobody gets the first message of an incident twice.                     *)

(* Who received a message of an incident is not among those who still get  *)
(* it, in what is stored and in what a refresh is about to store.          *)
Twice ==
  \A k \in Keys :
    /\ alert.inc[k].remaining \cap got[k] = {}
    /\ sending.pc = "sending" => sending.next.inc[k].remaining \cap got[k] = {}

LEMMA InitTwice == Init => Twice
<1>1. \A k \in Keys : NoAlert.inc[k].remaining = {}
  BY DEF NoAlert, NoIncidents, NoIncident
<1>2. Idle.pc = "idle"
  BY DEF Idle
<1> QED BY <1>1, <1>2 DEF Init, Twice

LEMMA NextTwice == TypeInv /\ Twice /\ [Next]_vars => Twice'
<1> SUFFICES ASSUME TypeInv, Twice, [Next]_vars PROVE Twice'
  OBVIOUS
<1>0. NoIncident.remaining = {}
  BY DEF NoIncident
<1>1. ASSUME NEW raw \in Balances, NEW eta \in EtaCases, Answer(raw, eta) PROVE Twice'
  <2>1. UNCHANGED got /\ (AtOnce(raw, eta) \/ Begins(raw, eta))
    BY <1>1, AnswerIs
  <2>2. ASSUME NEW k \in Keys PROVE Evaluated(raw, eta).inc[k].remaining \cap got[k] = {}
    <3>1. Evaluated(raw, eta).inc[k] = Kept(k, raw, eta)
      BY EvaluatedIs
    <3>2. CASE Kept(k, raw, eta) = NoIncident
      BY <1>0, <3>1, <3>2
    <3>3. CASE Kept(k, raw, eta) # NoIncident
      <4>1. PICK i \in Incident : i = alert.inc[k]
        BY <3>3, KeptType
      <4>2. PICK l : l = LeftAt(k, raw, eta)
        OBVIOUS
      <4>3. Kept(k, raw, eta) = [i EXCEPT !.remaining = @ \cap enabled, !.leftAt = l]
        BY <3>3, <4>1, <4>2, KeptType
      <4>4. Kept(k, raw, eta).remaining = i.remaining \cap enabled
        BY <4>3 DEF Incident
      <4> QED BY <3>1, <4>1, <4>4 DEF Twice
    <3> QED BY <3>2, <3>3
  <2>3. CASE AtOnce(raw, eta)
    <3>1. alert' = Evaluated(raw, eta) /\ sending'.pc = "idle"
      BY <1>1, <2>3, AnswerFields DEF AtOnce
    <3> QED BY <2>1, <2>2, <3>1 DEF Twice
  <2>4. CASE Begins(raw, eta)
    <3>1. alert' = alert /\ sending'.next = Evaluated(raw, eta)
      BY <1>1, <2>4, AnswerFields DEF Begins
    <3> QED BY <2>1, <2>2, <3>1 DEF Twice
  <2> QED BY <2>1, <2>3, <2>4
<1>2. ASSUME NEW ok \in [Sends -> SUBSET Channels], Sent(ok) PROVE Twice'
  <2>1. /\ sending.pc = "sending" /\ \A k \in Sends : ok[k] \subseteq Recipients(k)
        /\ Records(ok) \/ UNCHANGED <<alert, got, started, told, reminder>>
    BY <1>2, SentIs
  <2>2. sending'.pc = "idle"
    BY <1>2, SentFields
  <2>3. CASE Records(ok)
    <3>1. ASSUME NEW k \in Keys PROVE Incs(ok)[k].remaining \cap got'[k] = {}
      <4>1. CASE k \in Sends
        <5>1. PICK o \in SUBSET Channels : o = ok[k] /\ o \subseteq Recipients(k)
          BY <2>1, <4>1
        <5>2. Incs(ok)[k] = Outcome(k, o)
          BY <4>1, <5>1 DEF Incs
        <5>3. got'[k] = IF sending.next.inc[k] = NoIncident THEN o ELSE got[k] \cup o
          BY <2>3, <4>1, <5>1 DEF Records
        <5>4. Outcome(k, o).remaining \cap o = {}
          BY <2>1, <4>1, <5>1, OutcomeIs
        <5>5. sending.next.inc[k] # NoIncident => Outcome(k, o).remaining \subseteq sending.next.inc[k].remaining
          BY <2>1, <4>1, <5>1, OutcomeIs
        <5> QED BY <2>1, <5>2, <5>3, <5>4, <5>5 DEF Twice
      <4>2. CASE k \notin Sends
        <5>1. Incs(ok)[k] = sending.next.inc[k] /\ got'[k] = got[k]
          BY <2>3, <4>2 DEF Incs, Records
        <5> QED BY <2>1, <5>1 DEF Twice
      <4> QED BY <4>1, <4>2
    <3>2. \A k \in Keys : alert'.inc[k] \in {NoIncident, Incs(ok)[k]}
      BY <2>1, <2>3, AlertIs DEF Records
    <3> QED BY <1>0, <2>2, <3>1, <3>2 DEF Twice
  <2>4. CASE UNCHANGED <<alert, got, started, told, reminder>>
    BY <2>2, <2>4 DEF Twice
  <2> QED BY <2>1, <2>3, <2>4
<1>3. CASE EditPrepare
  BY <1>3 DEF EditPrepare, Twice
<1>4. CASE EditPublish
  <2>1. /\ alert'.inc["reminder"] = NoIncident /\ \A k \in Keys \ {"reminder"} : alert'.inc[k] = alert.inc[k]
        /\ sending'.pc = sending.pc /\ sending'.next = sending.next /\ got' = got
    BY <1>4, PublishIs
  <2> QED BY <1>0, <2>1 DEF Twice
<1>5. CASE Switch
  BY <1>5, SwitchIs DEF Twice
<1>6. CASE TimePasses
  BY <1>6 DEF TimePasses, Twice
<1>7. CASE UNCHANGED vars
  BY <1>7 DEF vars, Twice
<1> QED BY <1>1, <1>2, <1>3, <1>4, <1>5, <1>6, <1>7 DEF Next

(* Whoever received a message of an incident is not among those who still  *)
(* get its first one, for any channels, retries and repeated alerts.       *)
THEOREM NobodyTwice == Spec => []NoneTwice
<1>1. Twice => NoneTwice
  BY DEF Twice, NoneTwice
<1> QED BY InitTypes, NextTypes, InitTwice, NextTwice, <1>1, PTL DEF Spec

-----------------------------------------------------------------------------
(* What was told is told again only after the interval.                    *)

(* A state that was told is the stored state, and was recorded when it was *)
(* told or later; a refresh knows what was told, or that another state was *)
(* confirmed since.                                                        *)
ToldOf(al, t) ==
  t.key # "none" => /\ t.at # Never
                    /\ al.state \in {"warn", "danger", "error"} /\ EventOf[al.state] = t.key
                    /\ al.notifiedAt >= t.at
Telling ==
  /\ told.key = "none" => told = NothingTold
  /\ ToldOf(alert, told)
  /\ sending.pc = "sending" =>
       /\ sending.told \in {told, NothingTold}
       /\ ToldOf(sending.next, sending.told)
       /\ sending.to # {} /\ sending.fresh \in {"low", "exhaust", "error"} =>
            /\ sending.next.notifiedAt = sending.at
            /\ sending.next.state \in {"warn", "danger", "error"} /\ EventOf[sending.next.state] = sending.fresh
            /\ told.key = sending.fresh => sending.at - told.at > Renotify

LEMMA InitTelling == Init => Telling
<1>1. NothingTold.key = "none" /\ Idle.pc = "idle"
  BY DEF NothingTold, Idle
<1> QED BY <1>1 DEF Init, Telling, ToldOf

(* What a refresh that begins makes of what was told.                      *)
LEMMA AnswerTells ==
  ASSUME TypeInv, Telling, NEW raw \in Balances, NEW eta \in EtaCases
  PROVE  /\ Seen(raw) \in {told, NothingTold}
         /\ ToldOf(Evaluated(raw, eta), Seen(raw))
         /\ Fresh(raw, eta) \in {"low", "exhaust", "error"} =>
              /\ Evaluated(raw, eta).notifiedAt = now
              /\ Evaluated(raw, eta).state \in {"warn", "danger", "error"}
              /\ EventOf[Evaluated(raw, eta).state] = Fresh(raw, eta)
              /\ told.key = Fresh(raw, eta) => now - told.at > Renotify
<1>1. PICK e \in Alerts(now) : e = Evaluated(raw, eta)
  BY EvaluatedType
<1>2. PICK fresh \in Keys \cup {"none"} : fresh = Fresh(raw, eta)
  BY FreshType
<1>3. /\ e.state = StateAfter(raw)
      /\ e.notifiedAt = IF fresh \in {"low", "exhaust", "error", "recover"} THEN now ELSE alert.notifiedAt
  BY <1>1, <1>2, EvaluatedIs
<1>4. /\ raw \in {"ok", "warn", "danger", "error"} /\ alert.state \in States /\ alert.notifiedAt \in -1..now
      /\ now \in Nat /\ told.at \in -1..now /\ Renotify \in Nat
  BY Parameters DEF TypeInv, Alerts, Tellings
<1>5. Seen(raw) \in {told, NothingTold}
  BY DEF Seen
<1>6. ToldOf(e, Seen(raw))
  <2>1. CASE Seen(raw) = NothingTold
    BY <2>1 DEF ToldOf, NothingTold
  <2>2. CASE Seen(raw) = told /\ told.key = "none"
    BY <2>2 DEF ToldOf
  <2>3. CASE Seen(raw) = told /\ told # NothingTold /\ told.key # "none"
    <3>1. ~Confirmed(raw) \/ EventOf[raw] = told.key
      BY <2>3 DEF Seen
    <3>2. /\ told.at # Never /\ alert.notifiedAt >= told.at
          /\ alert.state \in {"warn", "danger", "error"} /\ EventOf[alert.state] = told.key
      BY <2>3 DEF Telling, ToldOf
    <3>3. e.notifiedAt >= told.at
      BY <1>3, <1>4, <3>2
    <3>4. e.state \in {"warn", "danger", "error"} /\ EventOf[e.state] = told.key
      <4>1. CASE ~Confirmed(raw)
        BY <1>3, <3>2, <4>1 DEF StateAfter
      <4>2. CASE Confirmed(raw)
        <5>1. e.state = raw /\ EventOf[raw] = EventOf[alert.state]
          BY <1>3, <3>1, <3>2, <4>2 DEF StateAfter
        <5>2. raw # "ok"
          BY <3>2, <5>1, EventIn
        <5> QED BY <1>4, <3>2, <5>1, <5>2
      <4> QED BY <4>1, <4>2
    <3> QED BY <2>3, <3>2, <3>3, <3>4 DEF ToldOf
  <2> QED BY <1>5, <2>1, <2>2, <2>3
<1>7. ASSUME fresh \in {"low", "exhaust", "error"}
      PROVE  /\ e.notifiedAt = now /\ e.state \in {"warn", "danger", "error"} /\ EventOf[e.state] = fresh
             /\ told.key = fresh => now - told.at > Renotify
  <2>1. StateDue(raw) /\ fresh = EventOf[raw]
    BY <1>2, <1>7 DEF Fresh
  <2>2. Confirmed(raw) /\ raw \in {"warn", "danger", "error"} /\ (raw = alert.state => RenotifyDue(alert.notifiedAt))
    BY <2>1 DEF StateDue, Bad
  <2>3. e.state = raw /\ e.notifiedAt = now
    BY <1>3, <1>7, <2>2 DEF StateAfter
  <2>4. ASSUME told.key = fresh PROVE now - told.at > Renotify
    <3>1. /\ told.at # Never /\ alert.notifiedAt >= told.at
          /\ alert.state \in {"warn", "danger", "error"} /\ EventOf[alert.state] = told.key
      BY <1>7, <2>4 DEF Telling, ToldOf
    <3>2. alert.state = raw
      BY <2>1, <2>2, <2>4, <3>1, EventIn
    <3>3. Renotify > 0 /\ (alert.notifiedAt = Never \/ now - alert.notifiedAt > Renotify)
      BY <2>2, <3>2 DEF RenotifyDue
    <3> QED BY <1>4, <3>1, <3>3 DEF Never
  <2> QED BY <2>1, <2>2, <2>3, <2>4
<1> QED BY <1>1, <1>2, <1>5, <1>6, <1>7

LEMMA NextTelling == TypeInv /\ Telling /\ [Next]_vars => Telling'
<1> SUFFICES ASSUME TypeInv, Telling, [Next]_vars PROVE Telling'
  OBVIOUS
<1>0. NothingTold.key = "none"
  BY DEF NothingTold
<1>1. ASSUME NEW raw \in Balances, NEW eta \in EtaCases, Answer(raw, eta) PROVE Telling'
  <2>1. PICK e \in Alerts(now) : e = Evaluated(raw, eta)
    BY EvaluatedType
  <2>2. PICK fresh \in Keys \cup {"none"} : fresh = Fresh(raw, eta)
    BY FreshType
  <2>3. PICK seen : seen = Seen(raw)
    OBVIOUS
  <2>4. /\ seen \in {told, NothingTold} /\ ToldOf(e, seen)
        /\ fresh \in {"low", "exhaust", "error"} =>
             /\ e.notifiedAt = now /\ e.state \in {"warn", "danger", "error"} /\ EventOf[e.state] = fresh
             /\ told.key = fresh => now - told.at > Renotify
    BY <2>1, <2>2, <2>3, AnswerTells
  <2>5. AtOnce(raw, eta) \/ Begins(raw, eta)
    BY <1>1, AnswerIs
  <2>6. CASE AtOnce(raw, eta)
    <3>1. alert' = e /\ told' = seen /\ sending'.pc = "idle"
      BY <1>1, <2>1, <2>3, <2>6, AnswerFields DEF AtOnce
    <3>2. told'.key = "none" => told' = NothingTold
      BY <2>4, <3>1 DEF Telling
    <3> QED BY <2>4, <3>1, <3>2 DEF Telling, ToldOf
  <2>7. CASE Begins(raw, eta)
    <3>1. /\ alert' = alert /\ told' = told
          /\ sending'.next = e /\ sending'.at = now /\ sending'.fresh = fresh /\ sending'.told = seen
      BY <1>1, <2>1, <2>2, <2>3, <2>7, AnswerFields DEF Begins
    <3> QED BY <2>4, <3>1 DEF Telling, ToldOf
  <2> QED BY <2>5, <2>6, <2>7
<1>2. ASSUME NEW ok \in [Sends -> SUBSET Channels], Sent(ok) PROVE Telling'
  <2>1. /\ sending.pc = "sending" /\ \A k \in Sends : ok[k] \subseteq Recipients(k)
        /\ Records(ok) \/ UNCHANGED <<alert, got, started, told, reminder>>
    BY <1>2, SentIs
  <2>2. sending'.pc = "idle"
    BY <1>2, SentFields
  <2>3. CASE Records(ok)
    <3>1. alert'.state = sending.next.state /\ alert'.notifiedAt = sending.next.notifiedAt
      BY <2>1, <2>3, AlertIs DEF Records
    <3>2. sending.at \in -1..now /\ sending.at # Never
      BY <2>1 DEF TypeInv, Sendings
    <3>3. CASE sending.to # {} /\ sending.fresh \in {"low", "exhaust", "error"}
      <4>1. told' = [key |-> sending.fresh, at |-> sending.at]
        BY <2>3, <3>3 DEF Records
      <4>2. told'.key = sending.fresh /\ told'.at = sending.at /\ told'.key # "none"
        BY <3>3, <4>1
      <4>3. /\ sending.next.notifiedAt = sending.at
            /\ sending.next.state \in {"warn", "danger", "error"} /\ EventOf[sending.next.state] = sending.fresh
        BY <2>1, <3>3 DEF Telling
      <4> QED BY <2>2, <3>1, <3>2, <4>2, <4>3 DEF Telling, ToldOf
    <3>4. CASE ~(sending.to # {} /\ sending.fresh \in {"low", "exhaust", "error"})
      <4>1. told' = sending.told
        BY <2>3, <3>4 DEF Records
      <4>2. sending.told \in {told, NothingTold} /\ ToldOf(sending.next, sending.told)
        BY <2>1 DEF Telling
      <4>3. told'.key = "none" => told' = NothingTold
        BY <4>1, <4>2 DEF Telling
      <4> QED BY <2>2, <3>1, <4>1, <4>2, <4>3 DEF Telling, ToldOf
    <3> QED BY <3>3, <3>4
  <2>4. CASE UNCHANGED <<alert, got, started, told, reminder>>
    BY <2>2, <2>4 DEF Telling, ToldOf
  <2> QED BY <2>1, <2>3, <2>4
<1>3. CASE EditPrepare
  BY <1>3 DEF EditPrepare, Telling, ToldOf
<1>4. CASE EditPublish
  <2>1. /\ alert'.state = alert.state /\ alert'.notifiedAt = alert.notifiedAt /\ told' = told
        /\ sending'.pc = sending.pc /\ sending'.next = sending.next /\ sending'.at = sending.at
        /\ sending'.fresh = sending.fresh /\ sending'.to = sending.to /\ sending'.told = sending.told
    BY <1>4, PublishIs
  <2> QED BY <2>1 DEF Telling, ToldOf
<1>5. CASE Switch
  BY <1>5, SwitchIs DEF Telling, ToldOf
<1>6. CASE TimePasses
  BY <1>6 DEF TimePasses, Telling, ToldOf
<1>7. CASE UNCHANGED vars
  BY <1>7 DEF vars, Telling, ToldOf
<1> QED BY <1>1, <1>2, <1>3, <1>4, <1>5, <1>6, <1>7 DEF Next

(* The state of the balance is told again only after the renotification    *)
(* interval, or after another state was confirmed in between, whatever is  *)
(* edited, archived or crashes during a refresh.                           *)
THEOREM ToldAgainOnlyLater == Spec => NotToldAgain
<1>1. TypeInv /\ Telling /\ [Next]_vars =>
        [told' # told /\ told'.key = told.key => told'.at - told.at > Renotify]_vars
  <2> SUFFICES ASSUME TypeInv, Telling, Next, told' # told, told'.key = told.key
               PROVE  told'.at - told.at > Renotify
    BY DEF vars
  <2>1. \/ \E raw \in Balances, eta \in EtaCases : Answer(raw, eta)
        \/ \E ok \in [Sends -> SUBSET Channels] : Sent(ok)
    BY PublishIs, SwitchIs DEF Next, EditPrepare, TimePasses
  <2>2. ASSUME NEW raw \in Balances, NEW eta \in EtaCases, Answer(raw, eta) PROVE FALSE
    <3>1. told' = Seen(raw)
      BY <2>2, AnswerIs DEF AtOnce, Begins
    <3>2. told' = NothingTold /\ told.key # "none"
      BY <3>1 DEF Seen
    <3> QED BY <3>2 DEF NothingTold
  <2>3. ASSUME NEW ok \in [Sends -> SUBSET Channels], Sent(ok) PROVE told'.at - told.at > Renotify
    <3>1. sending.pc = "sending" /\ Records(ok)
      BY <2>3, SentIs
    <3>2. sending.told \in {told, NothingTold}
      BY <3>1 DEF Telling
    <3>3. told' # sending.told
      BY <3>2 DEF Telling, NothingTold
    <3>4. /\ sending.to # {} /\ sending.fresh \in {"low", "exhaust", "error"}
          /\ told' = [key |-> sending.fresh, at |-> sending.at]
      BY <3>1, <3>3 DEF Records
    <3>5. told.key = sending.fresh /\ told'.at = sending.at
      BY <3>4
    <3> QED BY <3>1, <3>4, <3>5 DEF Telling
  <2> QED BY <2>1, <2>2, <2>3
<1> QED BY InitTypes, NextTypes, InitTelling, NextTelling, <1>1, PTL DEF Spec, NotToldAgain

-----------------------------------------------------------------------------
(* A balance that goes up and down is one incident.                        *)

(* An incident on record has not ended; of one that is not the last began  *)
(* more than a day ago.                                                    *)
Since(i, s, t) ==
  s # Never =>
    IF i = NoIncident THEN t - s > Gap ELSE i.leftAt # Never => i.leftAt > s
Beginnings ==
  /\ \A k \in Keys :
       /\ started[k] <= sending.at
       /\ sending.pc = "sending" => started[k] < sending.at
  /\ \A k \in Keys \ {"reminder"} :
       /\ Since(alert.inc[k], started[k], now)
       /\ sending.pc = "sending" => Since(sending.next.inc[k], started[k], sending.at)

LEMMA InitBeginnings == Init => Beginnings
<1> SUFFICES ASSUME Init PROVE Beginnings
  OBVIOUS
<1>1. sending.pc = "idle" /\ sending.at = Never
  BY DEF Init, Idle
<1>2. \A k \in Keys : started[k] = Never
  BY DEF Init
<1> QED BY <1>1, <1>2 DEF Beginnings, Since, Never

(* Whatever a refresh keeps of an incident goes on, and an incident that   *)
(* it strikes off had been gone for a day.                                 *)
LEMMA KeptSince ==
  ASSUME TypeInv, Beginnings, NEW raw \in Balances, NEW eta \in EtaCases, sending.at < now, NEW k \in Keys \ {"reminder"}
  PROVE  Since(Kept(k, raw, eta), started[k], now)
<1>1. /\ started[k] \in -1..now /\ now \in Nat /\ Gap \in Nat /\ sending.at \in -1..now
      /\ alert.inc[k] \in Incident \cup {NoIncident}
  BY Parameters DEF TypeInv, Alerts, Incidents, Sendings
<1>2. Since(alert.inc[k], started[k], now) /\ started[k] <= sending.at
  BY DEF Beginnings
<1>3. CASE Kept(k, raw, eta) = NoIncident
  <2>1. CASE alert.inc[k] = NoIncident
    BY <1>2, <1>3, <2>1 DEF Since
  <2>2. CASE alert.inc[k] # NoIncident
    <3>1. PICK i \in Incident : i = alert.inc[k]
      BY <1>1, <2>2
    <3>2. i.leftAt # Never /\ now - i.leftAt >= Gap
      <4>1. SUFFICES ASSUME ~(i.leftAt # Never /\ now - i.leftAt >= Gap) PROVE FALSE
        OBVIOUS
      <4>2. PICK l : l = LeftAt(k, raw, eta)
        OBVIOUS
      <4>3. [i EXCEPT !.remaining = @ \cap enabled, !.leftAt = l] = NoIncident
        BY <1>3, <2>2, <3>1, <4>1, <4>2 DEF Kept
      <4>4. i.first = Never
        BY <4>3 DEF NoIncident, Incident
      <4> QED BY <4>4, Parameters DEF Incident, Never
    <3>3. i.leftAt \in Nat
      BY <3>2 DEF Incident
    <3>4. started[k] # Never => i.leftAt > started[k]
      BY <1>2, <2>2, <3>1, <3>2 DEF Since
    <3> QED BY <1>1, <1>3, <3>2, <3>3, <3>4 DEF Since
  <2> QED BY <2>1, <2>2
<1>4. CASE Kept(k, raw, eta) # NoIncident
  <2>1. PICK i \in Incident : i = alert.inc[k] /\ i # NoIncident
    BY <1>4, KeptType
  <2>2. PICK l : l = LeftAt(k, raw, eta)
    OBVIOUS
  <2>3. Kept(k, raw, eta) = [i EXCEPT !.remaining = @ \cap enabled, !.leftAt = l] /\ l \in {Never, now, i.leftAt}
    BY <1>4, <2>1, <2>2, KeptType
  <2>4. Kept(k, raw, eta).leftAt = l
    BY <2>3 DEF Incident
  <2>5. started[k] # Never /\ l # Never => l > started[k]
    <3>1. started[k] # Never /\ i.leftAt # Never => i.leftAt > started[k]
      BY <1>2, <2>1 DEF Since
    <3> QED BY <1>1, <1>2, <2>3, <3>1
  <2> QED BY <1>4, <2>4, <2>5 DEF Since
<1> QED BY <1>3, <1>4

(* An incident that is on record is not one that is none. *)
LEMMA IncidentIsSome ==
  ASSUME NEW i \in Incident
  PROVE  i # NoIncident
<1>1. i.first # Never
  BY Parameters DEF Incident, Never
<1> QED BY <1>1 DEF NoIncident

LEMMA NextBeginnings == TypeInv /\ Beginnings /\ [Next]_vars => Beginnings'
<1> SUFFICES ASSUME TypeInv, Beginnings, [Next]_vars PROVE Beginnings'
  OBVIOUS
<1>0. /\ now \in Nat /\ sending.at \in -1..now /\ Gap \in Nat
      /\ \A k \in Keys : started[k] \in -1..now
  BY Parameters DEF TypeInv, Sendings
<1>1. ASSUME NEW raw \in Balances, NEW eta \in EtaCases, Answer(raw, eta) PROVE Beginnings'
  <2>1. /\ UNCHANGED <<now, started>> /\ now > sending.at
        /\ AtOnce(raw, eta) \/ Begins(raw, eta)
    BY <1>1, AnswerIs
  <2>2. ASSUME NEW k \in Keys \ {"reminder"} PROVE Since(Evaluated(raw, eta).inc[k], started[k], now)
    <3>1. Evaluated(raw, eta).inc[k] = Kept(k, raw, eta)
      BY EvaluatedIs
    <3>2. Since(Kept(k, raw, eta), started[k], now)
      BY <2>1, KeptSince
    <3> QED BY <3>1, <3>2
  <2>3. \A k \in Keys : started[k] < now
    BY <1>0, <2>1 DEF Beginnings
  <2>4. CASE AtOnce(raw, eta)
    <3>1. alert' = Evaluated(raw, eta) /\ sending'.pc = "idle" /\ sending'.at = now
      BY <1>1, <2>4, AnswerFields DEF AtOnce
    <3>2. \A k \in Keys : started'[k] <= sending'.at
      BY <1>0, <2>1, <2>3, <3>1
    <3> QED BY <2>1, <2>2, <3>1, <3>2 DEF Beginnings, Since
  <2>5. CASE Begins(raw, eta)
    <3>1. alert' = alert /\ sending'.next = Evaluated(raw, eta) /\ sending'.at = now
      BY <1>1, <2>5, AnswerFields DEF Begins
    <3>2. \A k \in Keys : started'[k] <= sending'.at /\ started'[k] < sending'.at
      BY <1>0, <2>1, <2>3, <3>1
    <3> QED BY <2>1, <2>2, <3>1, <3>2 DEF Beginnings, Since
  <2> QED BY <2>1, <2>4, <2>5
<1>2. ASSUME NEW ok \in [Sends -> SUBSET Channels], Sent(ok) PROVE Beginnings'
  <2>1. /\ sending.pc = "sending" /\ \A k \in Sends : ok[k] \subseteq Recipients(k)
        /\ now' = now
        /\ Records(ok) \/ UNCHANGED <<alert, got, started, told, reminder>>
    BY <1>2, SentIs
  <2>2. sending'.pc = "idle" /\ sending'.at = now
    BY <1>2, SentFields
  <2>3. CASE Records(ok)
    <3>1. \A k \in Keys : started'[k] \in {started[k], sending.at}
      BY <2>3 DEF Records
    <3>2. \A k \in Keys : started'[k] <= sending'.at
      BY <1>0, <2>2, <3>1
    <3>3. ASSUME NEW k \in Keys \ {"reminder"} PROVE Since(alert'.inc[k], started'[k], now)
      <4>1. alert'.inc[k] = Incs(ok)[k]
        BY <2>1, <2>3, AlertIs DEF Records
      <4>2. Since(sending.next.inc[k], started[k], sending.at)
        BY <2>1 DEF Beginnings
      <4>3. CASE k \in Sends
        <5>1. PICK o \in SUBSET Channels : o = ok[k] /\ o \subseteq Recipients(k)
          BY <2>1, <4>3
        <5>2. PICK i : i = Outcome(k, o)
          OBVIOUS
        <5>3. alert'.inc[k] = i
          BY <4>1, <4>3, <5>1, <5>2 DEF Incs
        <5>4. i \in Incident /\ i # NoIncident
          BY <2>1, <4>3, <5>1, <5>2, OutcomeIs, IncidentIsSome
        <5>5. CASE sending.next.inc[k] = NoIncident
          <6>1. i.leftAt = Never
            BY <2>1, <4>3, <5>1, <5>2, <5>5, OutcomeIs
          <6> QED BY <5>3, <5>4, <6>1 DEF Since
        <5>6. CASE sending.next.inc[k] # NoIncident
          <6>1. i.leftAt = sending.next.inc[k].leftAt
            BY <2>1, <4>3, <5>1, <5>2, <5>6, OutcomeIs
          <6>2. started'[k] = started[k]
            BY <2>3, <5>6 DEF Records
          <6> QED BY <4>2, <5>3, <5>4, <5>6, <6>1, <6>2 DEF Since
        <5> QED BY <5>5, <5>6
      <4>4. CASE k \notin Sends
        <5>1. alert'.inc[k] = sending.next.inc[k] /\ started'[k] = started[k]
          BY <2>3, <4>1, <4>4 DEF Incs, Records
        <5> QED BY <1>0, <4>2, <5>1 DEF Since
      <4> QED BY <4>3, <4>4
    <3>4. \A k \in Keys \ {"reminder"} : Since(alert'.inc[k], started'[k], now')
      BY <2>1, <3>3
    <3>5. sending'.pc # "sending"
      BY <2>2
    <3> QED BY <3>2, <3>4, <3>5 DEF Beginnings
  <2>4. CASE UNCHANGED <<alert, got, started, told, reminder>>
    <3>1. \A k \in Keys : started'[k] <= sending'.at
      BY <1>0, <2>2, <2>4
    <3>2. \A k \in Keys \ {"reminder"} : Since(alert'.inc[k], started'[k], now')
      BY <2>1, <2>4 DEF Beginnings
    <3>3. sending'.pc # "sending"
      BY <2>2
    <3> QED BY <3>1, <3>2, <3>3 DEF Beginnings
  <2> QED BY <2>1, <2>3, <2>4
<1>3. CASE EditPrepare
  BY <1>3 DEF EditPrepare, Beginnings, Since
<1>4. CASE EditPublish
  <2>1. /\ \A k \in Keys \ {"reminder"} : alert'.inc[k] = alert.inc[k]
        /\ sending'.pc = sending.pc /\ sending'.next = sending.next /\ sending'.at = sending.at
        /\ UNCHANGED <<now, started>>
    BY <1>4, PublishIs
  <2> QED BY <2>1 DEF Beginnings, Since
<1>5. CASE Switch
  <2>1. UNCHANGED <<now, alert, started>> /\ (sending' = sending \/ (sending'.pc = "idle" /\ sending'.at = sending.at))
    BY <1>5, SwitchIs
  <2> QED BY <2>1 DEF Beginnings, Since
<1>6. CASE TimePasses
  <2>1. now' = now + 1 /\ UNCHANGED <<alert, sending, started>>
    BY <1>6 DEF TimePasses
  <2>2. \A k \in Keys \ {"reminder"} : Since(alert.inc[k], started[k], now + 1)
    BY <1>0 DEF Beginnings, Since
  <2> QED BY <2>1, <2>2 DEF Beginnings, Since
<1>7. CASE UNCHANGED vars
  BY <1>7 DEF vars, Beginnings, Since
<1> QED BY <1>1, <1>2, <1>3, <1>4, <1>5, <1>6, <1>7 DEF Next

(* A balance that goes up and down is one incident: the next of its kind   *)
(* begins more than a day after the last did, for any intervals.           *)
THEOREM IncidentsApart == Spec => NoEarlyRestart
<1>1. TypeInv /\ Beginnings /\ [Next]_vars =>
        [\A k \in Keys \ {"reminder"} :
           started'[k] # started[k] /\ started[k] # Never => started'[k] - started[k] > Gap]_vars
  <2> SUFFICES ASSUME TypeInv, Beginnings, Next, NEW k \in Keys \ {"reminder"}, started'[k] # started[k], started[k] # Never
               PROVE  started'[k] - started[k] > Gap
    BY DEF vars
  <2>1. PICK ok \in [Sends -> SUBSET Channels] : Sent(ok)
    BY PublishIs, SwitchIs, AnswerIs DEF Next, EditPrepare, TimePasses
  <2>2. sending.pc = "sending" /\ Records(ok)
    BY <2>1, SentIs
  <2>3. sending.next.inc[k] = NoIncident /\ started'[k] = sending.at
    BY <2>2 DEF Records
  <2> QED BY <2>2, <2>3 DEF Beginnings, Since
<1> QED BY InitTypes, NextTypes, InitBeginnings, NextBeginnings, <1>1, PTL DEF Spec, NoEarlyRestart

-----------------------------------------------------------------------------
(* Without renewal: one reminder each time the setting is switched on.     *)

(* A round of the setting that still lacks a record of its reminder has    *)
(* sent none; a refresh under way is of the present round, or of one that  *)
(* the setting has left.                                                   *)
Owed(al, r) == al.remindedAt = Never => reminder.round # r \/ reminder.count = 0
Reminding ==
  /\ reminder.round <= round /\ reminder.count <= 1
  /\ noRenewal => Owed(alert, round)
  /\ sending.pc = "sending" =>
       /\ sending.round <= round /\ reminder.round <= sending.round
       /\ noRenewal /\ ~sending.noRenewal => sending.round < round
       /\ sending.noRenewal => Owed(sending.next, sending.round)
       /\ sending.fresh = "reminder" =>
            /\ sending.noRenewal /\ sending.next.remindedAt # Never
            /\ reminder.round # sending.round \/ reminder.count = 0

(* With one change of the setting during a refresh, the setting is what it *)
(* was when it began only if the round is; then the record is of it.       *)
RoundKept ==
  /\ noRenewal /\ alert.remindedAt # Never => reminder.round = round
  /\ sending.pc = "sending" =>
       /\ IF sending.flips = 0 THEN noRenewal = sending.noRenewal /\ round = sending.round
          ELSE sending.flips = 1 /\ noRenewal # sending.noRenewal
       /\ sending.noRenewal /\ sending.next.remindedAt # Never /\ sending.fresh # "reminder" =>
            reminder.round = sending.round

LEMMA InitReminding == Init => Reminding /\ RoundKept
<1>1. Idle.pc = "idle" /\ NoAlert.remindedAt = Never
  BY DEF Idle, NoAlert
<1> QED BY <1>1 DEF Init, Reminding, RoundKept, Owed

(* The reminder goes out where none is on record, and then one is.         *)
LEMMA ReminderFresh ==
  ASSUME TypeInv, NEW raw \in Balances, NEW eta \in EtaCases
  PROVE  LET e == Evaluated(raw, eta) IN
         IF Fresh(raw, eta) = "reminder"
         THEN noRenewal /\ alert.remindedAt = Never /\ e.remindedAt # Never
         ELSE e.remindedAt = alert.remindedAt
<1>1. now # Never
  BY Parameters DEF TypeInv, Never
<1>2. ASSUME Fresh(raw, eta) = "reminder" PROVE noRenewal /\ alert.remindedAt = Never
  <2>1. raw \in {"ok", "warn", "danger", "error"}
    BY Parameters
  <2>2. EventOf[raw] # "reminder"
    BY <2>1, EventIn
  <2>3. ReminderApplies(raw) /\ alert.remindedAt = Never
    BY <1>2, <2>2 DEF Fresh
  <2> QED BY <2>3 DEF ReminderApplies
<1>3. Evaluated(raw, eta).remindedAt = IF Fresh(raw, eta) = "reminder" THEN now ELSE alert.remindedAt
  BY EvaluatedIs
<1> QED BY <1>1, <1>2, <1>3

LEMMA NextReminding == TypeInv /\ Reminding /\ [Next]_vars => Reminding'
<1> SUFFICES ASSUME TypeInv, Reminding, [Next]_vars PROVE Reminding'
  OBVIOUS
<1>0. /\ round \in Nat /\ reminder \in [round : Nat, count : Nat] /\ sending.round \in Nat
      /\ noRenewal \in BOOLEAN /\ sending.noRenewal \in BOOLEAN
  BY DEF TypeInv, Sendings
<1>1. ASSUME NEW raw \in Balances, NEW eta \in EtaCases, Answer(raw, eta) PROVE Reminding'
  <2>1. UNCHANGED <<noRenewal, round>> /\ (AtOnce(raw, eta) \/ Begins(raw, eta))
    BY <1>1, AnswerIs
  <2>2. PICK e : e = Evaluated(raw, eta)
    OBVIOUS
  <2>3. PICK fresh : fresh = Fresh(raw, eta)
    OBVIOUS
  <2>4. IF fresh = "reminder" THEN noRenewal /\ alert.remindedAt = Never /\ e.remindedAt # Never
        ELSE e.remindedAt = alert.remindedAt
    BY <2>2, <2>3, ReminderFresh
  <2>5. CASE AtOnce(raw, eta)
    <3>1. alert' = e /\ sending'.pc = "idle" /\ reminder' = Recorded(fresh, round, FALSE)
      BY <1>1, <2>2, <2>3, <2>5, AnswerFields DEF AtOnce
    <3>2. CASE fresh = "reminder"
      <4>1. reminder'.round = round /\ reminder'.count <= 1
        <5>1. reminder' = [round |-> round, count |-> (IF reminder.round = round THEN reminder.count ELSE 0) + 0]
          BY <3>1, <3>2 DEF Recorded
        <5> QED BY <1>0, <5>1 DEF Reminding
      <4>2. alert'.remindedAt # Never /\ sending'.pc # "sending"
        BY <2>4, <3>1, <3>2
      <4>3. reminder'.round <= round'
        BY <1>0, <2>1, <4>1
      <4> QED BY <4>1, <4>2, <4>3 DEF Reminding, Owed
    <3>3. CASE fresh # "reminder"
      <4>1. reminder' = reminder /\ alert'.remindedAt = alert.remindedAt
        BY <2>4, <3>1, <3>3 DEF Recorded
      <4> QED BY <2>1, <3>1, <4>1 DEF Reminding, Owed
    <3> QED BY <3>2, <3>3
  <2>6. CASE Begins(raw, eta)
    <3>1. /\ alert' = alert /\ reminder' = reminder
          /\ sending'.next = e /\ sending'.fresh = fresh /\ sending'.noRenewal = noRenewal /\ sending'.round = round
      BY <1>1, <2>2, <2>3, <2>6, AnswerFields DEF Begins
    <3>2. noRenewal => Owed(alert, round)
      BY DEF Reminding
    <3>3. noRenewal => (e.remindedAt = Never => reminder.round # round \/ reminder.count = 0)
      BY <2>4, <3>2 DEF Owed
    <3>4. fresh = "reminder" => reminder.round # round \/ reminder.count = 0
      BY <2>4, <3>2 DEF Owed
    <3>5. sending'.round <= round' /\ reminder'.round <= sending'.round
      BY <1>0, <2>1, <3>1 DEF Reminding
    <3> QED BY <2>1, <2>4, <3>1, <3>2, <3>3, <3>4, <3>5 DEF Reminding, Owed
  <2> QED BY <2>1, <2>5, <2>6
<1>2. ASSUME NEW ok \in [Sends -> SUBSET Channels], Sent(ok) PROVE Reminding'
  <2>1. /\ sending.pc = "sending" /\ \A k \in Sends : ok[k] \subseteq Recipients(k)
        /\ UNCHANGED <<noRenewal, round>>
        /\ Records(ok) \/ UNCHANGED <<alert, got, started, told, reminder>>
    BY <1>2, SentIs
  <2>2. sending'.pc = "idle"
    BY <1>2, SentFields
  <2>3. CASE Records(ok)
    <3>1. alert'.remindedAt = IF noRenewal # sending.noRenewal THEN Never ELSE sending.next.remindedAt
      BY <2>1, <2>3, AlertIs DEF Records
    <3>2. /\ sending.round <= round /\ reminder.round <= sending.round
          /\ noRenewal /\ ~sending.noRenewal => sending.round < round
          /\ sending.noRenewal => (sending.next.remindedAt = Never => reminder.round # sending.round \/ reminder.count = 0)
          /\ sending.fresh = "reminder" =>
               /\ sending.noRenewal /\ sending.next.remindedAt # Never
               /\ reminder.round # sending.round \/ reminder.count = 0
      BY <2>1 DEF Reminding, Owed
    <3>3. CASE sending.fresh = "reminder"
      <4>1. reminder'.round = sending.round /\ reminder'.count <= 1
        <5>1. PICK n \in 0..1 : n = IF sending.to # {} THEN 1 ELSE 0
          OBVIOUS
        <5>2. reminder' = [round |-> sending.round, count |-> (IF reminder.round = sending.round THEN reminder.count ELSE 0) + n]
          BY <2>3, <3>3, <5>1 DEF Records, Recorded
        <5>3. (IF reminder.round = sending.round THEN reminder.count ELSE 0) = 0
          BY <3>2, <3>3
        <5> QED BY <5>1, <5>2, <5>3
      <4>2. noRenewal => alert'.remindedAt # Never
        BY <3>1, <3>2, <3>3
      <4> QED BY <2>1, <2>2, <3>2, <4>1, <4>2 DEF Reminding, Owed
    <3>4. CASE sending.fresh # "reminder"
      <4>1. reminder' = reminder
        BY <2>3, <3>4 DEF Records, Recorded
      <4>2. noRenewal /\ alert'.remindedAt = Never => reminder.round # round \/ reminder.count = 0
        <5>1. CASE noRenewal /\ sending.noRenewal
          BY <1>0, <3>1, <3>2, <5>1
        <5>2. CASE noRenewal /\ ~sending.noRenewal
          <6>1. reminder.round < round
            BY <1>0, <3>2, <5>2
          <6> QED BY <1>0, <6>1
        <5> QED BY <1>0, <5>1, <5>2
      <4> QED BY <2>1, <2>2, <4>1, <4>2 DEF Reminding, Owed
    <3> QED BY <3>3, <3>4
  <2>4. CASE UNCHANGED <<alert, got, started, told, reminder>>
    BY <2>1, <2>2, <2>4 DEF Reminding, Owed
  <2> QED BY <2>1, <2>3, <2>4
<1>3. CASE EditPrepare
  BY <1>3 DEF EditPrepare, Reminding, Owed
<1>4. CASE EditPublish
  <2>1. /\ noRenewal' = ~noRenewal /\ reminder' = reminder
        /\ sending'.pc = sending.pc /\ sending'.next = sending.next /\ sending'.fresh = sending.fresh
        /\ sending'.noRenewal = sending.noRenewal /\ sending'.round = sending.round
    BY <1>4, PublishIs
  <2>2. round' = IF noRenewal' THEN round + 1 ELSE round
    BY <1>4, PublishIs
  <2>3. round <= round' /\ (noRenewal' => round < round') /\ round' \in Nat
    BY <1>0, <2>2
  <2>4. /\ reminder.round <= round' /\ reminder.count <= 1
        /\ noRenewal' => reminder.round # round'
    BY <1>0, <2>3 DEF Reminding
  <2>5. sending.pc = "sending" =>
          /\ sending.round <= round' /\ reminder.round <= sending.round
          /\ noRenewal' => sending.round < round'
    BY <1>0, <2>3 DEF Reminding
  <2> QED BY <2>1, <2>4, <2>5 DEF Reminding, Owed
<1>5. CASE Switch
  <2>1. /\ UNCHANGED <<noRenewal, alert, round, reminder>>
        /\ sending' = sending \/ (sending'.pc = "idle" /\ sending'.at = sending.at)
    BY <1>5, SwitchIs
  <2> QED BY <2>1 DEF Reminding, Owed
<1>6. CASE TimePasses
  BY <1>6 DEF TimePasses, Reminding, Owed
<1>7. CASE UNCHANGED vars
  BY <1>7 DEF vars, Reminding, Owed
<1> QED BY <1>1, <1>2, <1>3, <1>4, <1>5, <1>6, <1>7 DEF Next

LEMMA NextRoundKept ==
  ASSUME FlipsPerSend <= 1
  PROVE  TypeInv /\ RoundKept /\ [Next]_vars => RoundKept'
<1> SUFFICES ASSUME TypeInv, RoundKept, [Next]_vars PROVE RoundKept'
  OBVIOUS
<1>0. /\ round \in Nat /\ noRenewal \in BOOLEAN /\ sending.noRenewal \in BOOLEAN /\ FlipsPerSend \in Nat
      /\ sending.flips \in Nat
  BY Parameters DEF TypeInv, Sendings
<1>1. ASSUME NEW raw \in Balances, NEW eta \in EtaCases, Answer(raw, eta) PROVE RoundKept'
  <2>1. UNCHANGED <<noRenewal, round>> /\ (AtOnce(raw, eta) \/ Begins(raw, eta))
    BY <1>1, AnswerIs
  <2>2. PICK e : e = Evaluated(raw, eta)
    OBVIOUS
  <2>3. PICK fresh : fresh = Fresh(raw, eta)
    OBVIOUS
  <2>4. fresh # "reminder" => e.remindedAt = alert.remindedAt
    BY <2>2, <2>3, ReminderFresh
  <2>5. CASE AtOnce(raw, eta)
    <3>1. alert' = e /\ sending'.pc = "idle" /\ reminder' = Recorded(fresh, round, FALSE)
      BY <1>1, <2>2, <2>3, <2>5, AnswerFields DEF AtOnce
    <3>2. fresh = "reminder" => reminder'.round = round
      BY <3>1 DEF Recorded
    <3>3. fresh # "reminder" => reminder' = reminder
      BY <3>1 DEF Recorded
    <3> QED BY <2>1, <2>4, <3>1, <3>2, <3>3 DEF RoundKept
  <2>6. CASE Begins(raw, eta)
    <3>1. /\ alert' = alert /\ reminder' = reminder
          /\ sending'.next = e /\ sending'.fresh = fresh /\ sending'.noRenewal = noRenewal /\ sending'.round = round
          /\ sending'.flips = 0
      BY <1>1, <2>2, <2>3, <2>6, AnswerFields DEF Begins
    <3> QED BY <2>1, <2>4, <3>1 DEF RoundKept
  <2> QED BY <2>1, <2>5, <2>6
<1>2. ASSUME NEW ok \in [Sends -> SUBSET Channels], Sent(ok) PROVE RoundKept'
  <2>1. /\ sending.pc = "sending" /\ \A k \in Sends : ok[k] \subseteq Recipients(k)
        /\ UNCHANGED <<noRenewal, round>>
        /\ Records(ok) \/ UNCHANGED <<alert, got, started, told, reminder>>
    BY <1>2, SentIs
  <2>2. sending'.pc = "idle"
    BY <1>2, SentFields
  <2>3. CASE Records(ok)
    <3>1. alert'.remindedAt = IF noRenewal # sending.noRenewal THEN Never ELSE sending.next.remindedAt
      BY <2>1, <2>3, AlertIs DEF Records
    <3>2. ASSUME noRenewal, alert'.remindedAt # Never PROVE reminder'.round = round
      <4>1. noRenewal = sending.noRenewal /\ sending.next.remindedAt # Never
        BY <3>1, <3>2
      <4>2. round = sending.round
        BY <2>1, <4>1 DEF RoundKept
      <4>3. CASE sending.fresh = "reminder"
        BY <2>3, <4>2, <4>3 DEF Records, Recorded
      <4>4. CASE sending.fresh # "reminder"
        <5>1. reminder' = reminder
          BY <2>3, <4>4 DEF Records, Recorded
        <5> QED BY <2>1, <3>2, <4>1, <4>2, <4>4, <5>1 DEF RoundKept
      <4> QED BY <4>3, <4>4
    <3> QED BY <2>1, <2>2, <3>2 DEF RoundKept
  <2>4. CASE UNCHANGED <<alert, got, started, told, reminder>>
    BY <2>1, <2>2, <2>4 DEF RoundKept
  <2> QED BY <2>1, <2>3, <2>4
<1>3. CASE EditPrepare
  BY <1>3 DEF EditPrepare, RoundKept
<1>4. CASE EditPublish
  <2>1. /\ noRenewal' = ~noRenewal /\ alert'.remindedAt = Never /\ reminder' = reminder
        /\ sending'.pc = sending.pc /\ sending'.next = sending.next /\ sending'.fresh = sending.fresh
        /\ sending'.noRenewal = sending.noRenewal /\ sending'.round = sending.round
    BY <1>4, PublishIs
  <2>2. sending.pc = "sending" => sending.flips < FlipsPerSend /\ sending'.flips = sending.flips + 1
    BY <1>4, PublishIs
  <2>3. sending.pc = "sending" => sending.flips = 0 /\ sending'.flips = 1
    BY <1>0, <2>2
  <2>4. sending.pc = "sending" => noRenewal' # sending.noRenewal
    BY <1>0, <2>1, <2>3 DEF RoundKept
  <2> QED BY <2>1, <2>3, <2>4 DEF RoundKept
<1>5. CASE Switch
  <2>1. /\ UNCHANGED <<noRenewal, alert, round, reminder>>
        /\ sending' = sending \/ (sending'.pc = "idle" /\ sending'.at = sending.at)
    BY <1>5, SwitchIs
  <2> QED BY <2>1 DEF RoundKept
<1>6. CASE TimePasses
  BY <1>6 DEF TimePasses, RoundKept
<1>7. CASE UNCHANGED vars
  BY <1>7 DEF vars, RoundKept
<1> QED BY <1>1, <1>2, <1>3, <1>4, <1>5, <1>6, <1>7 DEF Next

(* Without renewal a low balance is told once per time the setting is      *)
(* switched on, however often it is switched and the process restarted.    *)
THEOREM OneReminderARound == Spec => []OneReminder
<1>1. Reminding => OneReminder
  BY DEF Reminding, OneReminder
<1> QED BY InitTypes, NextTypes, InitReminding, NextReminding, <1>1, PTL DEF Spec

(* The record of an earlier reminder never survives a new round of the     *)
(* setting, as long as the setting changes at most once while messages are *)
(* being sent; with two changes the old record is written back.            *)
THEOREM NoOldReminder == ASSUME FlipsPerSend <= 1 PROVE Spec => []NewRoundReminds
<1>1. RoundKept => NewRoundReminds
  BY DEF RoundKept, NewRoundReminds
<1>2. TypeInv /\ RoundKept /\ [Next]_vars => RoundKept'
  BY NextRoundKept
<1> QED BY InitTypes, NextTypes, InitReminding, <1>1, <1>2, PTL DEF Spec

-----------------------------------------------------------------------------
(* A refresh that ends after the station was archived leaves its alert     *)
(* state as it is and sends nothing more.                                  *)
THEOREM ArchivedIsLeftAlone == Spec => ArchivedLeftAlone
<1>1. TypeInv /\ [Next]_vars =>
        [archived => /\ alert' # alert => edit.on
                     /\ sending'.pc = "sending" => sending.pc = "sending"]_vars
  <2> SUFFICES ASSUME TypeInv, Next, archived
               PROVE  /\ alert' # alert => edit.on
                      /\ sending'.pc = "sending" => sending.pc = "sending"
    BY DEF vars
  <2>1. ASSUME NEW raw \in Balances, NEW eta \in EtaCases, Answer(raw, eta) PROVE FALSE
    BY <2>1, AnswerIs
  <2>2. ASSUME NEW ok \in [Sends -> SUBSET Channels], Sent(ok) PROVE alert' = alert /\ sending'.pc = "idle"
    BY <2>2, SentIs, SentFields DEF Records
  <2>3. CASE EditPrepare \/ TimePasses
    BY <2>3 DEF EditPrepare, TimePasses
  <2> QED BY <2>1, <2>2, <2>3, PublishIs, SwitchIs DEF Next
<1> QED BY InitTypes, NextTypes, <1>1, PTL DEF Spec, ArchivedLeftAlone
=============================================================================
