--------------------------- MODULE BalanceAlerts ---------------------------
(***************************************************************************)
(* The balance alerts of one upstream station (src/server/refresh.js,      *)
(* src/lib/alerts.js).  A refresh reads the balance, decides which message *)
(* is due, sends it together with the messages that were not delivered     *)
(* before, and writes the new alert state back when the outcomes are in.   *)
(* Meanwhile the station can be archived, its "no renewal" setting edited, *)
(* notification channels switched and the process restarted.               *)
(***************************************************************************)
EXTENDS Integers, FiniteSets, FiniteSetsExt

CONSTANTS Channels,
          Balances,      \* bound: what a read finds, part of {"ok", "warn", "danger", "error"}
          EtaCases,      \* bound: whether the balance is used up soon
          Rules,         \* the alerts that are switched on
          Threshold,     \* errorThreshold
          Renotify,      \* renotifyHours
          MaxDelay,      \* RETRY_MAX_MS, in units of RETRY_BASE_MS
          Window,        \* RETRY_WINDOW_MS
          Gap,           \* INCIDENT_GAP_MS
          MaxTime,       \* bound: the clock
          MaxFlips,      \* bound: changes of the no-renewal setting
          FlipsPerSend,  \* bound: those while messages are being sent
          MaxSwitches    \* bound: changes of channels, archivings and crashes

ASSUME AlertAssumption ==
  /\ IsFiniteSet(Channels)
  /\ Balances \subseteq {"ok", "warn", "danger", "error"}
  /\ EtaCases \subseteq BOOLEAN
  /\ Threshold \in Nat \ {0}
  /\ {Renotify, MaxDelay, Window, Gap, MaxTime, MaxFlips, FlipsPerSend, MaxSwitches} \subseteq Nat

VARIABLES
  now,
  noRenewal,  \* the setting of the station
  archived,
  enabled,    \* the notification channels in use
  alert,      \* station.alertState
  sending,    \* the refresh under way
  edit,       \* an edit of the setting that is being written
  told,       \* history: the last message on the state of the balance
  got,        \* history: who received a message of the incident
  started,    \* history: when the last incident of a kind began
  round,      \* history: how often the setting was switched on
  reminder,   \* history: the round of the reminder on record, and how often it was sent then
  flips, switches

vars == <<now, noRenewal, archived, enabled, alert, sending, edit, told, got, started, round, reminder, flips, switches>>

Never == -1
Keys == {"low", "exhaust", "error", "recover", "eta", "reminder"}
Bad == {"warn", "danger", "error"}

NoIncident == [first |-> Never, remaining |-> {}, attempts |-> 0, retryAt |-> 0, leftAt |-> Never]
Incident == [first : 0..MaxTime, remaining : SUBSET Channels, attempts : Nat, retryAt : Nat,
             leftAt : Nat \cup {Never}]
NoIncidents == [k \in Keys |-> NoIncident]
Open(inc) == {k \in Keys : inc[k] # NoIncident}

NoAlert == [state |-> "unknown", count |-> 0, notifiedAt |-> Never, etaAt |-> Never,
            remindedAt |-> Never, inc |-> NoIncidents]
Idle == [pc |-> "idle", prev |-> NoAlert, next |-> NoAlert, raw |-> "ok", at |-> Never, fresh |-> "none",
         to |-> {}, retries |-> {}, noRenewal |-> FALSE, round |-> 0, flips |-> 0, told |-> [key |-> "none", at |-> Never]]
NoEdit == [on |-> FALSE, alert |-> NoAlert]
NothingTold == [key |-> "none", at |-> Never]

Init ==
  /\ now = 0
  /\ noRenewal \in BOOLEAN
  /\ archived = FALSE
  /\ enabled = Channels
  /\ alert = NoAlert
  /\ sending = Idle
  /\ edit = NoEdit
  /\ told = NothingTold
  /\ got = [k \in Keys |-> {}]
  /\ started = [k \in Keys |-> Never]
  /\ round = 0
  /\ reminder = [round |-> 0, count |-> 0]
  /\ flips = 0 /\ switches = 0

-----------------------------------------------------------------------------
(* evaluateStation: what a balance that was read calls for.                *)

EventOf == [warn |-> "low", danger |-> "exhaust", error |-> "error", ok |-> "recover"]

(* stateAlertOn: with no renewal a low balance is only told once, below. *)
AlertOn(ev) == ev \in Rules /\ ~(noRenewal /\ ev \in {"low", "exhaust"})
EtaApplies(raw, eta) == eta /\ ~noRenewal /\ "eta" \in Rules /\ raw \notin {"error", "danger"}
ReminderApplies(raw) == noRenewal /\ "low" \in Rules /\ raw \in {"warn", "danger"}

Count(raw) == IF raw = "error" THEN Min({alert.count + 1, Threshold}) ELSE 0
Confirmed(raw) == raw = "error" => Count(raw) >= Threshold
StateAfter(raw) == IF Confirmed(raw) THEN raw ELSE alert.state

RenotifyDue(at) == Renotify > 0 /\ (at = Never \/ now - at > Renotify)

(* The new message of this round, if any.  A state that is not confirmed   *)
(* yet is neither told nor does its end count as a recovery.               *)
StateDue(raw) ==
  /\ Confirmed(raw) /\ raw \in Bad /\ AlertOn(EventOf[raw])
  /\ raw = alert.state => RenotifyDue(alert.notifiedAt)
RecoverDue(raw) ==
  /\ StateAfter(raw) = "ok" /\ AlertOn("recover")
  /\ IF noRenewal THEN alert.state = "error" ELSE alert.state \in Bad

Fresh(raw, eta) ==
  IF ReminderApplies(raw) /\ alert.remindedAt = Never THEN "reminder"
  ELSE IF StateDue(raw) THEN EventOf[raw]
  ELSE IF RecoverDue(raw) THEN "recover"
  ELSE IF EtaApplies(raw, eta) /\ (alert.etaAt = Never \/ RenotifyDue(alert.etaAt)) THEN "eta"
  ELSE "none"

(* incidentHolds: an error below the threshold is neither there nor gone. *)
Holds(k, raw, eta) ==
  CASE k = "error"    -> raw = "error" /\ Confirmed(raw) /\ AlertOn("error")
    [] k = "eta"      -> EtaApplies(raw, eta)
    [] k = "reminder" -> ReminderApplies(raw)
    [] OTHER          -> AlertOn(k) /\ EventOf[raw] = k
Unsure(k, raw) == k = "error" /\ raw = "error" /\ ~Confirmed(raw)

(* An incident ends when it has been gone for a day; channels out of use   *)
(* are struck off every round.                                             *)
LeftAt(k, raw, eta) ==
  LET left == alert.inc[k].leftAt IN
  IF Holds(k, raw, eta) THEN Never
  ELSE IF left = Never /\ ~Unsure(k, raw) THEN now ELSE left

\* Mutant: an incident ends as soon as its situation was gone once.
KeptNoGap(k, raw, eta) ==
  LET i == alert.inc[k] IN
  IF i = NoIncident \/ i.leftAt # Never THEN NoIncident
  ELSE [i EXCEPT !.remaining = @ \cap enabled, !.leftAt = LeftAt(k, raw, eta)]

Kept(k, raw, eta) ==
  LET i == alert.inc[k] IN
  IF i = NoIncident \/ (i.leftAt # Never /\ now - i.leftAt >= Gap) THEN NoIncident
  ELSE [i EXCEPT !.remaining = @ \cap enabled, !.leftAt = LeftAt(k, raw, eta)]

Retries(raw, eta) ==
  {k \in Keys : LET i == Kept(k, raw, eta) IN
     /\ Holds(k, raw, eta) /\ k # Fresh(raw, eta)
     /\ i.remaining # {} /\ now >= i.retryAt /\ now - i.first < Window}

\* Mutant: recorded is when the next message is due.
EvaluatedNextDue(raw, eta) ==
  LET fresh == Fresh(raw, eta) IN
  [state      |-> StateAfter(raw),
   count      |-> Count(raw),
   notifiedAt |-> IF fresh \in {"low", "exhaust", "error", "recover"} THEN now + Renotify ELSE alert.notifiedAt,
   etaAt      |-> IF fresh = "eta" THEN now ELSE alert.etaAt,
   remindedAt |-> IF fresh = "reminder" THEN now ELSE alert.remindedAt,
   inc        |-> [k \in Keys |-> Kept(k, raw, eta)]]

\* Mutant: a reminder is not recorded.
EvaluatedUnreminded(raw, eta) ==
  LET fresh == Fresh(raw, eta) IN
  [state      |-> StateAfter(raw),
   count      |-> Count(raw),
   notifiedAt |-> IF fresh \in {"low", "exhaust", "error", "recover"} THEN now ELSE alert.notifiedAt,
   etaAt      |-> IF fresh = "eta" THEN now ELSE alert.etaAt,
   remindedAt |-> alert.remindedAt,
   inc        |-> [k \in Keys |-> Kept(k, raw, eta)]]

Evaluated(raw, eta) ==
  LET fresh == Fresh(raw, eta) IN
  [state      |-> StateAfter(raw),
   count      |-> Count(raw),
   notifiedAt |-> IF fresh \in {"low", "exhaust", "error", "recover"} THEN now ELSE alert.notifiedAt,
   etaAt      |-> IF fresh = "eta" THEN now ELSE alert.etaAt,
   remindedAt |-> IF fresh = "reminder" THEN now ELSE alert.remindedAt,
   inc        |-> [k \in Keys |-> Kept(k, raw, eta)]]

Delay(attempts) == Min({MaxDelay, 2 ^ (attempts - 1)})

(* One more attempt for the first message of an incident. *)
Tried(i, to, delivered) ==
  LET retryAt == now + Delay(i.attempts + 1) IN
  IF i.remaining \cap to = {} THEN i
  ELSE [i EXCEPT !.attempts = @ + 1, !.retryAt = retryAt,
                 !.remaining = IF retryAt - i.first >= Window THEN {} ELSE @ \ delivered]

(* resetNoRenewalAlertState *)
Reset(a) == [a EXCEPT !.remindedAt = Never, !.inc["reminder"] = NoIncident]

-----------------------------------------------------------------------------
(* The histories go by what was read and sent, not by the alert state.     *)
(* What a refresh sent counts once its outcome is recorded: a crash or an  *)
(* archiving in between loses the record of what went out.                 *)
Seen(raw) == IF Confirmed(raw) /\ told.key # "none" /\ EventOf[raw] # told.key THEN NothingTold ELSE told

Recorded(fresh, r, sent) ==
  IF fresh # "reminder" THEN reminder
  ELSE [round |-> r, count |-> (IF reminder.round = r THEN reminder.count ELSE 0) + IF sent THEN 1 ELSE 0]

(* refreshStation: one refresh of the station at a time.  The balance was  *)
(* read; if the station is archived by then the answer is dropped.  The    *)
(* messages go out; without any the new state is written at once.  Bound:  *)
(* a refresh begins at the earliest one unit of time after the last.       *)
Answer(raw, eta) ==
  /\ sending.pc = "idle" /\ ~archived
  /\ now > sending.at
  /\ LET next == Evaluated(raw, eta)
         to == IF Fresh(raw, eta) = "none" THEN {} ELSE enabled IN
     IF to = {} /\ Retries(raw, eta) = {}
     THEN /\ alert' = next
          /\ sending' = [Idle EXCEPT !.at = now]
          /\ told' = Seen(raw)
          /\ reminder' = Recorded(Fresh(raw, eta), round, FALSE)
     ELSE /\ sending' = [pc |-> "sending", prev |-> alert, next |-> next, raw |-> raw, at |-> now,
                         fresh |-> Fresh(raw, eta), to |-> to,
                         retries |-> Retries(raw, eta), noRenewal |-> noRenewal, round |-> round,
                         flips |-> 0, told |-> Seen(raw)]
          /\ UNCHANGED <<alert, told, reminder>>
  /\ UNCHANGED <<now, noRenewal, archived, enabled, edit, got, started, round, flips, switches>>

Sends == sending.retries \cup (IF sending.to = {} THEN {} ELSE {sending.fresh})
Recipients(k) == IF k \in sending.retries THEN sending.next.inc[k].remaining ELSE sending.to

(* The incident of key k once its message went out to ok. *)
Outcome(k, ok) ==
  LET i == sending.next.inc[k] IN
  IF i # NoIncident THEN Tried(i, Recipients(k), ok)
  ELSE [first |-> sending.at, remaining |-> sending.to \ ok, attempts |-> 1,
        retryAt |-> now + Delay(1), leftAt |-> Never]

(* The state is written when anything changed and the station is still     *)
(* there; with another no-renewal setting than at the start the record of  *)
(* the reminder is not.                                                    *)
Written(next) == IF noRenewal # sending.noRenewal THEN Reset(next) ELSE next

\* Mutant: whether the station was archived meanwhile is not looked at.
SentAnyway(ok) ==
  /\ sending.pc = "sending"
  /\ \A k \in Sends : ok[k] \subseteq Recipients(k)
  /\ LET inc == [k \in Keys |-> IF k \in Sends THEN Outcome(k, ok[k]) ELSE sending.next.inc[k]]
         next == Written([sending.next EXCEPT !.inc = inc]) IN
     IF (next # sending.prev \/ sending.raw = "error")
     THEN /\ alert' = next
          /\ got' = [k \in Keys |-> IF k \notin Sends THEN got[k]
                                    ELSE IF sending.next.inc[k] = NoIncident THEN ok[k] ELSE got[k] \cup ok[k]]
          /\ started' = [k \in Keys |-> IF k \in Sends /\ sending.next.inc[k] = NoIncident
                                        THEN sending.at ELSE started[k]]
          /\ told' = IF sending.to # {} /\ sending.fresh \in {"low", "exhaust", "error"}
                     THEN [key |-> sending.fresh, at |-> sending.at] ELSE sending.told
          /\ reminder' = Recorded(sending.fresh, sending.round, sending.to # {})
     ELSE UNCHANGED <<alert, got, started, told, reminder>>
  /\ sending' = [Idle EXCEPT !.at = now]
  /\ UNCHANGED <<now, noRenewal, archived, enabled, edit, round, flips, switches>>

Sent(ok) ==
  /\ sending.pc = "sending"
  /\ \A k \in Sends : ok[k] \subseteq Recipients(k)
  /\ LET inc == [k \in Keys |-> IF k \in Sends THEN Outcome(k, ok[k]) ELSE sending.next.inc[k]]
         next == Written([sending.next EXCEPT !.inc = inc]) IN
     IF ~archived /\ (next # sending.prev \/ sending.raw = "error")
     THEN /\ alert' = next
          /\ got' = [k \in Keys |-> IF k \notin Sends THEN got[k]
                                    ELSE IF sending.next.inc[k] = NoIncident THEN ok[k] ELSE got[k] \cup ok[k]]
          /\ started' = [k \in Keys |-> IF k \in Sends /\ sending.next.inc[k] = NoIncident
                                        THEN sending.at ELSE started[k]]
          /\ told' = IF sending.to # {} /\ sending.fresh \in {"low", "exhaust", "error"}
                     THEN [key |-> sending.fresh, at |-> sending.at] ELSE sending.told
          /\ reminder' = Recorded(sending.fresh, sending.round, sending.to # {})
     ELSE UNCHANGED <<alert, got, started, told, reminder>>
  /\ sending' = [Idle EXCEPT !.at = now]
  /\ UNCHANGED <<now, noRenewal, archived, enabled, edit, round, flips, switches>>

-----------------------------------------------------------------------------
(* updateLocked with another no-renewal setting: what is written is the    *)
(* alert state of its turn; what is published is that of the publication.  *)
EditPrepare ==
  /\ ~edit.on /\ flips < MaxFlips
  /\ edit' = [on |-> TRUE, alert |-> Reset(alert)]
  /\ flips' = flips + 1
  /\ UNCHANGED <<now, noRenewal, archived, enabled, alert, sending, told, got, started, round, reminder, switches>>

\* Mutant: the record of the reminder stays.
PublishKeepsReminder ==
  /\ edit.on
  /\ sending.pc = "sending" => sending.flips < FlipsPerSend
  /\ noRenewal' = ~noRenewal
  /\ alert' = alert
  /\ edit' = NoEdit
  /\ round' = IF noRenewal' THEN round + 1 ELSE round
  /\ sending' = IF sending.pc = "sending" THEN [sending EXCEPT !.flips = @ + 1] ELSE sending
  /\ UNCHANGED <<now, archived, enabled, told, got, started, reminder, flips, switches>>

\* Mutant: the alert state of the time the edit was prepared is published.
PublishAsPrepared ==
  /\ edit.on
  /\ sending.pc = "sending" => sending.flips < FlipsPerSend
  /\ noRenewal' = ~noRenewal
  /\ alert' = edit.alert
  /\ edit' = NoEdit
  /\ round' = IF noRenewal' THEN round + 1 ELSE round
  /\ sending' = IF sending.pc = "sending" THEN [sending EXCEPT !.flips = @ + 1] ELSE sending
  /\ UNCHANGED <<now, archived, enabled, told, got, started, reminder, flips, switches>>

\* Mutant: what was told is forgotten as well.
PublishForgetsTold ==
  /\ edit.on
  /\ sending.pc = "sending" => sending.flips < FlipsPerSend
  /\ noRenewal' = ~noRenewal
  /\ alert' = [Reset(alert) EXCEPT !.state = "unknown", !.notifiedAt = Never]
  /\ edit' = NoEdit
  /\ round' = IF noRenewal' THEN round + 1 ELSE round
  /\ sending' = IF sending.pc = "sending" THEN [sending EXCEPT !.flips = @ + 1] ELSE sending
  /\ UNCHANGED <<now, archived, enabled, told, got, started, reminder, flips, switches>>

EditPublish ==
  /\ edit.on
  /\ sending.pc = "sending" => sending.flips < FlipsPerSend
  /\ noRenewal' = ~noRenewal
  /\ alert' = Reset(alert)
  /\ edit' = NoEdit
  /\ round' = IF noRenewal' THEN round + 1 ELSE round
  /\ sending' = IF sending.pc = "sending" THEN [sending EXCEPT !.flips = @ + 1] ELSE sending
  /\ UNCHANGED <<now, archived, enabled, told, got, started, reminder, flips, switches>>

(* A channel is switched off or on; the station is archived or restored;   *)
(* the process starts anew and what was being sent is not recorded.        *)
Switch ==
  /\ switches < MaxSwitches
  /\ switches' = switches + 1
  /\ \/ /\ \E c \in Channels : enabled' = IF c \in enabled THEN enabled \ {c} ELSE enabled \cup {c}
        /\ UNCHANGED <<archived, sending, edit>>
     \/ /\ archived' = ~archived
        /\ UNCHANGED <<enabled, sending, edit>>
     \/ /\ sending.pc # "idle"
        /\ sending' = [Idle EXCEPT !.at = sending.at] /\ edit' = NoEdit
        /\ UNCHANGED <<enabled, archived>>
  /\ UNCHANGED <<now, noRenewal, alert, told, got, started, round, reminder, flips>>

TimePasses ==
  /\ now < MaxTime
  /\ now' = now + 1
  /\ UNCHANGED <<noRenewal, archived, enabled, alert, sending, edit, told, got, started, round, reminder, flips, switches>>

Next ==
  \/ \E raw \in Balances, eta \in EtaCases : Answer(raw, eta)
  \/ \E ok \in [Sends -> SUBSET Channels] : Sent(ok)
  \/ EditPrepare \/ EditPublish
  \/ Switch
  \/ TimePasses

Spec == Init /\ [][Next]_vars

-----------------------------------------------------------------------------
TypeOK ==
  /\ now \in 0..MaxTime /\ noRenewal \in BOOLEAN /\ archived \in BOOLEAN /\ enabled \subseteq Channels
  /\ \A a \in {alert, sending.prev, sending.next, edit.alert} :
       /\ a.state \in {"unknown", "ok", "warn", "danger", "error"} /\ a.count \in 0..Threshold
       /\ {a.notifiedAt, a.etaAt, a.remindedAt} \subseteq -1..now
       /\ \A k \in Keys : a.inc[k] = NoIncident \/ a.inc[k] \in Incident
  /\ sending.pc \in {"idle", "sending"}
  /\ sending.retries \subseteq Open(sending.next.inc)
  /\ sending.fresh \in Keys \cup {"none"} /\ sending.to \subseteq Channels
  /\ flips \in 0..MaxFlips /\ switches \in 0..MaxSwitches

(* Whoever received a message of an incident is not among those who still  *)
(* get its first one, whether it came as the first, as a retry or as a     *)
(* repeated alert.                                                         *)
NoneTwice == \A k \in Keys : alert.inc[k].remaining \cap got[k] = {}

(* The state of the balance is told again only after the renotification    *)
(* interval, or after another state was confirmed in between: an edit that *)
(* is written during a refresh does not make it forget what was told.      *)
NotToldAgain ==
  [][told' # told /\ told'.key = told.key => told'.at - told.at > Renotify]_vars

(* A balance that goes up and down is one incident: the next begins more   *)
(* than a day after the last did, for it was gone a day in between.        *)
NoEarlyRestart ==
  [][\A k \in Keys \ {"reminder"} :
       started'[k] # started[k] /\ started[k] # Never => started'[k] - started[k] > Gap]_vars

(* Without renewal a low balance is told once per time the setting is      *)
(* switched on, delivered or not.                                          *)
OneReminder == reminder.count <= 1

(* Every time the setting is switched on a new reminder is due: the record *)
(* of an earlier one does not survive, although it was sent meanwhile.     *)
NewRoundReminds == noRenewal /\ alert.remindedAt # Never => reminder.round = round

(* A refresh that ends after the station was archived leaves its alert     *)
(* state as it is and sends nothing more.                                  *)
ArchivedLeftAlone ==
  [][archived => /\ alert' # alert => edit.on
                 /\ sending'.pc = "sending" => sending.pc = "sending"]_vars
=============================================================================
