------------------------------- MODULE KeyDays -------------------------------
(***************************************************************************)
(* Which binding pays for a Key's day.  A binding says which Key of the    *)
(* upstream serves a channel of the own site; a person chooses the Key,    *)
(* stops the binding and opens it again (src/server/channel-profit.js).    *)
(* What the upstream took for a Key on a day is the cost of one binding    *)
(* only: the Keys of each day are recorded, changed for past days, and     *)
(* read when the day is settled (src/server/reconciliation.js).            *)
(*                                                                         *)
(* One own site and one upstream whose Keys are chosen by hand.  Changes   *)
(* of bindings are made one after another (serialized); settling days goes *)
(* on meanwhile.                                                           *)
(***************************************************************************)
EXTENDS Naturals, Sequences, FiniteSets

CONSTANTS Chans, Keys,
          MaxDay,       \* bound: the last day
          MaxBindings,  \* bound: bindings ever made
          MaxOps,       \* bound: what a person does
          MaxUse        \* bound: days on which a Key serves a channel

ASSUME KeyDaysAssumption == {MaxDay, MaxBindings, MaxOps, MaxUse} \subseteq Nat

VARIABLES
  day,      \* today
  bind,     \* the bindings in the order they were made: the channel, its Key,
            \* the first day and the day it was stopped, Open before
  held,     \* the Keys recorded for a binding's day
  gave,     \* those recorded as given away to another binding
  booked,   \* the Keys whose cost the booked day contains
  fixed,    \* the days that are booked
  queued,   \* those among them that are to be settled anew
  blocked,  \* the days put to a person: revenue, but the Key was not used
  used,     \* the days a Key was used at the upstream
  earned,   \* the days a channel had revenue
  pick,     \* the change of a Key under way
  raced,    \* history: days booked while a change of their Keys was under way
  overtaken,\* history: days put to a person meanwhile
  ops       \* what was done so far

vars == <<day, bind, held, gave, booked, fixed, queued, blocked, used, earned, pick, raced,
          overtaken, ops>>
history == <<raced, overtaken>>
rows == <<held, gave, booked, fixed, queued, blocked>>

Days == 0..MaxDay
Open == MaxDay + 1
Slots == 1..MaxBindings
Bindings == DOMAIN bind
NoPick == [who |-> 0]

TypeOK ==
  /\ day \in Days
  /\ bind \in Seq([chan : Chans, key : Keys, from : Days, to : Days \union {Open}])
  /\ {held, gave, booked} \subseteq [Slots -> [Days -> SUBSET Keys]]
  /\ {fixed, queued, blocked, raced, overtaken} \subseteq SUBSET (Slots \X Days)
  /\ used \subseteq Keys \X Days /\ earned \subseteq Chans \X Days
  /\ queued \subseteq fixed

Init ==
  /\ day = 0 /\ bind = << >>
  /\ held = [i \in Slots |-> [d \in Days |-> {}]]
  /\ gave = held /\ booked = held
  /\ fixed = {} /\ queued = {} /\ blocked = {}
  /\ raced = {} /\ overtaken = {}
  /\ used = {} /\ earned = {}
  /\ pick = NoPick /\ ops = 0

-----------------------------------------------------------------------------
InRange(i, d) == bind[i].from <= d /\ d <= bind[i].to
IsOpen(i) == bind[i].to = Open
Taken(k, except) == \E i \in Bindings \ {except} : IsOpen(i) /\ bind[i].key = k

Recorded(i, d) == held[i][d] \union gave[i][d]

\* A day without a record is the present Key's.
KeysOn(i, d) == IF Recorded(i, d) = {} THEN {bind[i].key} ELSE held[i][d]

HeldByOther(i, k, d) ==
  \E j \in Bindings \ {i} : InRange(j, d) /\ k \in KeysOn(j, d)

\* The Keys of a day that do not count for this binding: it gave them away, or
\* a binding made later has them too.
Lost(i, d) ==
  gave[i][d] \union
    {k \in KeysOn(i, d) : \E j \in Bindings : j > i /\ InRange(j, d) /\ k \in KeysOn(j, d)}

-----------------------------------------------------------------------------
(* Days pass, Keys are used.                                               *)

Sell(c, k) ==
  /\ Cardinality(used) < MaxUse
  /\ <<k, day>> \notin used \/ <<c, day>> \notin earned
  /\ used' = used \union {<<k, day>>}
  /\ earned' = earned \union {<<c, day>>}
  /\ UNCHANGED <<day, bind, rows, pick, history, ops>>

NewDay ==
  /\ day < MaxDay
  /\ day' = day + 1
  /\ UNCHANGED <<bind, rows, used, earned, pick, history, ops>>

-----------------------------------------------------------------------------
(* selectKey and stop: what a person does to a channel.                    *)

Act == pick = NoPick /\ ops < MaxOps /\ ops' = ops + 1

\* The binding of the channel that was stopped last, if that was yesterday or
\* today: choosing a Key opens it again.
Reopened(c) ==
  LET stopped == {i \in Bindings : bind[i].chan = c /\ ~IsOpen(i)} IN
  {i \in stopped : /\ \A j \in stopped : bind[j].to <= bind[i].to
                   /\ bind[i].to + 1 >= day}

\* A binding counts from its first day, 0:00.
Create(c, k) ==
  /\ Act
  /\ \A i \in Bindings : IsOpen(i) => bind[i].chan # c
  /\ Reopened(c) = {} /\ ~Taken(k, 0)
  /\ Len(bind) < MaxBindings
  /\ bind' = Append(bind, [chan |-> c, key |-> k, from |-> day, to |-> Open])
  /\ UNCHANGED <<day, rows, used, earned, pick, history>>

Stop(i) ==
  /\ Act
  /\ IsOpen(i)
  /\ bind' = [bind EXCEPT ![i].to = day]
  /\ UNCHANGED <<day, rows, used, earned, pick, history>>

\* reopenRule, with the Key it had.
Reopen(i) ==
  /\ Act
  /\ i \in Reopened(bind[i].chan)
  /\ \A j \in Bindings : IsOpen(j) => bind[j].chan # bind[i].chan
  /\ ~Taken(bind[i].key, i)
  /\ bind' = [bind EXCEPT ![i].to = Open]
  /\ UNCHANGED <<day, rows, used, earned, pick, history>>

-----------------------------------------------------------------------------
(* changeRuleKeyManual: another Key.  What is to be written is computed    *)
(* from reads of the database and the upstream, then written at once.      *)

\* The first of the days, up to yesterday, on which the Key was used each day
\* by no other binding; today if there is none.
FirstUse(i, k) ==
  LET back(d) == \A e \in d..(day - 1) : <<k, e>> \in used /\ ~HeldByOther(i, k, e)
      found   == {d \in bind[i].from..day : back(d)}
  IN  IF HeldByOther(i, k, day) THEN day ELSE CHOOSE d \in found : \A e \in found : d <= e

ReadPick(i, k, reopen) ==
  /\ Act
  /\ k # bind[i].key
  /\ IF reopen THEN /\ i \in Reopened(bind[i].chan)
                    /\ \A j \in Bindings : IsOpen(j) => bind[j].chan # bind[i].chan
               ELSE IsOpen(i)
  /\ LET first == FirstUse(i, k) IN
     pick' = [who |-> i, key |-> k, today |-> day, first |-> first,
              again |-> {d \in first..day : d < day /\ <<i, d>> \in fixed},
              stuck |-> {d \in Days : <<i, d>> \in blocked}]
  /\ UNCHANGED <<day, bind, rows, used, earned, history>>

\* Another binding gave the day of this one's old Key to this one.
Yielded(i, d) == \E j \in Bindings \ {i} : bind[i].key \in gave[j][d]

\* Mutant: only the new Key is written for the days it was used.
NewHeldOnly(i, d) == {pick.key}

\* The Keys of a day on which old and new Key count: those recorded and the
\* new one.  After the day the binding was stopped the old ones do not count,
\* unless another binding relies on it.
NewHeld(i, d) ==
  LET keep  == d <= bind[i].to \/ Yielded(i, d)
      old   == bind[i].key
      known == IF keep THEN Recorded(i, d) ELSE {}
      back  == IF Yielded(i, d) /\ old \notin known THEN {old} ELSE {}
  IN  (IF keep THEN KeysOn(i, d) ELSE {}) \union back \union {pick.key}

NewGave(i, d) ==
  IF d <= bind[i].to \/ Yielded(i, d) THEN gave[i][d] \ {pick.key} ELSE {}

\* Mutant: a blocked day gets the new Key although another binding has it.
StuckHeldAlways(i, d) == {pick.key}

\* A blocked day before them gets the new Key, but gives it away if another
\* binding has it.
StuckHeld(i, d) == IF HeldByOther(i, pick.key, d) THEN {} ELSE {pick.key}

Again == {<<pick.who, d>> : d \in pick.again}

CommitPick ==
  /\ pick # NoPick
  /\ pick' = NoPick
  /\ LET i     == pick.who
         both  == pick.first..pick.today
         stuck == {d \in pick.stuck : d < pick.first}
         fill  == {d \in bind[i].from..(pick.today - 1) : Recorded(i, d) = {}}
     IN  IF Taken(pick.key, i) THEN UNCHANGED <<bind, rows>> ELSE
         /\ held' = [held EXCEPT ![i] = [d \in Days |->
              CASE d \in both -> NewHeld(i, d)
                [] d \in stuck -> StuckHeld(i, d)
                [] d \in fill \ (both \union stuck) -> {bind[i].key}
                [] OTHER -> @[d]]]
         /\ gave' = [gave EXCEPT ![i] = [d \in Days |->
              CASE d \in both -> NewGave(i, d)
                [] d \in stuck -> {pick.key} \ StuckHeld(i, d)
                [] OTHER -> @[d]]]
         /\ queued' = queued \union Again
         /\ blocked' = blocked \ {<<i, d>> : d \in pick.stuck}
         /\ bind' = [bind EXCEPT ![i].key = pick.key, ![i].to = Open]
         /\ UNCHANGED <<booked, fixed>>
  /\ UNCHANGED <<day, used, earned, history, ops>>

-----------------------------------------------------------------------------
(* A finished day is settled, or settled anew; the wait after midnight is  *)
(* longer than a change of a Key takes.  A day with revenue whose Keys     *)
(* were not used, and all count here, is put to a person.                  *)
Settle(i, d) ==
  /\ d < day /\ InRange(i, d)
  /\ pick # NoPick => d < pick.today
  /\ <<i, d>> \notin fixed \ queued
  /\ LET paid == KeysOn(i, d) \ Lost(i, d) IN
     IF /\ <<bind[i].chan, d>> \in earned
        /\ \A k \in paid : <<k, d>> \notin used
        /\ Lost(i, d) = {}
     THEN /\ <<i, d>> \notin blocked
          /\ blocked' = blocked \union {<<i, d>>}
          /\ overtaken' = IF pick.who = i /\ d >= pick.first
                          THEN overtaken \union {<<i, d>>} ELSE overtaken
          /\ UNCHANGED <<booked, fixed, queued, raced>>
     ELSE /\ booked' = [booked EXCEPT ![i][d] = paid]
          /\ fixed' = fixed \union {<<i, d>>}
          /\ queued' = queued \ {<<i, d>>}
          /\ blocked' = blocked \ {<<i, d>>}
          /\ raced' = IF pick.who = i /\ (d >= pick.first \/ d \in pick.stuck)
                      THEN raced \union {<<i, d>>} ELSE raced
          /\ UNCHANGED overtaken
  /\ UNCHANGED <<day, bind, held, gave, used, earned, pick, ops>>

Next ==
  \/ NewDay
  \/ \E c \in Chans, k \in Keys : Sell(c, k) \/ Create(c, k)
  \/ \E i \in Bindings : Stop(i) \/ Reopen(i)
  \/ \E i \in Bindings, k \in Keys, reopen \in BOOLEAN : ReadPick(i, k, reopen)
  \/ CommitPick
  \/ \E i \in Bindings, d \in Days : Settle(i, d)

Spec == Init /\ [][Next]_vars

-----------------------------------------------------------------------------
Settled(i, d) == <<i, d>> \in fixed \ queued

(* What the upstream took for a Key on a day is in the cost of one binding *)
(* at most ("一把 Key 一天只算在一个渠道上"), whatever the order in which  *)
(* the bindings are made, changed for past days, stopped and settled.  Not *)
(* so after a day was booked while a change of its Keys was under way.     *)
PaidOnce ==
  \A k \in Keys, d \in Days, i, j \in Bindings :
    /\ Settled(i, d) /\ k \in booked[i][d]
    /\ Settled(j, d) /\ k \in booked[j][d]
    /\ {<<i, d>>, <<j, d>>} \intersect raced = {}
    => i = j

(* Once every binding of a day is settled, a Key that was used on the day  *)
(* and is one of a binding's on that day is in the cost of some binding:   *)
(* none is given away or lost to a binding that does not pay for it.  Not  *)
(* so after a day was booked, or put to a person, while a change of its    *)
(* Keys was under way: the day is then still up for the next change, which *)
(* replaces its Keys although they were used.                              *)
NothingDropped ==
  \A k \in Keys, d \in 0..(day - 1) :
    LET here == {i \in Bindings : InRange(i, d)} IN
    /\ <<k, d>> \in used
    /\ \E i \in here : k \in Recorded(i, d) \union KeysOn(i, d)
    /\ \A i \in here : Settled(i, d) /\ <<i, d>> \notin raced \union overtaken
    => \E i \in here : k \in booked[i][d]
=============================================================================
