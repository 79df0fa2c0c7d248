---------------------------- MODULE KeyDaysProofs ----------------------------
(***************************************************************************)
(* Proofs about KeyDays, for any channels, Keys, bindings, days and steps  *)
(* of a person.                                                            *)
(***************************************************************************)
EXTENDS KeyDays, SequenceTheorems, WellFoundedInduction, TLAPS

USE KeyDaysAssumption

-----------------------------------------------------------------------------
(* Numbers. *)

\* A set of numbers that is not empty has a smallest element.
Less == {p \in Nat \X Nat : p[1] < p[2]}

LEMMA Smallest ==
  ASSUME NEW S, S \subseteq Nat, S # {}
  PROVE  \E x \in S : \A y \in S : x <= y
<1>1. IsWellFoundedOn(Less, Nat)
  BY NatLessThanWellFounded DEF OpToRel, Less
<1>2. PICK x \in S : \A y \in S : ~(<<y, x>> \in Less)
  BY <1>1, WFMin
<1>3. \A u, v \in Nat : u < v => <<u, v>> \in Less
  BY DEF Less
<1>4. \A y \in S : ~(y < x)
  BY <1>2, <1>3
<1> QED BY <1>2, <1>4

LEMMA SmallestOfDays ==
  ASSUME NEW S, S \subseteq Days, S # {}
  PROVE  \E x \in S : \A y \in S : x <= y
<1>1. S \subseteq Nat
  BY DEF Days
<1> QED BY <1>1, Smallest

\* Of some bindings one was made last.
LEMMA LastMade ==
  ASSUME NEW S, S \subseteq Slots, S # {}
  PROVE  \E x \in S : \A y \in S : y <= x
<1> DEFINE R == {n \in Nat : \E x \in S : x + n = MaxBindings}
<1>1. \A x \in S : x \in Nat /\ x <= MaxBindings /\ MaxBindings \in Nat
  BY DEF Slots
<1>2. \A x \in S : MaxBindings - x \in R
  BY <1>1
<1>3. R # {} /\ R \subseteq Nat
  BY <1>2
<1> HIDE DEF R
<1>4. PICK n \in R : \A m \in R : n <= m
  BY <1>3, Smallest
<1>5. PICK x \in S : x + n = MaxBindings /\ n \in Nat
  BY <1>4 DEF R
<1>6. \A y \in S : n <= MaxBindings - y
  BY <1>2, <1>4
<1> QED BY <1>1, <1>5, <1>6

-----------------------------------------------------------------------------
(* Types. *)

Binds == [chan : Chans, key : Keys, from : Days, to : Days \cup {Open}]
Picks == [who : Slots, key : Keys, today : Days, first : Days,
          again : SUBSET Days, stuck : SUBSET Days]

Types ==
  /\ day \in Days
  /\ bind \in Seq(Binds) /\ Len(bind) <= MaxBindings
  /\ held \in [Slots -> [Days -> SUBSET Keys]]
  /\ gave \in [Slots -> [Days -> SUBSET Keys]]
  /\ booked \in [Slots -> [Days -> SUBSET Keys]]
  /\ fixed \subseteq Slots \X Days /\ queued \subseteq fixed
  /\ blocked \subseteq Slots \X Days
  /\ raced \subseteq Slots \X Days /\ overtaken \subseteq Slots \X Days
  /\ used \subseteq Keys \X Days /\ earned \subseteq Chans \X Days
  /\ pick = NoPick \/ (pick \in Picks /\ pick.who \in Bindings)

\* The bindings are the first slots, and each is one.
LEMMA BindFacts ==
  ASSUME Types
  PROVE  /\ Bindings = 1..Len(bind) /\ Len(bind) \in Nat /\ Bindings \subseteq Slots
         /\ \A i \in Bindings : bind[i] \in Binds
<1>1. Len(bind) \in Nat /\ Bindings = 1..Len(bind) /\ \A i \in 1..Len(bind) : bind[i] \in Binds
  BY LenProperties, ElementOfSeq DEF Types, Bindings
<1> QED BY <1>1 DEF Types, Slots

LEMMA TypesInit == Init => Types
<1> SUFFICES ASSUME Init PROVE Types
  OBVIOUS
<1>1. day \in Days /\ bind \in Seq(Binds) /\ Len(bind) <= MaxBindings
  BY EmptySeq DEF Init, Days
<1>2. held \in [Slots -> [Days -> SUBSET Keys]]
  BY DEF Init
<1> QED BY <1>1, <1>2 DEF Init, Types

\* The bindings after a person has made, stopped, reopened or changed one.
LEMMA BindStep ==
  ASSUME Types, NEW i \in Bindings, NEW e \in Binds, bind' = [bind EXCEPT ![i] = e]
  PROVE  /\ bind' \in Seq(Binds) /\ Len(bind') = Len(bind) /\ Bindings' = Bindings
         /\ bind'[i] = e /\ \A j \in Bindings \ {i} : bind'[j] = bind[j]
<1>1. bind \in Seq(Binds) /\ i \in 1..Len(bind) /\ Bindings = 1..Len(bind)
  BY BindFacts DEF Types
<1>2. /\ bind' \in Seq(Binds) /\ Len(bind') = Len(bind)
      /\ \A j \in 1..Len(bind) : bind'[j] = IF j = i THEN e ELSE bind[j]
  BY <1>1, ExceptSeq
<1>3. Bindings' = 1..Len(bind')
  BY <1>2, LenProperties DEF Bindings
<1> QED BY <1>1, <1>2, <1>3

LEMMA StopStep ==
  ASSUME Types, NEW i \in Bindings, NEW d \in Days \cup {Open}, bind' = [bind EXCEPT ![i].to = d]
  PROVE  /\ bind' \in Seq(Binds) /\ Len(bind') = Len(bind) /\ Bindings' = Bindings
         /\ bind'[i].key = bind[i].key /\ bind'[i].from = bind[i].from /\ bind'[i].to = d
         /\ \A j \in Bindings \ {i} : bind'[j] = bind[j]
<1> DEFINE e == [bind[i] EXCEPT !.to = d]
<1>1. bind[i] \in Binds
  BY BindFacts
<1>2. e \in Binds /\ e.key = bind[i].key /\ e.from = bind[i].from /\ e.to = d
  BY <1>1 DEF Binds
<1>3. bind' = [bind EXCEPT ![i] = e]
  OBVIOUS
<1> HIDE DEF e
<1>4. /\ bind' \in Seq(Binds) /\ Len(bind') = Len(bind) /\ Bindings' = Bindings
      /\ bind'[i] = e /\ \A j \in Bindings \ {i} : bind'[j] = bind[j]
  BY <1>2, <1>3, BindStep
<1> QED BY <1>2, <1>4

LEMMA ChosenStep ==
  ASSUME Types, NEW i \in Bindings, NEW k \in Keys,
         bind' = [bind EXCEPT ![i].key = k, ![i].to = Open]
  PROVE  /\ bind' \in Seq(Binds) /\ Len(bind') = Len(bind) /\ Bindings' = Bindings
         /\ bind'[i].key = k /\ bind'[i].from = bind[i].from /\ bind'[i].to = Open
         /\ \A j \in Bindings \ {i} : bind'[j] = bind[j]
<1> DEFINE e == [bind[i] EXCEPT !.key = k, !.to = Open]
<1>1. bind[i] \in Binds
  BY BindFacts
<1>2. e \in Binds /\ e.key = k /\ e.from = bind[i].from /\ e.to = Open
  BY <1>1 DEF Binds
<1>3. bind' = [bind EXCEPT ![i] = e]
  BY <1>1 DEF Binds
<1> HIDE DEF e
<1>4. /\ bind' \in Seq(Binds) /\ Len(bind') = Len(bind) /\ Bindings' = Bindings
      /\ bind'[i] = e /\ \A j \in Bindings \ {i} : bind'[j] = bind[j]
  BY <1>2, <1>3, BindStep
<1> QED BY <1>2, <1>4

LEMMA CreateStep ==
  ASSUME Types, NEW c \in Chans, NEW k \in Keys, Create(c, k)
  PROVE  /\ bind' \in Seq(Binds) /\ Len(bind') = Len(bind) + 1 /\ Bindings' = 1..Len(bind')
         /\ bind'[Len(bind) + 1] = [chan |-> c, key |-> k, from |-> day, to |-> Open]
         /\ \A j \in Bindings : j \in Bindings' /\ bind'[j] = bind[j]
<1> DEFINE e == [chan |-> c, key |-> k, from |-> day, to |-> Open]
<1>1. e \in Binds /\ bind \in Seq(Binds)
  BY DEF Types, Binds
<1>2. bind' = Append(bind, e)
  BY DEF Create
<1> HIDE DEF e
<1>3. /\ bind' \in Seq(Binds) /\ Len(bind') = Len(bind) + 1
      /\ \A j \in 1..Len(bind) : bind'[j] = bind[j]
      /\ bind'[Len(bind) + 1] = e
  BY <1>1, <1>2, AppendProperties
<1>4. Bindings' = 1..Len(bind')
  BY <1>3, LenProperties DEF Bindings
<1> QED BY <1>3, <1>4, BindFacts DEF e

-----------------------------------------------------------------------------
(* Days. *)

\* A day that is over, also for the change of a Key under way.
Over(d) == d < day /\ (pick # NoPick => d < pick.today)

\* What is said of a day is said of one that is over and in the range of the
\* binding; Keys are recorded up to today and given away up to yesterday; a Key
\* counts for a binding on a day or was given away, never both.
Calendar ==
  /\ \A i \in Bindings : bind[i].from <= day /\ (bind[i].to = Open \/ bind[i].to <= day)
  /\ pick # NoPick => /\ pick.first <= pick.today /\ pick.today <= day
                      /\ \A d \in pick.stuck : Over(d)
                      /\ \A d \in pick.again : <<pick.who, d>> \in fixed
  /\ \A i \in Slots, d \in Days :
       /\ <<i, d>> \in fixed \cup blocked \cup raced \cup overtaken =>
            i \in Bindings /\ InRange(i, d) /\ Over(d)
       /\ held[i][d] # {} => d <= day /\ (pick # NoPick => d <= pick.today)
       /\ gave[i][d] # {} => i \in Bindings /\ Over(d)
       /\ held[i][d] \cap gave[i][d] = {}

Unused(i, d) == \A k \in KeysOn(i, d) : <<k, d>> \notin used

\* The Keys of a blocked day were not used, unless it was blocked while they
\* were changed; what the change under way has read of its binding's days is
\* so still, or is on record as raced or overtaken.
Blocked ==
  /\ \A i \in Slots, d \in Days :
       <<i, d>> \in blocked => ~Settled(i, d) /\ (<<i, d>> \in overtaken \/ Unused(i, d))
  /\ pick # NoPick => \A d \in Days :
       LET x == <<pick.who, d>> IN
       /\ d \in pick.stuck => /\ x \in overtaken \/ Unused(pick.who, d)
                              /\ x \in raced \/ ~Settled(pick.who, d)
       /\ d \in pick.first..pick.today =>
            /\ x \in blocked => d \in pick.stuck \/ x \in overtaken
            /\ x \in fixed => d \in pick.again \/ x \in raced

-----------------------------------------------------------------------------
(* Who has a Key on a day. *)

Clean(d) == \A i \in Slots : <<i, d>> \notin raced \cup overtaken
Has(i, k, d) == i \in Bindings /\ InRange(i, d) /\ k \in KeysOn(i, d)

\* A used Key that was given away is a binding's; one that is not in the cost
\* of a settled day of a binding that has it, is a later binding's too.
Given ==
  \A i \in Slots, d \in Days : \A k \in gave[i][d] :
    Clean(d) /\ <<k, d>> \in used => \E j \in Slots : Has(j, k, d)
Carried ==
  \A j \in Slots, d \in Days, k \in Keys :
    Clean(d) /\ <<k, d>> \in used /\ Has(j, k, d) /\ Settled(j, d) =>
      k \in booked[j][d] \/ \E l \in Slots : l > j /\ Has(l, k, d)

DayInv == Types /\ Calendar /\ Blocked /\ Given /\ Carried

-----------------------------------------------------------------------------
(* The change of a Key that a person has chosen. *)

LEMMA PickType ==
  ASSUME Types, NEW i \in Bindings, NEW k \in Keys, NEW reopen \in BOOLEAN, ReadPick(i, k, reopen),
         Calendar
  PROVE  /\ pick' \in Picks /\ pick'.who = i /\ pick'.key = k /\ pick'.today = day
         /\ pick'.first <= day
         /\ pick'.again = {d \in pick'.first..day : d < day /\ <<i, d>> \in fixed}
         /\ pick'.stuck = {d \in Days : <<i, d>> \in blocked}
<1>1. day \in Days /\ bind[i].from \in Days /\ bind[i].from <= day /\ i \in Slots
  BY BindFacts DEF Types, Binds, Calendar
<1> DEFINE found == {d \in bind[i].from..day : \A e \in d..(day - 1) : <<k, e>> \in used /\ ~HeldByOther(i, k, e)}
<1>2. day \in found
  BY <1>1 DEF Days
<1>3. found \subseteq Days /\ \A d \in found : d <= day
  BY <1>1 DEF Days
<1>4. PICK first \in found : \A e \in found : first <= e
  BY <1>2, <1>3, SmallestOfDays
<1>5. (CHOOSE d \in found : \A e \in found : d <= e) \in found
  BY <1>4
<1>6. FirstUse(i, k) \in Days /\ FirstUse(i, k) <= day
  <2>1. FirstUse(i, k) = IF HeldByOther(i, k, day) THEN day ELSE CHOOSE d \in found : \A e \in found : d <= e
    BY DEF FirstUse
  <2> QED BY <1>1, <1>3, <1>5, <2>1 DEF Days
<1> DEFINE again == {d \in FirstUse(i, k)..day : d < day /\ <<i, d>> \in fixed}
           stuck == {d \in Days : <<i, d>> \in blocked}
<1>7. again \in SUBSET Days /\ stuck \in SUBSET Days
  BY <1>1, <1>6 DEF Days
<1>8. pick' = [who |-> i, key |-> k, today |-> day, first |-> FirstUse(i, k), again |-> again, stuck |-> stuck]
  BY DEF ReadPick
<1>9. PICK a, s : a = again /\ s = stuck
  OBVIOUS
<1>10. PICK f : f = FirstUse(i, k)
  OBVIOUS
<1>11. pick' = [who |-> i, key |-> k, today |-> day, first |-> f, again |-> a, stuck |-> s]
  BY <1>8, <1>9, <1>10
<1>12. a \in SUBSET Days /\ s \in SUBSET Days /\ f \in Days /\ f <= day
  BY <1>6, <1>7, <1>9, <1>10
<1>13. pick' \in Picks
  BY <1>1, <1>11, <1>12 DEF Picks
<1>14. a = {d \in f..day : d < day /\ <<i, d>> \in fixed} /\ s = {d \in Days : <<i, d>> \in blocked}
  BY <1>9, <1>10
<1> QED BY <1>11, <1>12, <1>13, <1>14

\* The days whose Keys a change writes: those on which both Keys count, those
\* that were blocked before them, and those without a record.
LEMMA CommitWrites ==
  ASSUME Types, NEW p \in Picks, pick = p, p.who \in Bindings, ~Taken(p.key, p.who), CommitPick
  PROVE  /\ DOMAIN held' = Slots /\ DOMAIN gave' = Slots
         /\ \A i \in Slots \ {p.who} : held'[i] = held[i] /\ gave'[i] = gave[i]
         /\ DOMAIN held'[p.who] = Days /\ DOMAIN gave'[p.who] = Days
         /\ \A d \in Days :
              /\ d \in p.first..p.today =>
                   held'[p.who][d] = NewHeld(p.who, d) /\ gave'[p.who][d] = NewGave(p.who, d)
              /\ d \notin p.first..p.today /\ d \in p.stuck /\ d < p.first =>
                   /\ held'[p.who][d] = StuckHeld(p.who, d)
                   /\ gave'[p.who][d] = {p.key} \ StuckHeld(p.who, d)
              /\ d \notin p.first..p.today /\ ~(d \in p.stuck /\ d < p.first) =>
                   /\ gave'[p.who][d] = gave[p.who][d]
                   /\ held'[p.who][d] =
                        IF d \in bind[p.who].from..(p.today - 1) /\ Recorded(p.who, d) = {}
                        THEN {bind[p.who].key} ELSE held[p.who][d]
<1> DEFINE w == p.who
           both == p.first..p.today
           stuck == {d \in p.stuck : d < p.first}
           fill == {d \in bind[w].from..(p.today - 1) : Recorded(w, d) = {}}
           H(d) == CASE d \in both -> NewHeld(w, d)
                     [] d \in stuck -> StuckHeld(w, d)
                     [] d \in fill \ (both \cup stuck) -> {bind[w].key}
                     [] OTHER -> held[w][d]
           G(d) == CASE d \in both -> NewGave(w, d)
                     [] d \in stuck -> {p.key} \ StuckHeld(w, d)
                     [] OTHER -> gave[w][d]
<1>1. w \in Slots /\ held \in [Slots -> [Days -> SUBSET Keys]] /\ gave \in [Slots -> [Days -> SUBSET Keys]]
  BY BindFacts DEF Types
<1>2. /\ held' = [held EXCEPT ![w] = [d \in Days |-> H(d)]]
      /\ gave' = [gave EXCEPT ![w] = [d \in Days |-> G(d)]]
  BY DEF CommitPick
<1>3. \A d \in stuck : d \notin both
  BY DEF Picks, Days
<1> HIDE DEF H, G
<1>4. /\ DOMAIN held' = Slots /\ DOMAIN gave' = Slots
      /\ \A i \in Slots \ {w} : held'[i] = held[i] /\ gave'[i] = gave[i]
      /\ held'[w] = [d \in Days |-> H(d)] /\ gave'[w] = [d \in Days |-> G(d)]
  BY <1>1, <1>2
<1>5. ASSUME NEW d \in Days
      PROVE  /\ d \in both => H(d) = NewHeld(w, d) /\ G(d) = NewGave(w, d)
             /\ d \notin both /\ d \in stuck =>
                  H(d) = StuckHeld(w, d) /\ G(d) = {p.key} \ StuckHeld(w, d)
             /\ d \notin both /\ d \notin stuck =>
                  /\ G(d) = gave[w][d]
                  /\ H(d) = IF d \in fill THEN {bind[w].key} ELSE held[w][d]
  <2> HIDE DEF both, stuck, fill
  <2> QED BY <1>3 DEF H, G
<1>6. \A d : (d \in stuck <=> d \in p.stuck /\ d < p.first)
             /\ (d \in fill <=> d \in bind[w].from..(p.today - 1) /\ Recorded(w, d) = {})
  OBVIOUS
<1> HIDE DEF stuck, fill
<1> QED BY <1>4, <1>5, <1>6

\* What the change writes are Keys.
LEMMA CommitTypes ==
  ASSUME Types, NEW p \in Picks, pick = p, p.who \in Bindings, ~Taken(p.key, p.who), CommitPick
  PROVE  /\ held' \in [Slots -> [Days -> SUBSET Keys]]
         /\ gave' \in [Slots -> [Days -> SUBSET Keys]]
<1>1. /\ p.who \in Slots /\ bind[p.who] \in Binds /\ p.key \in Keys
      /\ held \in [Slots -> [Days -> SUBSET Keys]] /\ gave \in [Slots -> [Days -> SUBSET Keys]]
  BY BindFacts DEF Types, Picks
<1>2. ASSUME NEW d \in Days
      PROVE  held'[p.who][d] \in SUBSET Keys /\ gave'[p.who][d] \in SUBSET Keys
  <2>1. held[p.who][d] \in SUBSET Keys /\ gave[p.who][d] \in SUBSET Keys /\ bind[p.who].key \in Keys
    BY <1>1 DEF Binds
  <2>2. KeysOn(p.who, d) \in SUBSET Keys /\ Recorded(p.who, d) \in SUBSET Keys
    BY <2>1 DEF KeysOn, Recorded
  <2>3. NewHeld(p.who, d) \in SUBSET Keys /\ NewGave(p.who, d) \in SUBSET Keys
    BY <1>1, <2>1, <2>2 DEF NewHeld, NewGave
  <2>4. StuckHeld(p.who, d) \in SUBSET Keys
    BY <1>1 DEF StuckHeld
  <2>5. CASE d \in p.first..p.today
    BY <2>3, <2>5, CommitWrites
  <2>6. CASE d \notin p.first..p.today /\ d \in p.stuck /\ d < p.first
    <3>1. held'[p.who][d] = StuckHeld(p.who, d) /\ gave'[p.who][d] = {p.key} \ StuckHeld(p.who, d)
      BY <2>6, CommitWrites
    <3> QED BY <1>1, <2>4, <3>1
  <2>7. CASE d \notin p.first..p.today /\ ~(d \in p.stuck /\ d < p.first)
    <3>1. gave'[p.who][d] = gave[p.who][d] /\ held'[p.who][d] \in {{bind[p.who].key}, held[p.who][d]}
      BY <2>7, CommitWrites
    <3> QED BY <2>1, <3>1
  <2> QED BY <2>5, <2>6, <2>7
<1>3. /\ DOMAIN held' = Slots /\ DOMAIN gave' = Slots
      /\ \A i \in Slots \ {p.who} : held'[i] = held[i] /\ gave'[i] = gave[i]
      /\ DOMAIN held'[p.who] = Days /\ DOMAIN gave'[p.who] = Days
  BY CommitWrites
\* That they are functions shows on what they are written from.
<1>4. /\ held' = [i \in Slots |-> held'[i]] /\ gave' = [i \in Slots |-> gave'[i]]
      /\ held'[p.who] = [d \in Days |-> held'[p.who][d]]
      /\ gave'[p.who] = [d \in Days |-> gave'[p.who][d]]
  BY <1>1, <1>3 DEF CommitPick
<1>5. held'[p.who] \in [Days -> SUBSET Keys] /\ gave'[p.who] \in [Days -> SUBSET Keys]
  BY <1>2, <1>4
<1>6. \A i \in Slots : held'[i] \in [Days -> SUBSET Keys] /\ gave'[i] \in [Days -> SUBSET Keys]
  BY <1>1, <1>3, <1>5
<1> QED BY <1>4, <1>6

LEMMA TypesNext ==
  ASSUME Types, Calendar, [Next]_vars
  PROVE  Types'
<1>0. Bindings = 1..Len(bind) /\ Len(bind) \in Nat /\ Bindings \subseteq Slots /\ day \in Days
  BY BindFacts DEF Types
<1>1. CASE UNCHANGED vars
  BY <1>1 DEF vars, Types, Bindings
<1>2. CASE NewDay
  <2>1. day + 1 \in Days
    BY <1>0, <1>2 DEF NewDay, Days
  <2> QED BY <1>2, <2>1 DEF NewDay, Types, Bindings, rows, history
<1>3. ASSUME NEW c \in Chans, NEW k \in Keys, Sell(c, k) PROVE Types'
  <2>1. used' \subseteq Keys \X Days /\ earned' \subseteq Chans \X Days
    BY <1>0, <1>3 DEF Sell, Types
  <2> QED BY <1>3, <2>1 DEF Sell, Types, Bindings, rows, history
<1>4. ASSUME NEW c \in Chans, NEW k \in Keys, Create(c, k) PROVE Types'
  <2>1. bind' \in Seq(Binds) /\ Len(bind') = Len(bind) + 1
    BY <1>4, CreateStep
  <2>2. Len(bind') <= MaxBindings
    BY <1>0, <1>4, <2>1 DEF Create
  <2>3. pick' = NoPick
    BY <1>4 DEF Create, Act
  <2> QED BY <1>4, <2>1, <2>2, <2>3 DEF Create, Types, rows, history
<1>5. ASSUME NEW i \in Bindings, Stop(i) \/ Reopen(i) PROVE Types'
  <2>1. PICK d \in Days \cup {Open} : bind' = [bind EXCEPT ![i].to = d]
    BY <1>0, <1>5 DEF Stop, Reopen
  <2>3. bind' \in Seq(Binds) /\ Len(bind') = Len(bind)
    BY <2>1, StopStep
  <2>4. pick' = NoPick
    BY <1>5 DEF Stop, Reopen, Act
  <2> QED BY <1>5, <2>3, <2>4 DEF Stop, Reopen, Types, rows, history
<1>6. ASSUME NEW i \in Bindings, NEW k \in Keys, NEW reopen \in BOOLEAN, ReadPick(i, k, reopen)
      PROVE  Types'
  <2>1. pick' \in Picks /\ pick'.who = i /\ Bindings' = Bindings
    BY <1>6, PickType DEF ReadPick, Bindings
  <2> QED BY <1>6, <2>1 DEF ReadPick, Types, rows, history
<1>7. CASE CommitPick
  <2>1. PICK p \in Picks : pick = p /\ p.who \in Bindings
    BY <1>7 DEF CommitPick, Types
  <2>2. pick' = NoPick /\ UNCHANGED <<day, used, earned, raced, overtaken>>
    BY <1>7 DEF CommitPick, history
  <2>3. CASE Taken(p.key, p.who)
    <3>1. UNCHANGED <<bind, held, gave, booked, fixed, queued, blocked>>
      BY <1>7, <2>1, <2>3 DEF CommitPick, rows
    <3> QED BY <2>2, <3>1 DEF Types
  <2>4. CASE ~Taken(p.key, p.who)
    <3>1. /\ bind' = [bind EXCEPT ![p.who].key = p.key, ![p.who].to = Open]
          /\ UNCHANGED <<booked, fixed>>
          /\ queued' = queued \cup {<<p.who, d>> : d \in p.again}
          /\ blocked' = blocked \ {<<p.who, d>> : d \in p.stuck}
      BY <1>7, <2>1, <2>4 DEF CommitPick, Again
    <3>2. bind' \in Seq(Binds) /\ Len(bind') = Len(bind)
      <4>1. PICK k, i : k = p.key /\ i = p.who
        OBVIOUS
      <4>2. k \in Keys /\ i \in Bindings /\ bind' = [bind EXCEPT ![i].key = k, ![i].to = Open]
        BY <2>1, <3>1, <4>1 DEF Picks
      <4> QED BY <4>2, ChosenStep
    <3>3. \A d \in p.again : <<p.who, d>> \in fixed
      BY <2>1 DEF Calendar, NoPick, Picks
    <3>4. queued' \subseteq fixed' /\ blocked' \subseteq Slots \X Days
      BY <3>1, <3>3 DEF Types
    <3>5. held' \in [Slots -> [Days -> SUBSET Keys]] /\ gave' \in [Slots -> [Days -> SUBSET Keys]]
      BY <1>7, <2>1, <2>4, CommitTypes
    <3> QED BY <2>2, <3>1, <3>2, <3>4, <3>5 DEF Types
  <2> QED BY <2>3, <2>4
<1>8. ASSUME NEW i \in Bindings, NEW d \in Days, Settle(i, d) PROVE Types'
  <2>1. KeysOn(i, d) \in SUBSET Keys /\ i \in Slots
    BY <1>0, BindFacts DEF KeysOn, Recorded, Types, Binds
  <2>2. booked' \in [Slots -> [Days -> SUBSET Keys]]
    <3>1. KeysOn(i, d) \ Lost(i, d) \in SUBSET Keys
      BY <2>1
    <3>2. booked' = booked \/ booked' = [booked EXCEPT ![i][d] = KeysOn(i, d) \ Lost(i, d)]
      BY <1>8 DEF Settle
    <3>3. PICK paid \in SUBSET Keys : paid = KeysOn(i, d) \ Lost(i, d)
      BY <3>1
    <3>4. booked \in [Slots -> [Days -> SUBSET Keys]]
      BY DEF Types
    <3>5. [booked EXCEPT ![i][d] = paid] \in [Slots -> [Days -> SUBSET Keys]]
      BY <2>1, <3>3, <3>4
    <3> QED BY <3>2, <3>3, <3>4, <3>5
  <2>3. /\ fixed' \subseteq Slots \X Days /\ queued' \subseteq fixed' /\ blocked' \subseteq Slots \X Days
        /\ raced' \subseteq Slots \X Days /\ overtaken' \subseteq Slots \X Days
    <3>1. /\ fixed' \in {fixed, fixed \cup {<<i, d>>}}
          /\ queued' \in {queued, queued \ {<<i, d>>}} /\ fixed \subseteq fixed'
          /\ blocked' \in {blocked \cup {<<i, d>>}, blocked \ {<<i, d>>}}
          /\ raced' \in {raced, raced \cup {<<i, d>>}}
          /\ overtaken' \in {overtaken, overtaken \cup {<<i, d>>}}
      BY <1>8 DEF Settle
    <3> QED BY <2>1, <3>1 DEF Types
  <2>4. UNCHANGED <<day, bind, held, gave, used, earned, pick>> /\ Bindings' = Bindings
    BY <1>8 DEF Settle, Bindings
  <2> QED BY <2>2, <2>3, <2>4 DEF Types
<1> QED BY <1>1, <1>2, <1>3, <1>4, <1>5, <1>6, <1>7, <1>8 DEF Next

-----------------------------------------------------------------------------
(* Steps that leave the records as they are: days pass, Keys are used, and     *)
(* bindings are made, stopped and opened again.                                *)

Tended ==
  /\ UNCHANGED <<held, gave, booked, fixed, queued, blocked, raced, overtaken>>
  /\ day <= day' /\ day' \in Days
  /\ used \subseteq used' /\ \A k \in Keys, d \in Days : <<k, d>> \in used' => <<k, d>> \in used \/ d = day
  /\ \A i \in Bindings :
       /\ i \in Bindings' /\ bind'[i].key = bind[i].key /\ bind'[i].from = bind[i].from
       /\ bind'[i].to = bind[i].to \/ bind'[i].to = Open \/ (bind[i].to = Open /\ bind'[i].to = day)
  /\ \A i \in Bindings' : bind'[i].from <= day' /\ (bind'[i].to = Open \/ bind'[i].to <= day')

LEMMA TendedKeys ==
  ASSUME Types, Tended, NEW i \in Bindings, NEW d \in Days
  PROVE  /\ i \in Bindings' /\ KeysOn(i, d)' = KeysOn(i, d)
         /\ d <= day /\ InRange(i, d) => InRange(i, d)'
         /\ d < day /\ Unused(i, d) => Unused(i, d)'
         /\ \A k \in Keys : d < day /\ Has(i, k, d) => Has(i, k, d)'
<1>1. /\ i \in Bindings' /\ bind'[i].key = bind[i].key /\ bind'[i].from = bind[i].from
      /\ bind'[i].to = bind[i].to \/ bind'[i].to = Open \/ (bind[i].to = Open /\ bind'[i].to = day)
      /\ held' = held /\ gave' = gave
  BY DEF Tended
<1>2. /\ day \in Nat /\ d \in Nat /\ d < Open /\ day < Open
      /\ bind[i].to \in Nat /\ bind[i].from \in Nat /\ Open \in Nat
      /\ bind[i].key \in Keys /\ i \in Slots
  <2>1. bind[i] \in Binds /\ i \in Slots /\ day \in Days
    BY BindFacts DEF Types
  <2>2. bind[i].to \in Days \cup {Open} /\ bind[i].from \in Days /\ bind[i].key \in Keys
    BY <2>1 DEF Binds
  <2>3. \A e \in Days : e \in Nat /\ e < Open
    BY DEF Days, Open
  <2>4. Open \in Nat
    BY DEF Open
  <2> QED BY <2>1, <2>2, <2>3, <2>4
<1>3. KeysOn(i, d)' = KeysOn(i, d)
  BY <1>1 DEF KeysOn, Recorded
<1>4. d <= day /\ InRange(i, d) => InRange(i, d)'
  BY <1>1, <1>2 DEF InRange
<1>5. KeysOn(i, d) \subseteq Keys
  BY <1>2 DEF KeysOn, Recorded, Types
<1>6. \A k \in Keys : d < day /\ <<k, d>> \notin used => <<k, d>> \notin used'
  BY <1>2 DEF Tended
<1>7. d < day /\ Unused(i, d) => Unused(i, d)'
  BY <1>3, <1>5, <1>6 DEF Unused
<1>8. ASSUME NEW k \in Keys, d < day, Has(i, k, d) PROVE Has(i, k, d)'
  BY <1>1, <1>2, <1>3, <1>4, <1>8 DEF Has
<1> QED BY <1>1, <1>3, <1>4, <1>7, <1>8

LEMMA TendedGiven ==
  ASSUME DayInv, Tended
  PROVE  Given' /\ Carried'
<1>0. Types /\ Calendar /\ day \in Nat /\ Days \subseteq Nat /\ Bindings \subseteq Slots
  <2>1. Types /\ Calendar
    BY DEF DayInv
  <2> QED BY <2>1, BindFacts DEF Types, Days
<1>1. UNCHANGED <<held, gave, booked, fixed, queued, raced, overtaken>>
  BY DEF Tended
<1>2. \A d \in Days : Clean(d)' = Clean(d)
  BY <1>1 DEF Clean
<1>3. \A k \in Keys, d \in Days : d < day /\ <<k, d>> \in used' => <<k, d>> \in used
  BY <1>0 DEF Tended
<1>4. ASSUME NEW j \in Slots, NEW k \in Keys, NEW d \in Days, d < day, Has(j, k, d)
      PROVE  Has(j, k, d)'
  BY <1>0, <1>4, TendedKeys DEF Has
<1>5. Given'
  <2> SUFFICES ASSUME NEW i \in Slots, NEW d \in Days, NEW k \in gave'[i][d], Clean(d)', <<k, d>> \in used'
               PROVE  \E j \in Slots : Has(j, k, d)'
    BY DEF Given
  <2>1. k \in gave[i][d] /\ k \in Keys
    BY <1>0, <1>1 DEF Types
  <2>2. d < day
    BY <1>0, <2>1 DEF Calendar, Over
  <2>3. \E j \in Slots : Has(j, k, d)
    BY <1>2, <1>3, <2>1, <2>2 DEF DayInv, Given
  <2> QED BY <1>4, <2>1, <2>2, <2>3
<1>6. Carried'
  <2> SUFFICES ASSUME NEW j \in Slots, NEW d \in Days, NEW k \in Keys,
                      Clean(d)', <<k, d>> \in used', Has(j, k, d)', Settled(j, d)'
               PROVE  k \in booked'[j][d] \/ \E l \in Slots : l > j /\ Has(l, k, d)'
    BY DEF Carried
  <2>1. Settled(j, d) /\ <<j, d>> \in fixed
    BY <1>1 DEF Settled
  <2>2. j \in Bindings /\ InRange(j, d) /\ d < day
    BY <1>0, <2>1 DEF Calendar, Over
  <2>3. KeysOn(j, d)' = KeysOn(j, d)
    BY <1>0, <2>2, TendedKeys
  <2>4. Has(j, k, d)
    BY <2>2, <2>3 DEF Has
  <2>5. k \in booked[j][d] \/ \E l \in Slots : l > j /\ Has(l, k, d)
    BY <1>2, <1>3, <2>1, <2>2, <2>4 DEF DayInv, Carried
  <2> QED BY <1>1, <1>4, <2>2, <2>5
<1> QED BY <1>5, <1>6

\* With no change under way, or the same as before.
LEMMA TendedDays ==
  ASSUME DayInv, Tended, pick' = pick
  PROVE  Calendar' /\ Blocked'
<1>0. /\ Types /\ Calendar /\ Blocked /\ day \in Nat /\ day' \in Nat /\ Days \subseteq Nat
      /\ Bindings \subseteq Slots /\ day <= day'
  <2>1. Types /\ Calendar /\ Blocked
    BY DEF DayInv
  <2>2. Bindings \subseteq Slots
    BY <2>1, BindFacts
  <2> QED BY <2>1, <2>2 DEF Types, Days, Tended
<1>1. UNCHANGED <<held, gave, booked, fixed, queued, blocked, raced, overtaken>>
  BY DEF Tended
<1>2. ASSUME NEW d \in Days, Over(d) PROVE d < day /\ Over(d)'
  <2>1. d \in Nat /\ d < day /\ d < day'
    BY <1>0, <1>2 DEF Over
  <2> QED BY <1>2, <2>1 DEF Over
<1>3. ASSUME NEW i \in Bindings, NEW d \in Days, d < day, InRange(i, d)
      PROVE  i \in Bindings' /\ InRange(i, d)'
  <2>1. d <= day
    BY <1>0, <1>3
  <2> QED BY <1>0, <1>3, <2>1, TendedKeys
<1>4. Calendar'
  <2>1. \A i \in Bindings' : bind'[i].from <= day' /\ (bind'[i].to = Open \/ bind'[i].to <= day')
    BY DEF Tended
  <2>2. pick # NoPick => /\ pick.first <= pick.today /\ pick.today <= day'
                         /\ \A d \in pick.stuck : Over(d)'
                         /\ \A d \in pick.again : <<pick.who, d>> \in fixed'
    <3> SUFFICES ASSUME pick # NoPick
                 PROVE  /\ pick.first <= pick.today /\ pick.today <= day'
                        /\ \A d \in pick.stuck : Over(d)'
                        /\ \A d \in pick.again : <<pick.who, d>> \in fixed'
      OBVIOUS
    <3>1. /\ pick.first <= pick.today /\ pick.today <= day /\ \A d \in pick.stuck : Over(d)
          /\ \A d \in pick.again : <<pick.who, d>> \in fixed
      BY <1>0 DEF Calendar
    <3>2. pick.stuck \subseteq Days /\ pick.today \in Nat
      BY <1>0 DEF Types, Picks
    <3>3. \A d \in pick.stuck : Over(d)'
      BY <1>2, <3>1, <3>2
    <3>4. pick.today <= day'
      BY <1>0, <3>1, <3>2
    <3> QED BY <1>1, <3>1, <3>3, <3>4
  <2>3. ASSUME NEW i \in Slots, NEW d \in Days
        PROVE  /\ <<i, d>> \in fixed' \cup blocked' \cup raced' \cup overtaken' =>
                    i \in Bindings' /\ InRange(i, d)' /\ Over(d)'
               /\ held'[i][d] # {} => d <= day' /\ (pick # NoPick => d <= pick.today)
               /\ gave'[i][d] # {} => i \in Bindings' /\ Over(d)'
               /\ held'[i][d] \cap gave'[i][d] = {}
    <3>1. /\ <<i, d>> \in fixed \cup blocked \cup raced \cup overtaken =>
               i \in Bindings /\ InRange(i, d) /\ Over(d)
          /\ held[i][d] # {} => d <= day /\ (pick # NoPick => d <= pick.today)
          /\ gave[i][d] # {} => i \in Bindings /\ Over(d)
          /\ held[i][d] \cap gave[i][d] = {}
      BY <1>0 DEF Calendar
    <3>2. i \in Bindings => i \in Bindings'
      BY DEF Tended
    <3>3. d \in Nat
      BY <1>0
    <3> QED BY <1>0, <1>1, <1>2, <1>3, <3>1, <3>2, <3>3
  <2> QED BY <2>1, <2>2, <2>3 DEF Calendar
<1>5. Blocked'
  <2>1. \A i \in Slots, d \in Days : Settled(i, d)' = Settled(i, d)
    BY <1>1 DEF Settled
  <2>2. ASSUME NEW i \in Slots, NEW d \in Days, <<i, d>> \in blocked
        PROVE  ~Settled(i, d)' /\ (<<i, d>> \in overtaken' \/ Unused(i, d)')
    <3>1. i \in Bindings /\ d < day
      BY <1>0, <2>2 DEF Calendar, Over
    <3>2. ~Settled(i, d) /\ (<<i, d>> \in overtaken \/ Unused(i, d))
      BY <1>0, <2>2 DEF Blocked
    <3>3. Unused(i, d) => Unused(i, d)'
      BY <1>0, <3>1, TendedKeys
    <3> QED BY <1>1, <2>1, <3>2, <3>3
  <2>3. ASSUME pick # NoPick, NEW d \in Days
        PROVE  /\ d \in pick.stuck => /\ <<pick.who, d>> \in overtaken' \/ Unused(pick.who, d)'
                                      /\ <<pick.who, d>> \in raced' \/ ~Settled(pick.who, d)'
               /\ d \in pick.first..pick.today =>
                    /\ <<pick.who, d>> \in blocked' => d \in pick.stuck \/ <<pick.who, d>> \in overtaken'
                    /\ <<pick.who, d>> \in fixed' => d \in pick.again \/ <<pick.who, d>> \in raced'
    <3>1. PICK w \in Bindings : pick.who = w
      BY <1>0, <2>3 DEF Types
    <3>2. /\ d \in pick.stuck => /\ <<w, d>> \in overtaken \/ Unused(w, d)
                                 /\ <<w, d>> \in raced \/ ~Settled(w, d)
          /\ d \in pick.first..pick.today =>
               /\ <<w, d>> \in blocked => d \in pick.stuck \/ <<w, d>> \in overtaken
               /\ <<w, d>> \in fixed => d \in pick.again \/ <<w, d>> \in raced
      BY <1>0, <2>3, <3>1 DEF Blocked
    <3>3. d \in pick.stuck => d < day
      BY <1>0, <2>3 DEF Calendar, Over
    <3>4. d < day /\ Unused(w, d) => Unused(w, d)'
      BY <1>0, TendedKeys
    <3>5. Unused(pick.who, d)' = Unused(w, d)'
      BY <3>1
    <3>6. w \in Slots
      BY <1>0
    <3> QED BY <1>1, <2>1, <3>1, <3>2, <3>3, <3>4, <3>5, <3>6
  <2> QED BY <1>1, <2>2, <2>3 DEF Blocked
<1> QED BY <1>4, <1>5

LEMMA NewDayTends == ASSUME Types, Calendar, NewDay PROVE Tended /\ pick' = pick
<1>1. /\ UNCHANGED <<bind, used, pick, held, gave, booked, fixed, queued, blocked, raced, overtaken>>
      /\ day' = day + 1 /\ day < MaxDay /\ day \in 0..MaxDay
  BY DEF NewDay, rows, history, Types, Days
<1>2. day' \in Days /\ day <= day'
  BY <1>1 DEF Days
<1>3. \A i \in Bindings : /\ bind[i].from \in Nat /\ bind[i].to \in Nat
                          /\ bind[i].from <= day /\ (bind[i].to = Open \/ bind[i].to <= day)
  BY BindFacts DEF Calendar, Binds, Days, Open
<1>4. \A i \in Bindings : bind[i].from <= day + 1 /\ (bind[i].to = Open \/ bind[i].to <= day + 1)
  BY <1>1, <1>3
<1> QED BY <1>1, <1>2, <1>4 DEF Tended, Bindings

LEMMA SellTends ==
  ASSUME Types, Calendar, NEW c \in Chans, NEW k \in Keys, Sell(c, k)
  PROVE  Tended /\ pick' = pick
<1>1. /\ UNCHANGED <<day, bind, pick, held, gave, booked, fixed, queued, blocked, raced, overtaken>>
      /\ used' = used \cup {<<k, day>>} /\ day \in Nat /\ day \in Days
  BY DEF Sell, rows, history, Types, Days
<1>2. \A l \in Keys, d \in Days : <<l, d>> \in used' => <<l, d>> \in used \/ d = day
  BY <1>1
<1> QED BY <1>1, <1>2 DEF Tended, Bindings, Calendar

LEMMA CreateTends ==
  ASSUME Types, Calendar, NEW c \in Chans, NEW k \in Keys, Create(c, k)
  PROVE  Tended /\ pick' = pick
<1>1. /\ UNCHANGED <<day, used, pick, held, gave, booked, fixed, queued, blocked, raced, overtaken>>
      /\ day \in Nat /\ day \in Days /\ Len(bind) \in Nat /\ Bindings = 1..Len(bind)
  <2>1. Len(bind) \in Nat /\ Bindings = 1..Len(bind)
    BY BindFacts
  <2> QED BY <2>1 DEF Create, rows, history, Types, Days
<1>2. /\ Bindings' = 1..(Len(bind) + 1)
      /\ bind'[Len(bind) + 1] = [chan |-> c, key |-> k, from |-> day, to |-> Open]
      /\ \A j \in Bindings : j \in Bindings' /\ bind'[j] = bind[j]
  BY CreateStep
<1>3. bind'[Len(bind) + 1].from = day /\ bind'[Len(bind) + 1].to = Open
  BY <1>2
<1>4. \A i \in Bindings' : i = Len(bind) + 1 \/ i \in Bindings
  BY <1>1, <1>2
<1>5. \A i \in Bindings' : bind'[i].from <= day /\ (bind'[i].to = Open \/ bind'[i].to <= day)
  BY <1>1, <1>2, <1>3, <1>4 DEF Calendar
<1> QED BY <1>1, <1>2, <1>5 DEF Tended

LEMMA StopTends ==
  ASSUME Types, Calendar, NEW i \in Bindings, Stop(i) \/ Reopen(i)
  PROVE  Tended /\ pick' = pick
<1>1. /\ UNCHANGED <<day, used, pick, held, gave, booked, fixed, queued, blocked, raced, overtaken>>
      /\ day \in Nat /\ day \in Days
  BY DEF Stop, Reopen, rows, history, Types, Days
<1>2. PICK d \in Days \cup {Open} :
        /\ bind' = [bind EXCEPT ![i].to = d]
        /\ d = Open \/ (bind[i].to = Open /\ d = day)
  BY <1>1 DEF Stop, Reopen, IsOpen
<1>3. /\ Bindings' = Bindings /\ \A j \in Bindings \ {i} : bind'[j] = bind[j]
      /\ bind'[i].key = bind[i].key /\ bind'[i].from = bind[i].from /\ bind'[i].to = d
  BY <1>2, StopStep
<1>4. \A j \in Bindings :
        /\ bind'[j].key = bind[j].key /\ bind'[j].from = bind[j].from
        /\ bind'[j].to = bind[j].to \/ bind'[j].to = Open \/ (bind[j].to = Open /\ bind'[j].to = day)
  BY <1>2, <1>3
<1>5. \A j \in Bindings : bind[j].from <= day /\ (bind[j].to = Open \/ bind[j].to <= day)
  BY DEF Calendar
<1> QED BY <1>1, <1>3, <1>4, <1>5 DEF Tended

\* A change that begins has read the days of its binding as they are.
LEMMA PickDays ==
  ASSUME DayInv, NEW i \in Bindings, NEW k \in Keys, NEW reopen \in BOOLEAN, ReadPick(i, k, reopen)
  PROVE  Calendar' /\ Blocked' /\ Given' /\ Carried'
<1>0. Types /\ Calendar /\ Blocked /\ Given /\ Carried /\ day \in Nat /\ i \in Slots
  <2>1. Types /\ Calendar /\ Blocked /\ Given /\ Carried
    BY DEF DayInv
  <2> QED BY <2>1, BindFacts DEF Types, Days
<1>1. UNCHANGED <<day, bind, used, held, gave, booked, fixed, queued, blocked, raced, overtaken>>
      /\ Bindings' = Bindings /\ pick = NoPick
  BY DEF ReadPick, Act, rows, history, Bindings
<1>2. PICK p \in Picks : /\ pick' = p /\ p.who = i /\ p.today = day /\ p.first <= day
                         /\ p.again = {d \in p.first..day : d < day /\ <<i, d>> \in fixed}
                         /\ p.stuck = {d \in Days : <<i, d>> \in blocked}
  BY <1>0, PickType
<1>3. /\ \A j \in Slots, d \in Days : Settled(j, d)' = Settled(j, d) /\ Unused(j, d)' = Unused(j, d)
      /\ \A j \in Slots, d \in Days : InRange(j, d)' = InRange(j, d)
      /\ \A j \in Slots, d \in Days, l \in Keys : Has(j, l, d)' = Has(j, l, d)
      /\ \A d \in Days : Clean(d)' = Clean(d)
  BY <1>1 DEF Settled, Unused, InRange, Has, KeysOn, Recorded, Clean
<1>4. \A d \in Days : Over(d) <=> d < day
  BY <1>1 DEF Over
<1>5. \A d \in Days : Over(d)' <=> d < day
  BY <1>1, <1>2 DEF Over
<1>6. Calendar'
  <2>1. /\ p.first <= p.today /\ p.today <= day
        /\ \A d \in p.stuck : Over(d)'
        /\ \A d \in p.again : <<i, d>> \in fixed
    <3>1. \A d \in p.stuck : d \in Days /\ Over(d)
      BY <1>0, <1>2 DEF Calendar
    <3> QED BY <1>0, <1>2, <1>4, <1>5, <3>1
  <2>2. ASSUME NEW j \in Slots, NEW d \in Days
        PROVE  /\ <<j, d>> \in fixed' \cup blocked' \cup raced' \cup overtaken' =>
                    j \in Bindings' /\ InRange(j, d)' /\ Over(d)'
               /\ held'[j][d] # {} => d <= day' /\ (pick' # NoPick => d <= pick'.today)
               /\ gave'[j][d] # {} => j \in Bindings' /\ Over(d)'
               /\ held'[j][d] \cap gave'[j][d] = {}
    <3>1. /\ <<j, d>> \in fixed \cup blocked \cup raced \cup overtaken =>
               j \in Bindings /\ InRange(j, d) /\ Over(d)
          /\ held[j][d] # {} => d <= day
          /\ gave[j][d] # {} => j \in Bindings /\ Over(d)
          /\ held[j][d] \cap gave[j][d] = {}
      BY <1>0 DEF Calendar
    <3> QED BY <1>1, <1>2, <1>3, <1>4, <1>5, <3>1
  <2>3. \A j \in Bindings' : bind'[j].from <= day' /\ (bind'[j].to = Open \/ bind'[j].to <= day')
    BY <1>0, <1>1 DEF Calendar
  <2> QED BY <1>1, <1>2, <2>1, <2>2, <2>3 DEF Calendar
<1>7. Blocked'
  <2>1. \A j \in Slots, d \in Days :
          <<j, d>> \in blocked' => ~Settled(j, d)' /\ (<<j, d>> \in overtaken' \/ Unused(j, d)')
    BY <1>0, <1>1, <1>3 DEF Blocked
  <2>2. ASSUME NEW d \in Days
        PROVE  /\ d \in p.stuck => /\ <<i, d>> \in overtaken' \/ Unused(i, d)'
                                   /\ <<i, d>> \in raced' \/ ~Settled(i, d)'
               /\ d \in p.first..p.today =>
                    /\ <<i, d>> \in blocked' => d \in p.stuck \/ <<i, d>> \in overtaken'
                    /\ <<i, d>> \in fixed' => d \in p.again \/ <<i, d>> \in raced'
    <3>1. d \in p.stuck => <<i, d>> \in blocked
      BY <1>2
    <3>2. <<i, d>> \in blocked' => d \in p.stuck
      BY <1>1, <1>2
    <3>3. d \in p.first..p.today /\ <<i, d>> \in fixed' => d \in p.again
      <4>1. <<i, d>> \in fixed => d < day
        BY <1>0, <1>4 DEF Calendar
      <4> QED BY <1>1, <1>2, <4>1
    <3> QED BY <1>0, <1>1, <2>1, <3>1, <3>2, <3>3
  <2>3. \A d \in Days : Unused(pick.who, d)' = Unused(i, d)' /\ Settled(pick.who, d)' = Settled(i, d)'
    BY <1>2
  <2> QED BY <1>2, <2>1, <2>2, <2>3 DEF Blocked
<1>8. Given'
  <2>1. \A j \in Slots, d \in Days : gave[j][d] \subseteq Keys
    BY <1>0 DEF Types
  <2> QED BY <1>0, <1>1, <1>3, <2>1 DEF Given
<1>9. Carried'
  BY <1>0, <1>1, <1>3 DEF Carried
<1> QED BY <1>6, <1>7, <1>8, <1>9

-----------------------------------------------------------------------------
(* A day is settled, or put to a person. *)

\* What settling day d of binding i changes.
Puts(i, d) ==
  /\ blocked' = blocked \cup {<<i, d>>} /\ <<i, d>> \notin fixed \ queued
  /\ Unused(i, d)
  /\ overtaken' = IF pick.who = i /\ d >= pick.first THEN overtaken \cup {<<i, d>>} ELSE overtaken
  /\ UNCHANGED <<booked, fixed, queued, raced>>
Books(i, d) ==
  /\ booked' = [booked EXCEPT ![i][d] = KeysOn(i, d) \ Lost(i, d)]
  /\ fixed' = fixed \cup {<<i, d>>} /\ queued' = queued \ {<<i, d>>} /\ blocked' = blocked \ {<<i, d>>}
  /\ raced' = IF pick.who = i /\ (d >= pick.first \/ d \in pick.stuck)
              THEN raced \cup {<<i, d>>} ELSE raced
  /\ overtaken' = overtaken

LEMMA SettlePuts ==
  ASSUME Types, Calendar, NEW i \in Bindings, NEW d \in Days, Settle(i, d)
  PROVE  /\ Puts(i, d) \/ Books(i, d)
         /\ InRange(i, d) /\ Over(d) /\ i \in Slots
         /\ UNCHANGED <<day, bind, held, gave, used, pick>>
<1>1. i \in Slots
  BY BindFacts
<1>2. /\ InRange(i, d) /\ Over(d) /\ UNCHANGED <<day, bind, held, gave, used, pick>>
  BY DEF Settle, Over
<1>3. CASE /\ <<bind[i].chan, d>> \in earned
           /\ \A k \in KeysOn(i, d) \ Lost(i, d) : <<k, d>> \notin used
           /\ Lost(i, d) = {}
  <2>1. Unused(i, d)
    BY <1>3 DEF Unused
  <2> QED BY <1>1, <1>2, <1>3, <2>1 DEF Settle, Puts
<1>4. CASE ~ /\ <<bind[i].chan, d>> \in earned
             /\ \A k \in KeysOn(i, d) \ Lost(i, d) : <<k, d>> \notin used
             /\ Lost(i, d) = {}
  BY <1>1, <1>2, <1>4 DEF Settle, Books
<1> QED BY <1>3, <1>4

LEMMA SettleDays ==
  ASSUME DayInv, NEW i \in Bindings, NEW d \in Days, Settle(i, d)
  PROVE  Calendar' /\ Blocked' /\ Given' /\ Carried'
<1>0. Types /\ Calendar /\ Blocked /\ Given /\ Carried
  BY DEF DayInv
<1>1. /\ Puts(i, d) \/ Books(i, d)
      /\ InRange(i, d) /\ Over(d) /\ i \in Slots
      /\ UNCHANGED <<day, bind, held, gave, used, pick>>
  BY <1>0, SettlePuts
<1>2. /\ Bindings' = Bindings
      /\ \A j \in Slots, e \in Days : Unused(j, e)' = Unused(j, e) /\ InRange(j, e)' = InRange(j, e)
      /\ \A j \in Slots, e \in Days, k \in Keys : Has(j, k, e)' = Has(j, k, e)
      /\ \A e \in Days : Over(e)' = Over(e)
  BY <1>1 DEF Bindings, Unused, InRange, Has, KeysOn, Recorded, Over
\* What is said of the other days stays as it is.
<1>3. ASSUME NEW j \in Slots, NEW e \in Days, <<j, e>> # <<i, d>>
      PROVE  /\ <<j, e>> \in fixed' <=> <<j, e>> \in fixed
             /\ <<j, e>> \in queued' <=> <<j, e>> \in queued
             /\ <<j, e>> \in blocked' <=> <<j, e>> \in blocked
             /\ <<j, e>> \in raced' <=> <<j, e>> \in raced
             /\ <<j, e>> \in overtaken' <=> <<j, e>> \in overtaken
             /\ Settled(j, e)' <=> Settled(j, e)
             /\ booked'[j][e] = booked[j][e]
  <2>1. booked \in [Slots -> [Days -> SUBSET Keys]]
    BY <1>0 DEF Types
  <2>2. ASSUME Puts(i, d)
        PROVE  /\ <<j, e>> \in fixed' <=> <<j, e>> \in fixed
               /\ <<j, e>> \in queued' <=> <<j, e>> \in queued
               /\ <<j, e>> \in blocked' <=> <<j, e>> \in blocked
               /\ <<j, e>> \in raced' <=> <<j, e>> \in raced
               /\ <<j, e>> \in overtaken' <=> <<j, e>> \in overtaken
               /\ booked'[j][e] = booked[j][e]
    BY <1>3, <2>2 DEF Puts
  <2>3. ASSUME Books(i, d)
        PROVE  /\ <<j, e>> \in fixed' <=> <<j, e>> \in fixed
               /\ <<j, e>> \in queued' <=> <<j, e>> \in queued
               /\ <<j, e>> \in blocked' <=> <<j, e>> \in blocked
               /\ <<j, e>> \in raced' <=> <<j, e>> \in raced
               /\ <<j, e>> \in overtaken' <=> <<j, e>> \in overtaken
    BY <1>3, <2>3 DEF Books
  <2>4. ASSUME Books(i, d) PROVE booked'[j][e] = booked[j][e]
    <3>1. PICK paid : booked' = [booked EXCEPT ![i][d] = paid]
      BY <2>4 DEF Books
    <3> QED BY <1>1, <1>3, <2>1, <3>1
  <2> QED BY <1>1, <2>2, <2>3, <2>4 DEF Settled
<1>4. /\ fixed \subseteq fixed' /\ raced \subseteq raced' /\ overtaken \subseteq overtaken'
  BY <1>1 DEF Puts, Books
<1>5. \A e \in Days : Clean(e)' => Clean(e)
  BY <1>4 DEF Clean
<1>6. Calendar'
  <2>1. pick' # NoPick => /\ pick'.first <= pick'.today /\ pick'.today <= day'
                          /\ \A e \in pick'.stuck : Over(e)'
                          /\ \A e \in pick'.again : <<pick'.who, e>> \in fixed'
    <3>1. pick # NoPick => pick.stuck \subseteq Days
      BY <1>0 DEF Types, Picks
    <3> QED BY <1>0, <1>1, <1>2, <1>4, <3>1 DEF Calendar
  <2>2. ASSUME NEW j \in Slots, NEW e \in Days
        PROVE  /\ <<j, e>> \in fixed' \cup blocked' \cup raced' \cup overtaken' =>
                    j \in Bindings' /\ InRange(j, e)' /\ Over(e)'
               /\ held'[j][e] # {} => e <= day' /\ (pick' # NoPick => e <= pick'.today)
               /\ gave'[j][e] # {} => j \in Bindings' /\ Over(e)'
               /\ held'[j][e] \cap gave'[j][e] = {}
    <3>1. <<j, e>> \in fixed' \cup blocked' \cup raced' \cup overtaken' =>
            <<j, e>> = <<i, d>> \/ <<j, e>> \in fixed \cup blocked \cup raced \cup overtaken
      BY <1>3
    <3>2. /\ <<j, e>> \in fixed \cup blocked \cup raced \cup overtaken =>
               j \in Bindings /\ InRange(j, e) /\ Over(e)
          /\ held[j][e] # {} => e <= day /\ (pick # NoPick => e <= pick.today)
          /\ gave[j][e] # {} => j \in Bindings /\ Over(e)
          /\ held[j][e] \cap gave[j][e] = {}
      BY <1>0 DEF Calendar
    <3> QED BY <1>1, <1>2, <3>1, <3>2
  <2>3. \A j \in Bindings' : bind'[j].from <= day' /\ (bind'[j].to = Open \/ bind'[j].to <= day')
    BY <1>0, <1>1, <1>2 DEF Calendar
  <2> QED BY <2>1, <2>2, <2>3 DEF Calendar
<1>7. Blocked'
  <2>1. ASSUME NEW j \in Slots, NEW e \in Days, <<j, e>> \in blocked'
        PROVE  ~Settled(j, e)' /\ (<<j, e>> \in overtaken' \/ Unused(j, e)')
    <3>1. CASE <<j, e>> # <<i, d>>
      BY <1>0, <1>2, <1>3, <2>1, <3>1 DEF Blocked
    <3>2. CASE <<j, e>> = <<i, d>>
      <4>1. j = i /\ e = d
        BY <3>2
      <4>2. Puts(i, d)
        BY <1>1, <2>1, <4>1 DEF Books
      <4> QED BY <1>1, <1>2, <4>1, <4>2 DEF Puts, Settled
    <3> QED BY <3>1, <3>2
  <2>2. ASSUME pick # NoPick, NEW e \in Days
        PROVE  /\ e \in pick.stuck => /\ <<pick.who, e>> \in overtaken' \/ Unused(pick.who, e)'
                                      /\ <<pick.who, e>> \in raced' \/ ~Settled(pick.who, e)'
               /\ e \in pick.first..pick.today =>
                    /\ <<pick.who, e>> \in blocked' => e \in pick.stuck \/ <<pick.who, e>> \in overtaken'
                    /\ <<pick.who, e>> \in fixed' => e \in pick.again \/ <<pick.who, e>> \in raced'
    <3>1. PICK w \in Slots : pick.who = w
      BY <1>0, <2>2 DEF Types, Picks
    <3>2. /\ e \in pick.stuck => /\ <<w, e>> \in overtaken \/ Unused(w, e)
                                 /\ <<w, e>> \in raced \/ ~Settled(w, e)
          /\ e \in pick.first..pick.today =>
               /\ <<w, e>> \in blocked => e \in pick.stuck \/ <<w, e>> \in overtaken
               /\ <<w, e>> \in fixed => e \in pick.again \/ <<w, e>> \in raced
      BY <1>0, <2>2, <3>1 DEF Blocked
    <3>3. Unused(pick.who, e)' = Unused(w, e)' /\ Settled(pick.who, e)' = Settled(w, e)'
      BY <1>1, <3>1
    <3>4. CASE <<w, e>> # <<i, d>>
      BY <1>2, <1>3, <3>1, <3>2, <3>3, <3>4
    <3>5. CASE <<w, e>> = <<i, d>>
      <4>1. w = i /\ e = d
        BY <3>5
      <4>2. e \in pick.first..pick.today => d >= pick.first
        <5>1. pick.first \in Int /\ pick.today \in Int /\ d \in Int
          BY <1>0, <2>2 DEF Types, Picks, Days
        <5> QED BY <4>1, <5>1
      <4>3. CASE Puts(i, d)
        BY <1>1, <1>2, <3>1, <3>2, <3>3, <4>1, <4>2, <4>3 DEF Puts, Settled
      <4>4. CASE Books(i, d)
        BY <1>1, <1>2, <3>1, <3>2, <3>3, <4>1, <4>2, <4>4 DEF Books, Settled
      <4> QED BY <1>1, <4>3, <4>4
    <3> QED BY <3>4, <3>5
  <2> QED BY <1>1, <2>1, <2>2 DEF Blocked
<1>8. Given'
  <2>1. \A j \in Slots, e \in Days : gave[j][e] \subseteq Keys
    BY <1>0 DEF Types
  <2> QED BY <1>0, <1>1, <1>2, <1>5, <2>1 DEF Given
<1>9. Carried'
  <2> SUFFICES ASSUME NEW j \in Slots, NEW e \in Days, NEW k \in Keys,
                      Clean(e)', <<k, e>> \in used', Has(j, k, e)', Settled(j, e)'
               PROVE  k \in booked'[j][e] \/ \E l \in Slots : l > j /\ Has(l, k, e)'
    BY DEF Carried
  <2>1. Clean(e) /\ <<k, e>> \in used /\ Has(j, k, e)
    BY <1>1, <1>2, <1>5
  <2>2. CASE <<j, e>> # <<i, d>> \/ Puts(i, d)
    <3>1. Settled(j, e) /\ booked'[j][e] = booked[j][e]
      BY <1>3, <2>2 DEF Puts, Settled
    <3>2. k \in booked[j][e] \/ \E l \in Slots : l > j /\ Has(l, k, e)
      BY <1>0, <2>1, <3>1 DEF Carried
    <3> QED BY <1>2, <3>1, <3>2
  <2>3. CASE <<j, e>> = <<i, d>> /\ Books(i, d)
    <3>1. j = i /\ e = d
      BY <2>3
    <3>2. booked'[i][d] = KeysOn(i, d) \ Lost(i, d)
      <4>1. booked \in [Slots -> [Days -> SUBSET Keys]]
        BY <1>0 DEF Types
      <4>2. PICK paid : paid = KeysOn(i, d) \ Lost(i, d)
        OBVIOUS
      <4>3. booked' = [booked EXCEPT ![i][d] = paid]
        BY <2>3, <4>2 DEF Books
      <4> QED BY <1>1, <4>1, <4>2, <4>3
    <3>3. k \in KeysOn(i, d)
      BY <2>1, <3>1 DEF Has
    <3>4. CASE k \in Lost(i, d)
      <4>1. k \notin gave[i][d]
        <5>1. held[i][d] \cap gave[i][d] = {}
          BY <1>0, <1>1 DEF Calendar
        <5> QED BY <3>3, <5>1 DEF KeysOn, Recorded
      <4>2. PICK l \in Bindings : l > i /\ InRange(l, d) /\ k \in KeysOn(l, d)
        BY <3>4, <4>1 DEF Lost
      <4>3. l \in Slots /\ Has(l, k, d)
        BY <1>0, <4>2, BindFacts DEF Has
      <4> QED BY <1>2, <3>1, <4>2, <4>3
    <3> QED BY <3>1, <3>2, <3>3, <3>4
  <2> QED BY <1>1, <2>2, <2>3
<1> QED BY <1>6, <1>7, <1>8, <1>9

-----------------------------------------------------------------------------
(* A change is written. *)

\* What the change writes on a day of its binding: on the days of both Keys
\* those that counted still do; a day that was blocked has the new Key, or has
\* given it to the binding that has it; on another day the Keys are the same.
LEMMA CommitKeys ==
  ASSUME Types, Calendar, NEW p \in Picks, pick = p, p.who \in Bindings, ~Taken(p.key, p.who), CommitPick,
         NEW d \in Days
  PROVE  /\ held'[p.who][d] \cap gave'[p.who][d] = {}
         /\ held'[p.who][d] # {} => d <= p.today
         /\ d \in p.first..p.today =>
              /\ InRange(p.who, d) => KeysOn(p.who, d) \subseteq KeysOn(p.who, d)'
              /\ gave'[p.who][d] \subseteq gave[p.who][d]
         /\ d \notin p.first..p.today /\ d \in p.stuck /\ d < p.first =>
              \A k \in gave'[p.who][d] : HeldByOther(p.who, k, d)
         /\ d \notin p.first..p.today /\ ~(d \in p.stuck /\ d < p.first) =>
              /\ gave'[p.who][d] = gave[p.who][d]
              /\ Over(d) /\ InRange(p.who, d) => KeysOn(p.who, d)' = KeysOn(p.who, d)
<1> DEFINE w == p.who
<1>1. /\ p.today \in Nat /\ p.first \in Nat /\ d \in Nat /\ p.first <= p.today
      /\ w \in Slots /\ p # NoPick
  BY BindFacts DEF Picks, NoPick, Days, Calendar
<1>2. /\ held[w][d] \cap gave[w][d] = {}
      /\ held[w][d] # {} => d <= p.today
      /\ gave[w][d] # {} => Over(d)
      /\ \A e \in p.stuck : Over(e)
  BY <1>1 DEF Calendar
<1>3. Over(d) => d < p.today
  BY <1>1 DEF Over
<1>4. KeysOn(w, d)' = IF held'[w][d] \cup gave'[w][d] = {} THEN {bind'[w].key} ELSE held'[w][d]
  BY DEF KeysOn, Recorded
<1>5. KeysOn(w, d) \cap gave[w][d] = {}
  BY <1>2 DEF KeysOn, Recorded
<1>6. ASSUME d \in p.first..p.today
      PROVE  /\ held'[w][d] \cap gave'[w][d] = {} /\ d <= p.today
             /\ InRange(w, d) => KeysOn(w, d) \subseteq KeysOn(w, d)'
             /\ gave'[w][d] \subseteq gave[w][d]
  <2>1. held'[w][d] = NewHeld(w, d) /\ gave'[w][d] = NewGave(w, d)
    BY <1>6, CommitWrites
  <2>2. p.key \in NewHeld(w, d) /\ NewGave(w, d) \subseteq gave[w][d]
    BY DEF NewHeld, NewGave
  <2>3. NewHeld(w, d) \cap NewGave(w, d) = {}
    BY <1>5 DEF NewHeld, NewGave, Recorded
  <2>4. KeysOn(w, d)' = NewHeld(w, d)
    BY <1>4, <2>1, <2>2
  <2>5. InRange(w, d) => KeysOn(w, d) \subseteq NewHeld(w, d)
    BY DEF InRange, NewHeld
  <2> QED BY <1>1, <1>6, <2>1, <2>2, <2>3, <2>4, <2>5
<1>7. ASSUME d \notin p.first..p.today, d \in p.stuck, d < p.first
      PROVE  /\ held'[w][d] \cap gave'[w][d] = {} /\ d <= p.today
             /\ \A k \in gave'[w][d] : HeldByOther(w, k, d)
  <2>1. held'[w][d] = StuckHeld(w, d) /\ gave'[w][d] = {p.key} \ StuckHeld(w, d)
    BY <1>7, CommitWrites
  <2>2. \A k \in {p.key} \ StuckHeld(w, d) : HeldByOther(w, k, d)
    BY DEF StuckHeld
  <2> QED BY <1>1, <1>7, <2>1, <2>2
<1>8. ASSUME d \notin p.first..p.today, ~(d \in p.stuck /\ d < p.first)
      PROVE  /\ held'[w][d] \cap gave'[w][d] = {} /\ (held'[w][d] # {} => d <= p.today)
             /\ gave'[w][d] = gave[w][d]
             /\ Over(d) /\ InRange(w, d) => KeysOn(w, d)' = KeysOn(w, d)
  <2>1. /\ gave'[w][d] = gave[w][d]
        /\ held'[w][d] = IF d \in bind[w].from..(p.today - 1) /\ Recorded(w, d) = {}
                         THEN {bind[w].key} ELSE held[w][d]
    BY <1>8, CommitWrites
  <2>2. CASE d \in bind[w].from..(p.today - 1) /\ Recorded(w, d) = {}
    <3>1. held'[w][d] = {bind[w].key} /\ gave'[w][d] = {} /\ KeysOn(w, d) = {bind[w].key}
      BY <2>1, <2>2 DEF Recorded, KeysOn
    <3>2. KeysOn(w, d)' = {bind[w].key}
      BY <1>4, <3>1
    <3>3. d <= p.today
      <4>1. bind[w].from \in Nat
        BY BindFacts DEF Binds, Days
      <4> QED BY <1>1, <2>2, <4>1
    <3> QED BY <2>1, <3>1, <3>2, <3>3
  <2>3. CASE ~(d \in bind[w].from..(p.today - 1) /\ Recorded(w, d) = {})
    <3>1. held'[w][d] = held[w][d]
      BY <2>1, <2>3
    <3>2. ASSUME Over(d), InRange(w, d) PROVE KeysOn(w, d)' = KeysOn(w, d)
      <4>1. bind[w].from \in Nat
        BY BindFacts DEF Binds, Days
      <4>2. d \in bind[w].from..(p.today - 1)
        BY <1>1, <1>3, <3>2, <4>1 DEF InRange
      <4>3. Recorded(w, d) # {}
        BY <2>3, <4>2
      <4> QED BY <1>4, <2>1, <3>1, <4>3 DEF KeysOn, Recorded
    <3> QED BY <1>2, <2>1, <3>1, <3>2
  <2> QED BY <2>2, <2>3
<1> QED BY <1>6, <1>7, <1>8

\* A change that is given up, as its Key has become another binding's, writes
\* nothing.
LEMMA GivenUpDays ==
  ASSUME DayInv, pick' = NoPick,
         UNCHANGED <<day, bind, used, held, gave, booked, fixed, queued, blocked, raced, overtaken>>
  PROVE  Calendar' /\ Blocked' /\ Given' /\ Carried'
<1>0. Types /\ Calendar /\ Blocked /\ Given /\ Carried
  BY DEF DayInv
<1>1. /\ Bindings' = Bindings
      /\ \A j \in Slots, d \in Days : Settled(j, d)' = Settled(j, d) /\ Unused(j, d)' = Unused(j, d)
      /\ \A j \in Slots, d \in Days : InRange(j, d)' = InRange(j, d)
      /\ \A j \in Slots, d \in Days, l \in Keys : Has(j, l, d)' = Has(j, l, d)
      /\ \A d \in Days : Clean(d)' = Clean(d)
  BY DEF Bindings, Settled, Unused, InRange, Has, KeysOn, Recorded, Clean
<1>2. \A d \in Days : Over(d) => Over(d)'
  BY DEF Over
<1>3. Calendar'
  <2>1. ASSUME NEW j \in Slots, NEW d \in Days
        PROVE  /\ <<j, d>> \in fixed' \cup blocked' \cup raced' \cup overtaken' =>
                    j \in Bindings' /\ InRange(j, d)' /\ Over(d)'
               /\ held'[j][d] # {} => d <= day'
               /\ gave'[j][d] # {} => j \in Bindings' /\ Over(d)'
               /\ held'[j][d] \cap gave'[j][d] = {}
    BY <1>0, <1>1, <1>2 DEF Calendar
  <2>2. \A j \in Bindings' : bind'[j].from <= day' /\ (bind'[j].to = Open \/ bind'[j].to <= day')
    BY <1>0, <1>1 DEF Calendar
  <2> QED BY <2>1, <2>2 DEF Calendar
<1>4. Blocked'
  BY <1>0, <1>1 DEF Blocked
<1>5. Given' /\ Carried'
  <2>1. \A j \in Slots, d \in Days : gave[j][d] \subseteq Keys
    BY <1>0 DEF Types
  <2> QED BY <1>0, <1>1, <2>1 DEF Given, Carried
<1> QED BY <1>3, <1>4, <1>5

LEMMA CommitDays ==
  ASSUME DayInv, CommitPick
  PROVE  Calendar' /\ Blocked' /\ Given' /\ Carried'
<1>0. Types /\ Calendar /\ Blocked /\ Given /\ Carried /\ Bindings \subseteq Slots /\ day \in Nat
  <2>1. Types /\ Calendar /\ Blocked /\ Given /\ Carried
    BY DEF DayInv
  <2>2. Bindings \subseteq Slots
    BY <2>1, BindFacts
  <2> QED BY <2>1, <2>2 DEF Types, Days
<1>1. PICK p \in Picks : pick = p /\ p.who \in Bindings /\ p # NoPick
  BY <1>0 DEF CommitPick, Types
<1>2. pick' = NoPick /\ UNCHANGED <<day, used, raced, overtaken>>
  BY DEF CommitPick, history
<1>3. CASE Taken(p.key, p.who)
  <2>1. UNCHANGED <<bind, held, gave, booked, fixed, queued, blocked>>
    BY <1>1, <1>3 DEF CommitPick, rows
  <2> QED BY <1>2, <2>1, GivenUpDays
<1>4. CASE ~Taken(p.key, p.who)
  <2> DEFINE w == p.who
             Both(d) == d \in p.first..p.today
             Stuck(d) == ~Both(d) /\ d \in p.stuck /\ d < p.first
  <2>1. /\ bind' = [bind EXCEPT ![w].key = p.key, ![w].to = Open]
        /\ booked' = booked /\ fixed' = fixed
        /\ queued' = queued \cup {<<w, d>> : d \in p.again}
        /\ blocked' = blocked \ {<<w, d>> : d \in p.stuck}
    BY <1>1, <1>4 DEF CommitPick, Again
  <2>2. /\ Bindings' = Bindings /\ \A j \in Bindings \ {w} : bind'[j] = bind[j]
        /\ bind'[w].from = bind[w].from /\ bind'[w].to = Open /\ bind'[w].key = p.key
    <3>1. PICK k, i : k = p.key /\ i = w
      OBVIOUS
    <3>2. k \in Keys /\ i \in Bindings
      BY <1>1, <3>1 DEF Picks
    <3>3. bind' = [bind EXCEPT ![i].key = k, ![i].to = Open]
      BY <2>1, <3>1
    <3>4. /\ Bindings' = Bindings /\ \A j \in Bindings \ {i} : bind'[j] = bind[j]
          /\ bind'[i].from = bind[i].from /\ bind'[i].to = Open /\ bind'[i].key = k
      BY <1>0, <3>2, <3>3, ChosenStep
    <3> QED BY <3>1, <3>4
  <2>3. /\ bind'[w].from = bind[w].from /\ bind'[w].to = Open
        /\ bind[w].from \in Nat
    <3>1. bind[w] \in Binds
      BY <1>0, <1>1, BindFacts
    <3> QED BY <2>2, <3>1 DEF Binds, Days
  <2>4. \A j \in Slots \ {w} : held'[j] = held[j] /\ gave'[j] = gave[j]
    BY <1>0, <1>1, <1>4, CommitWrites
  <2>5. \A j \in Slots \ {w}, d \in Days :
          /\ KeysOn(j, d)' = KeysOn(j, d) \/ j \notin Bindings
          /\ InRange(j, d)' = InRange(j, d) \/ j \notin Bindings
          /\ \A k \in Keys : Has(j, k, d)' = Has(j, k, d)
    <3> SUFFICES ASSUME NEW j \in Slots \ {w}, NEW d \in Days
                 PROVE  /\ KeysOn(j, d)' = KeysOn(j, d) \/ j \notin Bindings
                        /\ InRange(j, d)' = InRange(j, d) \/ j \notin Bindings
                        /\ \A k \in Keys : Has(j, k, d)' = Has(j, k, d)
      OBVIOUS
    <3>1. CASE j \in Bindings
      <4>1. KeysOn(j, d)' = KeysOn(j, d)
        BY <2>2, <2>4, <3>1 DEF KeysOn, Recorded
      <4>2. InRange(j, d)' = InRange(j, d)
        BY <2>2, <3>1 DEF InRange
      <4> QED BY <2>2, <4>1, <4>2 DEF Has
    <3>2. CASE j \notin Bindings
      BY <2>2, <3>2 DEF Has
    <3> QED BY <3>1, <3>2
  <2>6. \A d \in Days : InRange(w, d) => InRange(w, d)'
    <3>1. \A d \in Days : d <= Open
      BY DEF Days, Open
    <3> QED BY <2>3, <3>1 DEF InRange
  <2>7. \A d \in Days : Over(d) => Over(d)' /\ d < p.today /\ d < day
    BY <1>1, <1>2 DEF Over
  <2>8. p.today \in Nat /\ p.first \in Nat /\ p.first <= p.today /\ p.today <= day /\ w \in Slots
    BY <1>0, <1>1 DEF Picks, Days, Calendar
  <2>9. ASSUME NEW d \in Days
        PROVE  /\ held'[w][d] \cap gave'[w][d] = {}
               /\ held'[w][d] # {} => d <= p.today
               /\ Both(d) => /\ InRange(w, d) => KeysOn(w, d) \subseteq KeysOn(w, d)'
                             /\ gave'[w][d] \subseteq gave[w][d]
               /\ Stuck(d) => \A k \in gave'[w][d] : HeldByOther(w, k, d)
               /\ ~Both(d) /\ ~Stuck(d) => /\ gave'[w][d] = gave[w][d]
                                           /\ Over(d) /\ InRange(w, d) => KeysOn(w, d)' = KeysOn(w, d)
    BY <1>0, <1>1, <1>4, CommitKeys
  <2>10. \A d \in Days : Clean(d)' = Clean(d)
    BY <1>2 DEF Clean
  <2>11. \A j \in Slots, d \in Days : Settled(j, d)' => Settled(j, d)
    BY <2>1 DEF Settled
  <2>12. ASSUME NEW d \in Days
         PROVE  /\ d \in p.stuck => /\ Over(d)
                                    /\ <<w, d>> \in overtaken \/ Unused(w, d)
                                    /\ <<w, d>> \in raced \/ ~Settled(w, d)
                /\ Both(d) => /\ <<w, d>> \in blocked => d \in p.stuck \/ <<w, d>> \in overtaken
                              /\ <<w, d>> \in fixed => d \in p.again \/ <<w, d>> \in raced
    <3>1. \A e \in Days : Unused(pick.who, e) = Unused(w, e) /\ Settled(pick.who, e) = Settled(w, e)
      BY <1>1
    <3> QED BY <1>0, <1>1, <3>1 DEF Blocked, Calendar
  <2> HIDE DEF Both, Stuck
\* A binding that has a used Key on a day still has it.
  <2>13. ASSUME NEW j \in Slots, NEW d \in Days, NEW k \in Keys,
                Clean(d), <<k, d>> \in used, Over(d), Has(j, k, d)
         PROVE  Has(j, k, d)'
    <3>1. CASE j # w
      BY <2>5, <2>13, <3>1
    <3>2. CASE j = w
      <4>1. ~Stuck(d)
        BY <2>8, <2>12, <2>13, <3>2 DEF Stuck, Has, Unused, Clean
      <4>2. k \in KeysOn(w, d)'
        BY <2>9, <2>13, <3>2, <4>1 DEF Has
      <4> QED BY <2>2, <2>6, <2>13, <3>2, <4>2 DEF Has
    <3> QED BY <3>1, <3>2
  <2>14. Calendar'
    <3>1. ASSUME NEW j \in Slots, NEW d \in Days
          PROVE  /\ <<j, d>> \in fixed' \cup blocked' \cup raced' \cup overtaken' =>
                      j \in Bindings' /\ InRange(j, d)' /\ Over(d)'
                 /\ held'[j][d] # {} => d <= day'
                 /\ gave'[j][d] # {} => j \in Bindings' /\ Over(d)'
                 /\ held'[j][d] \cap gave'[j][d] = {}
      <4>1. /\ <<j, d>> \in fixed \cup blocked \cup raced \cup overtaken =>
                 j \in Bindings /\ InRange(j, d) /\ Over(d)
            /\ held[j][d] # {} => d <= day
            /\ gave[j][d] # {} => j \in Bindings /\ Over(d)
            /\ held[j][d] \cap gave[j][d] = {}
        BY <1>0 DEF Calendar
      <4>2. <<j, d>> \in fixed' \cup blocked' \cup raced' \cup overtaken' =>
              j \in Bindings' /\ InRange(j, d)' /\ Over(d)'
        BY <1>2, <2>1, <2>2, <2>5, <2>6, <2>7, <4>1
      <4>3. CASE j # w
        BY <1>2, <2>2, <2>4, <2>7, <3>1, <4>1, <4>2, <4>3
      <4>4. CASE j = w
        <5>1. gave'[w][d] # {} => Over(d)
          <6>1. Stuck(d) => Over(d)
            BY <2>12 DEF Stuck
          <6> QED BY <2>9, <4>1, <4>4, <6>1
        <5>2. d \in Nat
          BY DEF Days
        <5>3. held'[w][d] # {} => d <= day
          BY <1>0, <2>8, <2>9, <5>2
        <5> QED BY <1>1, <1>2, <2>2, <2>7, <2>9, <4>2, <4>4, <5>1, <5>3
      <4> QED BY <4>3, <4>4
    <3>2. \A j \in Bindings' : bind'[j].from <= day' /\ (bind'[j].to = Open \/ bind'[j].to <= day')
      BY <1>0, <1>2, <2>2, <2>3 DEF Calendar
    <3> QED BY <1>2, <3>1, <3>2 DEF Calendar
  <2>15. Blocked'
    <3>1. ASSUME NEW j \in Slots, NEW d \in Days, <<j, d>> \in blocked'
          PROVE  ~Settled(j, d)' /\ (<<j, d>> \in overtaken' \/ Unused(j, d)')
      <4>1. /\ <<j, d>> \in blocked /\ ~Settled(j, d) /\ (<<j, d>> \in overtaken \/ Unused(j, d))
            /\ j \in Bindings /\ InRange(j, d) /\ Over(d)
        BY <1>0, <2>1, <3>1 DEF Blocked, Calendar
      <4>2. CASE j # w
        BY <1>2, <2>5, <2>11, <4>1, <4>2 DEF Unused
      <4>3. CASE j = w
        <5>1. d \notin p.stuck
          BY <2>1, <3>1, <4>3
        <5>2. CASE Both(d)
          BY <1>2, <2>11, <2>12, <4>1, <4>3, <5>1, <5>2
        <5>3. CASE ~Both(d)
          <6>1. KeysOn(w, d)' = KeysOn(w, d)
            BY <2>9, <4>1, <4>3, <5>1, <5>3 DEF Stuck
          <6> QED BY <1>2, <2>11, <4>1, <4>3, <6>1 DEF Unused
        <5> QED BY <5>2, <5>3
      <4> QED BY <4>2, <4>3
    <3> QED BY <1>2, <3>1 DEF Blocked
  <2>16. Given'
    <3> SUFFICES ASSUME NEW i \in Slots, NEW d \in Days, NEW k \in gave'[i][d], Clean(d)', <<k, d>> \in used'
                 PROVE  \E j \in Slots : Has(j, k, d)'
      BY DEF Given
    <3>1. Clean(d) /\ <<k, d>> \in used /\ k \in Keys
      BY <1>0, <1>2, <2>10 DEF Types
    <3>2. CASE k \in gave[i][d]
      <4>1. PICK j \in Slots : Has(j, k, d)
        BY <1>0, <3>1, <3>2 DEF Given
      <4>2. Over(d)
        BY <1>0, <3>2 DEF Calendar
      <4> QED BY <2>13, <3>1, <4>1, <4>2
    <3>3. CASE k \notin gave[i][d]
      <4>1. i = w /\ Stuck(d)
        BY <2>4, <2>9, <3>3
      <4>2. PICK j \in Bindings \ {w} : Has(j, k, d)
        BY <2>9, <4>1 DEF HeldByOther, Has
      <4> QED BY <1>0, <2>5, <3>1, <4>2
    <3> QED BY <3>2, <3>3
  <2>17. Carried'
    <3> SUFFICES ASSUME NEW j \in Slots, NEW d \in Days, NEW k \in Keys,
                        Clean(d)', <<k, d>> \in used', Has(j, k, d)', Settled(j, d)'
                 PROVE  k \in booked'[j][d] \/ \E l \in Slots : l > j /\ Has(l, k, d)'
      BY DEF Carried
    <3>1. Clean(d) /\ <<k, d>> \in used /\ Settled(j, d)
      BY <1>2, <2>10, <2>11
    <3>2. j \in Bindings /\ InRange(j, d) /\ Over(d) /\ <<j, d>> \in fixed
      BY <1>0, <3>1 DEF Settled, Calendar
    <3>3. Has(j, k, d)
      <4>1. CASE j # w
        BY <2>5, <4>1
      <4>2. CASE j = w
        <5>1. ~Both(d)
          <6>1. Both(d) => d \in p.again
            BY <2>12, <3>1, <3>2, <4>2 DEF Clean
          <6>2. d \in p.again => ~Settled(w, d)'
            BY <2>1 DEF Settled
          <6> QED BY <4>2, <6>1, <6>2
        <5>2. ~Stuck(d)
          BY <2>12, <3>1, <4>2 DEF Stuck, Clean
        <5>3. KeysOn(w, d)' = KeysOn(w, d)
          BY <2>9, <3>2, <4>2, <5>1, <5>2
        <5> QED BY <3>2, <4>2, <5>3 DEF Has
      <4> QED BY <4>1, <4>2
    <3>4. k \in booked[j][d] \/ \E l \in Slots : l > j /\ Has(l, k, d)
      BY <1>0, <3>1, <3>3 DEF Carried
    <3>5. \A l \in Slots : Has(l, k, d) => Has(l, k, d)'
      BY <2>13, <3>1, <3>2
    <3> QED BY <2>1, <3>4, <3>5
  <2> QED BY <2>14, <2>15, <2>16, <2>17
<1> QED BY <1>3, <1>4

-----------------------------------------------------------------------------
(* The invariant, and what it says. *)

LEMMA InitDays == Init => DayInv
<1> SUFFICES ASSUME Init PROVE DayInv
  OBVIOUS
<1>1. Types
  BY TypesInit
<1>2. /\ bind = << >> /\ pick = NoPick /\ \A i \in Slots, d \in Days : held[i][d] = {} /\ gave[i][d] = {}
      /\ fixed = {} /\ blocked = {} /\ raced = {} /\ overtaken = {}
  BY DEF Init
<1>3. Bindings = {}
  BY <1>2 DEF Bindings
<1>4. Calendar
  BY <1>2, <1>3 DEF Calendar
<1>5. Blocked /\ Given /\ Carried
  BY <1>2, <1>3 DEF Blocked, Given, Carried, Has
<1> QED BY <1>1, <1>4, <1>5 DEF DayInv

LEMMA NextDays == DayInv /\ [Next]_vars => DayInv'
<1> SUFFICES ASSUME DayInv, [Next]_vars PROVE DayInv'
  OBVIOUS
<1>0. Types /\ Calendar /\ Types' /\ day \in Days
  BY TypesNext DEF DayInv, Types
<1>1. ASSUME Tended /\ pick' = pick PROVE DayInv'
  BY <1>0, <1>1, TendedDays, TendedGiven DEF DayInv
<1>2. CASE UNCHANGED vars
  <2>1. Tended /\ pick' = pick
    <3>1. UNCHANGED <<day, bind, used, held, gave, booked, fixed, queued, blocked, raced, overtaken, pick>>
      BY <1>2 DEF vars
    <3>2. Bindings' = Bindings /\ day <= day
      BY <1>0, <3>1 DEF Bindings, Days
    <3>3. \A i \in Bindings : bind[i].from <= day /\ (bind[i].to = Open \/ bind[i].to <= day)
      BY <1>0 DEF Calendar
    <3> QED BY <1>0, <3>1, <3>2, <3>3 DEF Tended
  <2> QED BY <1>1, <2>1
<1>3. CASE NewDay
  BY <1>0, <1>1, <1>3, NewDayTends
<1>4. ASSUME NEW c \in Chans, NEW k \in Keys, Sell(c, k) PROVE DayInv'
  BY <1>0, <1>1, <1>4, SellTends
<1>5. ASSUME NEW c \in Chans, NEW k \in Keys, Create(c, k) PROVE DayInv'
  BY <1>0, <1>1, <1>5, CreateTends
<1>6. ASSUME NEW i \in Bindings, Stop(i) \/ Reopen(i) PROVE DayInv'
  BY <1>0, <1>1, <1>6, StopTends
<1>7. ASSUME NEW i \in Bindings, NEW k \in Keys, NEW reopen \in BOOLEAN, ReadPick(i, k, reopen)
      PROVE  DayInv'
  BY <1>0, <1>7, PickDays DEF DayInv
<1>8. CASE CommitPick
  BY <1>0, <1>8, CommitDays DEF DayInv
<1>9. ASSUME NEW i \in Bindings, NEW d \in Days, Settle(i, d) PROVE DayInv'
  BY <1>0, <1>9, SettleDays DEF DayInv
<1> QED BY <1>2, <1>3, <1>4, <1>5, <1>6, <1>7, <1>8, <1>9 DEF Next

\* Of the bindings that have a used Key on a day that all have settled, the one
\* made last has it in its cost.
LEMMA LastPays == DayInv => NothingDropped
<1> SUFFICES ASSUME DayInv, NEW k \in Keys, NEW d \in 0..(day - 1), <<k, d>> \in used,
                    NEW i \in Bindings, InRange(i, d), k \in Recorded(i, d) \cup KeysOn(i, d),
                    \A j \in Bindings : InRange(j, d) =>
                      Settled(j, d) /\ <<j, d>> \notin raced \cup overtaken
             PROVE  \E j \in Bindings : InRange(j, d) /\ k \in booked[j][d]
  BY DEF NothingDropped
<1>0. Types /\ Calendar /\ Given /\ Carried /\ Bindings \subseteq Slots /\ d \in Days
  <2>1. Types /\ Calendar /\ Given /\ Carried
    BY DEF DayInv
  <2> QED BY <2>1, BindFacts DEF Types, Days
<1>1. Clean(d)
  BY <1>0 DEF Clean, Calendar
<1> DEFINE holders == {j \in Slots : Has(j, k, d)}
<1>2. holders # {}
  <2>1. CASE k \in KeysOn(i, d)
    BY <1>0, <2>1 DEF Has
  <2>2. CASE k \notin KeysOn(i, d)
    <3>1. k \in gave[i][d]
      BY <2>2 DEF Recorded, KeysOn
    <3> QED BY <1>0, <1>1, <3>1 DEF Given
  <2> QED BY <2>1, <2>2
<1>3. PICK j \in holders : \A l \in holders : l <= j
  BY <1>2, LastMade
<1>4. j \in Bindings /\ InRange(j, d) /\ Settled(j, d)
  BY <1>3 DEF Has
<1>5. \A l \in Slots : Has(l, k, d) => ~(l > j)
  <2>1. \A l \in Slots : l \in Nat
    BY DEF Slots
  <2> QED BY <1>3, <2>1
<1>6. k \in booked[j][d]
  BY <1>0, <1>1, <1>3, <1>4, <1>5 DEF Carried
<1> QED BY <1>4, <1>6

(* Every variable has its type in every reachable state: the binding a     *)
(* change of a Key was begun for exists, the days that are to be settled   *)
(* anew are booked ones.                                                   *)
THEOREM TypeCorrect == Spec => []TypeOK
<1>1. DayInv => TypeOK
  BY DEF DayInv, Types, TypeOK, Binds
<1> QED BY <1>1, InitDays, NextDays, PTL DEF Spec

(* Once every binding of a day is settled, a used Key that is recorded for *)
(* one of them is in the cost of one of them, unless a day was booked or   *)
(* put to a person while a change of its Keys was under way.  For any      *)
(* number of channels, Keys, bindings, days and changes.                   *)
THEOREM UsedKeyIsPaid == Spec => []NothingDropped
<1> QED BY InitDays, NextDays, LastPays, PTL DEF Spec

-----------------------------------------------------------------------------
(* Two bindings: who pays stays who pays. *)

\* The days a change claims for its Key were no other binding's, and its binding
\* was not stopped before yesterday.
Claimed ==
  pick # NoPick =>
    /\ bind[pick.who].to = Open \/ pick.today <= bind[pick.who].to + 1
    /\ \A d \in Days : d >= pick.first /\ d < pick.today => ~HeldByOther(pick.who, pick.key, d)

\* The Keys in the cost of a settled day are the binding's on that day still,
\* and no later binding's.
Kept ==
  \A i \in Slots, d \in Days :
    Settled(i, d) /\ <<i, d>> \notin raced => booked[i][d] \subseteq KeysOn(i, d) \ Lost(i, d)

PayInv == DayInv /\ Claimed /\ Kept

LEMMA PickClaims ==
  ASSUME Types, Calendar, NEW i \in Bindings, NEW k \in Keys, NEW reopen \in BOOLEAN,
         ReadPick(i, k, reopen)
  PROVE  Claimed'
<1>1. day \in Days /\ bind[i].from \in Days /\ bind[i].from <= day /\ bind[i].to \in Days \cup {Open}
  BY BindFacts DEF Types, Binds, Calendar
<1>2. /\ UNCHANGED <<day, bind, held, gave>> /\ Bindings' = Bindings
      /\ pick' = [who |-> i, key |-> k, today |-> day, first |-> FirstUse(i, k),
                  again |-> {d \in FirstUse(i, k)..day : d < day /\ <<i, d>> \in fixed},
                  stuck |-> {d \in Days : <<i, d>> \in blocked}]
  BY DEF ReadPick, rows, Bindings
<1>3. pick'.who = i /\ pick'.key = k /\ pick'.today = day /\ pick'.first = FirstUse(i, k)
  BY <1>2
<1>4. \A d \in Days : HeldByOther(i, k, d)' = HeldByOther(i, k, d)
  BY <1>2 DEF HeldByOther, InRange, KeysOn, Recorded
<1>5. bind[i].to = Open \/ day <= bind[i].to + 1
  <2>1. IsOpen(i) \/ i \in Reopened(bind[i].chan)
    BY DEF ReadPick
  <2> QED BY <2>1 DEF IsOpen, Reopened
<1> DEFINE found == {d \in bind[i].from..day : \A e \in d..(day - 1) : <<k, e>> \in used /\ ~HeldByOther(i, k, e)}
<1>6. ASSUME NEW d \in Days, d >= FirstUse(i, k), d < day PROVE ~HeldByOther(i, k, d)
  <2>1. FirstUse(i, k) = IF HeldByOther(i, k, day) THEN day ELSE CHOOSE e \in found : \A g \in found : e <= g
    BY DEF FirstUse
  <2>2. day \in found
    BY <1>1 DEF Days
  <2>3. found \subseteq Days
    BY <1>1 DEF Days
  <2>4. PICK first \in found : \A e \in found : first <= e
    BY <2>2, <2>3, SmallestOfDays
  <2>5. (CHOOSE e \in found : \A g \in found : e <= g) \in found
    BY <2>4
  <2>6. day \in Nat /\ d \in Nat
    BY <1>1 DEF Days
  <2>7. FirstUse(i, k) \in found
    BY <1>6, <2>1, <2>5, <2>6
  <2>8. PICK f \in Days : f = FirstUse(i, k)
    BY <2>3, <2>7
  <2>9. d \in f..(day - 1)
    BY <1>6, <2>6, <2>8 DEF Days
  <2> QED BY <2>7, <2>8, <2>9
<1>7. ASSUME NEW d \in Days, d >= pick'.first, d < pick'.today PROVE ~HeldByOther(i, k, d)'
  BY <1>3, <1>4, <1>6, <1>7
<1>8. \A d \in Days : HeldByOther(pick.who, pick.key, d)' = HeldByOther(i, k, d)'
  BY <1>3 DEF HeldByOther
<1> QED BY <1>2, <1>3, <1>5, <1>7, <1>8 DEF Claimed

\* On a day that is over a binding counts after a step only if it did before.
Ranges == \A j \in Bindings', d \in Days : d < day /\ InRange(j, d)' => j \in Bindings /\ InRange(j, d)

LEMMA StopRanges ==
  ASSUME Types, Calendar, NEW i \in Bindings, Stop(i) \/ Reopen(i)
  PROVE  Ranges
<1>1. PICK e \in Days \cup {Open} : /\ bind' = [bind EXCEPT ![i].to = e]
                                    /\ (e = day /\ bind[i].to = Open) \/ day <= bind[i].to + 1
  <2>1. CASE Stop(i)
    BY <2>1 DEF Stop, IsOpen, Types
  <2>2. CASE Reopen(i)
    BY <2>2 DEF Reopen, Reopened
  <2> QED BY <2>1, <2>2
<1>2. bind[i].from \in Days /\ bind[i].to \in Days \cup {Open}
  BY BindFacts DEF Binds
<1>3. /\ Bindings' = Bindings /\ \A j \in Bindings \ {i} : bind'[j] = bind[j]
      /\ bind'[i].from = bind[i].from /\ bind'[i].to = e
  BY <1>1, StopStep
<1>4. bind'[i].from = bind[i].from /\ bind'[i].to = e /\ bind[i].from \in Days /\ bind[i].to \in Days \cup {Open}
  BY <1>2, <1>3
<1>5. ASSUME NEW d \in Days, d < day, InRange(i, d)' PROVE InRange(i, d)
  <2>1. /\ d \in Nat /\ day \in Nat /\ bind[i].from <= d /\ bind[i].to \in Nat /\ Open \in Nat /\ day < Open
    BY <1>4, <1>5 DEF Days, Open, Types, InRange
  <2>2. d <= bind[i].to
    BY <1>1, <1>5, <2>1
  <2> QED BY <2>1, <2>2 DEF InRange
<1>6. \A j \in Bindings \ {i}, d \in Days : InRange(j, d)' = InRange(j, d)
  BY <1>3 DEF InRange
<1> QED BY <1>3, <1>5, <1>6 DEF Ranges

LEMMA CreateRanges ==
  ASSUME Types, Calendar, NEW c \in Chans, NEW k \in Keys, Create(c, k)
  PROVE  Ranges
<1>1. /\ Bindings' = 1..(Len(bind) + 1) /\ Bindings = 1..Len(bind) /\ Len(bind) \in Nat
      /\ bind'[Len(bind) + 1].from = day
      /\ \A j \in Bindings : bind'[j] = bind[j]
  <2>1. /\ Len(bind') = Len(bind) + 1 /\ Bindings' = 1..Len(bind')
        /\ bind'[Len(bind) + 1] = [chan |-> c, key |-> k, from |-> day, to |-> Open]
        /\ \A j \in Bindings : bind'[j] = bind[j]
    BY CreateStep
  <2>2. Bindings = 1..Len(bind) /\ Len(bind) \in Nat
    BY BindFacts
  <2> QED BY <2>1, <2>2
<1>2. ASSUME NEW j \in Bindings', NEW d \in Days, d < day, InRange(j, d)'
      PROVE  j \in Bindings /\ InRange(j, d)
  <2>1. j # Len(bind) + 1
    <3>1. d \in Nat /\ day \in Nat
      BY DEF Days, Types
    <3> QED BY <1>1, <1>2, <3>1 DEF InRange
  <2>2. j \in Bindings
    BY <1>1, <2>1
  <2> QED BY <1>1, <1>2, <2>2 DEF InRange
<1> QED BY <1>2 DEF Ranges

LEMMA TendedPays ==
  ASSUME PayInv, Tended, Ranges, pick' = pick, pick # NoPick => bind' = bind
  PROVE  Claimed' /\ Kept'
<1>0. Types /\ Calendar /\ Claimed /\ Kept /\ Bindings \subseteq Slots
  BY BindFacts DEF PayInv, DayInv
<1>1. UNCHANGED <<held, gave, booked, fixed, queued, raced>>
  BY DEF Tended
<1>2. Claimed'
  <2>1. CASE pick = NoPick
    BY <2>1 DEF Claimed
  <2>2. CASE pick # NoPick
    <3>1. /\ Bindings' = Bindings /\ bind' = bind
      BY <2>2 DEF Bindings
    <3>2. \A d \in Days : HeldByOther(pick.who, pick.key, d)' = HeldByOther(pick.who, pick.key, d)
      BY <1>1, <3>1 DEF HeldByOther, InRange, KeysOn, Recorded
    <3> QED BY <1>0, <3>1, <3>2 DEF Claimed
  <2> QED BY <2>1, <2>2
<1>3. Kept'
  <2> SUFFICES ASSUME NEW i \in Slots, NEW d \in Days, Settled(i, d)', <<i, d>> \notin raced',
                      NEW k \in booked'[i][d]
               PROVE  k \in KeysOn(i, d)' /\ k \notin Lost(i, d)'
    BY DEF Kept
  <2>1. Settled(i, d) /\ <<i, d>> \in fixed /\ <<i, d>> \notin raced /\ k \in booked[i][d]
    BY <1>1 DEF Settled
  <2>2. i \in Bindings /\ d < day
    BY <1>0, <2>1 DEF Calendar, Over
  <2>3. k \in KeysOn(i, d) /\ k \notin Lost(i, d)
    BY <1>0, <2>1 DEF Kept
  <2>4. ASSUME NEW j \in Bindings', j > i, InRange(j, d)', k \in KeysOn(j, d)' PROVE FALSE
    <3>1. j \in Bindings /\ InRange(j, d)
      BY <2>2, <2>4 DEF Ranges
    <3>2. k \in KeysOn(j, d)
      BY <1>0, <2>4, <3>1, TendedKeys
    <3> QED BY <2>3, <2>4, <3>1, <3>2 DEF Lost
  <2>5. k \in KeysOn(i, d)'
    BY <1>0, <2>2, <2>3, TendedKeys
  <2> QED BY <1>1, <2>3, <2>4, <2>5 DEF Lost
<1> QED BY <1>2, <1>3

LEMMA PickPays ==
  ASSUME PayInv, NEW i \in Bindings, NEW k \in Keys, NEW reopen \in BOOLEAN, ReadPick(i, k, reopen)
  PROVE  Claimed' /\ Kept'
<1>1. Types /\ Calendar /\ Kept
  BY DEF PayInv, DayInv
<1>2. UNCHANGED <<bind, held, gave, booked, fixed, queued, raced>> /\ Bindings' = Bindings
  BY DEF ReadPick, rows, history, Bindings
<1>3. Kept'
  BY <1>1, <1>2 DEF Kept, Settled, KeysOn, Lost, Recorded, InRange
<1> QED BY <1>1, <1>3, PickClaims

LEMMA SettlePays ==
  ASSUME PayInv, NEW i \in Bindings, NEW d \in Days, Settle(i, d)
  PROVE  Claimed' /\ Kept'
<1>0. Types /\ Calendar /\ Claimed /\ Kept
  BY DEF PayInv, DayInv
<1>1. /\ Puts(i, d) \/ Books(i, d)
      /\ i \in Slots /\ UNCHANGED <<day, bind, held, gave, used, pick>>
  BY <1>0, SettlePuts
<1>2. /\ Bindings' = Bindings
      /\ \A j \in Slots, e \in Days : KeysOn(j, e)' = KeysOn(j, e) /\ Lost(j, e)' = Lost(j, e)
      /\ \A e \in Days : HeldByOther(pick.who, pick.key, e)' = HeldByOther(pick.who, pick.key, e)
  BY <1>1 DEF Bindings, KeysOn, Recorded, Lost, InRange, HeldByOther
<1>3. Claimed'
  BY <1>0, <1>1, <1>2 DEF Claimed
<1>4. CASE Puts(i, d)
  <2>1. UNCHANGED <<booked, fixed, queued, raced>>
    BY <1>4 DEF Puts
  <2> QED BY <1>0, <1>2, <1>3, <2>1 DEF Kept, Settled
<1>5. CASE Books(i, d)
  <2>1. PICK paid : paid = KeysOn(i, d) \ Lost(i, d)
    OBVIOUS
  <2>2. booked' = [booked EXCEPT ![i][d] = paid] /\ booked \in [Slots -> [Days -> SUBSET Keys]]
    BY <1>0, <1>5, <2>1 DEF Books, Types
  <2>3. ASSUME NEW j \in Slots, NEW e \in Days, Settled(j, e)', <<j, e>> \notin raced'
        PROVE  booked'[j][e] \subseteq KeysOn(j, e)' \ Lost(j, e)'
    <3>1. CASE j = i /\ e = d
      BY <1>1, <1>2, <2>1, <2>2, <3>1
    <3>2. CASE ~(j = i /\ e = d)
      <4>1. Settled(j, e) /\ <<j, e>> \notin raced
        BY <1>5, <2>3, <3>2 DEF Books, Settled
      <4>2. booked'[j][e] = booked[j][e]
        BY <1>1, <2>2, <3>2
      <4> QED BY <1>0, <1>2, <4>1, <4>2 DEF Kept
    <3> QED BY <3>1, <3>2
  <2> QED BY <1>3, <2>3 DEF Kept
<1> QED BY <1>1, <1>4, <1>5

\* A change does not take over a day whose Keys another binding has paid for.
\* That a Key which another binding gave away was given to this one is so with
\* two bindings only.
LEMMA CommitPays ==
  ASSUME MaxBindings <= 2, PayInv, CommitPick
  PROVE  Claimed' /\ Kept'
<1>0. Types /\ Calendar /\ Blocked /\ Claimed /\ Kept /\ Bindings \subseteq Slots
  BY BindFacts DEF PayInv, DayInv
<1>1. PICK p \in Picks : pick = p /\ p.who \in Bindings /\ p # NoPick
  BY <1>0 DEF CommitPick, Types
<1>2. pick' = NoPick /\ raced' = raced
  BY DEF CommitPick, history
<1>3. Claimed'
  BY <1>2 DEF Claimed
<1>4. CASE Taken(p.key, p.who)
  <2>1. UNCHANGED <<bind, held, gave, booked, fixed, queued>> /\ Bindings' = Bindings
    BY <1>1, <1>4 DEF CommitPick, rows, Bindings
  <2>2. Kept'
    BY <1>0, <1>2, <2>1 DEF Kept, Settled, KeysOn, Lost, Recorded, InRange
  <2> QED BY <1>3, <2>2
<1>5. CASE ~Taken(p.key, p.who)
  <2>1. PICK w \in Bindings : w = p.who /\ w \in Slots
    BY <1>0, <1>1
  <2>2. /\ booked' = booked /\ fixed' = fixed
        /\ queued' = queued \cup {<<w, d>> : d \in p.again}
        /\ bind' = [bind EXCEPT ![w].key = p.key, ![w].to = Open]
    BY <1>1, <1>5, <2>1 DEF CommitPick, Again
  <2>3. /\ Bindings' = Bindings /\ \A j \in Bindings \ {w} : bind'[j] = bind[j]
        /\ bind'[w].from = bind[w].from
    <3>1. PICK k \in Keys : k = p.key
      BY <1>1 DEF Picks
    <3>2. bind' = [bind EXCEPT ![w].key = k, ![w].to = Open]
      BY <2>2, <3>1
    <3> QED BY <1>0, <3>2, ChosenStep
  <2>4. \A j \in Slots \ {w} : held'[j] = held[j] /\ gave'[j] = gave[j]
    BY <1>0, <1>1, <1>5, <2>1, CommitWrites
  <2>5. /\ bind[w].from \in Nat /\ bind[w].to \in Nat /\ bind'[w].from = bind[w].from
        /\ p.today \in Nat /\ p.first \in Nat /\ p.first <= p.today
        /\ bind[w].to = Open \/ p.today <= bind[w].to + 1
    <3>1. bind[w] \in Binds /\ bind'[w].from = bind[w].from
      BY <1>0, <2>3, BindFacts
    <3>2. bind[w].from \in Nat /\ bind[w].to \in Nat
      BY <3>1 DEF Binds, Days, Open
    <3>3. p.today \in Nat /\ p.first \in Nat /\ p.first <= p.today
      BY <1>0, <1>1 DEF Picks, Days, Calendar
    <3> QED BY <1>0, <1>1, <2>1, <3>1, <3>2, <3>3 DEF Claimed
  <2>10. \A d \in Days :
           /\ d \in p.first..p.today => held'[p.who][d] = NewHeld(p.who, d)
           /\ d \notin p.first..p.today /\ d \in p.stuck /\ d < p.first =>
                /\ held'[p.who][d] = StuckHeld(p.who, d)
                /\ gave'[p.who][d] = {p.key} \ StuckHeld(p.who, d)
    BY <1>0, <1>1, <1>5, CommitWrites
  <2>11. \A d \in Days :
           d \notin p.first..p.today /\ ~(d \in p.stuck /\ d < p.first) =>
             /\ gave'[p.who][d] = gave[p.who][d]
             /\ Over(d) /\ InRange(p.who, d) => KeysOn(p.who, d)' = KeysOn(p.who, d)
    BY <1>0, <1>1, <1>5, CommitKeys
  <2>12. ASSUME NEW d \in Days
         PROVE  /\ d \in p.first..p.today => held'[w][d] = NewHeld(w, d)
                /\ d \notin p.first..p.today /\ d \in p.stuck /\ d < p.first =>
                     held'[w][d] = StuckHeld(w, d) /\ gave'[w][d] = {p.key} \ StuckHeld(w, d)
                /\ d \notin p.first..p.today /\ ~(d \in p.stuck /\ d < p.first) =>
                     /\ gave'[w][d] = gave[w][d]
                     /\ Over(d) /\ InRange(w, d) => KeysOn(w, d)' = KeysOn(w, d)
    BY <2>1, <2>10, <2>11
\* On a day that is over, the binding is where it was.
  <2>6. ASSUME NEW d \in Days, Over(d), InRange(w, d)' PROVE InRange(w, d) /\ d < p.today /\ d \in Nat
    <3>1. d < p.today /\ d \in Nat /\ d < Open
      BY <1>1, <2>6 DEF Over, Days, Open
    <3>2. bind[w].from <= d
      BY <2>5, <2>6 DEF InRange
    <3>3. d <= bind[w].to
      BY <2>5, <3>1 DEF Open
    <3> QED BY <3>1, <3>2, <3>3 DEF InRange
  <2>7. ASSUME NEW i \in Slots, NEW d \in Days, Settled(i, d)', <<i, d>> \notin raced',
               NEW k \in booked'[i][d]
        PROVE  k \in KeysOn(i, d)' /\ k \notin Lost(i, d)'
    <3>1. /\ Settled(i, d) /\ <<i, d>> \in fixed /\ <<i, d>> \notin raced /\ k \in booked[i][d]
      BY <1>2, <2>2, <2>7 DEF Settled
    <3>2. i \in Bindings /\ InRange(i, d) /\ Over(d) /\ held[i][d] \cap gave[i][d] = {}
      BY <1>0, <3>1 DEF Calendar
    <3>3. k \in KeysOn(i, d) /\ k \notin Lost(i, d) /\ k \in Keys
      BY <1>0, <3>1 DEF Kept, Types
    <3>4. CASE i = w
      <4>1. d \notin p.first..p.today
        <5>1. d \in p.first..p.today => d \in p.again
          BY <1>0, <1>1, <2>1, <3>1, <3>4 DEF Blocked
        <5>2. d \in p.again => ~Settled(w, d)'
          BY <2>2 DEF Settled
        <5> QED BY <2>7, <3>4, <5>1, <5>2
      <4>2. d \notin p.stuck
        BY <1>0, <1>1, <2>1, <3>1, <3>4 DEF Blocked
      <4>3. KeysOn(w, d)' = KeysOn(w, d) /\ gave'[w][d] = gave[w][d]
        BY <2>12, <3>2, <3>4, <4>1, <4>2
      <4>4. \A j \in Bindings : j > i => InRange(j, d)' = InRange(j, d) /\ KeysOn(j, d)' = KeysOn(j, d)
        <5>1. \A j \in Bindings : j > i => j # w
          BY <1>0, <3>4 DEF Slots
        <5> QED BY <1>0, <2>3, <2>4, <5>1 DEF InRange, KeysOn, Recorded
      <4> QED BY <2>3, <3>3, <3>4, <4>3, <4>4 DEF Lost
    <3>5. CASE i # w
      <4>1. KeysOn(i, d)' = KeysOn(i, d) /\ gave'[i][d] = gave[i][d]
        BY <2>3, <2>4, <3>2, <3>5 DEF KeysOn, Recorded
      <4>2. ASSUME NEW j \in Bindings, j > i, InRange(j, d)', k \in KeysOn(j, d)' PROVE FALSE
        <5>1. CASE j # w
          <6>1. InRange(j, d) /\ k \in KeysOn(j, d)
            BY <1>0, <2>3, <2>4, <4>2, <5>1 DEF InRange, KeysOn, Recorded
          <6> QED BY <3>3, <4>2, <6>1 DEF Lost
        <5>2. CASE j = w
          <6>1. InRange(w, d) /\ d < p.today /\ d \in Nat
            BY <2>6, <3>2, <4>2, <5>2
          <6>2. k \notin KeysOn(w, d)
            BY <3>3, <4>2, <5>2, <6>1 DEF Lost
          <6>3. HeldByOther(w, k, d)
            BY <3>2, <3>3, <3>5 DEF HeldByOther
          <6>4. KeysOn(w, d)' = IF held'[w][d] \cup gave'[w][d] = {} THEN {bind'[w].key} ELSE held'[w][d]
            BY DEF KeysOn, Recorded
          <6>5. CASE d \in p.first..p.today
            <7>1. held'[w][d] = NewHeld(w, d) /\ p.key \in NewHeld(w, d)
              BY <1>1, <2>1, <2>12, <6>5 DEF NewHeld
            <7>2. k \in NewHeld(w, d)
              BY <4>2, <5>2, <6>4, <7>1
            <7>3. k # p.key
              BY <1>0, <1>1, <2>1, <2>5, <6>1, <6>3, <6>5 DEF Claimed
            <7>4. k = bind[w].key /\ Yielded(w, d)
              BY <1>1, <2>1, <6>2, <7>2, <7>3 DEF NewHeld
            <7>5. PICK g \in Bindings \ {w} : k \in gave[g][d]
              BY <7>4 DEF Yielded
            <7>6. g = i
              BY <1>0, <3>2, <3>5, <7>5 DEF Slots
            <7> QED BY <3>3, <7>5, <7>6 DEF Lost
          <6>6. CASE d \notin p.first..p.today /\ d \in p.stuck /\ d < p.first
            <7>1. /\ held'[w][d] = StuckHeld(w, d) /\ gave'[w][d] = {p.key} \ StuckHeld(w, d)
              BY <2>12, <6>6
            <7>2. held'[w][d] \cup gave'[w][d] = {p.key}
              BY <1>1, <7>1 DEF StuckHeld
            <7>3. k \in StuckHeld(w, d)
              BY <4>2, <5>2, <6>4, <7>1, <7>2
            <7>4. k = p.key /\ ~HeldByOther(w, p.key, d)
              BY <1>1, <7>3 DEF StuckHeld
            <7> QED BY <6>3, <7>4
          <6>7. CASE d \notin p.first..p.today /\ ~(d \in p.stuck /\ d < p.first)
            <7>1. KeysOn(w, d)' = KeysOn(w, d)
              BY <2>12, <3>2, <6>1, <6>7
            <7> QED BY <4>2, <5>2, <6>2, <7>1
          <6> QED BY <6>5, <6>6, <6>7
        <5> QED BY <5>1, <5>2
      <4>3. k \notin gave[i][d]
        BY <3>3 DEF Lost
      <4> QED BY <2>3, <3>3, <4>1, <4>2, <4>3 DEF Lost
    <3> QED BY <3>4, <3>5
  <2>8. Kept'
    BY <2>7 DEF Kept
  <2> QED BY <1>3, <2>8
<1> QED BY <1>4, <1>5

LEMMA NextPays ==
  ASSUME MaxBindings <= 2, PayInv, [Next]_vars
  PROVE  PayInv'
<1>0. DayInv /\ DayInv' /\ Types /\ Calendar /\ day \in Days
  BY NextDays DEF PayInv, DayInv, Types
<1>1. ASSUME Tended, Ranges, pick' = pick, pick # NoPick => bind' = bind PROVE PayInv'
  BY <1>0, <1>1, TendedPays DEF PayInv
\* Nothing is done to the bindings.
<1>2. ASSUME bind' = bind PROVE Ranges
  BY <1>2 DEF Ranges, Bindings, InRange
<1>3. CASE UNCHANGED vars
  <2>1. UNCHANGED <<bind, held, gave, booked, fixed, queued, raced, pick>> /\ Bindings' = Bindings
    BY <1>3 DEF vars, Bindings
  <2>2. Claimed'
    BY <2>1 DEF PayInv, Claimed, HeldByOther, InRange, KeysOn, Recorded
  <2>3. Kept'
    BY <2>1 DEF PayInv, Kept, Settled, KeysOn, Lost, Recorded, InRange
  <2> QED BY <1>0, <2>2, <2>3 DEF PayInv
<1>4. CASE NewDay
  <2>1. bind' = bind
    BY <1>4 DEF NewDay
  <2> QED BY <1>0, <1>1, <1>2, <1>4, <2>1, NewDayTends
<1>5. ASSUME NEW c \in Chans, NEW k \in Keys, Sell(c, k) PROVE PayInv'
  <2>1. bind' = bind
    BY <1>5 DEF Sell
  <2> QED BY <1>0, <1>1, <1>2, <1>5, <2>1, SellTends
<1>6. ASSUME NEW c \in Chans, NEW k \in Keys, Create(c, k) PROVE PayInv'
  <2>1. pick = NoPick
    BY <1>6 DEF Create, Act
  <2> QED BY <1>0, <1>1, <1>6, <2>1, CreateTends, CreateRanges
<1>7. ASSUME NEW i \in Bindings, Stop(i) \/ Reopen(i) PROVE PayInv'
  <2>1. pick = NoPick
    BY <1>7 DEF Stop, Reopen, Act
  <2> QED BY <1>0, <1>1, <1>7, <2>1, StopTends, StopRanges
<1>8. ASSUME NEW i \in Bindings, NEW k \in Keys, NEW reopen \in BOOLEAN, ReadPick(i, k, reopen)
      PROVE  PayInv'
  BY <1>0, <1>8, PickPays DEF PayInv
<1>9. CASE CommitPick
  BY <1>0, <1>9, CommitPays DEF PayInv
<1>10. ASSUME NEW i \in Bindings, NEW d \in Days, Settle(i, d) PROVE PayInv'
  BY <1>0, <1>10, SettlePays DEF PayInv
<1> QED BY <1>3, <1>4, <1>5, <1>6, <1>7, <1>8, <1>9, <1>10 DEF Next

(* With two bindings what a Key cost on a day is in the cost of one of     *)
(* them only, for any channels, Keys, days and changes by a person, unless *)
(* a day was booked while a change of its Keys was under way.  With a      *)
(* third binding it may be in the cost of two.                             *)
THEOREM OneBindingPays == ASSUME MaxBindings <= 2 PROVE Spec => []PaidOnce
<1>1. Init => PayInv
  <2> SUFFICES ASSUME Init PROVE Claimed /\ Kept
    BY InitDays DEF PayInv
  <2> QED BY DEF Init, Claimed, Kept, Settled
<1>2. PayInv /\ [Next]_vars => PayInv'
  BY NextPays
<1>3. PayInv => PaidOnce
  <2> SUFFICES ASSUME PayInv, NEW k \in Keys, NEW d \in Days, NEW i \in Bindings, NEW j \in Bindings,
                      Settled(i, d), k \in booked[i][d], Settled(j, d), k \in booked[j][d],
                      {<<i, d>>, <<j, d>>} \cap raced = {}
               PROVE  i = j
    BY DEF PaidOnce
  <2>1. Calendar /\ Kept /\ i \in Slots /\ j \in Slots
    BY BindFacts DEF PayInv, DayInv
  <2>2. InRange(i, d) /\ InRange(j, d)
    BY <2>1 DEF Calendar, Settled
  <2>3. /\ k \in KeysOn(i, d) /\ k \notin Lost(i, d)
        /\ k \in KeysOn(j, d) /\ k \notin Lost(j, d)
    BY <2>1 DEF Kept
  <2>4. ~(j > i) /\ ~(i > j)
    BY <2>2, <2>3 DEF Lost
  <2> QED BY <2>1, <2>4 DEF Slots
<1> QED BY <1>1, <1>2, <1>3, PTL DEF Spec
=============================================================================
