-------------------------- MODULE SettlementProofs --------------------------
(* Proofs about Settlement.tla, for any people, figures, requests, attempts,   *)
(* changes of the sources and kinds of trouble.                                *)
EXTENDS Settlement, TLAPS

-----------------------------------------------------------------------------
(* Type correctness.  A figure stands in a row only beside the reason it       *)
(* belongs to; the rows that a plan and a call carry must say so as well,      *)
(* because they are what the next row is made of.                              *)

Fit(r) == r \in Rows /\ (r.after > 0 => r.why = "shrunk")

Calls == [pc : Phases, state : Rows, config : 0..MaxConfig,
          scope : 0..MaxRequests, edited : BOOLEAN, recent : BOOLEAN,
          fig : Figures \union {0}, compared : Nat,
          confirmed : BOOLEAN, shown : Figures \union {0}, tries : 0..MaxTries,
          note : Rows]

Calling ==
  /\ run \in [Settlers -> Calls]
  /\ \A s \in Settlers : Fit(run[s].state) /\ Fit(run[s].note)

Plans == [states : BOOLEAN, days : BOOLEAN, state : Rows, booked : BOOLEAN]

TypeInv ==
  /\ TypeOK
  /\ Calling
  /\ Fit(round.state)

\* The bounds and what the empty records are.
LEMMA Constants ==
  /\ MaxConfig \in Nat /\ MaxRequests \in Nat /\ MaxTries \in Nat \ {0}
  /\ NoConfig \in 0..NoConfig /\ 0..MaxConfig \subseteq 0..NoConfig
  /\ \A f \in Figures \union {0} : f \in Nat
  /\ 0 \in 0..MaxRequests /\ 0 \in 0..MaxConfig /\ 0 \in 0..MaxTries
  /\ Troubles \subseteq Reasons
<1>1. MaxConfig \in Nat /\ MaxRequests \in Nat /\ MaxTries \in Nat \ {0}
  BY SettlementAssumption
<1>2. Troubles \subseteq Reasons
  BY SettlementAssumption DEF Reasons, Manual, Sticky
<1>3. \A f \in Figures \union {0} : f \in Nat
  BY SettlementAssumption
<1> QED BY <1>1, <1>2, <1>3 DEF NoConfig

LEMMA NoRowFits == Fit(NoRow)
<1>1. NoRow \in Rows
  BY Constants DEF NoRow, Rows, Reasons
<1> QED BY <1>1 DEF Fit, NoRow

LEMMA NotRunningFits ==
  NotRunning \in Calls /\ Fit(NotRunning.state) /\ Fit(NotRunning.note)
<1>1. NoRow \in Rows
  BY NoRowFits DEF Fit
<1>2. NotRunning \in Calls
  BY <1>1, Constants DEF NotRunning, Calls, Phases
<1> QED BY <1>2, NoRowFits DEF NotRunning

\* What a failed settlement leaves is a row, for the same request.
LEMMA OutcomeFits ==
  ASSUME NEW st \in Rows, NEW why \in Reasons, NEW byHand \in BOOLEAN,
         NEW version \in 0..MaxConfig, NEW fig \in Figures \union {0}
  PROVE  /\ Fit(Outcome(st, why, byHand, version, fig))
         /\ Outcome(st, why, byHand, version, fig).req = st.req
<1> DEFINE blind == Blind(st, why)
           timed == why = "reading" \/ blind
           out == Outcome(st, why, byHand, version, fig)
<1>1. blind \in BOOLEAN
  BY DEF Blind, Rows
<1>2. (why \notin Sticky) \in BOOLEAN
  OBVIOUS
<1>3. /\ st.req \in 0..MaxRequests /\ st.cut \in BOOLEAN /\ st.later \in BOOLEAN
      /\ st.attempts \in Nat
  BY DEF Rows
<1>4. st.attempts + 1 \in Nat
  BY <1>3
<1>5. version \in 0..NoConfig
  BY Constants
<1>6. out = [req |-> st.req, cut |-> st.cut, why |-> why, config |-> version,
       blind |-> blind, cleared |-> FALSE,
       after |-> IF why = "shrunk" THEN fig ELSE 0,
       attempts |-> IF timed /\ ~byHand THEN st.attempts + 1 ELSE st.attempts,
       later |-> IF timed /\ byHand THEN st.later ELSE why \notin Sticky]
  BY DEF Outcome
<1>7. out.after > 0 => out.why = "shrunk"
  <2>1. out.why = why /\ out.after = IF why = "shrunk" THEN fig ELSE 0
    BY <1>6
  <2> QED BY <2>1
<1>8. out \in Rows
  <2>1. (IF why = "shrunk" THEN fig ELSE 0) \in Figures \union {0}
    OBVIOUS
  <2>2. (IF timed /\ ~byHand THEN st.attempts + 1 ELSE st.attempts) \in Nat
    BY <1>3, <1>4
  <2>3. (IF timed /\ byHand THEN st.later ELSE why \notin Sticky) \in BOOLEAN
    BY <1>3, <1>2
  <2> HIDE DEF blind, timed, out
  <2> QED BY <1>1, <1>3, <1>5, <1>6, <2>1, <2>2, <2>3 DEF Rows
<1> QED BY <1>6, <1>7, <1>8 DEF Fit

\* So is what the local judgement leaves.
LEMMA RecheckedFits ==
  ASSUME NEW st, Fit(st), NEW blocker \in Reasons, NEW version \in 0..MaxConfig
  PROVE  /\ Fit(Rechecked(st, blocker, version))
         /\ Rechecked(st, blocker, version).req = st.req
<1>1. st \in Rows
  BY DEF Fit
<1>2. CASE blocker # "none"
  BY <1>1, <1>2, OutcomeFits, 0 \in Figures \union {0}, FALSE \in BOOLEAN DEF Rechecked
<1>3. CASE blocker = "none"
  <2>1. Rechecked(st, blocker, version) = [st EXCEPT !.cleared = TRUE, !.later = FALSE]
    BY <1>3 DEF Rechecked
  <2>2. [st EXCEPT !.cleared = TRUE, !.later = FALSE] \in Rows
    BY <1>1 DEF Rows
  <2> QED BY <1>1, <2>1, <2>2 DEF Fit, Rows
<1> QED BY <1>2, <1>3

\* A call that goes on to record a note, and one that a person opens, are calls.
LEMMA CallRecords ==
  ASSUME NEW k \in Calls, NEW n \in Rows
  PROVE  LET c == [k EXCEPT !.pc = "record", !.note = n]
         IN  c \in Calls /\ c.state = k.state /\ c.note = n
<1>1. "record" \in Phases
  BY DEF Phases
<1> QED BY <1>1 DEF Calls

\* What is left of a call that failed.
Failed(st, n) == [NotRunning EXCEPT !.pc = "record", !.state = st, !.note = n]

LEMMA CallFails ==
  ASSUME NEW st \in Rows, NEW n \in Rows
  PROVE  /\ Failed(st, n) \in Calls
         /\ Failed(st, n).pc = "record" /\ Failed(st, n).state = st /\ Failed(st, n).note = n
<1>1. "record" \in Phases /\ NotRunning \in Calls
  BY NotRunningFits DEF Phases
<1> QED BY <1>1 DEF Calls, Failed

Opened(k, st, g, d, b, f) ==
  [k EXCEPT !.pc = "settle", !.state = st, !.config = g, !.recent = d, !.confirmed = b,
            !.shown = f]

LEMMA CallSettles ==
  ASSUME NEW k \in Calls, NEW st \in Rows, NEW g \in 0..MaxConfig, NEW d \in BOOLEAN,
         NEW b \in BOOLEAN, NEW f \in Figures \union {0}
  PROVE  /\ Opened(k, st, g, d, b, f) \in Calls
         /\ Opened(k, st, g, d, b, f).state = st /\ Opened(k, st, g, d, b, f).note = k.note
<1>1. "settle" \in Phases
  BY DEF Phases
<1> QED BY <1>1 DEF Calls, Opened

\* The reasons of a blocker, and a call that goes on with another phase, note
\* or binding, stay of the right kind.
LEMMA OneCallMoves ==
  ASSUME Calling, NEW s \in Settlers, NEW c \in Calls, Fit(c.state), Fit(c.note),
         run' = [run EXCEPT ![s] = c]
  PROVE  Calling'
<1>1. run' \in [Settlers -> Calls]
  BY DEF Calling
<1>2. ASSUME NEW t \in Settlers
      PROVE  Fit(run'[t].state) /\ Fit(run'[t].note)
  BY DEF Calling
<1> QED BY <1>1, <1>2 DEF Calling, Fit

LEMMA SettledMoves ==
  ASSUME Calling, NEW s \in Settlers, Settled(s)
  PROVE  Calling'
<1>1. ASSUME NEW t \in Settlers
      PROVE  run'[t] \in Calls /\ Fit(run'[t].state) /\ Fit(run'[t].note)
  BY NotRunningFits DEF Calling, Settled
<1>2. run' = [t \in Settlers |-> run'[t]]
  BY DEF Settled
<1> QED BY <1>1, <1>2 DEF Calling, Fit

LEMMA NotSettledMoves ==
  ASSUME Calling, NEW s \in Settlers, NEW why \in Reasons,
         NEW fig \in Figures \union {0}, NotSettled(s, why, fig)
  PROVE  Calling'
<1>1. ASSUME NEW t \in Settlers
      PROVE  run'[t] \in Calls /\ Fit(run'[t].state) /\ Fit(run'[t].note)
  <2>1. run[t] \in Calls /\ Fit(run[t].state) /\ Fit(run[t].note)
    BY DEF Calling
  <2>2. CASE t \notin Sharers(s)
    BY <2>1, <2>2 DEF NotSettled
  <2>3. CASE t \in Sharers(s)
    <3> DEFINE out == Outcome(run[t].state, why, t # Poll, run[t].config, fig)
    <3>1. Fit(out)
      BY <2>1, OutcomeFits, (t # Poll) \in BOOLEAN DEF Calls
    <3>2. run'[t] = Failed(run[t].state, out)
      BY <2>3 DEF NotSettled, Failed
    <3> HIDE DEF out
    <3>3. out \in Rows /\ run[t].state \in Rows
      BY <2>1, <3>1 DEF Fit
    <3> QED BY <2>1, <3>1, <3>2, <3>3, CallFails
  <2> QED BY <2>2, <2>3
<1>2. run' = [t \in Settlers |-> run'[t]]
  BY DEF NotSettled
<1> QED BY <1>1, <1>2 DEF Calling, Fit

LEMMA AgainMoves ==
  ASSUME Calling, NEW s \in Settlers, Again(s)
  PROVE  Calling'
<1>1. run[s] \in Calls /\ Fit(run[s].state) /\ Fit(run[s].note)
  BY DEF Calling
<1>2. CASE run[s].tries + 1 < MaxTries
  <2> DEFINE c == [run[s] EXCEPT !.pc = "settle", !.tries = run[s].tries + 1]
  <2>1. run' = [run EXCEPT ![s] = c]
    BY <1>2 DEF Again, Calling
  <2>2. run[s].tries + 1 \in 0..MaxTries
    BY <1>1, <1>2, Constants DEF Calls
  <2>3. c \in Calls /\ c.state = run[s].state /\ c.note = run[s].note
    BY <1>1, <2>2 DEF Calls, Phases
  <2> QED BY <1>1, <2>1, <2>3, OneCallMoves
<1>3. CASE ~(run[s].tries + 1 < MaxTries)
  BY <1>3, NotSettledMoves, "reading" \in Reasons, 0 \in Figures \union {0} DEF Again, Reasons
<1> QED BY <1>2, <1>3

\* Every step of a call of settleDay.
LEMMA SettlingMoves ==
  ASSUME TypeInv, NEW s \in Settlers, Settling(s)
  PROVE  Calling'
<1>0. run[s] \in Calls /\ Fit(run[s].state) /\ Fit(run[s].note) /\ Calling
      /\ run \in [Settlers -> Calls]
  BY DEF TypeInv, Calling
<1>1. CASE Inspect(s)
  <2>1. CASE Settled(s)
    BY <1>0, <2>1, SettledMoves
  <2>2. CASE run' = [run EXCEPT ![s].pc = "join"]
    <3> DEFINE c == [run[s] EXCEPT !.pc = "join"]
    <3>1. run' = [run EXCEPT ![s] = c]
      BY <1>0, <2>2
    <3>2. c \in Calls /\ c.state = run[s].state /\ c.note = run[s].note
      BY <1>0 DEF Calls, Phases
    <3> QED BY <1>0, <3>1, <3>2, OneCallMoves
  <2>3. CASE run' = [run EXCEPT ![s].pc = "read", ![s].scope = scope, ![s].edited = edited]
    <3> DEFINE c == [run[s] EXCEPT !.pc = "read", !.scope = scope, !.edited = edited]
    <3>1. run' = [run EXCEPT ![s] = c]
      BY <1>0, <2>3
    <3>2. scope \in 0..MaxRequests /\ edited \in BOOLEAN
      BY Constants DEF TypeInv, TypeOK
    <3>3. c \in Calls /\ c.state = run[s].state /\ c.note = run[s].note
      BY <1>0, <3>2 DEF Calls, Phases
    <3> QED BY <1>0, <3>1, <3>3, OneCallMoves
  <2> QED BY <1>1, <2>1, <2>2, <2>3 DEF Inspect
<1>2. CASE ReadSites(s)
  <2>1. CASE Settled(s)
    BY <1>0, <2>1, SettledMoves
  <2>2. CASE Again(s)
    BY <1>0, <2>2, AgainMoves
  <2>3. CASE NotSettled(s, site, 0) /\ site # "none"
    <3>1. site \in Reasons
      BY <2>3, Constants DEF TypeInv, TypeOK
    <3> QED BY <1>0, <2>3, <3>1, NotSettledMoves, 0 \in Figures \union {0}
  <2>4. ASSUME NEW fig \in Figures,
               run' = [run EXCEPT ![s].fig = fig,
                         ![s].pc = IF Judged(s, fig) THEN "judge" ELSE "save"]
        PROVE  Calling'
    <3> DEFINE c == [run[s] EXCEPT !.fig = fig,
                       !.pc = IF Judged(s, fig) THEN "judge" ELSE "save"]
    <3>1. run' = [run EXCEPT ![s] = c]
      BY <1>0, <2>4
    <3>2. fig \in Figures \union {0}
      OBVIOUS
    <3>3. c \in Calls /\ c.state = run[s].state /\ c.note = run[s].note
      BY <1>0, <3>2 DEF Calls, Phases
    <3> QED BY <1>0, <3>1, <3>3, OneCallMoves
  <2> QED BY <1>2, <2>1, <2>2, <2>3, <2>4 DEF ReadSites
<1>3. CASE Judge(s)
  <2>1. CASE Settled(s)
    BY <1>0, <2>1, SettledMoves
  <2>2. CASE Again(s)
    BY <1>0, <2>2, AgainMoves
  <2>3. CASE NotSettled(s, "shrunk", run[s].fig)
    <3>1. "shrunk" \in Reasons /\ run[s].fig \in Figures \union {0}
      BY <1>0 DEF Reasons, Sticky, Calls
    <3> QED BY <1>0, <2>3, <3>1, NotSettledMoves
  <2>4. CASE run' = [run EXCEPT ![s].pc = "save", ![s].compared = ledger.rev]
    <3> DEFINE c == [run[s] EXCEPT !.pc = "save", !.compared = ledger.rev]
    <3>1. run' = [run EXCEPT ![s] = c]
      BY <1>0, <2>4
    <3>2. ledger.rev \in Nat
      BY DEF TypeInv, TypeOK
    <3>3. c \in Calls /\ c.state = run[s].state /\ c.note = run[s].note
      BY <1>0, <3>2 DEF Calls, Phases
    <3> QED BY <1>0, <3>1, <3>3, OneCallMoves
  <2> QED BY <1>3, <2>1, <2>2, <2>3, <2>4 DEF Judge
<1>4. CASE Book(s)
  <2>1. CASE Settled(s)
    BY <1>0, <2>1, SettledMoves
  <2>2. CASE Again(s)
    BY <1>0, <2>2, AgainMoves
  <2>3. CASE run' = [run EXCEPT ![s].pc = "saved"]
    <3> DEFINE c == [run[s] EXCEPT !.pc = "saved"]
    <3>1. run' = [run EXCEPT ![s] = c]
      BY <1>0, <2>3
    <3>2. c \in Calls /\ c.state = run[s].state /\ c.note = run[s].note
      BY <1>0 DEF Calls, Phases
    <3> QED BY <1>0, <3>1, <3>2, OneCallMoves
  <2> QED BY <1>4, <2>1, <2>2, <2>3 DEF Book
<1>5. CASE LookAgain(s)
  BY <1>0, <1>5, SettledMoves, AgainMoves DEF LookAgain
<1>6. CASE Fails(s)
  BY <1>0, <1>6, SettledMoves, NotSettledMoves, "reading" \in Reasons, 0 \in Figures \union {0}
     DEF Fails, Reasons
<1>7. CASE Record(s)
  BY <1>0, <1>7, NotRunningFits, OneCallMoves DEF Record
<1> QED BY <1>1, <1>2, <1>3, <1>4, <1>5, <1>6, <1>7 DEF Settling

\* Every step of the whole system.
LEMMA NextMoves ==
  ASSUME TypeInv, [Next]_vars
  PROVE  Calling'
<1>0. Calling /\ run \in [Settlers -> Calls] /\ Fit(row) /\ Fit(round.state)
      /\ config \in 0..MaxConfig /\ Poll \in Settlers
      /\ \A s \in Settlers : run[s] \in Calls /\ Fit(run[s].state) /\ Fit(run[s].note)
  BY DEF TypeInv, TypeOK, Calling, Fit, Settlers
<1>1. CASE UNCHANGED run
  BY <1>0, <1>1 DEF Calling, Fit
<1>2. CASE Plan
  <2>1. ASSUME NEW phase \in Phases, Start(Poll, phase, round.state)
        PROVE  Calling'
    <3> DEFINE c == [NotRunning EXCEPT !.pc = phase, !.state = round.state, !.config = config,
                                       !.recent = (age = 0)]
    <3>1. round.state \in Rows /\ (age = 0) \in BOOLEAN
      BY <1>0 DEF Fit
    <3>2. c \in Calls /\ c.state = round.state /\ c.note = NotRunning.note
      BY <1>0, <3>1, NotRunningFits DEF Calls
    <3>3. run' = [run EXCEPT ![Poll] = c]
      BY <2>1 DEF Start
    <3> QED BY <1>0, <3>2, <3>3, NotRunningFits, OneCallMoves
  <2>2. "probe" \in Phases /\ "recheck" \in Phases /\ "settle" \in Phases
    BY DEF Phases
  <2> QED BY <1>1, <1>2, <2>1, <2>2 DEF Plan
<1>3. CASE Probe
  <2>1. PICK blocker \in Probed :
          run' = IF blocker \in {"none", "unknown"}
              THEN [run EXCEPT ![Poll].pc = "settle"]
              ELSE [run EXCEPT ![Poll].pc = "record",
                      ![Poll].note = Outcome(NoRow, blocker, FALSE, run[Poll].config, 0)]
    BY <1>3 DEF Probe
  <2>2. CASE blocker \in {"none", "unknown"}
    <3> DEFINE c == [run[Poll] EXCEPT !.pc = "settle"]
    <3>1. run' = [run EXCEPT ![Poll] = c]
      BY <1>0, <2>1, <2>2
    <3>2. c \in Calls /\ c.state = run[Poll].state /\ c.note = run[Poll].note
      BY <1>0 DEF Calls, Phases
    <3> QED BY <1>0, <3>1, <3>2, OneCallMoves
  <2>3. CASE blocker \notin {"none", "unknown"}
    <3> DEFINE out == Outcome(NoRow, blocker, FALSE, run[Poll].config, 0)
               c == [run[Poll] EXCEPT !.pc = "record", !.note = out]
    <3>1. blocker \in Reasons
      BY <2>3, Constants DEF Probed, Reasons, Manual, Sticky
    <3>2. Fit(out)
      <4>1. NoRow \in Rows
        BY NoRowFits DEF Fit
      <4>2. run[Poll].config \in 0..MaxConfig
        BY <1>0 DEF Calls
      <4> QED BY <3>1, <4>1, <4>2, OutcomeFits, 0 \in Figures \union {0}, FALSE \in BOOLEAN
    <3>3. run' = [run EXCEPT ![Poll] = c]
      BY <1>0, <2>1, <2>3
    <3> HIDE DEF out
    <3>4. out \in Rows
      BY <3>2 DEF Fit
    <3>5. c \in Calls /\ c.state = run[Poll].state /\ c.note = out
      BY <1>0, <3>4, CallRecords
    <3> QED BY <1>0, <3>2, <3>3, <3>5, OneCallMoves
  <2> QED BY <2>2, <2>3
<1>4. CASE Recheck
  <2> DEFINE why(blocker) == IF blocker = "unknown" THEN run[Poll].state.why ELSE blocker
             out(blocker) == Rechecked(run[Poll].state, why(blocker), run[Poll].config)
  <2>1. PICK blocker \in Probed :
          \/ run' = [run EXCEPT ![Poll] = NotRunning]
          \/ run' = [run EXCEPT ![Poll].pc = "record", ![Poll].note = out(blocker)]
    BY <1>4 DEF Recheck
  <2>2. CASE run' = [run EXCEPT ![Poll] = NotRunning]
    BY <1>0, <2>2, NotRunningFits, OneCallMoves
  <2>3. CASE run' = [run EXCEPT ![Poll].pc = "record", ![Poll].note = out(blocker)]
    <3> DEFINE c == [run[Poll] EXCEPT !.pc = "record", !.note = out(blocker)]
    <3>1. why(blocker) \in Reasons
      <4>1. run[Poll].state.why \in Reasons
        BY <1>0 DEF Fit, Rows
      <4>2. blocker # "unknown" => blocker \in Reasons
        BY <2>1 DEF Probed, Reasons, Manual, Sticky
      <4> QED BY <4>1, <4>2
    <3> HIDE DEF why
    <3>2. Fit(out(blocker))
      BY <1>0, <3>1, RecheckedFits DEF Calls
    <3>3. run' = [run EXCEPT ![Poll] = c]
      BY <1>0, <2>3
    <3> HIDE DEF out
    <3>4. out(blocker) \in Rows
      BY <3>2 DEF Fit
    <3>5. c \in Calls /\ c.state = run[Poll].state /\ c.note = out(blocker)
      BY <1>0, <3>4, CallRecords
    <3> QED BY <1>0, <3>2, <3>3, <3>5, OneCallMoves
  <2> QED BY <2>1, <2>2, <2>3
<1>5. CASE \E s \in Settlers : Settling(s)
  BY <1>5, SettlingMoves
<1>6. ASSUME NEW s \in Hands, OpenByHand(s)
      PROVE  Calling'
  <2>1. PICK st \in {row, NoRow}, sure \in BOOLEAN, recent \in BOOLEAN,
             shown \in Figures \union {0} :
          run' = [run EXCEPT ![s] = [NotRunning EXCEPT !.pc = "settle", !.state = st,
                    !.config = config, !.recent = recent, !.confirmed = sure,
                    !.shown = shown]]
    BY <1>6 DEF OpenByHand
  <2>2. Fit(st)
    BY <1>0, NoRowFits
  <2>3. st \in Rows
    BY <2>2 DEF Fit
  <2> DEFINE c == Opened(NotRunning, st, config, recent, sure, shown)
  <2>6. NotRunning \in Calls /\ config \in 0..MaxConfig
    BY <1>0, NotRunningFits
  <2>7. c \in Calls /\ c.state = st /\ c.note = NotRunning.note
    BY <2>3, <2>6, CallSettles
  <2>8. run' = [run EXCEPT ![s] = c] /\ s \in Settlers
    BY <2>1 DEF Settlers, Opened
  <2> HIDE DEF c
  <2>9. Fit(c.state) /\ Fit(c.note)
    BY <2>2, <2>7, NotRunningFits
  <2> QED BY <1>0, <2>7, <2>8, <2>9, OneCallMoves
<1>7. CASE TimePasses
  <2>1. ASSUME NEW s \in Settlers
        PROVE  run'[s] \in Calls /\ Fit(run'[s].state) /\ Fit(run'[s].note)
    <3> DEFINE st == [run[s].state EXCEPT !.later = FALSE]
    <3>1. run'[s] = [run[s] EXCEPT !.state = st]
      BY <1>0, <1>7 DEF TimePasses
    <3>2. st \in Rows /\ st.after = run[s].state.after /\ st.why = run[s].state.why
      BY <1>0 DEF Fit, Rows
    <3> HIDE DEF st
    <3>3. run'[s] \in Calls /\ run'[s].state = st /\ run'[s].note = run[s].note
      BY <1>0, <3>1, <3>2 DEF Calls
    <3> QED BY <1>0, <3>2, <3>3 DEF Fit
  <2>2. run' = [s \in Settlers |-> run'[s]]
    BY <1>7 DEF TimePasses
  <2> QED BY <2>1, <2>2 DEF Calling, Fit
<1>8. CASE Crash
  <2>1. run' \in [Settlers -> Calls]
    BY <1>8, NotRunningFits DEF Crash
  <2>2. \A s \in Settlers : run'[s] = NotRunning
    BY <1>8 DEF Crash
  <2> QED BY <2>1, <2>2, NotRunningFits DEF Calling, Fit
<1>9. CASE UNCHANGED vars
  BY <1>1, <1>9 DEF vars
<1>10. CASE Round /\ ~Plan
  BY <1>1, <1>10 DEF Round, ReadStates, ReadDays, PlanFails, DeleteState
<1>11. CASE Polling
  BY <1>0, <1>3, <1>4, <1>5, <1>11 DEF Polling
<1>12. CASE MoveSwitch \/ CutRequest \/ Prune \/ SiteChanges \/ ConfigChanges
            \/ EditBinding \/ DayPasses \/ WeekPasses
  BY <1>1, <1>12 DEF MoveSwitch, CutRequest, Request, Prune, SiteChanges, ConfigChanges,
     EditBinding, DayPasses, WeekPasses
<1> QED BY <1>2, <1>5, <1>6, <1>7, <1>8, <1>9, <1>10, <1>11, <1>12 DEF Next, Settlers

\* The rest of the state.
LEMMA InitType == Init => TypeInv
<1> SUFFICES ASSUME Init PROVE TypeInv
  OBVIOUS
<1>1. NoRow \in Rows /\ Fit(NoRow) /\ NoRow.after = 0 /\ NoRow.req = 0
  BY NoRowFits DEF Fit, NoRow
<1>2. run \in [Settlers -> Calls] /\ Calling
  BY NotRunningFits DEF Init, Calling
<1>3. round \in Plans /\ round.state = NoRow
  BY <1>1 DEF Init, NoRound, Plans
<1>4. TypeOK
  <2>1. /\ row \in Rows /\ row.req <= reqs /\ (row.after > 0 => row.why = "shrunk")
        /\ scope \in 0..reqs /\ reqs \in 0..MaxRequests /\ lapsed \in 0..reqs
        /\ basis \in 0..reqs /\ swept \in 0..reqs /\ markedFor \in 0..reqs
    BY <1>1, Constants DEF Init
  <2>2. ledger \in [rev : Nat, fig : Figures \union {0}]
    BY DEF Init
  <2>3. age \in 0..3 /\ edited \in BOOLEAN /\ config \in 0..MaxConfig
    <3>1. age = 0 /\ config = 0 /\ (edited <=> FALSE) /\ edited \in BOOLEAN
      BY DEF Init
    <3>2. age \in 0..3
      BY <3>1
    <3>3. config \in 0..MaxConfig
      BY <3>1, Constants
    <3> QED BY <3>1, <3>2, <3>3
  <2>4. /\ site \in Troubles \union {"none"}
        /\ deleting \in BOOLEAN /\ memo \in BOOLEAN
    BY DEF Init
  <2> QED BY <1>2, <1>3, <2>1, <2>2, <2>3, <2>4 DEF TypeOK, Calls, Plans
<1> QED BY <1>1, <1>2, <1>3, <1>4 DEF TypeInv

\* The state around the day: counters only grow, within their bounds.
LEMMA DayType ==
  ASSUME TypeInv, [Next]_vars
  PROVE  /\ scope' \in 0..reqs' /\ reqs' \in 0..MaxRequests /\ lapsed' \in 0..reqs'
         /\ age' \in 0..3 /\ edited' \in BOOLEAN /\ config' \in 0..MaxConfig
         /\ site' \in Troubles \union {"none"}
         /\ reqs <= reqs'
<1>0. /\ scope \in 0..reqs /\ reqs \in 0..MaxRequests /\ lapsed \in 0..reqs
      /\ age \in 0..3 /\ edited \in BOOLEAN /\ config \in 0..MaxConfig
      /\ site \in Troubles \union {"none"} /\ MaxAge \in 0..3
      /\ MaxRequests \in Nat /\ MaxConfig \in Nat
  BY Constants, SettlementAssumption DEF TypeInv, TypeOK
<1>1. CASE UNCHANGED dayVars
  BY <1>0, <1>1 DEF dayVars
<1>2. CASE MoveSwitch \/ CutRequest
  BY <1>0, <1>2 DEF MoveSwitch, CutRequest, Request
<1>3. CASE SiteChanges \/ ConfigChanges \/ EditBinding
  <2>1. CASE SiteChanges
    BY <1>0, <2>1 DEF SiteChanges
  <2>2. CASE ConfigChanges
    BY <1>0, <2>2 DEF ConfigChanges
  <2>3. CASE EditBinding
    BY <1>0, <2>3 DEF EditBinding
  <2> QED BY <1>3, <2>1, <2>2, <2>3
<1>4. CASE DayPasses \/ WeekPasses
  BY <1>0, <1>4 DEF DayPasses, WeekPasses
<1>5. CASE Round \/ Prune \/ TimePasses \/ Crash
  BY <1>1, <1>5 DEF Round, ReadStates, ReadDays, PlanFails, Plan, DeleteState, Prune,
     TimePasses, Crash
<1>6. ASSUME NEW s \in Settlers, Settling(s) \/ OpenByHand(s)
      PROVE  UNCHANGED dayVars
  BY <1>6 DEF Settling, OpenByHand, Inspect, ReadSites, Judge, Book, LookAgain, Fails, Record
<1>7. CASE Polling
  BY <1>1, <1>6, <1>7 DEF Polling, Probe, Recheck, Settlers
<1>8. CASE UNCHANGED vars
  BY <1>1, <1>8 DEF vars, dayVars
<1> QED BY <1>1, <1>2, <1>3, <1>4, <1>5, <1>6, <1>7, <1>8 DEF Next, Settlers

\* A row is replaced by none, by a new request, by the note of a call for the
\* same request, or its time comes.
RowGoes ==
  \/ UNCHANGED <<row, reqs>>
  \/ row' = NoRow /\ reqs' = reqs
  \/ \E cut \in BOOLEAN, why \in {"none", "tooOld"} :
       Request(why, cut)
  \/ \E s \in Settlers :
       row' = [run[s].note EXCEPT !.req = row.req, !.cut = row.cut] /\ reqs' = reqs
  \/ row' = [row EXCEPT !.later = FALSE] /\ reqs' = reqs

LEMMA RowMoves ==
  ASSUME TypeInv, [Next]_vars
  PROVE  RowGoes
<1>1. CASE MoveSwitch \/ CutRequest
  BY <1>1 DEF MoveSwitch, CutRequest, RowGoes
<1>2. ASSUME NEW s \in Settlers, Settling(s) \/ OpenByHand(s)
      PROVE  RowGoes
  BY <1>2 DEF Settling, OpenByHand, Inspect, ReadSites, Judge, Book, LookAgain, Fails, Record,
     RowGoes, dayVars
<1>3. CASE Polling
  BY <1>2, <1>3 DEF Polling, Probe, Recheck, Settlers, RowGoes, dayVars
<1>4. CASE Round
  BY <1>4 DEF Round, ReadStates, ReadDays, PlanFails, Plan, DeleteState, RowGoes, dayVars
<1>5. CASE Prune \/ SiteChanges \/ ConfigChanges \/ EditBinding \/ TimePasses \/ DayPasses \/ WeekPasses
           \/ Crash \/ UNCHANGED vars
  BY <1>5 DEF Prune, SiteChanges, ConfigChanges, EditBinding, TimePasses, DayPasses, WeekPasses, Crash,
     vars, RowGoes, dayVars
<1> QED BY <1>1, <1>2, <1>3, <1>4, <1>5 DEF Next, Settlers

LEMMA RowType ==
  ASSUME TypeInv, [Next]_vars
  PROVE  Fit(row') /\ row'.req <= reqs'
<1>0. /\ Fit(row) /\ row \in Rows /\ row.req <= reqs /\ reqs \in Nat
      /\ \A s \in Settlers : Fit(run[s].note)
      /\ MaxRequests \in Nat
  BY Constants DEF TypeInv, TypeOK, Calling, Fit
<1>1. CASE UNCHANGED <<row, reqs>>
  BY <1>0, <1>1 DEF Fit, Rows
<1>2. CASE row' = NoRow /\ reqs' = reqs
  BY <1>0, <1>2, NoRowFits DEF NoRow
<1>3. ASSUME NEW cut \in BOOLEAN, NEW why \in {"none", "tooOld"}, Request(why, cut)
      PROVE  Fit(row') /\ row'.req <= reqs'
  <2>1. /\ row' = [NoRow EXCEPT !.req = reqs + 1, !.cut = cut, !.why = why,
                          !.config = row.config]
        /\ reqs' = reqs + 1 /\ reqs < MaxRequests
    BY <1>3 DEF Request
  <2>2. reqs + 1 \in 0..MaxRequests /\ reqs + 1 <= reqs'
    BY <1>0, <2>1
  <2>3. why \in Reasons
    BY DEF Reasons, Sticky
  <2>4. row' = [req |-> reqs + 1, cut |-> cut, why |-> why, attempts |-> 0,
                cleared |-> FALSE, blind |-> FALSE, later |-> FALSE, after |-> 0,
                config |-> row.config]
    BY <2>1 DEF NoRow
  <2>5. row.config \in 0..NoConfig
    BY <1>0 DEF Rows
  <2>6. row' \in Rows
    BY <2>2, <2>3, <2>4, <2>5 DEF Rows
  <2> QED BY <2>2, <2>4, <2>6 DEF Fit
<1>4. ASSUME NEW s \in Settlers,
             row' = [run[s].note EXCEPT !.req = row.req, !.cut = row.cut], reqs' = reqs
      PROVE  Fit(row') /\ row'.req <= reqs'
  <2>1. run[s].note \in Rows /\ (run[s].note.after > 0 => run[s].note.why = "shrunk")
    BY <1>0 DEF Fit
  <2>2. /\ row' \in Rows /\ row'.req = row.req
        /\ row'.after = run[s].note.after /\ row'.why = run[s].note.why
    BY <1>0, <1>4, <2>1 DEF Rows
  <2> QED BY <1>0, <1>4, <2>1, <2>2 DEF Fit
<1>5. CASE row' = [row EXCEPT !.later = FALSE] /\ reqs' = reqs
  <2>1. /\ row' \in Rows /\ row'.req = row.req
        /\ row'.after = row.after /\ row'.why = row.why
    BY <1>0, <1>5 DEF Rows
  <2> QED BY <1>0, <1>5, <2>1 DEF Fit
<1> QED BY <1>1, <1>2, <1>3, <1>4, <1>5, RowMoves DEF RowGoes

LEMMA LedgerType ==
  ASSUME TypeInv, [Next]_vars
  PROVE  /\ ledger' \in [rev : Nat, fig : Figures \union {0}]
         /\ basis' \in 0..reqs' /\ swept' \in 0..reqs' /\ markedFor' \in 0..reqs'
<1>0. /\ ledger \in [rev : Nat, fig : Figures \union {0}]
      /\ basis \in 0..reqs /\ swept \in 0..reqs /\ markedFor \in 0..reqs /\ scope \in 0..reqs /\ reqs \in Nat
      /\ row \in Rows /\ row.req \in 0..reqs
      /\ \A s \in Settlers : run[s] \in Calls
  BY Constants DEF TypeInv, TypeOK, Calling, Rows
<1>1. CASE UNCHANGED <<ledger, basis, swept, markedFor>>
  BY <1>0, <1>1, DayType
<1>2. ASSUME NEW s \in Settlers, Book(s)
      PROVE  /\ ledger' \in [rev : Nat, fig : Figures \union {0}]
             /\ basis' \in 0..reqs /\ markedFor' \in 0..reqs /\ UNCHANGED <<reqs, swept>>
  <2>1. CASE ~InScope(s) \/ Stale(s)
    BY <1>0, <1>2, <2>1 DEF Book, dayVars
  <2>2. CASE InScope(s) /\ ~Stale(s)
    <3>1. run[s].scope = scope /\ run[s].fig \in Figures \union {0}
      BY <1>0, <2>2 DEF InScope, Calls
    <3>2. ledger.rev + 1 \in Nat
      BY <1>0
    <3>3. ledger' \in [rev : Nat, fig : Figures \union {0}]
      BY <1>0, <1>2, <2>2, <3>1, <3>2 DEF Book
    <3> QED BY <1>0, <1>2, <2>2, <3>1, <3>3 DEF Book, dayVars
  <2> QED BY <2>1, <2>2
<1>3. ASSUME NEW s \in Settlers, Record(s)
      PROVE  UNCHANGED <<ledger, basis, swept, reqs>> /\ markedFor' \in 0..reqs
  <2>1. CASE Records(s) /\ markedFor' = run[s].state.req
    <3>1. run[s].state.req = row.req
      <4>1. run[s].state.req \in Nat
        BY <1>0 DEF Calls, Rows
      <4> QED BY <1>0, <2>1, <4>1 DEF Records
    <3> QED BY <1>0, <1>3, <2>1, <3>1 DEF Record, dayVars
  <2> QED BY <1>0, <1>3, <2>1 DEF Record, dayVars
<1>4. CASE MoveSwitch \/ CutRequest
  BY <1>0, <1>4, DayType DEF MoveSwitch, CutRequest, Request
<1>5. CASE Prune
  BY <1>0, <1>5 DEF Prune, dayVars
<1>6. ASSUME NEW s \in Settlers, Settling(s) \/ OpenByHand(s), ~Book(s), ~Record(s)
      PROVE  UNCHANGED <<ledger, basis, swept, markedFor>>
  BY <1>6 DEF Settling, OpenByHand, Inspect, ReadSites, Judge, LookAgain, Fails
<1>7. CASE Round \/ Probe \/ Recheck
  <2>1. CASE DeleteState
    BY <1>0, <2>1 DEF DeleteState, dayVars
  <2> QED BY <1>1, <1>7, <2>1 DEF Round, ReadStates, ReadDays, PlanFails, Plan, Probe, Recheck
<1>8. CASE SiteChanges \/ ConfigChanges \/ EditBinding \/ TimePasses \/ DayPasses \/ WeekPasses \/ Crash
           \/ UNCHANGED vars
  BY <1>1, <1>8 DEF SiteChanges, ConfigChanges, EditBinding, TimePasses, DayPasses, WeekPasses, Crash, vars
<1>9. ASSUME NEW s \in Settlers, Settling(s) \/ OpenByHand(s)
      PROVE  /\ ledger' \in [rev : Nat, fig : Figures \union {0}]
             /\ basis' \in 0..reqs' /\ swept' \in 0..reqs' /\ markedFor' \in 0..reqs'
  BY <1>0, <1>1, <1>2, <1>3, <1>6, <1>9
<1> QED BY <1>4, <1>5, <1>7, <1>8, <1>0, <1>1, <1>9 DEF Next, Polling, Settlers

LEMMA RoundType ==
  ASSUME TypeInv, [Next]_vars
  PROVE  /\ round' \in Plans /\ Fit(round'.state)
         /\ deleting' \in BOOLEAN /\ memo' \in BOOLEAN
<1>0. /\ round \in Plans /\ Fit(round.state) /\ Fit(row) /\ row \in Rows
      /\ deleting \in BOOLEAN /\ memo \in BOOLEAN
  BY DEF TypeInv, TypeOK, Plans, Fit
<1>1. NoRound \in Plans /\ Fit(NoRound.state)
  BY NoRowFits DEF NoRound, Plans, Fit
<1>2. round' \in Plans /\ Fit(round'.state)
  <2>1. CASE UNCHANGED round
    BY <1>0, <2>1
  <2>2. CASE round' = NoRound
    BY <1>1, <2>2
  <2>3. CASE ReadStates
    BY <1>0, <2>3 DEF ReadStates, Plans
  <2>4. CASE ReadDays
    <3>1. (ledger.rev > 0) \in BOOLEAN
      OBVIOUS
    <3> QED BY <1>0, <2>4, <3>1 DEF ReadDays, Plans
  <2>5. ASSUME NEW s \in Settlers, Settling(s) \/ OpenByHand(s)
        PROVE  UNCHANGED round
    BY <2>5 DEF Settling, OpenByHand, Inspect, ReadSites, Judge, Book, LookAgain, Fails, Record
  <2>6. CASE PlanFails \/ Plan \/ Crash
    BY <2>2, <2>6 DEF PlanFails, Plan, Crash
  <2>7. CASE DeleteState \/ Probe \/ Recheck \/ MoveSwitch \/ CutRequest \/ Prune \/ SiteChanges
             \/ ConfigChanges \/ EditBinding \/ TimePasses \/ DayPasses \/ WeekPasses \/ UNCHANGED vars
    BY <2>1, <2>7 DEF DeleteState, Probe, Recheck, MoveSwitch, CutRequest, Request, Prune,
       SiteChanges, ConfigChanges, EditBinding, TimePasses, DayPasses, WeekPasses, vars
  <2> QED BY <2>1, <2>3, <2>4, <2>5, <2>6, <2>7 DEF Next, Round, Polling, Settlers
<1>3. deleting' \in BOOLEAN /\ memo' \in BOOLEAN
  <2>1. CASE UNCHANGED <<deleting, memo>>
    BY <1>0, <2>1
  <2>2. CASE Plan
    BY <1>0, <2>2 DEF Plan
  <2>3. CASE Recheck
    BY <1>0, <2>3 DEF Recheck
  <2>4. ASSUME NEW s \in Settlers, Settling(s) \/ OpenByHand(s)
        PROVE  UNCHANGED <<deleting, memo>>
    BY <2>4 DEF Settling, OpenByHand, Inspect, ReadSites, Judge, Book, LookAgain, Fails, Record
  <2>5. CASE DeleteState \/ TimePasses \/ Crash
    BY <1>0, <2>5 DEF DeleteState, TimePasses, Crash
  <2>6. CASE ReadStates \/ ReadDays \/ PlanFails \/ Probe \/ MoveSwitch \/ CutRequest \/ Prune
             \/ SiteChanges \/ ConfigChanges \/ EditBinding \/ DayPasses \/ WeekPasses \/ UNCHANGED vars
    BY <2>1, <2>6 DEF ReadStates, ReadDays, PlanFails, Probe, MoveSwitch, CutRequest, Request,
       Prune, SiteChanges, ConfigChanges, EditBinding, DayPasses, WeekPasses, vars
  <2> QED BY <2>1, <2>2, <2>3, <2>4, <2>5, <2>6 DEF Next, Round, Polling, Settlers
<1> QED BY <1>2, <1>3

LEMMA NextType == TypeInv /\ [Next]_vars => TypeInv'
<1> SUFFICES ASSUME TypeInv, [Next]_vars PROVE TypeInv'
  OBVIOUS
<1>1. Calling' /\ Fit(row') /\ row'.req <= reqs' /\ Fit(round'.state) /\ round' \in Plans
  BY NextMoves, RowType, RoundType
<1>2. run' \in [Settlers -> Calls] /\ row' \in Rows /\ (row'.after > 0 => row'.why = "shrunk")
  BY <1>1 DEF Calling, Fit
<1>3. TypeOK'
  BY <1>1, <1>2, DayType, LedgerType, RoundType DEF TypeOK, Calls, Plans
<1> QED BY <1>1, <1>3 DEF TypeInv, Fit

\* Every variable keeps its type; in particular a figure stands in the row only
\* beside "less than half", and the row's request is one that was made.
THEOREM TypeCorrect == Spec => []TypeOK
<1>1. TypeInv => TypeOK
  BY DEF TypeInv
<1> QED BY InitType, NextType, <1>1, PTL DEF Spec

-----------------------------------------------------------------------------
(* Whose failure the row states.                                              *)

\* A failure in the row belongs to the request in the row: recordSettlementState
\* compares the request before it writes, a request replaces the whole row, and
\* no other step writes a reason.
THEOREM FailuresOfOwnRequest == Spec => []MarksOwnRequest
<1>1. Init => MarksOwnRequest
  BY DEF Init, MarksOwnRequest, NoRow
<1>2. TypeInv /\ MarksOwnRequest /\ [Next]_vars => MarksOwnRequest'
  <2> SUFFICES ASSUME TypeInv, MarksOwnRequest, [Next]_vars PROVE MarksOwnRequest'
    OBVIOUS
  <2>0. /\ \A s \in Settlers : run[s] \in Calls /\ run[s].note \in Rows /\ run[s].state.req \in Nat
        /\ row \in Rows
    BY DEF TypeInv, TypeOK, Calling, Calls, Rows
  <2>1. CASE UNCHANGED <<row, markedFor>>
    BY <2>1 DEF MarksOwnRequest
  <2>2. CASE row' = NoRow
    BY <2>2 DEF MarksOwnRequest, NoRow
  <2>3. ASSUME NEW s \in Settlers, Record(s)
        PROVE  MarksOwnRequest'
    <3>1. CASE /\ Records(s) /\ markedFor' = run[s].state.req
               /\ row' = [run[s].note EXCEPT !.req = row.req, !.cut = row.cut]
      <4>1. run[s].state.req = row.req
        BY <2>0, <3>1 DEF Records
      <4>2. row'.req = row.req
        BY <2>0, <3>1 DEF Rows
      <4> QED BY <3>1, <4>1, <4>2 DEF MarksOwnRequest
    <3> QED BY <2>1, <2>3, <3>1 DEF Record
  <2>4. CASE MoveSwitch \/ CutRequest
    BY <2>4 DEF MoveSwitch, CutRequest, Request, MarksOwnRequest, NoRow
  <2>5. CASE TimePasses
    BY <2>0, <2>5 DEF TimePasses, MarksOwnRequest, Rows
  <2>6. ASSUME NEW s \in Settlers, Settling(s) \/ OpenByHand(s), ~Record(s)
        PROVE  UNCHANGED <<row, markedFor>> \/ row' = NoRow
    BY <2>6 DEF Settling, OpenByHand, Inspect, ReadSites, Judge, Book, LookAgain, Fails
  <2>7. CASE Round \/ Probe \/ Recheck \/ Prune \/ SiteChanges \/ ConfigChanges \/ EditBinding
             \/ DayPasses \/ WeekPasses \/ Crash \/ UNCHANGED vars
    BY <2>1, <2>2, <2>7 DEF Round, ReadStates, ReadDays, PlanFails, Plan, DeleteState, Probe,
       Recheck, Prune, SiteChanges, ConfigChanges, EditBinding, DayPasses, WeekPasses, Crash, vars
  <2>8. ASSUME NEW s \in Settlers, Settling(s) \/ OpenByHand(s)
        PROVE  MarksOwnRequest'
    BY <2>1, <2>2, <2>3, <2>6, <2>8
  <2> QED BY <2>4, <2>5, <2>7, <2>8 DEF Next, Polling, Settlers
<1> QED BY InitType, NextType, <1>1, <1>2, PTL DEF Spec

-----------------------------------------------------------------------------
(* No row without a request beside a booked day, no move of a switching time   *)
(* lost.                                                                       *)
(*                                                                             *)
(* The danger is a call that read an open request and books after the row it   *)
(* read is gone: then another call may have written a row without a request.   *)
(* But a day that is not booked loses its request by the cleaning only, and    *)
(* that is over a month later (GivenUp): a plan deletes rows of booked days    *)
(* only (Planned), however old its two answers are.                            *)

\* The request in the row is the newest.
Standing == row.req \in {0, reqs}

\* What a plan found in the ledger stays there.
Planned == round.booked \/ deleting => ledger.rev > 0

\* A day that is not booked loses its request only by the cleaning.
GivenUp ==
  ledger.rev = 0 /\ row.req = 0 =>
    /\ \A s \in Settlers : run[s].state.req > 0 => age = 3
    /\ round.state.req > 0 => age = 3

RequestInv == TypeInv /\ Planned /\ GivenUp /\ NoOrphan

\* What can happen to a call: it goes on with what it read, it ends, or it has
\* just begun with what the plan or a person has read.
Stays(t) == run'[t].state.req = run[t].state.req

Ends(t) == run'[t] = NotRunning

Begins(t) ==
  \/ t = Poll /\ Plan /\ run'[t].state = round.state
  \/ t \in Hands /\ OpenByHand(t) /\ run'[t].state \in {row, NoRow}

LEMMA SettlingOnward ==
  ASSUME TypeInv, NEW s \in Settlers, Settling(s), NEW t \in Settlers
  PROVE  Stays(t) \/ Ends(t)
<1>0. run \in [Settlers -> Calls]
  BY DEF TypeInv, Calling
<1>2. Settled(s) => Stays(t) \/ Ends(t)
  BY DEF Settled, Stays, Ends
<1>3. ASSUME NEW why, NEW fig, NotSettled(s, why, fig)
      PROVE  Stays(t)
  <2>1. CASE t \notin Sharers(s)
    BY <1>3, <2>1 DEF NotSettled, Stays
  <2>2. CASE t \in Sharers(s)
    <3> DEFINE out == Outcome(run[t].state, why, t # Poll, run[t].config, fig)
    <3>1. run'[t] = Failed(run[t].state, out)
      BY <1>3, <2>2 DEF NotSettled, Failed
    <3> HIDE DEF out
    <3>2. run'[t].state = run[t].state
      BY <3>1 DEF Failed, NotRunning
    <3> QED BY <3>2 DEF Stays
  <2> QED BY <2>1, <2>2
<1>5. ASSUME NEW phase, run' = [run EXCEPT ![s].pc = phase]
      PROVE  Stays(t)
  BY <1>0, <1>5 DEF Stays, Calls
<1>7. ASSUME Again(s)
      PROVE  Stays(t)
  <2>1. CASE run[s].tries + 1 < MaxTries
    BY <1>0, <1>7, <2>1 DEF Again, Stays, Calls
  <2>2. CASE ~(run[s].tries + 1 < MaxTries)
    BY <1>3, <1>7, <2>2 DEF Again
  <2> QED BY <2>1, <2>2
<1>8. CASE Inspect(s)
  <2>1. CASE run' = [run EXCEPT ![s].pc = "read", ![s].scope = scope, ![s].edited = edited]
    BY <1>0, <2>1 DEF Stays, Calls
  <2> QED BY <1>2, <1>5, <1>8, <2>1 DEF Inspect
<1>9. CASE ReadSites(s)
  <2>1. ASSUME NEW fig, NEW phase, run' = [run EXCEPT ![s].fig = fig, ![s].pc = phase]
        PROVE  Stays(t)
    BY <1>0, <2>1 DEF Stays, Calls
  <2> QED BY <1>2, <1>3, <1>7, <1>9, <2>1 DEF ReadSites
<1>10. CASE Judge(s)
  <2>1. CASE run' = [run EXCEPT ![s].pc = "save", ![s].compared = ledger.rev]
    BY <1>0, <2>1 DEF Stays, Calls
  <2> QED BY <1>2, <1>3, <1>7, <1>10, <2>1 DEF Judge
<1>11. CASE Book(s)
  BY <1>2, <1>5, <1>7, <1>11 DEF Book
<1>12. CASE LookAgain(s)
  BY <1>2, <1>7, <1>12 DEF LookAgain
<1>13. CASE Fails(s)
  BY <1>2, <1>3, <1>13 DEF Fails
<1>14. CASE Record(s)
  <2>1. run' = [run EXCEPT ![s] = NotRunning]
    BY <1>14 DEF Record
  <2> QED BY <1>0, <2>1 DEF Stays, Ends
<1> QED BY <1>8, <1>9, <1>10, <1>11, <1>12, <1>13, <1>14 DEF Settling

LEMMA CallsOnward ==
  ASSUME TypeInv, [Next]_vars, NEW t \in Settlers
  PROVE  Stays(t) \/ Ends(t) \/ Begins(t)
<1>0. run \in [Settlers -> Calls] /\ Poll \in Settlers /\ Poll \notin Hands
  BY SettlementAssumption DEF TypeInv, Calling, Settlers
<1>1. CASE UNCHANGED run
  BY <1>1 DEF Stays
<1>2. CASE Plan
  <2>1. CASE ~UNCHANGED run
    <3>1. PICK phase : Start(Poll, phase, round.state)
      BY <1>2, <2>1 DEF Plan
    <3>2. CASE t = Poll
      <4> DEFINE c == [NotRunning EXCEPT !.pc = phase, !.state = round.state,
                                         !.config = config, !.recent = (age = 0)]
      <4>1. c.state = round.state
        BY DEF NotRunning
      <4>2. run'[t] = c
        BY <1>0, <3>1, <3>2 DEF Start
      <4> QED BY <1>2, <3>2, <4>1, <4>2 DEF Begins
    <3>3. CASE t # Poll
      BY <1>0, <3>1, <3>3 DEF Start, Stays
    <3> QED BY <3>2, <3>3
  <2> QED BY <1>1, <2>1
<1>3. CASE Probe \/ Recheck
  <2>1. \/ run' = [run EXCEPT ![Poll] = NotRunning]
        \/ run' = [run EXCEPT ![Poll].pc = "settle"]
        \/ \E note : run' = [run EXCEPT ![Poll].pc = "record", ![Poll].note = note]
    BY <1>3 DEF Probe, Recheck
  <2>2. CASE run' = [run EXCEPT ![Poll] = NotRunning]
    BY <1>0, <2>2 DEF Stays, Ends
  <2>3. CASE run' = [run EXCEPT ![Poll].pc = "settle"]
    BY <1>0, <2>3 DEF Stays, Calls
  <2>4. ASSUME NEW note, run' = [run EXCEPT ![Poll].pc = "record", ![Poll].note = note]
        PROVE  Stays(t)
    BY <1>0, <2>4 DEF Stays, Calls
  <2> QED BY <2>1, <2>2, <2>3, <2>4
<1>4. ASSUME NEW s \in Hands, OpenByHand(s)
      PROVE  Stays(t) \/ Begins(t)
  <2>1. PICK st \in {row, NoRow}, sure \in BOOLEAN, recent \in BOOLEAN,
             shown \in Figures \union {0} :
          run' = [run EXCEPT ![s] = [NotRunning EXCEPT !.pc = "settle", !.state = st,
                    !.config = config, !.recent = recent, !.confirmed = sure,
                    !.shown = shown]]
    BY <1>4 DEF OpenByHand
  <2>2. CASE t = s
    <3>1. run'[t].state = st
      BY <1>0, <2>1, <2>2 DEF NotRunning
    <3> QED BY <1>4, <2>2, <3>1 DEF Begins
  <2>3. CASE t # s
    BY <1>0, <2>1, <2>3 DEF Stays
  <2> QED BY <2>2, <2>3
<1>5. CASE TimePasses
  <2>1. run'[t] = [run[t] EXCEPT !.state.later = FALSE]
    BY <1>5 DEF TimePasses
  <2>2. run[t] \in Calls /\ run[t].state \in Rows
    BY <1>0 DEF Calls
  <2>3. run'[t] = [run[t] EXCEPT !.state = [run[t].state EXCEPT !.later = FALSE]]
    BY <2>1
  <2> QED BY <2>2, <2>3 DEF Stays, Calls, Rows
<1>6. CASE Crash
  BY <1>6 DEF Crash, Ends
<1>7. CASE ReadStates \/ ReadDays \/ PlanFails \/ DeleteState \/ MoveSwitch \/ CutRequest \/ Prune
           \/ SiteChanges \/ ConfigChanges \/ EditBinding \/ DayPasses \/ WeekPasses \/ UNCHANGED vars
  BY <1>1, <1>7 DEF ReadStates, ReadDays, PlanFails, DeleteState, MoveSwitch, CutRequest, Request,
     Prune, SiteChanges, ConfigChanges, EditBinding, DayPasses, WeekPasses, vars
<1> QED BY <1>2, <1>3, <1>4, <1>5, <1>6, <1>7, SettlingOnward DEF Next, Round, Polling, Settlers

\* Who moves the calendar and the requests.
LEMMA CalendarMoves ==
  ASSUME [Next]_vars
  PROVE  \/ UNCHANGED <<reqs, lapsed, age, scope>>
         \/ MoveSwitch \/ CutRequest
         \/ DayPasses \/ WeekPasses
<1>1. ASSUME NEW s \in Settlers, Settling(s) \/ OpenByHand(s)
      PROVE  UNCHANGED <<reqs, lapsed, age, scope>>
  BY <1>1 DEF Settling, OpenByHand, Inspect, ReadSites, Judge, Book, LookAgain, Fails, Record,
     dayVars
<1>2. CASE Round \/ Probe \/ Recheck \/ Prune \/ TimePasses \/ Crash
  BY <1>2 DEF Round, ReadStates, ReadDays, PlanFails, Plan, DeleteState, Probe, Recheck, Prune,
     TimePasses, Crash, dayVars
<1>3. CASE SiteChanges \/ ConfigChanges \/ EditBinding \/ UNCHANGED vars
  BY <1>3 DEF SiteChanges, ConfigChanges, EditBinding, vars
<1> QED BY <1>1, <1>2, <1>3 DEF Next, Polling, Settlers

\* What the plan holds is what it had, nothing, or the row of this moment.
LEMMA PlanReads ==
  ASSUME [Next]_vars
  PROVE  \/ UNCHANGED round
         \/ round' = NoRound
         \/ ReadStates \/ ReadDays
<1>1. ASSUME NEW s \in Settlers, Settling(s) \/ OpenByHand(s)
      PROVE  UNCHANGED round
  BY <1>1 DEF Settling, OpenByHand, Inspect, ReadSites, Judge, Book, LookAgain, Fails, Record
<1>2. CASE PlanFails \/ Plan \/ Crash
  BY <1>2 DEF PlanFails, Plan, Crash
<1>3. CASE DeleteState \/ Probe \/ Recheck \/ MoveSwitch \/ CutRequest \/ Prune \/ SiteChanges
           \/ ConfigChanges \/ EditBinding \/ TimePasses \/ DayPasses \/ WeekPasses \/ UNCHANGED vars
  BY <1>3 DEF DeleteState, Probe, Recheck, MoveSwitch, CutRequest, Request, Prune,
     SiteChanges, ConfigChanges, EditBinding, TimePasses, DayPasses, WeekPasses, vars
<1> QED BY <1>1, <1>2, <1>3 DEF Next, Round, Polling, Settlers

\* The types the arguments below need.
LEMMA Numbers ==
  ASSUME TypeInv
  PROVE  /\ row \in Rows /\ row.req \in Nat /\ reqs \in Nat /\ lapsed \in 0..reqs
         /\ scope \in 0..reqs /\ basis \in 0..reqs /\ swept \in 0..reqs /\ age \in 0..3 /\ ledger.rev \in Nat
         /\ round.state.req \in Nat /\ round.booked \in BOOLEAN
         /\ ledger = [rev |-> ledger.rev, fig |-> ledger.fig]
         /\ ledger.fig \in Nat
         /\ run \in [Settlers -> Calls]
         /\ \A s \in Settlers : run[s].state.req \in Nat
         /\ Poll \in Settlers /\ Poll \notin Hands
<1>1. row \in Rows /\ round \in Plans /\ run \in [Settlers -> Calls]
  BY DEF TypeInv, TypeOK, Calling, Plans
<1>2. \A s \in Settlers : run[s].state.req \in Nat
  BY <1>1, Constants DEF Calls, Rows
<1>3. row.req \in Nat /\ round.state.req \in Nat /\ round.booked \in BOOLEAN
  BY <1>1, Constants DEF Rows, Plans
<1>4. ledger = [rev |-> ledger.rev, fig |-> ledger.fig] /\ ledger.fig \in Nat /\ ledger.rev \in Nat
  BY Constants DEF TypeInv, TypeOK
<1>5. /\ reqs \in Nat /\ lapsed \in 0..reqs /\ scope \in 0..reqs /\ basis \in 0..reqs
      /\ swept \in 0..reqs /\ age \in 0..3
  BY Constants DEF TypeInv, TypeOK
<1> QED BY <1>1, <1>2, <1>3, <1>4, <1>5, SettlementAssumption DEF Settlers

LEMMA NextStanding ==
  ASSUME TypeInv, Standing, [Next]_vars
  PROVE  Standing'
<1>0. row \in Rows /\ \A s \in Settlers : run[s].note \in Rows
  BY DEF TypeInv, TypeOK, Calling, Fit
<1>1. CASE UNCHANGED <<row, reqs>>
  BY <1>1 DEF Standing
<1>2. CASE row' = NoRow
  BY <1>2 DEF NoRow, Standing
<1>3. ASSUME NEW cut, NEW why, Request(why, cut)
      PROVE  row'.req = reqs'
  BY <1>3 DEF Request, NoRow
<1>4. ASSUME NEW s \in Settlers,
             row' = [run[s].note EXCEPT !.req = row.req, !.cut = row.cut], reqs' = reqs
      PROVE  row'.req \in {0, reqs'}
  BY <1>0, <1>4 DEF Standing, Rows
<1>5. CASE row' = [row EXCEPT !.later = FALSE] /\ reqs' = reqs
  BY <1>0, <1>5 DEF Standing, Rows
<1> QED BY <1>1, <1>2, <1>3, <1>4, <1>5, RowMoves DEF RowGoes, Standing

\* The ledger only ever gains revisions.
LEMMA LedgerGrows ==
  ASSUME TypeInv, [Next]_vars
  PROVE  ledger' = ledger \/ \E s \in Settlers : Book(s) /\ InScope(s) /\ ~Stale(s)
<1>1. ASSUME NEW s \in Settlers, Settling(s) \/ OpenByHand(s), ~Book(s)
      PROVE  ledger' = ledger
  BY <1>1 DEF Settling, OpenByHand, Inspect, ReadSites, Judge, LookAgain, Fails, Record
<1>2. ASSUME NEW s \in Settlers, Book(s)
      PROVE  ledger' = ledger \/ (InScope(s) /\ ~Stale(s))
  BY <1>2 DEF Book
<1>3. CASE Round \/ Probe \/ Recheck \/ MoveSwitch \/ CutRequest \/ Prune \/ SiteChanges
           \/ ConfigChanges \/ EditBinding \/ TimePasses \/ DayPasses \/ WeekPasses \/ Crash \/ UNCHANGED vars
  BY <1>3 DEF Round, ReadStates, ReadDays, PlanFails, Plan, DeleteState, Probe, Recheck,
     MoveSwitch, CutRequest, Request, Prune, SiteChanges, ConfigChanges, EditBinding,
     TimePasses, DayPasses, WeekPasses, Crash, vars
<1> QED BY <1>1, <1>2, <1>3 DEF Next, Polling, Settlers

\* A booking under the binding as it is.
LEMMA Booking ==
  ASSUME TypeInv, NEW s \in Settlers, Book(s), InScope(s), ~Stale(s)
  PROVE  /\ ledger'.rev > 0
         /\ ledger' # ledger => ledger'.fig = run[s].fig /\ ledger'.rev = ledger.rev + 1
         /\ IF row.req = run[s].state.req THEN row' = NoRow ELSE row' = row
         /\ basis' = IF ledger'.fig = run[s].fig THEN scope ELSE basis
         /\ run[s].state.req > 0 \/ ledger.rev = 0 => ledger'.fig = run[s].fig
         /\ run[s].pc = "save" /\ run'[s].pc = "saved"
<1>0. run \in [Settlers -> Calls] /\ ledger.rev \in Nat
      /\ ledger = [rev |-> ledger.rev, fig |-> ledger.fig]
      /\ run[s].state.req \in Nat
  BY Numbers
<1>1. /\ ledger' = IF Writes(s) THEN [rev |-> ledger.rev + 1, fig |-> run[s].fig] ELSE ledger
      /\ row' = IF Consumes(s) THEN NoRow ELSE row
      /\ basis' = IF ledger'.fig = run[s].fig THEN run[s].scope ELSE basis
      /\ run' = [run EXCEPT ![s].pc = "saved"]
      /\ run[s].pc = "save"
  BY DEF Book
<1>2. run'[s].pc = "saved"
  BY <1>0, <1>1 DEF Calls
<1>3. CASE Writes(s)
  <2>1. ledger' = [rev |-> ledger.rev + 1, fig |-> run[s].fig]
    BY <1>1, <1>3
  <2>2. ledger'.rev > 0 /\ ledger'.fig = run[s].fig /\ ledger'.rev = ledger.rev + 1
    BY <1>0, <2>1
  <2> QED BY <1>1, <1>2, <2>2 DEF Consumes, InScope
<1>4. CASE ~Writes(s)
  <2>1. ledger' = ledger
    BY <1>1, <1>4
  <2>2. ledger.rev > 0 /\ (run[s].state.req > 0 => run[s].fig = ledger.fig)
    BY <1>0, <1>4 DEF Writes
  <2> QED BY <1>0, <1>1, <1>2, <2>1, <2>2 DEF Consumes, InScope
<1> QED BY <1>3, <1>4

LEMMA NextPlanned ==
  ASSUME TypeInv, Planned, [Next]_vars
  PROVE  Planned'
<1>0. round \in Plans /\ ledger.rev \in Nat
  BY DEF TypeInv, TypeOK, Plans
<1>1. ledger.rev > 0 => ledger'.rev > 0
  BY LedgerGrows, Booking
<1>2. CASE round' \in {round, NoRound} /\ (deleting' => deleting)
  BY <1>1, <1>2 DEF Planned, NoRound
<1>3. CASE ReadStates
  BY <1>0, <1>3 DEF ReadStates, Planned, Plans
<1>4. CASE ReadDays
  <2>1. round'.booked => ledger.rev > 0
    BY <1>0, <1>4 DEF ReadDays, Plans
  <2> QED BY <1>1, <1>4, <2>1 DEF ReadDays, Planned
<1>5. CASE Plan
  <2>1. Precheck(round.state, round.booked) = "settled" => round.booked
    <3>1. "settled" \notin {"due", "manual", "recheck", "exhausted"}
      OBVIOUS
    <3> QED BY <3>1 DEF Precheck
  <2>2. deleting' => deleting \/ round.booked
    BY <1>5, <2>1 DEF Plan
  <2> QED BY <1>1, <1>5, <2>2 DEF Plan, Planned, NoRound
<1>6. CASE PlanFails \/ Crash \/ DeleteState
  BY <1>2, <1>6 DEF PlanFails, Crash, DeleteState
<1>7. ASSUME NEW s \in Settlers, Settling(s) \/ OpenByHand(s)
      PROVE  UNCHANGED <<round, deleting>>
  BY <1>7 DEF Settling, OpenByHand, Inspect, ReadSites, Judge, Book, LookAgain, Fails, Record
<1>8. CASE Probe \/ Recheck \/ MoveSwitch \/ CutRequest \/ Prune \/ SiteChanges
           \/ ConfigChanges \/ EditBinding \/ TimePasses \/ DayPasses \/ WeekPasses
           \/ UNCHANGED vars
  <2>1. UNCHANGED <<round, deleting>>
    BY <1>8 DEF Probe, Recheck, MoveSwitch, CutRequest, Request, Prune,
       SiteChanges, ConfigChanges, EditBinding, TimePasses, DayPasses, WeekPasses, vars
  <2> QED BY <1>2, <2>1
<1> QED BY <1>2, <1>3, <1>4, <1>5, <1>6, <1>7, <1>8 DEF Next, Round, Polling, Settlers

\* How a request leaves the row.
LEMMA RequestEnds ==
  ASSUME TypeInv, Standing, [Next]_vars, row'.req < row.req
  PROVE  \/ Prune
         \/ DeleteState
         \/ \E s \in Settlers : /\ Book(s) /\ InScope(s) /\ ~Stale(s)
                                /\ row.req = run[s].state.req
<1>1. ASSUME NEW s \in Settlers, Settling(s) \/ OpenByHand(s)
      PROVE  Book(s) /\ InScope(s) /\ ~Stale(s) /\ row.req = run[s].state.req
  <2>1. CASE Book(s)
    <3>1. InScope(s) /\ ~Stale(s)
      BY <2>1, Numbers DEF Book
    <3> QED BY <2>1, <3>1, Booking, Numbers
  <2>2. CASE Record(s)
    <3>1. row'.req = row.req
      BY <2>2, Numbers DEF Record, TypeInv, Calling, Fit, Rows
    <3> QED BY <3>1, Numbers
  <2>3. CASE ~Book(s) /\ ~Record(s)
    <3>1. row' = row
      BY <1>1, <2>3 DEF Settling, OpenByHand, Inspect, ReadSites, Judge, LookAgain, Fails
    <3> QED BY <3>1, Numbers
  <2> QED BY <2>1, <2>2, <2>3
<1>2. CASE MoveSwitch \/ CutRequest
  <2>1. row'.req = reqs + 1
    BY <1>2 DEF MoveSwitch, CutRequest, Request, NoRow
  <2>2. row.req <= reqs
    BY Numbers DEF Standing
  <2> QED BY <2>1, <2>2, Numbers
<1>3. CASE TimePasses
  <2>1. row'.req = row.req
    BY <1>3, Numbers DEF TimePasses, Rows
  <2> QED BY <2>1, Numbers
<1>4. CASE ReadStates \/ ReadDays \/ PlanFails \/ Plan \/ Probe \/ Recheck
           \/ SiteChanges \/ ConfigChanges \/ EditBinding
           \/ DayPasses \/ WeekPasses \/ Crash \/ UNCHANGED vars
  <2>1. row' = row
    BY <1>4 DEF ReadStates, ReadDays, PlanFails, Plan, Probe, Recheck,
       SiteChanges, ConfigChanges, EditBinding, DayPasses, WeekPasses, Crash, vars
  <2> QED BY <2>1, Numbers
<1> QED BY <1>1, <1>2, <1>3, <1>4 DEF Next, Round, Polling, Settlers

LEMMA NextGivenUp ==
  ASSUME RequestInv, Standing, [Next]_vars
  PROVE  GivenUp'
<1>0. TypeInv /\ Planned /\ GivenUp
  BY DEF RequestInv
<1> SUFFICES ASSUME ledger'.rev = 0, row'.req = 0
             PROVE  /\ \A t \in Settlers : run'[t].state.req > 0 => age' = 3
                    /\ round'.state.req > 0 => age' = 3
  BY DEF GivenUp
<1>1. ledger.rev = 0
  BY <1>0, LedgerGrows, Booking
<1>2. age = 3 => age' = 3
  BY <1>0, CalendarMoves, Numbers DEF MoveSwitch, CutRequest, Request, DayPasses, WeekPasses
<1>3. CASE Prune
  BY <1>2, <1>3 DEF Prune
<1>4. CASE ~Prune
  <2>1. row.req = 0
    <3> SUFFICES ASSUME row.req > 0 PROVE FALSE
      BY <1>0, Numbers
    <3>1. CASE DeleteState
      BY <1>0, <1>1, <3>1, Numbers DEF DeleteState, Planned
    <3>2. ASSUME NEW s \in Settlers, Book(s), InScope(s), ~Stale(s)
          PROVE  FALSE
      BY <1>0, <3>2, Booking
    <3> QED BY <1>0, <1>4, <3>1, <3>2, RequestEnds, Numbers
  <2>2. /\ \A t \in Settlers : run[t].state.req > 0 => age = 3
        /\ round.state.req > 0 => age = 3
    BY <1>1, <1>0, <2>1 DEF GivenUp
  <2>3. round'.state.req > 0 => age' = 3
    <3>1. CASE UNCHANGED round
      BY <1>2, <2>2, <3>1
    <3>2. CASE round' = NoRound
      BY <3>2 DEF NoRound, NoRow
    <3>3. CASE ReadStates \/ ReadDays
      <4>1. round'.state \in {row, round.state}
        BY <1>0, <3>3 DEF ReadStates, ReadDays, TypeInv, TypeOK
      <4> QED BY <1>2, <2>1, <2>2, <4>1
    <3> QED BY <3>1, <3>2, <3>3, PlanReads
  <2>4. ASSUME NEW t \in Settlers, run'[t].state.req > 0
        PROVE  age' = 3
    <3>1. CASE Stays(t)
      BY <1>2, <2>2, <2>4, <3>1 DEF Stays
    <3>2. CASE Ends(t)
      BY <2>4, <3>2 DEF Ends, NotRunning, NoRow
    <3>3. CASE Begins(t)
      BY <1>2, <2>1, <2>2, <2>4, <3>3 DEF Begins, NoRow
    <3> QED BY <1>0, <3>1, <3>2, <3>3, CallsOnward
  <2> QED BY <2>3, <2>4
<1> QED BY <1>3, <1>4

LEMMA NextNoOrphan ==
  ASSUME RequestInv, Standing, [Next]_vars
  PROVE  NoOrphan'
<1>0. TypeInv /\ GivenUp /\ NoOrphan
  BY DEF RequestInv
<1>a. age = 3 => age' = 3
  BY <1>0, CalendarMoves, Numbers DEF MoveSwitch, CutRequest, Request, DayPasses, WeekPasses
<1>1. CASE UNCHANGED <<row, ledger>> \/ row' = NoRow
  BY <1>0, <1>1, <1>a DEF NoOrphan
<1>2. ASSUME NEW s \in Settlers, Book(s)
      PROVE  NoOrphan'
  <2>1. CASE ~InScope(s) \/ Stale(s)
    BY <1>1, <1>2, <2>1 DEF Book
  <2>2. CASE InScope(s) /\ ~Stale(s) /\ row' # NoRow
    <3>1. row' = row /\ row.req # run[s].state.req
      BY <1>0, <1>2, <2>2, Booking
    <3>2. row.req > 0 \/ age = 3
      <4>1. CASE ledger.rev > 0
        BY <1>0, <2>2, <3>1, <4>1 DEF NoOrphan
      <4>2. CASE ledger.rev = 0 /\ row.req = 0
        <5>1. run[s].state.req > 0
          BY <1>0, <3>1, <4>2, Numbers
        <5> QED BY <1>0, <4>2, <5>1 DEF GivenUp
      <4> QED BY <1>0, <4>1, <4>2, Numbers
    <3> QED BY <1>a, <3>1, <3>2 DEF NoOrphan
  <2> QED BY <1>1, <2>1, <2>2
<1>3. ASSUME NEW s \in Settlers, Record(s)
      PROVE  NoOrphan'
  <2>1. CASE /\ Records(s)
             /\ row' = [run[s].note EXCEPT !.req = row.req, !.cut = row.cut]
    <3>1. row'.req = row.req
      BY <1>0, <2>1 DEF TypeInv, Calling, Fit, Rows
    <3>2. ledger.rev > 0 => row.req > 0
      BY <1>0, <2>1, Numbers DEF Records
    <3> QED BY <1>3, <3>1, <3>2 DEF NoOrphan, Record
  <2> QED BY <1>1, <1>3, <2>1 DEF Record
<1>4. CASE MoveSwitch \/ CutRequest
  <2>1. row'.req = reqs + 1
    BY <1>4 DEF MoveSwitch, CutRequest, Request, NoRow
  <2> QED BY <1>0, <2>1, Numbers DEF NoOrphan
<1>5. CASE TimePasses
  <2>1. row' = [row EXCEPT !.later = FALSE] /\ ledger' = ledger
    BY <1>5 DEF TimePasses
  <2>2. ASSUME row = NoRow
        PROVE  row' = NoRow
    BY <2>1, <2>2 DEF NoRow
  <2>3. row'.req = row.req
    BY <1>0, <2>1, Numbers DEF Rows
  <2> QED BY <1>0, <1>a, <2>1, <2>2, <2>3 DEF NoOrphan
<1>6. ASSUME NEW s \in Settlers, Settling(s) \/ OpenByHand(s), ~Book(s), ~Record(s)
      PROVE  UNCHANGED <<row, ledger>>
  BY <1>6 DEF Settling, OpenByHand, Inspect, ReadSites, Judge, LookAgain, Fails
<1>7. CASE Round \/ Probe \/ Recheck \/ Prune \/ SiteChanges \/ ConfigChanges \/ EditBinding
           \/ DayPasses \/ WeekPasses \/ Crash \/ UNCHANGED vars
  BY <1>1, <1>7 DEF Round, ReadStates, ReadDays, PlanFails, Plan, DeleteState, Probe,
     Recheck, Prune, SiteChanges, ConfigChanges, EditBinding, DayPasses, WeekPasses, Crash, vars
<1>8. ASSUME NEW s \in Settlers, Settling(s) \/ OpenByHand(s)
      PROVE  NoOrphan'
  BY <1>1, <1>2, <1>3, <1>6, <1>8
<1> QED BY <1>4, <1>5, <1>7, <1>8 DEF Next, Polling, Settlers

\* The row of a booked day without a request never outlives the booking, except
\* beside a day over a month old, whatever people, plans and crashes do.
THEOREM NoRowBesideLedger == Spec => []NoOrphan
<1>1. Init => Standing /\ RequestInv
  <2> SUFFICES ASSUME Init PROVE Standing /\ RequestInv
    OBVIOUS
  <2>1. row = NoRow /\ NoRow.req = 0 /\ ledger.rev = 0
    BY DEF Init, NoRow
  <2>2. round.state.req = 0 /\ ~round.booked /\ ~deleting
    BY DEF Init, NoRound, NoRow
  <2>3. \A s \in Settlers : run[s].state.req = 0
    BY DEF Init, NotRunning, NoRow
  <2> QED BY InitType, <2>1, <2>2, <2>3 DEF RequestInv, Standing, Planned, GivenUp, NoOrphan
<1>2. Standing /\ RequestInv /\ [Next]_vars => Standing' /\ RequestInv'
  <2> SUFFICES ASSUME Standing, RequestInv, [Next]_vars PROVE Standing' /\ RequestInv'
    OBVIOUS
  <2>1. TypeInv /\ Planned
    BY DEF RequestInv
  <2> QED BY <2>1, NextType, NextStanding, NextPlanned, NextGivenUp, NextNoOrphan DEF RequestInv
<1>3. RequestInv => NoOrphan
  BY DEF RequestInv
<1> QED BY <1>1, <1>2, <1>3, PTL DEF Spec

\* The scope of the newest figure changes with a booking only.
LEMMA BasisStays ==
  ASSUME [Next]_vars, ~\E s \in Settlers : Book(s) /\ InScope(s) /\ ~Stale(s)
  PROVE  basis' = basis
<1>1. ASSUME NEW s \in Settlers, Settling(s) \/ OpenByHand(s)
      PROVE  basis' = basis
  BY <1>1 DEF Settling, OpenByHand, Inspect, ReadSites, Judge, Book, LookAgain, Fails, Record
<1>2. CASE Round \/ Probe \/ Recheck \/ SiteChanges \/ ConfigChanges \/ EditBinding
           \/ Prune \/ TimePasses \/ DayPasses \/ WeekPasses \/ Crash \/ UNCHANGED vars
  BY <1>2 DEF Round, ReadStates, ReadDays, PlanFails, Plan, DeleteState, Probe, Recheck,
     SiteChanges, ConfigChanges, EditBinding, Prune, TimePasses, DayPasses, WeekPasses, Crash, vars
<1>3. CASE MoveSwitch \/ CutRequest
  BY <1>3 DEF MoveSwitch, CutRequest, Request
<1> QED BY <1>1, <1>2, <1>3 DEF Next, Polling, Settlers

\* A plan that deletes a row without a request sweeps no request.
LEMMA SweptStays ==
  ASSUME [Next]_vars, row.req = 0
  PROVE  swept' = swept
<1>1. ASSUME NEW s \in Settlers, Settling(s) \/ OpenByHand(s)
      PROVE  swept' = swept
  BY <1>1 DEF Settling, OpenByHand, Inspect, ReadSites, Judge, Book, LookAgain, Fails, Record
<1>2. CASE DeleteState
  <2>1. ~(row.req > 0)
    BY 0 \in Nat
  <2> QED BY <1>2, <2>1 DEF DeleteState
<1>3. CASE \/ ReadStates \/ ReadDays \/ PlanFails \/ Plan \/ Probe \/ Recheck
           \/ SiteChanges \/ ConfigChanges \/ EditBinding
           \/ Prune \/ TimePasses \/ DayPasses \/ WeekPasses \/ Crash \/ UNCHANGED vars
  BY <1>3 DEF ReadStates, ReadDays, PlanFails, Plan, Probe, Recheck,
     SiteChanges, ConfigChanges, EditBinding, Prune, TimePasses, DayPasses, WeekPasses, Crash, vars
<1>4. CASE MoveSwitch \/ CutRequest
  BY <1>4 DEF MoveSwitch, CutRequest, Request
<1> QED BY <1>1, <1>2, <1>3, <1>4 DEF Next, Round, Polling, Settlers

\* A booked day without an open request was booked under the switching times in
\* force: the move of a switching time is not lost between the ledger and the
\* state row, unless its request was given up or a plan deleted the row.
THEOREM MovesAreBooked == Spec => []Rebooked
<1>1. Init => Standing /\ Rebooked
  BY DEF Init, Rebooked, Standing, NoRow
<1>2. TypeInv /\ Standing /\ Rebooked /\ [Next]_vars => Rebooked'
  <2> SUFFICES ASSUME TypeInv, Standing, Rebooked, [Next]_vars,
                      ledger'.rev > 0, row'.req = 0
               PROVE  basis' = scope' \/ scope' <= lapsed' \/ scope' <= swept'
    BY DEF Rebooked
  <2>1. ASSUME NEW s \in Settlers, Book(s), InScope(s), ~Stale(s)
        PROVE  basis' = scope' \/ scope' <= lapsed' \/ scope' <= swept'
    <3>1. UNCHANGED <<scope, lapsed, swept>>
      BY <2>1 DEF Book, dayVars
    <3>2. CASE ledger'.fig = run[s].fig
      BY <2>1, <3>1, <3>2, Booking
    <3>3. CASE ledger'.fig # run[s].fig
      <4>1. run[s].state.req = 0 /\ ledger.rev > 0 /\ basis' = basis
        BY <2>1, <3>3, Booking, Numbers
      <4>2. row.req = 0
        BY <2>1, <4>1, Booking
      <4> QED BY <3>1, <4>1, <4>2 DEF Rebooked
    <3> QED BY <3>2, <3>3
  <2>2. CASE ~\E s \in Settlers : Book(s) /\ InScope(s) /\ ~Stale(s)
    <3>1. ledger' = ledger /\ basis' = basis
      BY <2>2, LedgerGrows, BasisStays
    \* The request is gone without a booking: given up, or deleted by a plan.
    <3>2. CASE row.req # 0
      <4>1. row.req = reqs /\ (Prune \/ DeleteState)
        BY <2>2, <3>2, RequestEnds, Numbers DEF Standing
      <4>2. CASE Prune
        <5>1. row.req <= lapsed /\ UNCHANGED <<scope, lapsed>>
          BY <4>2 DEF Prune, dayVars
        <5> QED BY <4>1, <5>1, Numbers
      <4>3. CASE DeleteState
        <5>1. swept' = row.req /\ scope' = scope
          BY <3>2, <4>3, Numbers DEF DeleteState, dayVars
        <5> QED BY <4>1, <5>1, Numbers
      <4> QED BY <4>1, <4>2, <4>3
    <3>3. CASE row.req = 0
      <4>1. basis = scope \/ scope <= lapsed \/ scope <= swept
        BY <3>1, <3>3 DEF Rebooked
      <4>2. ~MoveSwitch /\ ~CutRequest
        <5>1. MoveSwitch \/ CutRequest => row'.req = reqs + 1
          BY DEF MoveSwitch, CutRequest, Request, NoRow
        <5> QED BY <5>1, Numbers
      <4>3. scope' = scope /\ lapsed <= lapsed'
        BY <4>2, CalendarMoves, Numbers DEF DayPasses, WeekPasses
      <4>4. swept' = swept
        BY <3>3, SweptStays
      <4>5. lapsed' \in Nat
        BY DayType
      <4> QED BY <3>1, <4>1, <4>3, <4>4, <4>5, Numbers
    <3> QED BY <3>2, <3>3
  <2> QED BY <2>1, <2>2
<1> QED BY InitType, NextType, NextStanding, <1>1, <1>2, PTL DEF Spec

-----------------------------------------------------------------------------
(* Booked figures shrink with leave only.                                      *)

\* What stands before the booking needs no comparison, has been compared with
\* the booked figure, or with one that has since been replaced: a later revision
\* is another call's, because this one has not booked since.
Compared ==
  /\ ledger.rev = 0 => ledger.fig = 0
  /\ \A s \in Settlers :
       run[s].pc = "save" =>
         \/ run[s].state.req = 0
         \/ run[s].state.cut
         \/ run[s].confirmed /\ run[s].shown = run[s].fig
         \/ run[s].compared < ledger.rev
         \/ run[s].compared = ledger.rev /\ ~Shrunk(ledger.fig, run[s].fig)

\* A call that stands before the booking stood there before, has its figure from
\* the sites and need not compare it, or has just compared it.
LEMMA ComesToSave ==
  ASSUME TypeInv, [Next]_vars, NEW t \in Settlers, run'[t].pc = "save"
  PROVE  \/ /\ run[t].pc = "save"
            /\ run'[t].state.req = run[t].state.req /\ run'[t].state.cut = run[t].state.cut
            /\ run'[t].confirmed = run[t].confirmed /\ run'[t].shown = run[t].shown
            /\ run'[t].fig = run[t].fig /\ run'[t].compared = run[t].compared
         \/ /\ UNCHANGED ledger
            /\ \/ run'[t].state.req = 0
               \/ run'[t].state.cut
               \/ run'[t].confirmed /\ run'[t].shown = run'[t].fig
               \/ /\ run'[t].compared = ledger.rev
                  /\ ledger.rev = 0 \/ ~Shrunk(ledger.fig, run'[t].fig)
<1> DEFINE old == /\ run[t].pc = "save"
            /\ run'[t].state.req = run[t].state.req /\ run'[t].state.cut = run[t].state.cut
            /\ run'[t].confirmed = run[t].confirmed /\ run'[t].shown = run[t].shown
            /\ run'[t].fig = run[t].fig /\ run'[t].compared = run[t].compared
<1>0. run \in [Settlers -> Calls] /\ run[t].state.req \in Nat /\ Poll \in Settlers
  BY Numbers
<1>2. run'[t] # NotRunning
  BY DEF NotRunning
<1>3. ASSUME NEW s \in Settlers, Settled(s)
      PROVE  run'[t] = run[t]
  BY <1>2, <1>3 DEF Settled
<1>4. ASSUME NEW s \in Settlers, NEW why, NEW fig, NotSettled(s, why, fig)
      PROVE  run'[t] = run[t]
  <2> DEFINE out == Outcome(run[t].state, why, t # Poll, run[t].config, fig)
  <2>1. CASE t \in Sharers(s)
    <3>1. run'[t] = Failed(run[t].state, out)
      BY <1>4, <2>1 DEF NotSettled, Failed
    <3> HIDE DEF out
    <3>2. run'[t].pc = "record"
      BY <3>1 DEF Failed, NotRunning
    <3> QED BY <3>2
  <2>2. CASE t \notin Sharers(s)
    BY <1>4, <2>2 DEF NotSettled
  <2> QED BY <2>1, <2>2
<1>5. ASSUME NEW s \in Settlers, Again(s)
      PROVE  run'[t] = run[t]
  <2>1. CASE run' = [run EXCEPT ![s].pc = "settle", ![s].tries = @ + 1]
    BY <1>0, <2>1 DEF Calls
  <2> QED BY <1>4, <1>5, <2>1 DEF Again
<1>6. ASSUME NEW s \in Settlers, ReadSites(s), run'[t] # run[t]
      PROVE  /\ UNCHANGED ledger
             /\ \/ run'[t].state.req = 0
                \/ run'[t].state.cut
                \/ run'[t].confirmed /\ run'[t].shown = run'[t].fig
  <2>1. PICK fig \in Figures :
          run' = [run EXCEPT ![s].fig = fig,
                    ![s].pc = IF Judged(s, fig) THEN "judge" ELSE "save"]
    BY <1>3, <1>4, <1>5, <1>6 DEF ReadSites
  <2>2. t = s
    BY <1>0, <1>6, <2>1
  <2>3. /\ run'[t].state = run[t].state /\ run'[t].fig = fig
        /\ run'[t].confirmed = run[t].confirmed /\ run'[t].shown = run[t].shown
        /\ run'[t].pc = IF Judged(s, fig) THEN "judge" ELSE "save"
    BY <1>0, <2>1, <2>2 DEF Calls
  <2>4. ~Judged(t, fig)
    BY <2>2, <2>3
  <2> QED BY <1>0, <1>6, <2>3, <2>4 DEF Judged, ReadSites
<1>7. ASSUME NEW s \in Settlers, Judge(s), run'[t] # run[t]
      PROVE  /\ UNCHANGED ledger
             /\ run'[t].compared = ledger.rev
             /\ ledger.rev = 0 \/ ~Shrunk(ledger.fig, run'[t].fig)
  <2>1. /\ ~(ledger.rev > 0 /\ (Shrunk(ledger.fig, run[s].fig) \/ run[s].confirmed))
        /\ run' = [run EXCEPT ![s].pc = "save", ![s].compared = ledger.rev]
        /\ ledger' = ledger
    BY <1>3, <1>4, <1>5, <1>7 DEF Judge
  <2>2. t = s
    BY <1>0, <1>7, <2>1
  <2>3. run'[t].fig = run[t].fig /\ run'[t].compared = ledger.rev
    BY <1>0, <2>1, <2>2 DEF Calls
  <2> QED BY <2>1, <2>2, <2>3, Numbers
<1>8. ASSUME NEW s \in Settlers, Inspect(s) \/ LookAgain(s) \/ Fails(s) \/ Record(s)
      PROVE  run'[t] = run[t]
  <2>1. CASE Inspect(s)
    BY <1>0, <1>3, <2>1 DEF Inspect, Calls
  <2>2. CASE LookAgain(s) \/ Fails(s)
    BY <1>3, <1>4, <1>5, <2>2 DEF LookAgain, Fails
  <2>3. CASE Record(s)
    BY <1>0, <1>2, <2>3 DEF Record
  <2> QED BY <1>8, <2>1, <2>2, <2>3
<1>9. ASSUME NEW s \in Settlers, Book(s)
      PROVE  run'[t] = run[t]
  <2>1. CASE InScope(s) /\ ~Stale(s)
    <3>1. run' = [run EXCEPT ![s].pc = "saved"]
      BY <1>9, <2>1 DEF Book
    <3> QED BY <1>0, <3>1 DEF Calls
  <2> QED BY <1>3, <1>5, <1>9, <2>1 DEF Book
<1>10. CASE Plan
  <2>1. UNCHANGED run \/ \E phase \in {"probe", "recheck", "settle"} :
                            Start(Poll, phase, round.state)
    BY <1>10 DEF Plan
  <2>2. ASSUME NEW phase \in {"probe", "recheck", "settle"}, Start(Poll, phase, round.state)
        PROVE  run'[t] = run[t]
    <3>1. CASE t = Poll
      <4>1. run'[t] = [NotRunning EXCEPT !.pc = phase, !.state = round.state,
                                         !.config = config, !.recent = (age = 0)]
        BY <1>0, <2>2, <3>1 DEF Start
      <4>2. run'[t].pc = phase
        BY <4>1 DEF NotRunning
      <4> QED BY <4>2
    <3> QED BY <1>0, <2>2, <3>1 DEF Start
  <2> QED BY <2>1, <2>2
<1>11. CASE Probe \/ Recheck
  <2>1. \/ run' = [run EXCEPT ![Poll] = NotRunning]
        \/ run' = [run EXCEPT ![Poll].pc = "settle"]
        \/ \E note : run' = [run EXCEPT ![Poll].pc = "record", ![Poll].note = note]
    BY <1>11 DEF Probe, Recheck
  <2> QED BY <1>0, <1>2, <2>1 DEF Calls
<1>12. ASSUME NEW s \in Hands, OpenByHand(s)
       PROVE  run'[t] = run[t]
  <2>1. PICK st \in {row, NoRow}, sure \in BOOLEAN, recent \in BOOLEAN,
             shown \in Figures \union {0} :
          run' = [run EXCEPT ![s] = [NotRunning EXCEPT !.pc = "settle", !.state = st,
                    !.config = config, !.recent = recent, !.confirmed = sure,
                    !.shown = shown]]
    BY <1>12 DEF OpenByHand
  <2>2. CASE t = s
    <3>1. run'[t].pc = "settle"
      BY <1>0, <2>1, <2>2 DEF NotRunning
    <3> QED BY <3>1
  <2> QED BY <1>0, <2>1, <2>2
<1>13. CASE TimePasses
  <2>1. run'[t] = [run[t] EXCEPT !.state = [run[t].state EXCEPT !.later = FALSE]]
    BY <1>13 DEF TimePasses
  <2>2. run[t].state \in Rows /\ run[t] \in Calls
    BY <1>0 DEF Calls
  <2> DEFINE st == [run[t].state EXCEPT !.later = FALSE]
  <2>3. st.req = run[t].state.req /\ st.cut = run[t].state.cut
    BY <2>2 DEF Rows
  <2> HIDE DEF st
  <2>4. /\ run'[t].state = st /\ run'[t].pc = run[t].pc /\ run'[t].fig = run[t].fig
        /\ run'[t].confirmed = run[t].confirmed /\ run'[t].shown = run[t].shown
        /\ run'[t].compared = run[t].compared
    BY <2>1, <2>2 DEF Calls, st
  <2> QED BY <2>3, <2>4
<1>14. CASE Crash
  BY <1>2, <1>14 DEF Crash
<1>15. CASE ReadStates \/ ReadDays \/ PlanFails \/ DeleteState \/ MoveSwitch \/ CutRequest \/ Prune
           \/ SiteChanges \/ ConfigChanges \/ EditBinding \/ DayPasses \/ WeekPasses
           \/ UNCHANGED vars
  BY <1>15 DEF ReadStates, ReadDays, PlanFails, DeleteState, MoveSwitch, CutRequest, Request,
     Prune, SiteChanges, ConfigChanges, EditBinding, DayPasses, WeekPasses, vars
<1> QED BY <1>6, <1>7, <1>8, <1>9, <1>10, <1>11, <1>12, <1>13, <1>14, <1>15
        DEF Next, Round, Polling, Settling, Settlers

LEMMA NextCompared ==
  ASSUME TypeInv, Compared, [Next]_vars
  PROVE  Compared'
<1>0. ledger.rev \in Nat /\ ledger.fig \in Nat /\ run \in [Settlers -> Calls]
  BY Numbers
<1>1. \/ ledger' = ledger
      \/ /\ ledger'.rev = ledger.rev + 1
         /\ \E s \in Settlers : run'[s].pc = "saved"
  BY LedgerGrows, Booking
<1>2. ledger'.rev = 0 => ledger'.fig = 0
  BY <1>0, <1>1 DEF Compared
<1>3. ASSUME NEW t \in Settlers, run'[t].pc = "save"
      PROVE  \/ run'[t].state.req = 0
             \/ run'[t].state.cut
             \/ run'[t].confirmed /\ run'[t].shown = run'[t].fig
             \/ run'[t].compared < ledger'.rev
             \/ run'[t].compared = ledger'.rev /\ ~Shrunk(ledger'.fig, run'[t].fig)
  <2>0. run[t].compared \in Nat
    BY <1>0 DEF Calls
  <2>1. CASE /\ run[t].pc = "save"
             /\ run'[t].state.req = run[t].state.req /\ run'[t].state.cut = run[t].state.cut
             /\ run'[t].confirmed = run[t].confirmed /\ run'[t].shown = run[t].shown
             /\ run'[t].fig = run[t].fig /\ run'[t].compared = run[t].compared
    <3>1. CASE run[t].compared < ledger.rev
      BY <1>0, <1>1, <2>0, <2>1, <3>1
    <3>2. CASE run[t].compared = ledger.rev /\ ~Shrunk(ledger.fig, run[t].fig)
      <4>1. CASE ledger' = ledger
        BY <2>1, <3>2, <4>1
      <4>2. CASE ledger'.rev = ledger.rev + 1
        BY <1>0, <2>0, <2>1, <3>2, <4>2
      <4> QED BY <1>1, <4>1, <4>2
    <3> QED BY <2>1, <3>1, <3>2 DEF Compared
  <2>2. CASE /\ UNCHANGED ledger
             /\ run'[t].compared = ledger.rev
             /\ ledger.rev = 0 \/ ~Shrunk(ledger.fig, run'[t].fig)
    <3>1. CASE ledger.rev = 0
      <4>1. run'[t].fig \in Nat /\ ledger.fig = 0
        BY <3>1, NextType, Constants DEF TypeInv, Calling, Calls, Compared
      <4>2. ~Shrunk(ledger.fig, run'[t].fig)
        BY <4>1 DEF Shrunk
      <4> QED BY <2>2, <4>2
    <3> QED BY <2>2, <3>1
  <2> QED BY <2>1, <2>2, <1>3, ComesToSave
<1> QED BY <1>2, <1>3 DEF Compared

\* Booked figures that are not too small to matter are never replaced by less
\* than half of them without a person's leave for that figure, except for the
\* program's own requests, and except when another call booked between this
\* call's comparison and its booking; whatever people read the day again.
THEOREM ShrinkingIsCompared == Spec => ShrinkConfirmed
<1>1. Init => Compared
  BY DEF Init, Compared, NotRunning
<1>2. TypeInv /\ Compared /\ [Next]_vars => Compared'
  BY NextCompared
<1>3. TypeInv /\ Compared /\ [Next]_vars =>
        [ledger.fig >= ShrinkFloor /\ 2 * ledger'.fig < ledger.fig =>
           \E s \in Settlers :
              /\ run[s].pc = "save" /\ run'[s].pc = "saved"
              /\ \/ run[s].state.cut
                 \/ run[s].confirmed /\ run[s].shown = ledger'.fig
                 \/ run[s].compared < ledger.rev]_vars
  <2> SUFFICES ASSUME TypeInv, Compared, [Next]_vars,
                      ledger.fig >= ShrinkFloor, 2 * ledger'.fig < ledger.fig
               PROVE  \E s \in Settlers :
                        /\ run[s].pc = "save" /\ run'[s].pc = "saved"
                        /\ \/ run[s].state.cut
                           \/ run[s].confirmed /\ run[s].shown = ledger'.fig
                           \/ run[s].compared < ledger.rev
    OBVIOUS
  <2>1. ledger' # ledger
    BY Numbers
  <2>2. PICK s \in Settlers : Book(s) /\ InScope(s) /\ ~Stale(s)
    BY <2>1, LedgerGrows
  <2>3. /\ run[s].pc = "save" /\ run'[s].pc = "saved"
        /\ ledger'.fig = run[s].fig
    BY <2>1, <2>2, Booking
  <2>4. CASE ledger.rev = 0
    <3>1. run[s].fig \in Nat /\ ledger.fig = 0
      BY <2>4, Numbers, Constants DEF Calls, Compared
    <3> QED BY <2>3, <3>1
  <2>5. CASE ledger.rev # 0
    <3>1. run[s].state.req # 0
      BY <2>1, <2>2, <2>5, Numbers DEF Book, Writes
    <3>2. Shrunk(ledger.fig, run[s].fig)
      BY <2>3 DEF Shrunk
    <3> QED BY <2>3, <3>1, <3>2 DEF Compared
  <2> QED BY <2>4, <2>5
<1> QED BY InitType, NextType, <1>1, <1>2, <1>3, PTL DEF Spec, ShrinkConfirmed
=============================================================================
