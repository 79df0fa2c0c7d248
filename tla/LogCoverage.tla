----------------------------- MODULE LogCoverage -----------------------------
(***************************************************************************)
(* What the own-log store promises to the settlement that reads it: a      *)
(* covered range that only grows at its end, and buckets in which exactly  *)
(* the logs of that range are counted, each by the step that covered it.   *)
(* Nothing is said of windows, pages, staging, revisions or processes.     *)
(***************************************************************************)
EXTENDS Integers

CONSTANTS Logs, LogTime, Lag
VARIABLES now, site, late, row, counted

vars == <<now, site, late, row, counted>>

NoRow == [from |-> 0, to |-> -1, disFrom |-> -1, disTo |-> -1]

Init == /\ site = {} /\ late = {}
        /\ row = NoRow
        /\ counted = [l \in Logs |-> 0]

\* Reading starts with nothing covered.
Open == /\ row = NoRow
        /\ row' = [from |-> row'.from, to |-> row'.from, disFrom |-> -1, disTo |-> -1]
        /\ UNCHANGED <<now, site, late, counted>>

\* A range after the covered one: all of its logs, save those that came late,
\* are counted in the same step, none of them for the second time.
Cover == /\ row # NoRow
         /\ row' = [row EXCEPT !.to = row'.to]
         /\ row.to < row'.to
         /\ \E read \in SUBSET site :
              LET range == {l \in Logs : row.to <= LogTime[l] /\ LogTime[l] < row'.to}
              IN  /\ site \cap range \subseteq read \cup late
                  /\ read \subseteq range
                  /\ \A l \in read : counted[l] = 0
                  /\ counted' = [l \in Logs |-> IF l \in read THEN 1 ELSE counted[l]]
         /\ UNCHANGED <<now, site, late>>

\* The days the switch was off are recorded as one gap, not read.
Jump == /\ row # NoRow
        /\ row.to < row'.to
        /\ row' = [row EXCEPT !.to = row'.to, !.disTo = row'.to,
                              !.disFrom = IF row.disFrom = -1 THEN row.to ELSE @]
        /\ UNCHANGED <<now, site, late, counted>>

\* Old buckets go, the progress stays.
Prune == /\ \E old \in SUBSET Logs :
              counted' = [l \in Logs |-> IF l \in old THEN 0 ELSE counted[l]]
         /\ UNCHANGED <<now, site, late, row>>

\* The station goes, with all that was read of it.
Forget == /\ row' = NoRow
          /\ counted' = [l \in Logs |-> 0]
          /\ UNCHANGED <<now, site, late>>

\* Outside: logs appear on the station, late ones are marked.
World == /\ site \subseteq site'
         /\ \A l \in site' \ site : l \in late' \/ LogTime[l] >= now - Lag
         /\ late \subseteq late' /\ late' \subseteq site'
         /\ now' >= now
         /\ UNCHANGED <<row, counted>>

Next == Open \/ Cover \/ Jump \/ Prune \/ Forget \/ World

Spec == Init /\ [][Next]_vars

=============================================================================
