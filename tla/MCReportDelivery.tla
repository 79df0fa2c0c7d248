-------------------------- MODULE MCReportDelivery --------------------------
(* Instances of ReportDelivery for TLC. *)
EXTENDS ReportDelivery, TLC

\* A report at the beginning of the day, one late enough that its retries run
\* into midnight, and none.
MCPlans == {0, 3, Off}

Symmetry == Permutations(Channels)

=============================================================================
