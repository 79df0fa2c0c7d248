---------------------------- MODULE MCSettlement ----------------------------
(* Instances of Settlement for TLC. *)
EXTENDS Settlement, TLC

\* A figure and one of less than half of it.
MCFigures == {1, 3}

=============================================================================
