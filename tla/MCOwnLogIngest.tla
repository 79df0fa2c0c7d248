--------------------------- MODULE MCOwnLogIngest ---------------------------
(* Instances of OwnLogIngest for TLC. *)
EXTENDS OwnLogIngest, TLC

\* Two logs in the same second, one each in the seconds around it.
MCLogs == 1..3
MCLogTime == <<0, 1, 1>>

\* Two logs that fall into one window or into two.
MCTwoLogs == 1..2
MCTwoLogTime == <<0, 1>>

\* Three logs of one second, a window that cannot be made smaller: the third can
\* still turn up while the second page is being read.
MCCrowdedLogTime == <<0, 0, 0>>

\* One log of the second business day.
MCSecondDayLogs == {1}
MCSecondDayLogTime == <<2>>

Symmetry == Permutations(Workers) \cup Permutations(Revs) \cup Permutations(Keys)

=============================================================================
