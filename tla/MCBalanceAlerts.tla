------------------------- MODULE MCBalanceAlerts -------------------------
EXTENDS BalanceAlerts, TLC

CONSTANTS a, b

MCChannels == {a, b}
Symmetry == Permutations(MCChannels)
=============================================================================
