------------------------------ MODULE MCKeyDays ------------------------------
EXTENDS KeyDays, TLC

CONSTANTS c1, c2, c3, k1, k2, k3

\* Channels and Keys are only compared with each other.
Symmetric == Permutations(Chans) \union Permutations(Keys)

\* All bindings are made on the first day, and chosen anew on the second.
TwoDays ==
  /\ day = 0 => pick = NoPick /\ ops = Len(bind)
  /\ day = 1 => Len(bind) = MaxBindings /\ Cardinality(used) = MaxUse
=============================================================================
