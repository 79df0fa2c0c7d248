CONSTANTS
  c1 = c1
  c2 = c2
  d1 = d1
  X = X
  Y = Y
  None = None
  Ids <- MCIds
  Creds <- MCCreds
  AccountOf <- MCAccountOf
  FirstCreds = {c1}
  Read = {1}
  MaxRequests = 1
  MaxOps = 2
  MaxFaults = 1
SPECIFICATION Spec
INVARIANTS TypeOK IdentityMatches TokensMatch PublishedIsStored NoBindingToMerged NoLockCircle
PROPERTIES AuthRespectsEdits
CHECK_DEADLOCK FALSE
