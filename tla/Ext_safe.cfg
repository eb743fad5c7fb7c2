SPECIFICATION FairSpec
CONSTANTS
  c1 = c1
  c2 = c2
  o1 = o1
  o2 = o2
  None = None
  Commands = {c1, c2}
  Origins = {o1, o2}
  Home <- MCHome
  MaxClaims = 2
  MaxEntries = 1
INVARIANTS OneClick HonestOutcome HomeOnly
PROPERTIES  LedgerStands OutcomeReported
CHECK_DEADLOCK FALSE
