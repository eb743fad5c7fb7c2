SPECIFICATION Spec
CONSTANTS
  None = None
  Sessions = {s1, s2}
  Targets = {t1}
  Lanes = {l1, l2}
  Requests = {r1, r2}
  TTL = 2
  MaxDelay = 1
  MaxVersion = 3
SYMMETRY Symmetry
CONSTRAINT Apart
INVARIANTS TokenNeverReturns  TargetStaysFree
PROPERTIES NamedFirst
