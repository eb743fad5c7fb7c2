\* Two ClaimNext calls race for two commands of one lane; the clock
\* passes both deadlines at both phases of a second.
SPECIFICATION Spec
CONSTANTS
  Ids = {i1, i2}
  Lanes = {l1}
  Keys = {k1, k2}
  Contexts = {x1}
  Sessions = {s1, s2}
  Requests = {q1, q2}
  Handlers = {h1, h2}
  Evidence = {e1}
  None = None
  PendingTTL = 2
  ClaimTTL = 1
  MaxTime = 5
  MaxSnap = 1
SYMMETRY Symmetry
INVARIANTS OneExecution AckedOutcomeStands KeyBindsOneCommand DeadlinesHold
PROPERTIES KeepsRights
CHECK_DEADLOCK FALSE
