\* The authority changes: rebinding, presence, sessions and contexts while a
\* command waits; retried confirmations and claim requests; under fairness the
\* command is settled in the end.
SPECIFICATION FairSpec
CONSTANTS
  Ids = {i1, i2}
  Lanes = {l1}
  Keys = {k1}
  Contexts = {x1, x2}
  Sessions = {s1, s2}
  Requests = {q1}
  Handlers = {h1, h2}
  Evidence = {e1}
  None = None
  PendingTTL = 1
  ClaimTTL = 1
  MaxTime = 3
  MaxSnap = 2
INVARIANTS ClaimBook
PROPERTIES EventuallySettled
CHECK_DEADLOCK FALSE
