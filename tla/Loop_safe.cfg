\* One plan: either two confirmations of it with retries, claims, completions and
\* reconciliation while the head of the pull request moves, or one confirmation
\* and a marker that is posted, changed and deleted. A synchronisation runs beside
\* one other operation.
SPECIFICATION Spec
CONSTANTS
  Commands = {p1}
  Deliveries = {d1, d2}
  Requests = {q1}
  Comments = {c1}
  Verdicts = {"completed"}
  Texts = {t1}
  Heads = {h1}
  Jobs = {j1, j2}
  Syncers = {j1}
  Junk = Junk
  None = None
SYMMETRY Symmetry
CONSTRAINT Apart
INVARIANTS AwaitsAfterDelivery VerdictHasMarker
PROPERTIES Monotone 
CHECK_DEADLOCK FALSE
