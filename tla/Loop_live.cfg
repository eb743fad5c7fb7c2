\* Fairness: two plans are confirmed, errors and crashes stop in the end.
SPECIFICATION FairSpec
CONSTANTS
  Commands = {p1, p2}
  Deliveries = {d1, d2}
  Requests = {}
  Comments = {}
  Verdicts = {"completed"}
  Texts = {t1}
  Heads = {}
  Jobs = {j1}
  Syncers = {j1}
  Junk = Junk
  None = None
PROPERTIES  CrowdEnds
CHECK_DEADLOCK FALSE
