\* One poller place beside one manual request: a repository that moves three
\* times under one project, or two projects of two repositories that come and go.
SPECIFICATION FairSpec
CONSTANTS
  Repos = {r1, r2}
  Conclusions = {"success"}
  Slots = {w1}
  Callers = {m1}
  MaxHead = 2
  MaxNews = 3
  MaxIds = 2
  MaxItems = 2
  None = None
CONSTRAINT Apart
INVARIANTS OwnRepository 
PROPERTIES NewsArrives
