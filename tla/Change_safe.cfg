SPECIFICATION FairSpec
CONSTANTS
  MaxTurns = 2
  MaxMain = 1
  None = None
INVARIANTS OneWriter CountedOnce BlockerOnce VerifiedOnly
PROPERTIES LeaseHolds WorkKept RecoveryEnds
CHECK_DEADLOCK FALSE
