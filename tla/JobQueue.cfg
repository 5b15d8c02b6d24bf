SPECIFICATION FairSpec
CONSTANTS
  Jobs = {j1, j2, j3}
  Workers = {w1, w2}
  None = None
INVARIANTS
  PendingHeldOnce
  StampMeansOver
PROPERTIES
  StopReturns
  PendingIsStarted
