\* One job, two files, two attempts, heartbeats switched on.
SPECIFICATION FairSpec
CONSTANTS
  j1 = j1
  Jobs = {j1}
  None = None
  MaxFiles = 2
  MaxAttempts = 2
  HeartbeatsDisabled = FALSE
INVARIANTS
  SuccessMeansDelivered
  OutputsAreOwned
PROPERTIES
  KeepsContract
  JobInHandIsResolved
  ShutdownEnds
