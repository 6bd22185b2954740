\* Two jobs, one operation whose bundle has two parts, two attempts, one death.
SPECIFICATION FairSpec
CONSTANTS
  Jobs = {j1, j2}
  NoJob = NoJob
  Ops = {o1}
  NoOp = NoOp
  PartCount = 2
  MaxAttempts = 2
  MaxCrashes = 1
INVARIANTS
  TypeOK
  SucceededIsWhole
  StartedIsEnded
  HonestStatus
  RunningIsKnown
PROPERTIES
  JobIsReported
  SignalEnds
