\* The instance of UnmanagedScheduler.cfg with one question.
SPECIFICATION Spec
CONSTANTS
  Jobs = {j1, j2}
  NoJob = NoJob
  Ops = {o1}
  NoOp = NoOp
  PartCount = 2
  MaxAttempts = 2
  MaxCrashes = 1
INVARIANTS
  StartedJobIsFound
