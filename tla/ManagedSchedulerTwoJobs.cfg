\* Two jobs, one file each, two attempts; heartbeats as shipped.
SPECIFICATION Spec
CONSTANTS
  j1 = j1
  j2 = j2
  Jobs = {j1, j2}
  None = None
  MaxFiles = 1
  MaxAttempts = 2
  HeartbeatsDisabled = TRUE
SYMMETRY JobSymmetry
INVARIANTS
  TypeOK
  HeldJobsAreTracked
  OneJobInHand
