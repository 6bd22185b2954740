\* Two workers of one record each and two schedulers, on a terminal; the main file
\* rotates every tick or record, over two ticks, with one rename that fails.
CONSTANTS
  When = "h"
  Interval = 1
  MaxBytes = 1
  BackupCount = 1
  MaxTime = 1
  MaxRecords = 3
  MaxFaults = 1
  Mode = "cli"
  Kinds <- MCKinds
  MaxWorkers = 2
  MaxPuts = 1
  MaxServices = 2
SPECIFICATION Spec
INVARIANTS
  TypeOK
  DeliveredAsHandled
  LiveFileIsBounded
PROPERTIES
  KeepsLog
  StopEnds
CHECK_DEADLOCK FALSE
