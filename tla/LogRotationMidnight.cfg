\* rotate_when at its default, days of three ticks, two backups to keep.
CONSTANTS
  When = "midnight"
  Interval = 3
  MaxBytes = 2
  BackupCount = 2
  MaxTime = 8
  MaxRecords = 10
  MaxFaults = 0
SPECIFICATION RotationSpec
INVARIANT BackupsAreBounded
CHECK_DEADLOCK FALSE
