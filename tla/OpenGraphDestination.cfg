\* Two load jobs of five and two items in parts of two, three faults.
SPECIFICATION FairSpec
CONSTANTS
  j1 = j1
  j2 = j2
  LoadJobs = {j1, j2}
  ItemCount <- MCItemCount
  PartSize = 2
  Torn = Torn
  NotYet = NotYet
  MaxFaults = 3
INVARIANTS
  TypeOK
  PublishedIsWhole
PROPERTIES
  KeepsExport
  LoadEnds
