\* Three jobs of up to two rows in a page, edges in batches of two, two
\* attempts; larger tables are checked apart from the jobs (GraphsAreExact).
SPECIFICATION Spec
CONSTANTS
  Root = Root
  Child = Child
  Made = Made
  Hosts <- MCHosts
  NoPackage = NoPackage
  PageSize = 2
  BatchSize = 2
  HasNode = {1}
  EdgeCount <- MCEdgeCount
  MaxRows = 2
  MaxJobs = 3
  MaxAttempts = 2
INVARIANTS
  TypeOK
  DeliversItsOwn
CHECK_DEADLOCK FALSE
