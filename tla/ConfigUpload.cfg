\* Up to four items in batches of two, three attempts, one entry of somebody else.
SPECIFICATION Spec
CONSTANTS
  a = a
  b = b
  z = z
  y = y
  Names <- MCNames
  Containers <- MCContainers
  BatchSize = 2
  Limit = 2
  MaxItems = 4
  MaxOthers = 1
  MaxAttempts = 3
INVARIANTS
  TypeOK
  ItemsArriveOnce
  PublicAsAsked
CHECK_DEADLOCK FALSE
