\* Bodies of two chunks, two rotations; up to three identifiers of two secrets in
\* batches of two.
SPECIFICATION FairSpec
CONSTANTS
  s1 = s1
  s2 = s2
  Secrets <- MCSecrets
  MaxBatchSize = 2
  MaxIds = 3
  BodyLength = 2
  MaxRotations = 2
INVARIANTS
  TypeOK
  BatchesAreExact
  TakenIsWhole
  ToldIsSafe
PROPERTIES
  CredentialsHeal
CHECK_DEADLOCK FALSE
