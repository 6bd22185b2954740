\* One scheduler, three directories, two deaths; no symmetry, for liveness.
SPECIFICATION FairSpec
CONSTANTS
  s1 = s1
  d1 = d1
  d2 = d2
  d3 = d3
  Schedulers = {s1}
  Dirs = {d1, d2, d3}
  None = None
  MaxCrashes = 2
PROPERTIES
  SecretsAreErased
