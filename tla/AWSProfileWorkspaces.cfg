\* Two schedulers, four directories, two deaths.
SPECIFICATION Spec
CONSTANTS
  s1 = s1
  s2 = s2
  d1 = d1
  d2 = d2
  d3 = d3
  d4 = d4
  Schedulers = {s1, s2}
  Dirs = {d1, d2, d3, d4}
  None = None
  MaxCrashes = 2
SYMMETRY ProcessSymmetry
INVARIANTS
  TypeOK
  InUseIsKept
  OwnedIsKept
  CredentialsAreAccountedFor
  HolderNeverWaits

