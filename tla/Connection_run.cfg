SPECIFICATION Spec
CONSTANTS
  Ids = {a, b, c, d}
  PrefixSizes = {1, 2}
  MaxPrefixSize = 2
  RollableSizes = {1}
  NStandard = 2
  NExtended = 1
  Targets = {1, 2}
  FirstTarget = 1
  MaxJobs = 2
  MaxPanics = 1
  NoGroup = NoGroup
INVARIANTS
  TypeOK
  RegistryFollowsTheServer
  WorkFollowsTheServer
SYMMETRY IdSymmetry
