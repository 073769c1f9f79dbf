SPECIFICATION Spec
CONSTANTS
  Ids = {a, b, c, d}
  PrefixSizes = {1, 2, 3}
  MaxPrefixSize = 2
  RollableSizes = {0, 1}
  ReusesIds = TRUE
  PrefixResizes = TRUE
  LocksMayPoison = TRUE
INVARIANTS
  NamespaceDisjoint
  GroupsListOpenChannels
SYMMETRY IdSymmetry
