SPECIFICATION Spec
CONSTANTS
  Ids = {a, b, c, d, e}
  PrefixSizes = {1, 2, 3}
  MaxPrefixSize = 2
  RollableSizes = {0, 1}
  ReusesIds = FALSE
  PrefixResizes = FALSE
  LocksMayPoison = TRUE
INVARIANTS
  TypeOK
  NamespaceDisjoint
  GroupsListOpenChannels
  OneGroupPerChannel
  GroupSharesExtranonceSize
  EveryChannelHasAGroup
PROPERTIES
  OnlyRegroupingMovesChannels
  ImplementsMembership
SYMMETRY IdSymmetry
