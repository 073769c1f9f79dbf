SPECIFICATION Spec
CONSTANTS
  Configs <- AllConfigs
  MaxFrames = 1
INVARIANTS
  MultiplierIsPositive
