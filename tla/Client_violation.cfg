SPECIFICATION FairSpec
CONSTANTS
  Configs <- Valid
  MaxFrames = 1
PROPERTIES
  ReturnStopsMining
