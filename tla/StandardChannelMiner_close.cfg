SPECIFICATION FairSpec
CONSTANTS
  SubmitModes = {FALSE}
  Targets = {1}
  Hashes = {1, 2}
  MinNtimes = {0}
  MaxNtime = 0
  TipFirst = TRUE
  LocksMayPoison = FALSE
  MaxJobs = 2
  MaxTips = 1
  MaxTasks = 2
  MaxShares = 1
  MaxVerdicts = 0
  MaxClock = 0
PROPERTIES
  ClosedChannelStopsHashing
