SPECIFICATION Spec
CONSTANTS
  SubmitModes = {FALSE}
  Targets = {0, 1}
  Hashes = {1, 2}
  MinNtimes = {0, 1}
  MaxNtime = 1
  TipFirst = TRUE
  LocksMayPoison = FALSE
  MaxJobs = 2
  MaxTips = 2
  MaxTasks = 2
  MaxShares = 2
  MaxVerdicts = 0
  MaxClock = 1
INVARIANTS
  TypeOK
  AtMostOneLateShare
  NtimeWithinClock
  SharesMeetTheirJob
  CurrentTaskMinesActiveJob
PROPERTIES
  OldSharesAreDropped
