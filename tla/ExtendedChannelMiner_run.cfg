SPECIFICATION FairSpec
CONSTANTS
  SubmitModes = {FALSE, TRUE}
  Targets = {1}
  Hashes = {1, 2}
  MinNtimes = {0}
  MaxNtime = 0
  TipFirst = FALSE
  LocksMayPoison = TRUE
  MaxJobs = 2
  MaxTips = 1
  MaxTasks = 2
  MaxShares = 2
  MaxVerdicts = 1
  MaxClock = 0
  BadCoinbases = TRUE
INVARIANTS
  OneSharePerTask
  SequenceNumbersUnique
  OnlyCurrentTaskGoesOn
PROPERTIES
  CancelledTasksFinish
  ActiveJobIsMined
  ValidatedSharesAreSent
