SPECIFICATION FairSpec
CONSTANTS
  CPU_THROTTLE_WINDOW_MS = 4
  Percents = {0, 1, 2, 3, 4, 5}
  U64 = 64
  Duration = 10
  Second = 3
  MaxNonce = 2
  MaxNtime = 2
  MinNtimes = {0, 1}
  MaxDelay = 1
  MaxTime = 14
INVARIANTS
  TypeOK
  KeepsItsShare
  HeadersAreNew
  MeasurementIsShort
  CancelledTaskIsGoneSoon
PROPERTIES
  TasksEnd
