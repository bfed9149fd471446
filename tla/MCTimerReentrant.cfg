CONSTANTS
  Threads = {main, worker}
  Driver = main
  Names = {a, b}
  Intervals = {1, 2}
  Null = Null
  Reentrant = TRUE
  MaxClock = 3
  MaxCalls = 3
CHECK_DEADLOCK FALSE
SPECIFICATION FairSpec
PROPERTY Rescheduled
