CONSTANTS
  Threads = {main, worker}
  Driver = main
  Names = {a, b}
  Intervals = {0, 1}
  Null = Null
  Reentrant = FALSE
  MaxClock = 3
  MaxCalls = 3
SPECIFICATION FairSpec
PROPERTY Rescheduled
