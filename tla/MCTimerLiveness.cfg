CONSTANTS
  Threads = {main, worker}
  Driver = main
  Names = {a, b}
  Intervals = {1, 2}
  Null = Null
  Reentrant = FALSE
  MaxClock = 3
  MaxCalls = 3
SPECIFICATION FairSpec
PROPERTIES ImplementsService MutexReleased DueTimeServed
