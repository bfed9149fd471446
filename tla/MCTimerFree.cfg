\* A call next to timer_free: the comment at timer.c:397-398 fails.
CONSTANTS
  Threads = {main, worker}
  Driver = main
  Names = {a, b}
  Intervals = {1, 2}
  Null = Null
  Reentrant = FALSE
  MaxClock = 3
  MaxCalls = 3
SPECIFICATION Spec
INVARIANT NoUseAfterFree
