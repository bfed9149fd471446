\* A timer_add next to timer_free may be forgotten with the manager.
CONSTANTS
  Threads = {main, worker}
  Driver = main
  Names = {a, b}
  Intervals = {1, 2}
  Null = Null
  Reentrant = FALSE
  MaxClock = 3
  MaxCalls = 3
SPECIFICATION Spec
INVARIANT NothingForgotten
