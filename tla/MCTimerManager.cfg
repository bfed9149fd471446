\* Reentrant callbacks really stop the system: deadlock is not checked here.
CONSTANTS
  Threads = {main, worker, helper}
  Driver = main
  Names = {a, b}
  Intervals = {1, 2}
  Null = Null
  Reentrant = TRUE
  MaxClock = 3
  MaxCalls = 3
SYMMETRY MCSymmetry
SPECIFICATION Spec
INVARIANTS MutualExclusion UniqueNames Accounting SafeUntilFreed NoneLeftBehind KeepsTimetable
CHECK_DEADLOCK FALSE
