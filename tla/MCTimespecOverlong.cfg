SPECIFICATION Spec
CONSTANTS
  Second = 4
  Grain = 4
  TimeMax = 7
  Intervals <- MCOverlong
  Rounding = 1
  RoundsUp = {}
  MaxClock = 13
INVARIANT DueAfterStart
CHECK_DEADLOCK FALSE
