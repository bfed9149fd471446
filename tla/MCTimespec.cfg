SPECIFICATION FairSpec
CONSTANTS
  Second = 4
  Grain = 4
  TimeMax = 7
  Intervals <- MCIntervals
  Rounding = 1
  RoundsUp <- MCRoundsUp
  MaxClock = 13
INVARIANTS IntegerTime DriftBounded
PROPERTY LoopEnds
CHECK_DEADLOCK FALSE
