CONSTANTS
  PrefixLength = 2
  Base = 4
  MaxLogSize = 40
  ReadMax = 9
  LevelArgs <- MCLevelArgs
  Lengths <- MCLengths
  MaxMessages = 8
  MaxCrashes = 3
SPECIFICATION Spec
INVARIANT BelowMaxSize
CHECK_DEADLOCK FALSE
