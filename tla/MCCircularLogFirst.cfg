CONSTANTS
  PrefixLength = 2
  Base = 4
  MaxLogSize = 40
  ReadMax = 9
  LevelArgs <- MCLevelArgs
  Lengths <- MCLengths
  MaxMessages = 9
  MaxCrashes = 1
SPECIFICATION Spec
INVARIANT MessageWritten
CHECK_DEADLOCK FALSE
