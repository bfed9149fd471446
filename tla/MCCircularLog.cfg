CONSTANTS
  PrefixLength = 2
  Base = 4
  MaxLogSize = 40
  ReadMax = 9
  LevelArgs <- MCLevelArgs
  Lengths <- MCLengths
  MaxMessages = 8
  MaxCrashes = 2
SPECIFICATION Spec
INVARIANTS TypeOK ResumesAtEnd LapIsIntact TornAtSeamsOnly
CHECK_DEADLOCK FALSE
