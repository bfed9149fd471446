CONSTANTS
  A = A
  B = B
  X = X
  NoText = NoText
  Names = {A, B}
  Texts = {X}
  Lines <- MCLines
  MaxLines = 3
  MaxCalls = 0
  MaxRuns = 2
SPECIFICATION ProgramSpec
INVARIANT SavedWhenSaid
CHECK_DEADLOCK FALSE
