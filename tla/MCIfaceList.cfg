CONSTANTS
  A = A
  B = B
  X = X
  Y = Y
  NoText = NoText
  Names = {A, B}
  Texts = {X, Y}
  Lines <- MCLines
  MaxLines = 3
  MaxCalls = 3
SPECIFICATION Spec
INVARIANTS OwnBlock Accounted AddedBehind NothingMissed
CHECK_DEADLOCK FALSE
