SPECIFICATION Spec
CONSTANTS
  t1 = t1  t2 = t2  n1 = n1  n2 = n2  X = X
  Threads = {t1}
  Setters = {t1}
  Names = {n1, n2}
  DefaultName = n1
  NewLine = NewLine
  Characters = {X, NewLine}
  NoName = NoName
  Header <- MCHeader
  Contents <- MCShort
  LineSize = 6
  MaxCalls = 3
INVARIANT PreviousKept
CHECK_DEADLOCK FALSE
