CONSTANTS
  Keys = {1, 2, 3}
  NoData = NoData
  MaxAdds = 5
SPECIFICATION Spec
INVARIANT NullNotFollowed
CHECK_DEADLOCK FALSE
