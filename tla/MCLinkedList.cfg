CONSTANTS
  Keys = {1, 2, 3}
  NoData = NoData
  MaxAdds = 5
SPECIFICATION Spec
INVARIANTS SortedNewestFirst NothingLost
PROPERTY ImplementsService
CHECK_DEADLOCK FALSE
