CONSTANT MaxFaults = 3
CONSTANT Requests <- MCRequests
SPECIFICATION Spec
INVARIANT ListedIsListed
