CONSTANT MaxFaults = 3
CONSTANT Requests <- MCRequests
SPECIFICATION FairSpec
INVARIANTS AllOrNothing StepsInOrder ToldTheTruth
PROPERTY RerunRepairs
