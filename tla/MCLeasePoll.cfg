CONSTANTS
  OctetSize = 8
  Starts <- MCStarts
  Limits <- MCLimits
  LeaseTimes <- MCLeaseTimes
  Leases <- MCLeases
  Interval = 5
  Duration = 20
  Delays = {0, 3}
  MaxTime = 35
SPECIFICATION FairSpec
INVARIANTS UpdatedHasEvidence NotFoundIsFinal LooksBounded
PROPERTY EndsIfReadable
