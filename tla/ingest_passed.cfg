SPECIFICATION Spec
CONSTANTS
  Item = {1, 2}
  Horizon = 4
  MaxRevision <- FirstTwice
  Overlap = 1
  Page = 1
  Profiles <- OnlyStream
  MaxFaults = 1
INVARIANT FailedAreRetried
CHECK_DEADLOCK FALSE
