SPECIFICATION Spec
CONSTANTS
  Item = {1, 2}
  Horizon = 4
  MaxRevision <- FirstTwice
  Overlap = 2
  Page = 1
  Profiles <- DripAndStream
  MaxFaults = 2
INVARIANTS TypeOK NothingStranded FrontierHasNoGaps
CHECK_DEADLOCK FALSE
PROPERTY MiningNeverSlips
