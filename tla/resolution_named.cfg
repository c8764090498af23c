SPECIFICATION Spec
CONSTANTS
  None = None
  act = act
  other = other
  report = report
  dated = dated
  ecli = ecli
  name = name
  Id = {act, other, report, dated}
  Key = {act, other, report, dated, ecli, name}
  Ecli <- Eclis
  Cites <- NamesakeCites
  Declares <- Names
  Base <- NoIds
  Stamp <- Stamps
  Twin <- NoIds
  Proc = {1}
  Sweepers = {}
  MaxBatch = 2
  MaxStores = 3
  MaxFaults = 0
PROPERTY CandidateHonoured
CHECK_DEADLOCK FALSE
