SPECIFICATION Spec
CONSTANTS
  None = None
  act = act
  other = other
  report = report
  dated = dated
  ecli = ecli
  name = name
  Id = {act, other, report, dated}
  Key = {act, other, report, dated, ecli, name}
  Ecli <- Eclis
  Cites <- MixedCites
  Declares <- Names
  Base <- Bases
  Stamp <- Stamps
  Twin <- Twins
  Proc = {1, 2}
  Sweepers = {2}
  MaxBatch = 2
  MaxStores = 3
  MaxFaults = 1
INVARIANTS TypeOK NoneStranded DanglesOnlyAfterRace
CHECK_DEADLOCK FALSE
