SPECIFICATION FairSpec
CONSTANTS
  corpus = corpus
  act = act
  case = case
  report = report
  Ref = {act, case, report}
  Corpus = corpus
  Cites <- Graph
  Rank <- Ranks
  Source = {"leg", "caselaw"}
  SourceOf <- Servers
  Id = {case}
  Loose = {}
  Late = {report}
  Twin = {act}
  Drain = {1, 2}
  Bulk = {1}
  Limit <- Limits
  Scan <- Slices
  MaxClicks = 1
  MaxFaults = 1
INVARIANTS TypeOK UnminedIsExplained
PROPERTIES LinkedMeansHeld EventuallyLinked
CHECK_DEADLOCK FALSE
