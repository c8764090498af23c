SPECIFICATION FairSpec
CONSTANTS
  api = api
  sched = sched
  c1 = c1
  loop = loop
  MaxJobs = 2
  Proc <- MCProc
  Scheduler = sched
  Client = {c1, loop}
  Home <- MCHome
  Main <- MCMain
  AutoResumeAtBoot = {api}
  Task <- OnlyImport
  Kind <- MCKind
  Source <- MCSource
  AllSources = "*"
  ScanKinds = {"rescan"}
  SourceExclusiveKinds = {"harvest-source"}
  SingletonKinds = {"embed"}
  DedupKinds = {"harvest-source", "static-export"}
  QueueExemptKinds = {"static-export"}
  AutoResumeKinds = {"harvest-source"}
  ChainTriggerKinds = {"import"}
  Follow <- MCFollow
  Cap = 1
  MaxAttempts = 2
  Keep = 1
  Requests = {"cancel", "restart", "pause"}
  MaxRequests = 2
  Faults = {"crash", "hang", "write"}
  MaxFaults = 1
INVARIANTS TypeOK WorkerStartsOnce DroppedNeverRuns RestartNeverOverlaps
PROPERTIES RowProtocol RowsSettle
CHECK_DEADLOCK FALSE
