SPECIFICATION Spec
CONSTANTS
  api = api
  sched = sched
  c1 = c1
  loop = loop
  MaxJobs = 3
  Proc <- MCProc
  Scheduler = sched
  Client = {c1, loop}
  Home <- MCHome
  Main <- MCMain
  AutoResumeAtBoot = {api}
  Task <- HarvestAndImport
  Kind <- MCKind
  Source <- MCSource
  AllSources = "*"
  ScanKinds = {"rescan"}
  SourceExclusiveKinds = {"harvest-source"}
  SingletonKinds = {"embed"}
  DedupKinds = {"harvest-source", "static-export"}
  QueueExemptKinds = {"static-export"}
  AutoResumeKinds = {"harvest-source", "import", "embed", "rescan"}
  ChainTriggerKinds = {}
  Follow <- MCFollow
  Cap = 2
  MaxAttempts = 2
  Keep = 1
  Requests = {"queue"}
  MaxRequests = 1
  Faults = {"crash", "sleep", "hang", "write", "error"}
  MaxFaults = 2
INVARIANTS WorkerStartsOnce CrashLoopBounded
PROPERTIES RowProtocol
CHECK_DEADLOCK FALSE
