------------------------------- MODULE MCJobs -------------------------------
(* Small instances of Jobs: two processes, an API with request threads and   *)
(* the scheduler, and tasks of the kinds the guards tell apart.              *)
EXTENDS Jobs

CONSTANTS api, sched, c1, loop

MCProc == {api, sched}
MCMain == [p \in MCProc |-> IF p = api THEN c1 ELSE loop]
MCHome == [t \in Client |-> IF t = loop THEN sched ELSE api]

T(k, s) == [kind |-> k, source |-> s, resumed |-> FALSE]
MCKind == {"harvest-source", "import", "embed", "static-export", "rescan"}
MCSource == {"nl", "*"}
MCFollow == T("embed", "*")

HarvestAndImport == {T("harvest-source", "nl"), T("import", "nl")}
OnlyImport == {T("import", "nl")}
=============================================================================
