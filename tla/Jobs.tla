-------------------------------- MODULE Jobs --------------------------------
(***************************************************************************)
(* The background-job registry of raglex: the jobs table of the catalogue  *)
(* and the JobManager of every process that reads and writes it.  Each SQL *)
(* statement is atomic (the connection is in autocommit), and nothing else *)
(* is: a thread that reads the table, decides, and then writes is several  *)
(* steps here, and any other thread, a crash or a restart may come between *)
(* two of them.                                                            *)
(*                                                                         *)
(* A thread is either a client (a request handler of the API, the loop of  *)
(* the scheduler) or the worker of a job, and worker j is named by its row *)
(* j.  step[t] is the statement the thread t executes next.                *)
(***************************************************************************)
EXTENDS Integers, FiniteSets

CONSTANTS
  MaxJobs,          \* bound: how many rows are ever inserted
  Proc,             \* the processes that hold a JobManager
  Scheduler,        \* the one that runs the watch loop
  Client,           \* threads that issue requests
  Home,             \* the process of a client
  Main,             \* the thread of a process that reaps when it boots
  AutoResumeAtBoot, \* processes that pass auto_resume=True to reap_orphans
  Task,             \* (kind, parameters) that clients ask for
  Kind, Source, AllSources,
  ScanKinds, SourceExclusiveKinds, SingletonKinds, DedupKinds,
  QueueExemptKinds, AutoResumeKinds, ChainTriggerKinds,
  Follow,           \* the task chained after corpus growth: the embed batch
  Cap,              \* _max_concurrent
  MaxAttempts,      \* MAX_RESUME_ATTEMPTS, not 0: that would lift the cap
  Keep,             \* prune_jobs keeps this many rows that are not running
  Requests,         \* what clients do besides start
  MaxRequests,      \* bound: how many starts, cancels and restarts they ask for
  Faults,           \* what may go wrong
  MaxFaults         \* bound: how often

Job == 1 .. MaxJobs
Thread == Client \cup Job
TaskSpace == [kind : Kind, source : Source, resumed : BOOLEAN]

ASSUME JobsAssumption ==
  /\ MaxJobs \in Nat
  /\ Scheduler \in Proc
  /\ Client \cap Job = {}
  /\ Home \in [Client -> Proc]
  /\ Main \in [Proc -> Client]
  /\ \A p \in Proc : Home[Main[p]] = p
  /\ AutoResumeAtBoot \subseteq Proc
  /\ Task \subseteq TaskSpace
  /\ Follow \in TaskSpace
  /\ Cap \in Nat \ {0}
  /\ MaxAttempts \in Nat \ {0}
  /\ Keep \in Nat
  /\ Requests \subseteq {"poll", "cancel", "restart", "queue", "pause"}
  /\ Faults \subseteq {"crash", "sleep", "hang", "write", "error"}
  /\ MaxRequests \in Nat
  /\ MaxFaults \in Nat

VARIABLES
  \* the columns of the jobs table
  status, row, cancel, again, lease, younger, next,
  \* the worker thread of each row
  pc, owner, sees, outcome, runs,
  \* what each thread is executing
  step, req, job, todo, seen,
  \* the processes, the pause setting, and what the bounds count
  up, paused, requests, faults

stamps == <<younger, next>>
columns == <<status, row, cancel, again, lease, stamps>>
workers == <<pc, owner, sees, outcome, runs>>
calls == <<step, req, job, todo, seen>>
env == <<up, paused, requests, faults>>
vars == <<columns, workers, calls, env>>

Terminal == {"done", "error", "cancelled", "interrupted"}
Status == Terminal \cup {"none", "queued", "running", "pruned"}
Stages == {"none", "run", "hung", "resume", "chain", "promote", "over", "dead"}
Steps == {"idle", "read", "dedup", "insert", "spawn",
          "slots", "pick", "claim", "launch", "ask",
          "orphans", "orphaned", "stalled", "stall", "wedged", "wedge",
          "prune", "resume"}
Outcome == {"none", "done", "nothing", "error", "cancelled"}

Row == [task : TaskSpace, origin : Proc, from : 0 .. MaxJobs, attempt : Nat,
        auto : BOOLEAN]
Request == [task : TaskSpace, queue : BOOLEAN, from : 0 .. MaxJobs,
            auto : BOOLEAN, full : BOOLEAN]

NoRequest == [task |-> Follow, queue |-> FALSE, from |-> 0, auto |-> FALSE,
              full |-> FALSE]

Init ==
  /\ status = [j \in Job |-> "none"]
  /\ row = [j \in Job |-> [task |-> Follow, origin |-> Scheduler, from |-> 0,
                           attempt |-> 1, auto |-> FALSE]]
  /\ cancel = [j \in Job |-> FALSE]
  /\ again = [j \in Job |-> FALSE]
  /\ lease = [j \in Job |-> TRUE]
  /\ younger = [j \in Job |-> {}]
  /\ next = 1
  /\ pc = [j \in Job |-> "none"]
  /\ owner = [j \in Job |-> Scheduler]
  /\ sees = [j \in Job |-> FALSE]
  /\ outcome = [j \in Job |-> "none"]
  /\ runs = [j \in Job |-> 0]
  /\ step = [t \in Thread |-> "idle"]
  /\ req = [t \in Thread |-> NoRequest]
  /\ job = [t \in Thread |-> 0]
  /\ todo = [t \in Thread |-> {}]
  /\ seen = [t \in Thread |-> {}]
  /\ up = [p \in Proc |-> TRUE]
  /\ paused = FALSE
  /\ requests = 0
  /\ faults = 0

-----------------------------------------------------------------------------
(* Reading the table.                                                      *)

Running == {j \in Job : status[j] = "running"}
Queued == {j \in Job : status[j] = "queued"}
Rows == {j \in Job : status[j] \notin {"none", "pruned"}}

\* The process a thread lives in.
At(t) == IF t \in Client THEN Home[t] ELSE owner[t]

\* _slots_used: queue-exempt kinds run beside the cap.
SlotsUsed(R) == Cardinality({j \in R : row[j].task.kind \notin QueueExemptKinds})

ScanConflict(a, b) ==
  /\ a.kind \in ScanKinds
  /\ b.kind \in ScanKinds
  /\ AllSources \in {a.source, b.source} \/ a.source = b.source

SourceConflict(a, b) ==
  /\ a.kind \in SourceExclusiveKinds
  /\ b.kind \in SourceExclusiveKinds
  /\ AllSources \in {a.source, b.source} \/ a.source = b.source

DedupHit(a, b) ==
  /\ a.kind = b.kind
  /\ \/ a.kind \in SingletonKinds \ ScanKinds
     \/ a.kind \in DedupKinds /\ a = b

BlockedByRunning(a, R) ==
  \E j \in R : \/ ScanConflict(a, row[j].task)
               \/ SourceConflict(a, row[j].task)
               \/ DedupHit(a, row[j].task)

MutantResumable(R) ==
  {j \in R : /\ row[j].task.kind \in AutoResumeKinds
             /\ ~cancel[j]
             /\ row[j].attempt <= MaxAttempts}

\* The rows a reaper relaunches, judged on the rows its SELECT returned.
Resumable(R) ==
  {j \in R : /\ row[j].task.kind \in AutoResumeKinds
             /\ ~cancel[j]
             /\ row[j].attempt < MaxAttempts}

\* The parameters _resume_row relaunches a row with.
ResumeTask(task) ==
  IF task.kind \in SourceExclusiveKinds THEN [task EXCEPT !.resumed = TRUE]
  ELSE task

Goto(t, s) == step' = [step EXCEPT ![t] = s]

\* A call of start() has returned: a reaper goes on with its next row.
Return(t) == IF todo[t] = {} THEN "idle" ELSE "resume"

StartReturns(t) ==
  /\ Goto(t, Return(t))
  /\ req' = [req EXCEPT ![t] = NoRequest]

-----------------------------------------------------------------------------
(* start(): read the running rows, read the queued rows, insert, and start *)
(* the worker's thread: four statements.                                   *)

Call(t, task, queue, from, auto) ==
  /\ req' = [req EXCEPT ![t] = [task |-> task, queue |-> queue, from |-> from,
                                auto |-> auto, full |-> FALSE]]
  /\ Goto(t, "read")

StartReadsRunning(t) ==
  /\ step[t] = "read"
  /\ IF \/ At(t) = Scheduler /\ paused
        \/ BlockedByRunning(req[t].task, Running)
     THEN StartReturns(t)
     ELSE /\ Goto(t, "dedup")
          /\ req' = [req EXCEPT ![t].full =
                       /\ SlotsUsed(Running) >= Cap
                       /\ req[t].task.kind \notin QueueExemptKinds]
  /\ UNCHANGED <<columns, workers, job, todo, seen, env>>

StartReadsQueue(t) ==
  /\ step[t] = "dedup"
  /\ IF \E j \in Queued : DedupHit(req[t].task, row[j].task)
     THEN StartReturns(t)
     ELSE Goto(t, "insert") /\ UNCHANGED req
  /\ UNCHANGED <<columns, workers, job, todo, seen, env>>

\* started_at = now: j becomes the youngest row.
Stamp(j) ==
  younger' = [k \in Job |-> IF k = j THEN {} ELSE younger[k] \cup {j}]

\* create_job.  Row ids are unique: 1, 2, ...; the queue is in their order.
StartInserts(t) ==
  /\ step[t] = "insert"
  /\ next \in Job
  /\ LET r == req[t]
         s == IF r.queue \/ r.full THEN "queued" ELSE "running"
     IN /\ status' = [status EXCEPT ![next] = s]
        /\ row' = [row EXCEPT ![next] =
                     [task |-> r.task, origin |-> At(t), from |-> r.from,
                      attempt |-> IF r.from = 0 THEN 1 ELSE row[r.from].attempt + 1,
                      auto |-> r.auto]]
        /\ lease' = [lease EXCEPT ![next] = TRUE]
        /\ Stamp(next)
        /\ next' = next + 1
        /\ IF s = "running"
           THEN /\ Goto(t, "spawn")
                /\ job' = [job EXCEPT ![t] = next]
                /\ UNCHANGED req
           ELSE StartReturns(t) /\ UNCHANGED job
  /\ UNCHANGED <<cancel, again, workers, todo, seen, env>>

\* The bound: once MaxJobs rows exist a start goes no further.
StartHitsBound(t) ==
  /\ step[t] = "insert"
  /\ next \notin Job
  /\ StartReturns(t)
  /\ UNCHANGED <<columns, workers, job, todo, seen, env>>

\* threading.Thread(target=self._worker, ...).start()
StartThread(t) ==
  /\ step[t] \in {"spawn", "launch"}
  /\ LET j == job[t]
     IN /\ pc' = [pc EXCEPT ![j] = "run"]
        /\ owner' = [owner EXCEPT ![j] = At(t)]
        /\ runs' = [runs EXCEPT ![j] = @ + 1]
  /\ IF step[t] = "launch" THEN Goto(t, "slots") /\ UNCHANGED req
     ELSE StartReturns(t)
  /\ job' = [job EXCEPT ![t] = 0]
  /\ UNCHANGED <<columns, sees, outcome, todo, seen, env>>

-----------------------------------------------------------------------------
(* _promote_with(): while a slot is free, claim the oldest queued row that *)
(* no running row blocks.                                                  *)

PromoteReadsRunning(t) ==
  /\ step[t] = "slots"
  /\ IF SlotsUsed(Running) >= Cap
     THEN Goto(t, "idle") /\ UNCHANGED seen
     ELSE Goto(t, "pick") /\ seen' = [seen EXCEPT ![t] = Running]
  /\ UNCHANGED <<columns, workers, req, job, todo, env>>

PromoteReadsQueue(t) ==
  /\ step[t] = "pick"
  /\ LET free == {q \in Queued : ~BlockedByRunning(row[q].task, seen[t])}
     IN /\ todo' = [todo EXCEPT ![t] = free]
        /\ Goto(t, IF free = {} THEN "idle" ELSE "claim")
  /\ seen' = [seen EXCEPT ![t] = {}]
  /\ UNCHANGED <<columns, workers, req, job, env>>

MutantClaimable(q) == status[q] # "running"

\* claim_queued_job: UPDATE ... WHERE job_id = ? AND status = 'queued'.  The
\* row counts as started anew.
Claimable(q) == status[q] = "queued"

PromoteClaims(t) ==
  /\ step[t] = "claim"
  /\ \E q \in todo[t] :
       /\ \A r \in todo[t] : q <= r
       /\ IF Claimable(q)
          THEN /\ status' = [status EXCEPT ![q] = "running"]
               /\ lease' = [lease EXCEPT ![q] = TRUE]
               /\ Stamp(q)
               /\ job' = [job EXCEPT ![t] = q]
               /\ todo' = [todo EXCEPT ![t] = {}]
               /\ Goto(t, "launch")
          ELSE /\ todo' = [todo EXCEPT ![t] = @ \ {q}]
               /\ Goto(t, IF todo[t] = {q} THEN "idle" ELSE "claim")
               /\ UNCHANGED <<status, lease, younger, job>>
  /\ UNCHANGED <<row, cancel, again, next, workers, req, seen, env>>

-----------------------------------------------------------------------------
(* _worker().                                                              *)

\* cancel_check polls the flag of the row.
WorkerSeesCancel(j) ==
  /\ pc[j] = "run"
  /\ cancel[j] /\ status[j] # "pruned" /\ ~sees[j]
  /\ sees' = [sees EXCEPT ![j] = TRUE]
  /\ UNCHANGED <<columns, pc, owner, outcome, runs, calls, env>>

\* No progress for WEDGED_SECONDS: a call that does not return.  It may yet.
WorkerHangs(j) ==
  /\ "hang" \in Faults /\ faults < MaxFaults
  /\ pc[j] = "run"
  /\ pc' = [pc EXCEPT ![j] = "hung"]
  /\ faults' = faults + 1
  /\ UNCHANGED <<columns, owner, sees, outcome, runs, calls, up, paused, requests>>

WorkerReturns(j) ==
  /\ pc[j] = "hung"
  /\ pc' = [pc EXCEPT ![j] = "run"]
  /\ UNCHANGED <<columns, owner, sees, outcome, runs, calls, env>>

\* pulse_job, every 30 seconds while the runner has not returned.
Pulsing(j) == pc[j] \in {"run", "hung"}

WorkerPulses(j) ==
  /\ Pulsing(j) /\ status[j] = "running" /\ ~lease[j]
  /\ lease' = [lease EXCEPT ![j] = TRUE]
  /\ UNCHANGED <<status, row, cancel, again, stamps, workers, calls, env>>

MutantStatusOf(s) == s

\* "nothing" is a 'done' whose result counts no net-new work (_job_did_work).
StatusOf(s) == IF s = "nothing" THEN "done" ELSE s
AfterResume(s) == IF StatusOf(s) = "done" THEN "chain" ELSE "promote"

\* Whether a write, or the read after it, comes back with an error.
Fails(works) ==
  IF works THEN UNCHANGED faults
  ELSE "write" \in Faults /\ faults < MaxFaults /\ faults' = faults + 1

\* finish_job has no status guard: the row takes the outcome whatever a reaper
\* made of it meanwhile.  (The heartbeat before it writes nothing modelled.)
WorkerEnds(j) ==
  /\ pc[j] = "run"
  /\ \E s \in Outcome \ {"none"}, written \in BOOLEAN :
       /\ IF s = "error" THEN "error" \in Faults
          ELSE sees[j] <=> s = "cancelled"
       /\ Fails(written)
       /\ outcome' = [outcome EXCEPT ![j] = s]
       /\ sees' = [sees EXCEPT ![j] = FALSE]
       /\ status' = IF written /\ status[j] # "pruned"
                    THEN [status EXCEPT ![j] = StatusOf(s)] ELSE status
       /\ pc' = [pc EXCEPT ![j] =
                   IF written /\ again[j] THEN "resume" ELSE AfterResume(s)]
  /\ UNCHANGED <<row, cancel, again, lease, stamps, owner, runs, calls, up,
                 paused, requests>>

\* get_job, and _resume_row when restart_requested is set: finish_job has made
\* the flag final, but the row may be pruned by now, or the read fail.
WorkerResumes(j) ==
  /\ pc[j] = "resume" /\ step[j] = "idle"
  /\ \E read \in BOOLEAN :
       /\ Fails(read)
       /\ IF read /\ status[j] # "pruned"
          THEN Call(j, ResumeTask(row[j].task), FALSE, j, FALSE)
          ELSE UNCHANGED <<step, req>>
  /\ pc' = [pc EXCEPT ![j] = AfterResume(outcome[j])]
  /\ UNCHANGED <<columns, owner, sees, outcome, runs, job, todo, seen, up, paused,
                 requests>>

\* _chain_postprocess: the follow-up is deferred while another corpus-growing
\* job is pending, and skipped when it is pending itself, when the job did no
\* work, or when its last completion is recent.
TriggerPending == \E j \in Running \cup Queued : row[j].task.kind \in ChainTriggerKinds
FollowPending == \E j \in Running \cup Queued : row[j].task.kind = Follow.kind
FollowRan == \E j \in Rows : row[j].task.kind = Follow.kind /\ status[j] = "done"

WorkerChains(j) ==
  /\ pc[j] = "chain" /\ step[j] = "idle"
  /\ pc' = [pc EXCEPT ![j] = "promote"]
  /\ LET due == /\ row[j].task.kind \in ChainTriggerKinds
                /\ outcome[j] = "done"
                /\ ~TriggerPending
                /\ ~FollowPending
     IN \E recent \in BOOLEAN :
          /\ recent => FollowRan
          /\ IF due /\ ~recent THEN Call(j, Follow, TRUE, 0, FALSE)
             ELSE UNCHANGED <<step, req>>
  /\ UNCHANGED <<columns, owner, sees, outcome, runs, job, todo, seen, env>>

WorkerPromotes(j) ==
  /\ pc[j] = "promote" /\ step[j] = "idle"
  /\ pc' = [pc EXCEPT ![j] = "over"]
  /\ Goto(j, "slots")
  /\ UNCHANGED <<columns, owner, sees, outcome, runs, req, job, todo, seen, env>>

-----------------------------------------------------------------------------
(* What clients ask for.                                                   *)

\* create_app reaps and resumes before the API serves its first request.
Booting(p) ==
  LET m == Main[p]
  IN /\ p # Scheduler
     /\ \/ step[m] \in {"orphans", "orphaned", "prune", "resume"}
        \/ step[m] # "idle" /\ req[m].auto

Asks == requests < MaxRequests /\ requests' = requests + 1

Free(t) == step[t] = "idle" /\ up[Home[t]] /\ ~Booting(Home[t])

ClientStarts(t) ==
  /\ Free(t)
  /\ \E task \in Task, queue \in BOOLEAN :
       /\ queue => "queue" \in Requests
       /\ Call(t, task, queue, 0, FALSE)
  /\ Asks
  /\ UNCHANGED <<columns, workers, job, todo, seen, up, paused, faults>>

\* The scheduler's tick, and poll() and list() of the API.
ClientPromotes(t) ==
  /\ Free(t)
  /\ t = Main[Scheduler] \/ "poll" \in Requests
  /\ Queued # {}
  /\ Goto(t, "slots")
  /\ UNCHANGED <<columns, workers, req, job, todo, seen, env>>

MutantDroppable(j) == status[j] \in {"queued", "running"}

\* cancel_queued_job: UPDATE ... WHERE job_id = ? AND status = 'queued'
Droppable(j) == status[j] = "queued"

\* cancel(): cancel_queued_job, then request_job_cancel when that found
\* nothing.  No row goes back to 'queued', so the two read as one.
ClientCancels(t, j) ==
  /\ Free(t) /\ "cancel" \in Requests
  /\ \/ /\ Droppable(j)
        /\ status' = [status EXCEPT ![j] = "cancelled"]
        /\ UNCHANGED cancel
     \/ /\ status[j] = "running"
        /\ cancel' = [cancel EXCEPT ![j] = TRUE]
        /\ UNCHANGED status
  /\ Asks
  /\ UNCHANGED <<row, again, lease, stamps, workers, calls, up, paused, faults>>

MutantMustStopFirst(j) == status[j] = "running" /\ cancel[j]

MustStopFirst(j) == status[j] = "running"

\* restart(): a running row is only asked to stop; any other is relaunched.
\* The panel offers the button on running and on finished rows.
ClientRestarts(t, j) ==
  /\ Free(t) /\ "restart" \in Requests
  /\ j \in Rows \ Queued
  /\ IF MustStopFirst(j)
     THEN /\ Goto(t, "ask")
          /\ job' = [job EXCEPT ![t] = j]
          /\ UNCHANGED req
     ELSE Call(t, ResumeTask(row[j].task), FALSE, j, FALSE) /\ UNCHANGED job
  /\ Asks
  /\ UNCHANGED <<columns, workers, todo, seen, up, paused, faults>>

\* request_job_restart, whose answer restart() does not look at: the caller
\* is told restart_when_stopped either way.
RestartAsks(t) ==
  /\ step[t] = "ask"
  /\ LET j == job[t]
         hit == status[j] = "running"
     IN /\ cancel' = [cancel EXCEPT ![j] = @ \/ hit]
        /\ again' = [again EXCEPT ![j] = @ \/ hit]
  /\ Goto(t, "idle")
  /\ job' = [job EXCEPT ![t] = 0]
  /\ UNCHANGED <<status, row, lease, stamps, workers, req, todo, seen, env>>

-----------------------------------------------------------------------------
(* Reapers: SELECT the rows, UPDATE them, prune, then resume each row.     *)

MutantSurplus == {j \in Rows : Cardinality(younger[j] \cap Rows) >= Keep}

\* prune_jobs: keep the newest rows that are not running.
Surplus ==
  LET settled == {j \in Rows : status[j] # "running"}
  IN {j \in settled : Cardinality(younger[j] \cap settled) >= Keep}

\* reap_orphans, at boot: running rows whose origin column names the process.
ReapReadsOrphans(t) ==
  /\ step[t] = "orphans"
  /\ LET mine == {j \in Running : row[j].origin = Home[t]}
     IN todo' = [todo EXCEPT ![t] =
                   IF Home[t] \in AutoResumeAtBoot THEN Resumable(mine) ELSE {}]
  /\ Goto(t, "orphaned")
  /\ UNCHANGED <<columns, workers, req, job, seen, env>>

ReapMarksOrphans(t) ==
  /\ step[t] = "orphaned"
  /\ status' = [j \in Job |-> IF status[j] = "running" /\ row[j].origin = Home[t]
                              THEN "interrupted" ELSE status[j]]
  /\ Goto(t, "prune")
  /\ UNCHANGED <<row, cancel, again, lease, stamps, workers, req, job, todo,
                 seen, env>>

MutantStalled == {j \in Running : ~lease[j] /\ row[j].origin = Scheduler}

\* reap_stalled, by the scheduler's loop: rows whose lease went cold...
Stalled == {j \in Running : ~lease[j]}

MutantWedged == {j \in Running : ~lease[j] /\ pc[j] = "hung"}

\* ...and rows that make no progress under a warm lease.  The UPDATE names
\* the rows by id and does not look at their status again.
Wedged == {j \in Running : lease[j] /\ pc[j] = "hung"}

\* A round that would find nothing to do is left out.
ClientReaps(t) ==
  /\ Free(t) /\ t = Main[Scheduler]
  /\ Stalled \cup Wedged \cup Surplus # {}
  /\ Goto(t, "stalled")
  /\ UNCHANGED <<columns, workers, req, job, todo, seen, env>>

ReapReadsStalled(t) ==
  /\ step[t] = "stalled"
  /\ todo' = [todo EXCEPT ![t] = Resumable(Stalled)]
  /\ Goto(t, IF Stalled = {} THEN "wedged" ELSE "stall")
  /\ UNCHANGED <<columns, workers, req, job, seen, env>>

ReapMarksStalled(t) ==
  /\ step[t] = "stall"
  /\ status' = [j \in Job |-> IF j \in Stalled THEN "interrupted" ELSE status[j]]
  /\ Goto(t, "wedged")
  /\ UNCHANGED <<row, cancel, again, lease, stamps, workers, req, job, todo,
                 seen, env>>

ReapReadsWedged(t) ==
  /\ step[t] = "wedged"
  /\ todo' = [todo EXCEPT ![t] = @ \cup Resumable(Wedged)]
  /\ seen' = [seen EXCEPT ![t] = Wedged]
  /\ Goto(t, IF Wedged = {} THEN "prune" ELSE "wedge")
  /\ UNCHANGED <<columns, workers, req, job, env>>

ReapMarksWedged(t) ==
  /\ step[t] = "wedge"
  /\ status' = [j \in Job |-> IF j \in seen[t] /\ status[j] # "pruned"
                              THEN "interrupted" ELSE status[j]]
  /\ seen' = [seen EXCEPT ![t] = {}]
  /\ Goto(t, "prune")
  /\ UNCHANGED <<row, cancel, again, lease, stamps, workers, req, job, todo, env>>

ReapPrunes(t) ==
  /\ step[t] = "prune"
  /\ status' = [j \in Job |-> IF j \in Surplus THEN "pruned" ELSE status[j]]
  /\ Goto(t, Return(t))
  /\ UNCHANGED <<row, cancel, again, lease, stamps, workers, req, job, todo,
                 seen, env>>

ReapResumes(t) ==
  /\ step[t] = "resume"
  /\ \E j \in todo[t] :
       /\ todo' = [todo EXCEPT ![t] = @ \ {j}]
       /\ Call(t, ResumeTask(row[j].task), FALSE, j, TRUE)
  /\ UNCHANGED <<columns, workers, job, seen, env>>

-----------------------------------------------------------------------------
(* The environment.                                                        *)

\* A process dies: its threads are gone, its rows stay.
Crash(p) ==
  /\ "crash" \in Faults /\ faults < MaxFaults
  /\ up[p]
  /\ up' = [up EXCEPT ![p] = FALSE]
  /\ faults' = faults + 1
  /\ pc' = [j \in Job |-> IF owner[j] = p /\ pc[j] \notin {"none", "over"}
                          THEN "dead" ELSE pc[j]]
  /\ step' = [t \in Thread |-> IF At(t) = p THEN "idle" ELSE step[t]]
  /\ req' = [t \in Thread |-> IF At(t) = p THEN NoRequest ELSE req[t]]
  /\ job' = [t \in Thread |-> IF At(t) = p THEN 0 ELSE job[t]]
  /\ todo' = [t \in Thread |-> IF At(t) = p THEN {} ELSE todo[t]]
  /\ seen' = [t \in Thread |-> IF At(t) = p THEN {} ELSE seen[t]]
  /\ UNCHANGED <<columns, owner, sees, outcome, runs, paused, requests>>

Boot(p) ==
  /\ ~up[p]
  /\ up' = [up EXCEPT ![p] = TRUE]
  /\ Goto(Main[p], "orphans")
  /\ UNCHANGED <<columns, workers, req, job, todo, seen, paused, requests, faults>>

\* The host sleeps: when it wakes every lease is cold, and reapers and pulses
\* race.
HostSleeps ==
  /\ "sleep" \in Faults /\ faults < MaxFaults
  /\ faults' = faults + 1
  /\ lease' = [j \in Job |-> lease[j] /\ status[j] # "running"]
  /\ UNCHANGED <<status, row, cancel, again, stamps, workers, calls, up, paused,
                 requests>>

\* Nobody pulses for a running row and nobody is about to: its lease goes cold.
Starting(j) == \E t \in Thread : step[t] \in {"spawn", "launch"} /\ job[t] = j

LeaseExpires(j) ==
  /\ status[j] = "running" /\ lease[j]
  /\ ~Pulsing(j) /\ ~Starting(j)
  /\ lease' = [lease EXCEPT ![j] = FALSE]
  /\ UNCHANGED <<status, row, cancel, again, stamps, workers, calls, env>>

\* RAGLEX_SCHEDULER_PAUSED, toggled from the UI.
TogglePause ==
  /\ "pause" \in Requests /\ Asks
  /\ paused' = ~paused
  /\ UNCHANGED <<columns, workers, calls, up, faults>>

-----------------------------------------------------------------------------
StartStep(t) ==
  \/ StartReadsRunning(t)
  \/ StartReadsQueue(t)
  \/ StartInserts(t)
  \/ StartHitsBound(t)
  \/ StartThread(t)

PromoteStep(t) ==
  \/ PromoteReadsRunning(t)
  \/ PromoteReadsQueue(t)
  \/ PromoteClaims(t)

ReapStep(t) ==
  \/ ReapReadsOrphans(t)
  \/ ReapMarksOrphans(t)
  \/ ReapReadsStalled(t)
  \/ ReapMarksStalled(t)
  \/ ReapReadsWedged(t)
  \/ ReapMarksWedged(t)
  \/ ReapPrunes(t)
  \/ ReapResumes(t)

WorkerStep(j) ==
  \/ WorkerSeesCancel(j)
  \/ WorkerPulses(j)
  \/ WorkerEnds(j)
  \/ WorkerResumes(j)
  \/ WorkerChains(j)
  \/ WorkerPromotes(j)

ClientStep(t) ==
  \/ ClientStarts(t)
  \/ ClientPromotes(t)
  \/ ClientReaps(t)
  \/ RestartAsks(t)
  \/ \E j \in Job : ClientCancels(t, j) \/ ClientRestarts(t, j)

Next ==
  \/ \E t \in Thread : StartStep(t) \/ PromoteStep(t)
  \/ \E t \in Client : ReapStep(t) \/ ClientStep(t)
  \/ \E j \in Job : \/ WorkerStep(j) \/ WorkerHangs(j) \/ WorkerReturns(j)
                    \/ LeaseExpires(j)
  \/ \E p \in Proc : Crash(p) \/ Boot(p)
  \/ HostSleeps
  \/ TogglePause

Spec == Init /\ [][Next]_vars

\* The statement a thread executes next: a thread is sequential.
ThreadStep(t) ==
  \/ StartStep(t)
  \/ PromoteStep(t)
  \/ t \in Client /\ (ReapStep(t) \/ RestartAsks(t))
  \/ t \in Job /\ (WorkerEnds(t) \/ WorkerResumes(t) \/ WorkerChains(t) \/ WorkerPromotes(t))

\* A thread that has a statement to execute executes it; a job that is not
\* stuck ends; containers are restarted; clocks advance.  The loop of the
\* scheduler promotes and reaps in every round, hence the strong fairness of
\* the two calls it alternates.
Fairness ==
  /\ \A t \in Thread : WF_vars(ThreadStep(t))
  /\ \A j \in Job : WF_vars(LeaseExpires(j))
  /\ \A p \in Proc : WF_vars(Boot(p))
  /\ SF_vars(ClientPromotes(Main[Scheduler]))
  /\ SF_vars(ClientReaps(Main[Scheduler]))

FairSpec == Spec /\ Fairness

-----------------------------------------------------------------------------
(* Properties.                                                             *)

\* Every variable stays within its type.
TypeOK ==
  /\ status \in [Job -> Status]
  /\ row \in [Job -> Row]
  /\ cancel \in [Job -> BOOLEAN]
  /\ again \in [Job -> BOOLEAN]
  /\ lease \in [Job -> BOOLEAN]
  /\ younger \in [Job -> SUBSET Job]
  /\ next \in 1 .. (MaxJobs + 1)
  /\ pc \in [Job -> Stages]
  /\ owner \in [Job -> Proc]
  /\ sees \in [Job -> BOOLEAN]
  /\ outcome \in [Job -> Outcome]
  /\ runs \in [Job -> Nat]
  /\ step \in [Thread -> Steps]
  /\ req \in [Thread -> Request]
  /\ job \in [Thread -> 0 .. MaxJobs]
  /\ todo \in [Thread -> SUBSET Job]
  /\ seen \in [Thread -> SUBSET Job]
  /\ up \in [Proc -> BOOLEAN]
  /\ paused \in BOOLEAN
  /\ requests \in Nat
  /\ faults \in Nat

\* A row gets at most one worker thread, however many processes promote the
\* queue at once and whichever of them dies: claim_queued_job returns True to
\* exactly one caller, and never for a row that was started when inserted.
WorkerStartsOnce ==
  \A j \in Job :
    /\ runs[j] <= 1
    /\ Starting(j) => runs[j] = 0
    /\ \A t, u \in Thread :
         /\ step[t] \in {"spawn", "launch"} /\ job[t] = j
         /\ step[u] \in {"spawn", "launch"} /\ job[u] = j
         => t = u

\* cancel() answers "was_queued" for a row it dropped from the queue: no
\* promotion that had already read that row ever starts it.
DroppedNeverRuns ==
  \A j \in Job :
    status[j] = "cancelled" /\ outcome[j] = "none" => runs[j] = 0 /\ ~Starting(j)

\* The replacement a person asked for, or the old worker left when it ended,
\* is not even in the table while the old worker is at work or stuck, however
\* many requests, reaps and faults come in between - unless a reaper gave the
\* old row up.  "Never overlap an old worker with its replacement" is not kept
\* beyond that: a reaper takes a worker that hangs, or slept with its host, for
\* a dead one, and restart() of an interrupted row starts another at once.
RestartNeverOverlaps ==
  \A c \in Job :
    LET j == row[c].from
    IN status[c] # "none" /\ j # 0 /\ ~row[c].auto /\ pc[j] \in {"run", "hung"}
       => status[j] \in {"interrupted", "pruned"}

\* A job that keeps killing its process is relaunched automatically a bounded
\* number of times, whichever reaper finds it and however often.
CrashLoopBounded ==
  \A j \in Job :
    status[j] # "none" /\ row[j].auto => row[j].attempt <= MaxAttempts

\* "a restart can tell its own orphaned rows from another container's live
\* ones" (JobManager): reap_orphans never interrupts a row whose worker is
\* alive in another process.
OrphansAreOwn ==
  [][\A t \in Client : ReapMarksOrphans(t) =>
       \A j \in Running :
         row[j].origin = Home[t] /\ pc[j] = "run" => owner[j] = Home[t]]_vars

\* No row waits or runs for ever.  A queued one is promoted by a worker that ends
\* or by a tick of the scheduler, also when what held its slot or blocked it
\* crashed or hung.  The worker of a running one reports, or a reaper finds it,
\* also when the process died between the insert and the start of the thread,
\* when the final write failed, or when the worker never returns.
RowsSettle ==
  \A j \in Job : status[j] \in {"queued", "running"} ~> status[j] \notin {"queued", "running"}

\* The abstract job table.
Rights == {j \in Job : Starting(j)}
Ended == {j \in Job : outcome[j] # "none"}
Table == INSTANCE JobRows WITH tickets <- Rights, ended <- Ended
RowProtocol == Table!Spec
=============================================================================
