----------------------------- MODULE JobsProofs -----------------------------
(***************************************************************************)
(* Theorems about Jobs for every number of rows, processes, threads and    *)
(* faults.                                                                 *)
(***************************************************************************)
EXTENDS Jobs, TLAPS

USE DEF stamps, Stamp

LEMMA ThreadFacts ==
  /\ Client \subseteq Thread /\ Job \subseteq Thread
  /\ \A j \in Job : j # 0
  /\ Job \subseteq 0 .. MaxJobs
  /\ 0 \in 0 .. MaxJobs
BY JobsAssumption DEF Thread, Job

LEMMA HomeFacts ==
  /\ \A c \in Client : Home[c] \in Proc /\ At(c) = Home[c]
  /\ \A p \in Proc : Main[p] \in Client /\ Home[Main[p]] = p
<1>1. \A c \in Client : Home[c] \in Proc /\ At(c) = Home[c]
  BY JobsAssumption DEF At
<1>2. Main \in [Proc -> Client] /\ \A p \in Proc : Home[Main[p]] = p
  BY JobsAssumption
<1> QED
  BY <1>1, <1>2

LEMMA NoRequestType == NoRequest \in Request
BY JobsAssumption, ThreadFacts DEF NoRequest, Request

LEMMA ResumeTaskType == \A task \in TaskSpace : ResumeTask(task) \in TaskSpace
BY DEF ResumeTask, TaskSpace

LEMMA ReturnType == \A t : Return(t) \in Steps
BY DEF Return, Steps

\* What the two operators every call is built from leave in step and req.
LEMMA CallType ==
  ASSUME TypeOK, NEW t \in Thread, NEW task \in TaskSpace, NEW queue \in BOOLEAN,
         NEW from \in 0 .. MaxJobs, NEW auto \in BOOLEAN,
         Call(t, task, queue, from, auto)
  PROVE  req' \in [Thread -> Request] /\ step' \in [Thread -> Steps]
<1>1. [task |-> task, queue |-> queue, from |-> from, auto |-> auto,
       full |-> FALSE] \in Request
  BY DEF Request
<1>2. "read" \in Steps
  BY DEF Steps
<1> QED
  BY <1>1, <1>2 DEF Call, Goto, TypeOK

LEMMA StartReturnsType ==
  ASSUME TypeOK, NEW t \in Thread, StartReturns(t)
  PROVE  req' \in [Thread -> Request] /\ step' \in [Thread -> Steps]
BY NoRequestType, ReturnType DEF StartReturns, Goto, TypeOK

\* Every step of a start() keeps the types.
LEMMA StartTypes ==
  ASSUME TypeOK, NEW t \in Thread, StartStep(t)
  PROVE  TypeOK'
<1>1. CASE StartReadsRunning(t)
  <2>1. req' \in [Thread -> Request] /\ step' \in [Thread -> Steps]
    <3>1. CASE StartReturns(t)
      BY <3>1, StartReturnsType
    <3>2. CASE ~StartReturns(t)
      <4>1. Goto(t, "dedup")
        BY <1>1, <3>2 DEF StartReadsRunning
      <4>2. PICK b \in BOOLEAN : req' = [req EXCEPT ![t].full = b]
        BY <1>1, <3>2 DEF StartReadsRunning
      <4> QED BY <4>1, <4>2 DEF Goto, TypeOK, Steps, Request
    <3> QED BY <3>1, <3>2
  <2> QED BY <1>1, <2>1 DEF StartReadsRunning, TypeOK, columns, workers, env
<1>2. CASE StartReadsQueue(t)
  <2>1. req' \in [Thread -> Request] /\ step' \in [Thread -> Steps]
    BY <1>2, StartReturnsType DEF StartReadsQueue, Goto, TypeOK, Steps
  <2> QED BY <1>2, <2>1 DEF StartReadsQueue, TypeOK, columns, workers, env
<1>3. CASE StartInserts(t)
  <2> DEFINE r == req[t]
             s == IF r.queue \/ r.full THEN "queued" ELSE "running"
             n == [task |-> r.task, origin |-> At(t), from |-> r.from,
                   attempt |-> IF r.from = 0 THEN 1 ELSE row[r.from].attempt + 1,
                   auto |-> r.auto]
  <2>1. r \in Request /\ next \in Job /\ s \in Status
    BY <1>3 DEF StartInserts, TypeOK, Status
  <2>2. n \in Row
    <3>1. At(t) \in Proc
      BY JobsAssumption DEF At, TypeOK, Thread
    <3>2. r.from = 0 \/ row[r.from] \in Row
      BY <2>1 DEF Request, TypeOK, Job
    <3> QED BY <2>1, <3>1, <3>2 DEF Row, Request
  <2>3. req' \in [Thread -> Request] /\ step' \in [Thread -> Steps]
    BY <1>3, StartReturnsType DEF StartInserts, Goto, TypeOK, Steps
  <2>4. status' \in [Job -> Status] /\ row' \in [Job -> Row]
    BY <1>3, <2>1, <2>2 DEF StartInserts, TypeOK
  <2>5. lease' \in [Job -> BOOLEAN] /\ next' \in 1 .. (MaxJobs + 1)
    BY <1>3, JobsAssumption DEF StartInserts, TypeOK, Job
  <2>6. job' \in [Thread -> 0 .. MaxJobs]
    BY <1>3, <2>1, ThreadFacts DEF StartInserts, TypeOK
  <2> QED
    BY <1>3, <2>3, <2>4, <2>5, <2>6 DEF StartInserts, TypeOK, workers, env
<1>4. CASE StartHitsBound(t)
  BY <1>4, StartReturnsType DEF StartHitsBound, TypeOK, columns, workers, env
<1>5. CASE StartThread(t)
  <2>1. req' \in [Thread -> Request] /\ step' \in [Thread -> Steps]
    BY <1>5, StartReturnsType DEF StartThread, Goto, TypeOK, Steps
  <2>2. At(t) \in Proc
    BY JobsAssumption DEF At, TypeOK, Thread
  <2>3. /\ pc' \in [Job -> Stages]
        /\ owner' \in [Job -> Proc]
        /\ runs' \in [Job -> Nat]
        /\ job' \in [Thread -> 0 .. MaxJobs]
    <3>1. \A j \in Job : runs[j] + 1 \in Nat
      BY DEF TypeOK
    <3>2. runs' \in [Job -> Nat]
      BY <1>5, <3>1 DEF StartThread, TypeOK
    <3>3. pc' \in [Job -> Stages]
      BY <1>5 DEF StartThread, TypeOK, Stages
    <3>4. owner' \in [Job -> Proc]
      BY <1>5, <2>2 DEF StartThread, TypeOK
    <3>5. job' \in [Thread -> 0 .. MaxJobs]
      BY <1>5, ThreadFacts DEF StartThread, TypeOK
    <3> QED BY <3>2, <3>3, <3>4, <3>5
  <2> QED BY <1>5, <2>1, <2>3 DEF StartThread, TypeOK, columns, env
<1> QED
  BY <1>1, <1>2, <1>3, <1>4, <1>5 DEF StartStep

\* Every step of a promotion keeps the types.
LEMMA PromoteTypes ==
  ASSUME TypeOK, NEW t \in Thread, PromoteStep(t)
  PROVE  TypeOK'
<1>1. CASE PromoteReadsRunning(t)
  <2>1. step' \in [Thread -> Steps]
    BY <1>1 DEF PromoteReadsRunning, Goto, TypeOK, Steps
  <2>2. seen' \in [Thread -> SUBSET Job]
    BY <1>1 DEF PromoteReadsRunning, Running, TypeOK
  <2> QED
    BY <1>1, <2>1, <2>2 DEF PromoteReadsRunning, TypeOK, columns, workers, env
<1>2. CASE PromoteReadsQueue(t)
  BY <1>2 DEF PromoteReadsQueue, Queued, Goto, TypeOK, Steps, columns, workers, env
<1>3. CASE PromoteClaims(t)
  <2>1. PICK q \in todo[t] : PromoteClaims(t)!2!(q)
    BY <1>3 DEF PromoteClaims
  <2>2. q \in Job /\ q \in 0 .. MaxJobs
    BY ThreadFacts DEF TypeOK
  <2>3. /\ status' \in [Job -> Status]
        /\ lease' \in [Job -> BOOLEAN]
        /\ younger' \in [Job -> SUBSET Job]
        /\ job' \in [Thread -> 0 .. MaxJobs]
        /\ step' \in [Thread -> Steps]
    <3>1. CASE Claimable(q)
      <4>1. /\ status' = [status EXCEPT ![q] = "running"]
            /\ lease' = [lease EXCEPT ![q] = TRUE]
            /\ job' = [job EXCEPT ![t] = q]
            /\ step' = [step EXCEPT ![t] = "launch"]
        BY <2>1, <3>1 DEF Goto
      <4>2. younger' = [k \in Job |-> IF k = q THEN {} ELSE younger[k] \cup {q}]
        BY <2>1, <3>1
      <4> QED BY <4>1, <4>2, <2>2 DEF TypeOK, Status, Steps
    <3>2. CASE ~Claimable(q)
      BY <2>1, <3>2 DEF TypeOK, Goto, Steps
    <3> QED BY <3>1, <3>2
  <2>4. todo' \in [Thread -> SUBSET Job]
    <3>1. CASE Claimable(q)
      <4>1. todo' = [todo EXCEPT ![t] = {}]
        BY <2>1, <3>1
      <4> QED BY <4>1 DEF TypeOK
    <3>2. CASE ~Claimable(q)
      <4>1. todo' = [todo EXCEPT ![t] = @ \ {q}]
        BY <2>1, <3>2
      <4> QED BY <4>1 DEF TypeOK
    <3> QED BY <3>1, <3>2
  <2> QED BY <1>3, <2>3, <2>4 DEF PromoteClaims, TypeOK, workers, env
<1> QED
  BY <1>1, <1>2, <1>3 DEF PromoteStep

\* Every step of a reaper keeps the types.
LEMMA ReapTypes ==
  ASSUME TypeOK, NEW t \in Client, ReapStep(t)
  PROVE  TypeOK'
<1> t \in Thread
  BY ThreadFacts
<1> \A R : Resumable(R) \subseteq R
  BY DEF Resumable
<1>1. CASE ReapReadsOrphans(t)
  BY <1>1 DEF ReapReadsOrphans, Running, Goto, TypeOK, Steps, columns, workers, env
<1>2. CASE ReapMarksOrphans(t)
  BY <1>2 DEF ReapMarksOrphans, Goto, TypeOK, Steps, Status, Terminal, workers, env
<1>3. CASE ReapReadsStalled(t)
  BY <1>3 DEF ReapReadsStalled, Stalled, Running, Goto, TypeOK, Steps, columns,
              workers, env
<1>4. CASE ReapMarksStalled(t)
  BY <1>4 DEF ReapMarksStalled, Goto, TypeOK, Steps, Status, Terminal, workers, env
<1>5. CASE ReapReadsWedged(t)
  BY <1>5 DEF ReapReadsWedged, Wedged, Running, Goto, TypeOK, Steps, columns,
              workers, env
<1>6. CASE ReapMarksWedged(t)
  BY <1>6 DEF ReapMarksWedged, Goto, TypeOK, Steps, Status, Terminal, workers, env
<1>7. CASE ReapPrunes(t)
  BY <1>7, ReturnType DEF ReapPrunes, Goto, TypeOK, Status, workers, env
<1>8. CASE ReapResumes(t)
  <2>1. PICK j \in todo[t] : ReapResumes(t)!2!(j)
    BY <1>8 DEF ReapResumes
  <2>2. /\ ResumeTask(row[j].task) \in TaskSpace
        /\ j \in 0 .. MaxJobs
    BY ResumeTaskType, ThreadFacts DEF TypeOK, Row
  <2>3. req' \in [Thread -> Request] /\ step' \in [Thread -> Steps]
    BY <2>1, <2>2, CallType
  <2> QED BY <1>8, <2>1, <2>3 DEF ReapResumes, TypeOK, columns, workers, env
<1> QED
  BY <1>1, <1>2, <1>3, <1>4, <1>5, <1>6, <1>7, <1>8 DEF ReapStep

\* Every step of a worker keeps the types.
LEMMA WorkerTypes ==
  ASSUME TypeOK, NEW j \in Job,
         WorkerStep(j) \/ WorkerHangs(j) \/ WorkerReturns(j) \/ LeaseExpires(j)
  PROVE  TypeOK'
<1> j \in Thread /\ j \in 0 .. MaxJobs
  BY ThreadFacts
<1>1. CASE WorkerSeesCancel(j)
  BY <1>1 DEF WorkerSeesCancel, TypeOK, columns, calls, env
<1>2. CASE WorkerPulses(j)
  BY <1>2 DEF WorkerPulses, TypeOK, workers, calls, env
<1>3. CASE WorkerEnds(j)
  <2>1. PICK s \in Outcome \ {"none"}, written \in BOOLEAN :
               WorkerEnds(j)!2!(s, written)
    BY <1>3 DEF WorkerEnds
  <2>2. outcome' \in [Job -> Outcome] /\ sees' \in [Job -> BOOLEAN]
    BY <2>1 DEF TypeOK
  <2>3. faults' \in Nat
    BY <2>1 DEF TypeOK, Fails
  <2>4. status' \in [Job -> Status]
    <3>1. StatusOf(s) \in Status
      BY DEF StatusOf, Outcome, Status, Terminal
    <3> QED BY <2>1, <3>1 DEF TypeOK
  <2>5. pc' \in [Job -> Stages]
    <3>1. AfterResume(s) \in Stages /\ "resume" \in Stages
      BY DEF AfterResume, Stages
    <3> QED BY <2>1, <3>1 DEF TypeOK
  <2> QED
    BY <1>3, <2>2, <2>3, <2>4, <2>5 DEF WorkerEnds, TypeOK, calls
<1>4. CASE WorkerResumes(j)
  <2>1. ResumeTask(row[j].task) \in TaskSpace
    BY ResumeTaskType DEF TypeOK, Row
  <2>2. req' \in [Thread -> Request] /\ step' \in [Thread -> Steps]
    BY <1>4, <2>1, CallType DEF WorkerResumes, TypeOK
  <2>3. AfterResume(outcome[j]) \in Stages
    BY DEF AfterResume, Stages
  <2>4. faults' \in Nat
    BY <1>4 DEF WorkerResumes, Fails, TypeOK
  <2> QED
    BY <1>4, <2>2, <2>3, <2>4 DEF WorkerResumes, TypeOK, columns
<1>5. CASE WorkerChains(j)
  <2>1. req' \in [Thread -> Request] /\ step' \in [Thread -> Steps]
    <3>1. CASE Call(j, Follow, TRUE, 0, FALSE)
      BY <3>1, CallType, JobsAssumption, ThreadFacts
    <3>2. CASE UNCHANGED <<step, req>>
      BY <3>2 DEF TypeOK
    <3> QED BY <1>5, <3>1, <3>2 DEF WorkerChains
  <2> QED
    BY <1>5, <2>1 DEF WorkerChains, TypeOK, Stages, columns, env
<1>6. CASE WorkerPromotes(j)
  BY <1>6 DEF WorkerPromotes, Goto, TypeOK, Stages, Steps, columns, env
<1>7. CASE WorkerHangs(j)
  BY <1>7 DEF WorkerHangs, TypeOK, Stages, columns, calls
<1>8. CASE WorkerReturns(j)
  BY <1>8 DEF WorkerReturns, TypeOK, Stages, columns, calls, env
<1>9. CASE LeaseExpires(j)
  BY <1>9 DEF LeaseExpires, TypeOK, workers, calls, env
<1> QED
  BY <1>1, <1>2, <1>3, <1>4, <1>5, <1>6, <1>7, <1>8, <1>9 DEF WorkerStep

\* Every request of a client keeps the types.
LEMMA ClientTypes ==
  ASSUME TypeOK, NEW t \in Client, ClientStep(t)
  PROVE  TypeOK'
<1> t \in Thread
  BY ThreadFacts
<1>0. Asks => requests' \in Nat
  BY DEF Asks, TypeOK
<1>1. CASE ClientStarts(t)
  <2>1. PICK task \in Task, queue \in BOOLEAN : Call(t, task, queue, 0, FALSE)
    BY <1>1 DEF ClientStarts
  <2>2. req' \in [Thread -> Request] /\ step' \in [Thread -> Steps]
    BY <2>1, CallType, JobsAssumption, ThreadFacts
  <2> QED
    BY <1>1, <1>0, <2>2 DEF ClientStarts, TypeOK, columns, workers
<1>2. CASE ClientPromotes(t)
  BY <1>2 DEF ClientPromotes, Goto, TypeOK, Steps, columns, workers, env
<1>3. CASE ClientReaps(t)
  BY <1>3 DEF ClientReaps, Goto, TypeOK, Steps, columns, workers, env
<1>4. CASE RestartAsks(t)
  <2>1. cancel' \in [Job -> BOOLEAN] /\ again' \in [Job -> BOOLEAN]
    <3> DEFINE hit == status[job[t]] = "running"
    <3>1. \A i \in Job : (cancel[i] \/ hit) \in BOOLEAN /\ (again[i] \/ hit) \in BOOLEAN
      OBVIOUS
    <3>2. /\ cancel' = [cancel EXCEPT ![job[t]] = cancel[job[t]] \/ hit]
          /\ again' = [again EXCEPT ![job[t]] = again[job[t]] \/ hit]
      BY <1>4 DEF RestartAsks
    <3> QED BY <3>1, <3>2 DEF TypeOK
  <2>2. job' \in [Thread -> 0 .. MaxJobs] /\ step' \in [Thread -> Steps]
    BY <1>4, ThreadFacts DEF RestartAsks, Goto, TypeOK, Steps
  <2> QED
    BY <1>4, <2>1, <2>2 DEF RestartAsks, TypeOK, workers, env
<1>5. ASSUME NEW j \in Job, ClientCancels(t, j)
      PROVE  TypeOK'
  <2>1. status' \in [Job -> Status] /\ cancel' \in [Job -> BOOLEAN]
    BY <1>5 DEF ClientCancels, TypeOK, Status, Terminal
  <2> QED
    BY <1>5, <1>0, <2>1 DEF ClientCancels, TypeOK, workers, calls
<1>6. ASSUME NEW j \in Job, ClientRestarts(t, j)
      PROVE  TypeOK'
  <2>1. ResumeTask(row[j].task) \in TaskSpace /\ j \in 0 .. MaxJobs
    BY ResumeTaskType, ThreadFacts DEF TypeOK, Row
  <2>2. /\ req' \in [Thread -> Request]
        /\ step' \in [Thread -> Steps]
        /\ job' \in [Thread -> 0 .. MaxJobs]
    <3>1. CASE MustStopFirst(j)
      BY <1>6, <2>1, <3>1 DEF ClientRestarts, Goto, TypeOK, Steps
    <3>2. CASE ~MustStopFirst(j)
      BY <1>6, <2>1, <3>2, CallType DEF ClientRestarts, TypeOK
    <3> QED BY <3>1, <3>2
  <2> QED
    BY <1>6, <1>0, <2>2 DEF ClientRestarts, TypeOK, columns, workers
<1> QED
  BY <1>1, <1>2, <1>3, <1>4, <1>5, <1>6 DEF ClientStep

\* Every step of the environment keeps the types.
LEMMA EnvironmentTypes ==
  ASSUME TypeOK
  PROVE  /\ \A p \in Proc : Crash(p) \/ Boot(p) => TypeOK'
         /\ HostSleeps \/ TogglePause => TypeOK'
<1>1. ASSUME NEW p \in Proc, Crash(p)
      PROVE  TypeOK'
  <2>1. pc' \in [Job -> Stages]
    BY <1>1 DEF Crash, TypeOK, Stages
  <2>2. req' \in [Thread -> Request]
    BY <1>1, NoRequestType DEF Crash, TypeOK
  <2>3. /\ step' \in [Thread -> Steps]
        /\ job' \in [Thread -> 0 .. MaxJobs]
        /\ todo' \in [Thread -> SUBSET Job]
        /\ seen' \in [Thread -> SUBSET Job]
    BY <1>1, ThreadFacts DEF Crash, TypeOK, Steps
  <2>4. up' \in [Proc -> BOOLEAN] /\ faults' \in Nat
    BY <1>1 DEF Crash, TypeOK
  <2> QED
    BY <1>1, <2>1, <2>2, <2>3, <2>4 DEF Crash, TypeOK, columns
<1>2. ASSUME NEW p \in Proc, Boot(p)
      PROVE  TypeOK'
  <2>1. Main[p] \in Thread
    BY JobsAssumption, ThreadFacts
  <2> QED
    BY <1>2, <2>1 DEF Boot, Goto, TypeOK, Steps, columns, workers
<1>3. ASSUME HostSleeps
      PROVE  TypeOK'
  <2>1. lease' \in [Job -> BOOLEAN] /\ faults' \in Nat
    BY <1>3 DEF HostSleeps, TypeOK
  <2> QED
    BY <1>3, <2>1 DEF HostSleeps, TypeOK, workers, calls
<1>4. ASSUME TogglePause
      PROVE  TypeOK'
  <2>1. paused' \in BOOLEAN /\ requests' \in Nat
    BY <1>4 DEF TogglePause, Asks, TypeOK
  <2> QED
    BY <1>4, <2>1 DEF TogglePause, TypeOK, columns, workers, calls
<1> QED
  BY <1>1, <1>2, <1>3, <1>4

LEMMA InitTypes == Init => TypeOK
<1> SUFFICES ASSUME Init PROVE TypeOK
  OBVIOUS
<1>1. row \in [Job -> Row]
  BY JobsAssumption DEF Init, Row
<1>2. next \in 1 .. (MaxJobs + 1)
  BY JobsAssumption DEF Init
<1>3. /\ req \in [Thread -> Request]
      /\ job \in [Thread -> 0 .. MaxJobs]
      /\ step \in [Thread -> Steps]
      /\ todo \in [Thread -> SUBSET Job]
      /\ seen \in [Thread -> SUBSET Job]
  BY NoRequestType, ThreadFacts DEF Init, Steps
<1>4. /\ status \in [Job -> Status]
      /\ pc \in [Job -> Stages]
      /\ owner \in [Job -> Proc]
      /\ outcome \in [Job -> Outcome]
      /\ runs \in [Job -> Nat]
  BY JobsAssumption DEF Init, Status, Stages, Outcome
<1> QED
  BY <1>1, <1>2, <1>3, <1>4 DEF Init, TypeOK

LEMMA NextTypes == TypeOK /\ [Next]_vars => TypeOK'
<1> SUFFICES ASSUME TypeOK, [Next]_vars PROVE TypeOK'
  OBVIOUS
<1>1. CASE UNCHANGED vars
  BY <1>1 DEF TypeOK, vars, columns, workers, calls, env
<1> QED
  BY <1>1, StartTypes, PromoteTypes, ReapTypes, WorkerTypes, ClientTypes,
     EnvironmentTypes DEF Next

\* Type correctness: every reachable state is well typed, whatever the bounds,
\* the processes and the faults are.
THEOREM TypeCorrect == Spec => []TypeOK
BY InitTypes, NextTypes, PTL DEF Spec

-----------------------------------------------------------------------------
(* The right to run a row: who holds it, and what it says about the row.   *)

Holds(t) == step[t] \in {"spawn", "launch"}

\* Ids at or above next are unused.
Fresh == \A j \in Job : j >= next => status[j] = "none"

\* Only a row that left the queue has had a worker.
Waiting == \A j \in Job : status[j] \in {"none", "queued"} => runs[j] = 0

OneWorker == \A j \in Job : runs[j] \in {0, 1} /\ (runs[j] = 0 <=> pc[j] = "none")

\* A worker that is at work has not reported.
Unreported == \A j \in Job : pc[j] \in {"none", "run", "hung"} => outcome[j] = "none"

Dropped == \A j \in Job :
  status[j] = "cancelled" /\ outcome[j] = "none" => runs[j] = 0

\* A right to start a worker is for a row that has had none, and that nobody
\* can queue, drop or report on.
RightIsFresh == \A t \in Thread : Holds(t) =>
  /\ job[t] \in Job
  /\ runs[job[t]] = 0
  /\ status[job[t]] \in {"running", "interrupted", "pruned"}

RightIsUnique ==
  \A t, u \in Thread : Holds(t) /\ Holds(u) /\ job[t] = job[u] => t = u

\* The rows a reaper is about to mark as wedged had left the queue.
WedgedStarted == \A t \in Thread : step[t] = "wedge" =>
  \A j \in seen[t] : status[j] \notin {"none", "queued"}

DownIsIdle == \A c \in Client : ~up[Home[c]] => step[c] = "idle"

\* The inductive invariant.
StartInv ==
  /\ Fresh /\ Waiting /\ OneWorker /\ Unreported /\ Dropped
  /\ RightIsFresh /\ RightIsUnique /\ WedgedStarted /\ DownIsIdle

USE DEF Fresh, Waiting, OneWorker, Unreported, Dropped, DownIsIdle,
        RightIsFresh, RightIsUnique, WedgedStarted

\* What one step does to the invariant and to the abstract table.
Good == StartInv' /\ [Table!Next]_(Table!vars)

\* A step that only moves threads which neither hold a right nor get one.
Frame ==
  /\ UNCHANGED <<status, next, runs, outcome>>
  /\ \A j \in Job : pc'[j] = "none" <=> pc[j] = "none"
  /\ \A j \in Job : pc'[j] \in {"run", "hung"} => pc[j] \in {"run", "hung"}
  /\ \A t \in Thread : Holds(t)' <=> Holds(t)
  /\ \A t \in Thread : Holds(t) => job'[t] = job[t]
  /\ \A t \in Thread : step'[t] = "wedge" => step[t] = "wedge" /\ seen'[t] = seen[t]
  /\ \A c \in Client : ~up'[Home[c]] => step'[c] = "idle"

LEMMA FrameGood ==
  ASSUME TypeOK, StartInv, Frame
  PROVE  Good
<1>1. StartInv'
  BY DEF StartInv, Frame, Holds
<1>2. Rights' = Rights
  BY DEF Frame, Rights, Starting, Holds
<1>3. Ended' = Ended
  BY DEF Frame, Ended
<1>4. UNCHANGED Table!vars
  BY <1>2, <1>3 DEF Frame, Table!vars
<1> QED
  BY <1>1, <1>4 DEF Good

\* One thread moves between steps at which it holds nothing.
Moves(t, s) ==
  /\ step' = [step EXCEPT ![t] = s]
  /\ s \notin {"spawn", "launch", "wedge"}
  /\ ~Holds(t)
  /\ \A u \in Thread \ {t} : job'[u] = job[u] /\ seen'[u] = seen[u]

LEMMA MoveFrame ==
  ASSUME TypeOK, StartInv, NEW t \in Thread, NEW s, Moves(t, s),
         t \in Client => up'[Home[t]],
         UNCHANGED <<status, next, runs, outcome, pc, up>>
  PROVE  Frame
<1>1. \A u \in Thread : step'[u] = IF u = t THEN s ELSE step[u]
  BY DEF Moves, TypeOK
<1>2. \A c \in Client : c \in Thread
  BY ThreadFacts
<1> QED
  BY <1>1, <1>2 DEF Moves, Frame, Holds, StartInv


\* A client that executes a statement lives in a process that is up.
LEMMA BusyIsUp ==
  ASSUME StartInv, NEW t \in Thread, step[t] # "idle"
  PROVE  t \in Client => up[Home[t]]
BY DEF StartInv

LEMMA ReturnQuiet == \A t : Return(t) \notin {"spawn", "launch", "wedge"}
BY DEF Return

\* The steps of a start(): only the insert and the start of the thread touch
\* the table.
LEMMA StartGood ==
  ASSUME TypeOK, StartInv, NEW t \in Thread, StartStep(t)
  PROVE  Good
<1>1. CASE StartReadsRunning(t)
  <2>1. \/ Moves(t, Return(t)) \/ Moves(t, "dedup")
    BY <1>1, ReturnQuiet DEF StartReadsRunning, StartReturns, Goto, Moves, Holds
  <2> QED
    BY <1>1, <2>1, BusyIsUp, MoveFrame, FrameGood
    DEF StartReadsRunning, columns, workers, env
<1>2. CASE StartReadsQueue(t)
  <2>1. \/ Moves(t, Return(t)) \/ Moves(t, "insert")
    BY <1>2, ReturnQuiet DEF StartReadsQueue, StartReturns, Goto, Moves, Holds
  <2> QED
    BY <1>2, <2>1, BusyIsUp, MoveFrame, FrameGood
    DEF StartReadsQueue, columns, workers, env
<1>3. CASE StartHitsBound(t)
  <2>1. Moves(t, Return(t))
    BY <1>3, ReturnQuiet DEF StartHitsBound, StartReturns, Goto, Moves, Holds
  <2> QED
    BY <1>3, <2>1, BusyIsUp, MoveFrame, FrameGood
    DEF StartHitsBound, columns, workers, env
<1>4. CASE StartInserts(t)
  <2> DEFINE s == IF req[t].queue \/ req[t].full THEN "queued" ELSE "running"
  <2>1. /\ step[t] = "insert" /\ next \in Job
        /\ status[next] = "none" /\ runs[next] = 0
        /\ status' = [status EXCEPT ![next] = s]
        /\ next' = next + 1
        /\ UNCHANGED <<runs, pc, outcome, up, seen>>
    BY <1>4 DEF StartInserts, StartInv, TypeOK, workers, env, Job
  <2>2. t \in Client => up[Home[t]]
    BY <2>1, BusyIsUp
  <2>3. CASE s = "running"
    <3>1. /\ step' = [step EXCEPT ![t] = "spawn"]
          /\ job' = [job EXCEPT ![t] = next]
      BY <1>4, <2>3 DEF StartInserts, Goto
    <3>2. \A u \in Thread : /\ step'[u] = IF u = t THEN "spawn" ELSE step[u]
                            /\ job'[u] = IF u = t THEN next ELSE job[u]
      BY <3>1, <2>1 DEF TypeOK
    <3>3. \A j \in Job : status'[j] = IF j = next THEN "running" ELSE status[j]
      BY <2>1, <2>3 DEF TypeOK
    <3>4. \A u \in Thread : Holds(u) => job[u] # next
      BY <2>1 DEF StartInv
    <3>5. StartInv'
      <4>1. Fresh'
        BY <2>1, <3>3 DEF StartInv, TypeOK, Job
      <4>2. Waiting' /\ OneWorker' /\ Unreported' /\ Dropped'
        BY <2>1, <3>3 DEF StartInv
      <4>3. RightIsFresh'
        BY <2>1, <3>2, <3>3, <3>4 DEF StartInv, Holds
      <4>4. RightIsUnique'
        BY <3>2, <3>4 DEF StartInv, Holds
      <4>5. WedgedStarted'
        BY <2>1, <3>2, <3>3 DEF StartInv
      <4>6. DownIsIdle'
        BY <2>1, <2>2, <3>2, ThreadFacts DEF StartInv
      <4> QED
        BY <4>1, <4>2, <4>3, <4>4, <4>5, <4>6 DEF StartInv
    <3>6. Rights' = Rights \cup {next}
      BY <2>1, <3>2 DEF Rights, Starting
    <3>7. Table!CreateRunning(next)
      BY <2>1, <2>3, <3>6 DEF Table!CreateRunning, Ended
    <3> QED
      BY <2>1, <3>5, <3>7 DEF Good, Table!Next
  <2>4. CASE s = "queued"
    <3>1. /\ step' = [step EXCEPT ![t] = Return(t)]
          /\ job' = job
      BY <1>4, <2>4 DEF StartInserts, StartReturns, Goto
    <3>2. \A u \in Thread : step'[u] = IF u = t THEN Return(t) ELSE step[u]
      BY <3>1 DEF TypeOK
    <3>3. \A j \in Job : status'[j] = IF j = next THEN "queued" ELSE status[j]
      BY <2>1, <2>4 DEF TypeOK
    <3>4. \A u \in Thread : Holds(u) => job[u] # next
      BY <2>1 DEF StartInv
    <3>5. StartInv'
      BY <2>1, <2>2, <3>1, <3>2, <3>3, <3>4, ReturnQuiet
      DEF StartInv, Holds, TypeOK, Job
    <3>6. Rights' = Rights
      BY <2>1, <3>1, <3>2, ReturnQuiet DEF Rights, Starting
    <3>7. Table!Enqueue(next)
      BY <2>1, <2>4, <3>6 DEF Table!Enqueue, Ended
    <3> QED
      BY <2>1, <3>5, <3>7 DEF Good, Table!Next
  <2> QED
    BY <2>3, <2>4
<1>5. CASE StartThread(t)
  <2> DEFINE j == job[t]
  <2>1. /\ Holds(t) /\ j \in Job /\ runs[j] = 0 /\ pc[j] = "none"
        /\ status[j] \in {"running", "interrupted", "pruned"}
    BY <1>5 DEF StartThread, Holds, StartInv
  <2>2. PICK s \in {"slots", Return(t)} : step' = [step EXCEPT ![t] = s]
    BY <1>5 DEF StartThread, StartReturns, Goto
  <2>3. /\ job' = [job EXCEPT ![t] = 0]
        /\ runs' = [runs EXCEPT ![j] = runs[j] + 1]
        /\ pc' = [pc EXCEPT ![j] = "run"]
        /\ UNCHANGED <<status, next, outcome, up, seen>>
    BY <1>5 DEF StartThread, columns, env
  <2>4. t \in Client => up[Home[t]]
    BY <2>1, BusyIsUp DEF Holds
  <2>5. \A u \in Thread : /\ step'[u] = IF u = t THEN s ELSE step[u]
                          /\ u # t => job'[u] = job[u]
    BY <2>2, <2>3 DEF TypeOK
  <2>6. \A i \in Job : /\ runs'[i] = IF i = j THEN 1 ELSE runs[i]
                       /\ pc'[i] = IF i = j THEN "run" ELSE pc[i]
    BY <2>1, <2>3 DEF TypeOK
  <2>7. s \notin {"spawn", "launch", "wedge"}
    BY <2>2, ReturnQuiet
  <2>8. \A u \in Thread : Holds(u) /\ job[u] = j => u = t
    BY <2>1 DEF StartInv
  <2>9. StartInv'
    <3>1. outcome[j] = "none" /\ status[j] # "cancelled"
      BY <2>1 DEF StartInv
    <3>2. Fresh' /\ Waiting' /\ OneWorker'
      BY <2>1, <2>3, <2>6 DEF StartInv
    <3>3. Unreported' /\ Dropped'
      BY <2>1, <2>3, <2>6, <3>1 DEF StartInv
    <3>4. RightIsFresh'
      BY <2>3, <2>5, <2>6, <2>7, <2>8 DEF StartInv, Holds
    <3>5. RightIsUnique'
      BY <2>5, <2>7 DEF StartInv, Holds
    <3>6. WedgedStarted'
      BY <2>3, <2>5, <2>7 DEF StartInv
    <3>7. DownIsIdle'
      BY <2>3, <2>4, <2>5, ThreadFacts DEF StartInv
    <3> QED
      BY <3>2, <3>3, <3>4, <3>5, <3>6, <3>7 DEF StartInv
  <2>10. Rights' = Rights \ {j} /\ j \in Rights
    BY <2>1, <2>3, <2>5, <2>7, <2>8 DEF Rights, Starting, Holds
  <2>11. Table!StartWorker(j)
    BY <2>1, <2>3, <2>10 DEF Table!StartWorker, Ended
  <2> QED
    BY <2>1, <2>9, <2>11 DEF Good, Table!Next
<1> QED
  BY <1>1, <1>2, <1>3, <1>4, <1>5 DEF StartStep

\* The steps of a promotion: only the claim touches the table.
LEMMA PromoteGood ==
  ASSUME TypeOK, StartInv, NEW t \in Thread, PromoteStep(t)
  PROVE  Good
<1>1. CASE PromoteReadsRunning(t)
  <2>1. \/ Moves(t, "idle") \/ Moves(t, "pick")
    BY <1>1 DEF PromoteReadsRunning, Goto, Moves, Holds, TypeOK
  <2> QED
    BY <1>1, <2>1, BusyIsUp, MoveFrame, FrameGood
    DEF PromoteReadsRunning, columns, workers, env
<1>2. CASE PromoteReadsQueue(t)
  <2>1. \/ Moves(t, "idle") \/ Moves(t, "claim")
    BY <1>2 DEF PromoteReadsQueue, Goto, Moves, Holds, TypeOK
  <2> QED
    BY <1>2, <2>1, BusyIsUp, MoveFrame, FrameGood
    DEF PromoteReadsQueue, columns, workers, env
<1>3. CASE PromoteClaims(t)
  <2>1. PICK q \in todo[t] : PromoteClaims(t)!2!(q)
    BY <1>3 DEF PromoteClaims
  <2>2. q \in Job /\ step[t] = "claim" /\ (t \in Client => up[Home[t]])
    BY <1>3, BusyIsUp DEF PromoteClaims, TypeOK
  <2>3. CASE Claimable(q)
    <3>1. /\ status[q] = "queued"
          /\ status' = [status EXCEPT ![q] = "running"]
          /\ job' = [job EXCEPT ![t] = q]
          /\ step' = [step EXCEPT ![t] = "launch"]
          /\ UNCHANGED <<next, runs, pc, outcome, up, seen>>
      BY <1>3, <2>1, <2>3 DEF PromoteClaims, Claimable, Goto, workers, env
    <3>2. \A u \in Thread : /\ step'[u] = IF u = t THEN "launch" ELSE step[u]
                            /\ job'[u] = IF u = t THEN q ELSE job[u]
      BY <2>2, <3>1 DEF TypeOK
    <3>3. \A j \in Job : status'[j] = IF j = q THEN "running" ELSE status[j]
      BY <2>2, <3>1 DEF TypeOK
    <3>4. runs[q] = 0 /\ \A u \in Thread : Holds(u) => job[u] # q
      BY <2>2, <3>1 DEF StartInv
    <3>5. StartInv'
      <4>1. Fresh'
        BY <2>2, <3>1, <3>3 DEF StartInv
      <4>2. Waiting' /\ OneWorker' /\ Unreported' /\ Dropped'
        BY <2>2, <3>1, <3>3 DEF StartInv
      <4>3. RightIsFresh'
        BY <2>2, <3>1, <3>2, <3>3, <3>4 DEF StartInv, Holds
      <4>4. RightIsUnique'
        BY <3>2, <3>4 DEF StartInv, Holds
      <4>5. WedgedStarted'
        BY <3>1, <3>2, <3>3 DEF StartInv
      <4>6. DownIsIdle'
        BY <2>2, <3>1, <3>2, ThreadFacts DEF StartInv
      <4> QED
        BY <4>1, <4>2, <4>3, <4>4, <4>5, <4>6 DEF StartInv
    <3>6. Rights' = Rights \cup {q}
      BY <2>2, <3>2 DEF Rights, Starting
    <3>7. Table!Claim(q)
      BY <2>2, <3>1, <3>6 DEF Table!Claim, Ended
    <3> QED
      BY <2>2, <3>5, <3>7 DEF Good, Table!Next
  <2>4. CASE ~Claimable(q)
    <3>1. \/ Moves(t, "idle") \/ Moves(t, "claim")
      BY <1>3, <2>1, <2>2, <2>4 DEF PromoteClaims, Goto, Moves, Holds
    <3> QED
      BY <1>3, <2>1, <2>2, <2>4, <3>1, MoveFrame, FrameGood
      DEF PromoteClaims, workers, env
  <2> QED
    BY <2>3, <2>4
<1> QED
  BY <1>1, <1>2, <1>3 DEF PromoteStep

\* The steps of a worker: only its end touches the table.
LEMMA WorkerGood ==
  ASSUME TypeOK, StartInv, NEW j \in Job,
         WorkerStep(j) \/ WorkerHangs(j) \/ WorkerReturns(j) \/ LeaseExpires(j)
  PROVE  Good
<1>0. j \in Thread /\ j \notin Client
  BY ThreadFacts, JobsAssumption
<1>1. CASE WorkerSeesCancel(j) \/ WorkerPulses(j) \/ LeaseExpires(j)
  <2>1. Frame
    BY <1>1 DEF WorkerSeesCancel, WorkerPulses, LeaseExpires, Frame, StartInv,
                Holds, columns, workers, calls, env
  <2> QED
    BY <2>1, FrameGood
<1>2. CASE WorkerHangs(j) \/ WorkerReturns(j)
  <2>1. \E s \in {"run", "hung"} : pc' = [pc EXCEPT ![j] = s]
    BY <1>2 DEF WorkerHangs, WorkerReturns
  <2>2. pc[j] \in {"run", "hung"}
    BY <1>2 DEF WorkerHangs, WorkerReturns
  <2>3. /\ \A i \in Job : pc'[i] = "none" <=> pc[i] = "none"
        /\ \A i \in Job : pc'[i] \in {"run", "hung"} => pc[i] \in {"run", "hung"}
    BY <2>1, <2>2 DEF TypeOK
  <2>4. Frame
    BY <1>2, <2>3 DEF WorkerHangs, WorkerReturns, Frame, StartInv, Holds,
                      columns, calls, env
  <2> QED
    BY <2>4, FrameGood
<1>3. CASE WorkerResumes(j) \/ WorkerChains(j) \/ WorkerPromotes(j)
  <2>1. PICK s \in {"read", "slots", "idle"} : step' = [step EXCEPT ![j] = s]
    <3>1. CASE WorkerPromotes(j)
      BY <3>1 DEF WorkerPromotes, Goto
    <3>2. CASE WorkerResumes(j) \/ WorkerChains(j)
      <4>1. Goto(j, "read") \/ UNCHANGED step
        BY <3>2 DEF WorkerResumes, WorkerChains, Call
      <4>2. step[j] = "idle"
        BY <3>2 DEF WorkerResumes, WorkerChains
      <4> QED
        BY <4>1, <4>2, <1>0 DEF Goto, TypeOK
    <3> QED
      BY <1>3, <3>1, <3>2
  <2>2. /\ pc[j] \notin {"none", "run", "hung"}
        /\ pc' = [pc EXCEPT ![j] = pc'[j]]
        /\ pc'[j] \in {"chain", "promote", "over"}
        /\ UNCHANGED <<status, next, runs, outcome, job, seen, up>>
    BY <1>3 DEF WorkerResumes, WorkerChains, WorkerPromotes, AfterResume, TypeOK,
                columns, env
  <2>3. step[j] = "idle"
    BY <1>3 DEF WorkerResumes, WorkerChains, WorkerPromotes
  <2>4. /\ \A u \in Thread : step'[u] = IF u = j THEN s ELSE step[u]
        /\ \A i \in Job : pc'[i] = IF i = j THEN pc'[j] ELSE pc[i]
    BY <2>1, <2>2 DEF TypeOK
  <2>5. \A u \in Thread : Holds(u)' <=> Holds(u)
    BY <2>1, <2>3, <2>4 DEF Holds
  <2>6. /\ \A i \in Job : pc'[i] = "none" <=> pc[i] = "none"
        /\ \A i \in Job : pc'[i] \in {"run", "hung"} => pc[i] \in {"run", "hung"}
    BY <2>2, <2>4
  <2>7. /\ \A u \in Thread : step'[u] = "wedge" => step[u] = "wedge"
        /\ \A c \in Client : ~up'[Home[c]] => step'[c] = "idle"
    BY <1>0, <2>1, <2>2, <2>4, ThreadFacts DEF StartInv
  <2>8. Frame
    BY <2>2, <2>5, <2>6, <2>7 DEF Frame
  <2> QED
    BY <2>8, FrameGood
<1>4. CASE WorkerEnds(j)
  <2>1. PICK s \in Outcome \ {"none"} :
          /\ outcome' = [outcome EXCEPT ![j] = s]
          /\ \/ UNCHANGED status
             \/ /\ status[j] # "pruned"
                /\ status' = [status EXCEPT ![j] = StatusOf(s)]
          /\ pc'[j] \in {"resume", "chain", "promote"}
          /\ pc' = [pc EXCEPT ![j] = pc'[j]]
    BY <1>4 DEF WorkerEnds, AfterResume, TypeOK
  <2>2. /\ pc[j] = "run" /\ runs[j] = 1 /\ outcome[j] = "none"
        /\ status[j] \notin {"none", "queued"}
        /\ UNCHANGED <<step, job, seen, next, runs, up>>
    BY <1>4 DEF WorkerEnds, StartInv, calls
  <2>3. StatusOf(s) \in {"done", "error", "cancelled"}
    BY <2>1 DEF Outcome, StatusOf
  <2>4. \A i \in Job : /\ i # j => status'[i] = status[i] /\ pc'[i] = pc[i]
                                   /\ outcome'[i] = outcome[i]
                       /\ i = j => /\ status'[i] \notin {"none", "queued"}
                                   /\ pc'[i] \in {"resume", "chain", "promote"}
                                   /\ outcome'[i] # "none"
    BY <2>1, <2>2, <2>3 DEF TypeOK
  <2>5. \A t \in Thread : Holds(t) => job[t] # j
    BY <2>2 DEF StartInv
  <2>6. StartInv'
    <3>1. Fresh' /\ Waiting' /\ OneWorker'
      BY <2>2, <2>4 DEF StartInv
    <3>2. Unreported' /\ Dropped'
      BY <2>2, <2>4 DEF StartInv
    <3>3. RightIsFresh' /\ RightIsUnique'
      BY <2>2, <2>4, <2>5 DEF StartInv, Holds
    <3>4. WedgedStarted' /\ DownIsIdle'
      BY <2>2, <2>4 DEF StartInv, TypeOK
    <3> QED
      BY <3>1, <3>2, <3>3, <3>4 DEF StartInv
  <2>7. UNCHANGED Rights
    BY <2>2 DEF Rights, Starting
  <2>8. Ended' = Ended \cup {j} /\ j \notin Ended
    BY <2>2, <2>4 DEF Ended
  <2>9. Table!EndWorker(j)
    BY <2>1, <2>2, <2>3, <2>7, <2>8 DEF Table!EndWorker
  <2> QED
    BY <2>6, <2>9 DEF Good, Table!Next
<1> QED
  BY <1>1, <1>2, <1>3, <1>4 DEF WorkerStep

\* The requests of a client: only the drop of a queued row touches the table.
LEMMA ClientGood ==
  ASSUME TypeOK, StartInv, NEW t \in Client, ClientStep(t)
  PROVE  Good
<1>0. t \in Thread
  BY ThreadFacts
<1>1. CASE RestartAsks(t)
  <2>1. Moves(t, "idle")
    BY <1>1 DEF RestartAsks, Goto, Moves, Holds, TypeOK
  <2> QED
    BY <1>0, <1>1, <2>1, BusyIsUp, MoveFrame, FrameGood
    DEF RestartAsks, workers, env
<1>2. CASE ClientStarts(t) \/ ClientPromotes(t) \/ ClientReaps(t)
  <2>1. \E s \in {"read", "slots", "stalled"} : Moves(t, s)
    BY <1>2 DEF ClientStarts, ClientPromotes, ClientReaps, Call, Goto, Free,
                Moves, Holds
  <2>2. up[Home[t]] /\ UNCHANGED <<status, next, runs, outcome, pc, up>>
    BY <1>2 DEF ClientStarts, ClientPromotes, ClientReaps, Free, columns,
                workers, env
  <2> QED
    BY <1>0, <2>1, <2>2, MoveFrame, FrameGood
<1>3. ASSUME NEW j \in Job, ClientRestarts(t, j)
      PROVE  Good
  <2>1. \E s \in {"read", "ask"} : Moves(t, s)
    BY <1>3 DEF ClientRestarts, Call, Goto, Free, Moves, Holds, TypeOK
  <2>2. up[Home[t]] /\ UNCHANGED <<status, next, runs, outcome, pc, up>>
    BY <1>3 DEF ClientRestarts, Free, columns, workers
  <2> QED
    BY <1>0, <2>1, <2>2, MoveFrame, FrameGood
<1>4. ASSUME NEW j \in Job, ClientCancels(t, j)
      PROVE  Good
  <2>1. UNCHANGED <<step, job, seen, next, runs, outcome, pc, up>>
    BY <1>4 DEF ClientCancels, workers, calls
  <2>2. CASE UNCHANGED status
    <3>1. Frame
      BY <2>1, <2>2 DEF Frame, StartInv, Holds
    <3> QED
      BY <3>1, FrameGood
  <2>3. CASE status[j] = "queued" /\ status' = [status EXCEPT ![j] = "cancelled"]
    <3>1. \A i \in Job : status'[i] = IF i = j THEN "cancelled" ELSE status[i]
      BY <2>3 DEF TypeOK
    <3>2. \A u \in Thread : Holds(u) => job[u] # j
      BY <2>3 DEF StartInv
    <3>3. StartInv'
      <4>1. Fresh' /\ Waiting' /\ OneWorker' /\ Unreported' /\ Dropped'
        BY <2>1, <2>3, <3>1 DEF StartInv
      <4>2. RightIsFresh' /\ RightIsUnique'
        BY <2>1, <3>1, <3>2 DEF StartInv, Holds
      <4>3. WedgedStarted' /\ DownIsIdle'
        BY <2>1, <3>1 DEF StartInv, TypeOK
      <4> QED
        BY <4>1, <4>2, <4>3 DEF StartInv
    <3>4. UNCHANGED Rights /\ UNCHANGED Ended
      BY <2>1 DEF Rights, Starting, Ended
    <3>5. Table!Drop(j)
      BY <2>1, <2>3, <3>4 DEF Table!Drop
    <3> QED
      BY <3>3, <3>5 DEF Good, Table!Next
  <2> QED
    BY <1>4, <2>2, <2>3 DEF ClientCancels, Droppable
<1> QED
  BY <1>1, <1>2, <1>3, <1>4 DEF ClientStep

\* A reaper's UPDATE marks rows that had left the queue.
LEMMA InterruptGood ==
  ASSUME TypeOK, StartInv, NEW t \in Thread, NEW s, Moves(t, s),
         NEW J \in SUBSET {j \in Job : status[j] \notin {"none", "queued", "pruned"}},
         status' = [j \in Job |-> IF j \in J THEN "interrupted" ELSE status[j]],
         t \in Client => up[Home[t]],
         UNCHANGED <<next, runs, outcome, pc, up>>
  PROVE  Good
<1>1. \A u \in Thread : /\ step'[u] = IF u = t THEN s ELSE step[u]
                        /\ u # t => job'[u] = job[u] /\ seen'[u] = seen[u]
  BY DEF Moves, TypeOK
<1>2. s \notin {"spawn", "launch", "wedge"} /\ ~Holds(t)
  BY DEF Moves
<1>3. StartInv'
  <2>1. Fresh' /\ Waiting' /\ OneWorker' /\ Unreported' /\ Dropped'
    BY DEF StartInv
  <2>2. RightIsFresh' /\ RightIsUnique'
    BY <1>1, <1>2 DEF StartInv, Holds
  <2>3. WedgedStarted'
    BY <1>1, <1>2 DEF StartInv, TypeOK
  <2>4. DownIsIdle'
    BY <1>1, ThreadFacts DEF StartInv
  <2> QED
    BY <2>1, <2>2, <2>3, <2>4 DEF StartInv
<1>4. UNCHANGED Rights /\ UNCHANGED Ended
  BY <1>1, <1>2 DEF Rights, Starting, Ended, Holds
<1>5. Table!Interrupt
  BY <1>4 DEF Table!Interrupt
<1> QED
  BY <1>3, <1>5 DEF Good, Table!Next

\* The steps of a reaper.
LEMMA ReapGood ==
  ASSUME TypeOK, StartInv, NEW t \in Client, ReapStep(t)
  PROVE  Good
<1>0. t \in Thread
  BY ThreadFacts
<1>1. CASE ReapReadsOrphans(t) \/ ReapReadsStalled(t) \/ ReapResumes(t)
  <2>1. \E s \in {"orphaned", "wedged", "stall", "read"} : Moves(t, s)
    BY <1>1 DEF ReapReadsOrphans, ReapReadsStalled, ReapResumes, Call, Goto,
                Moves, Holds
  <2>2. step[t] # "idle" /\ UNCHANGED <<status, next, runs, outcome, pc, up>>
    BY <1>1 DEF ReapReadsOrphans, ReapReadsStalled, ReapResumes, columns,
                workers, env
  <2> QED
    BY <1>0, <2>1, <2>2, BusyIsUp, MoveFrame, FrameGood
<1>2. CASE ReapMarksOrphans(t)
  <2> DEFINE J == {j \in Job : status[j] = "running" /\ row[j].origin = Home[t]}
  <2>1. status' = [j \in Job |-> IF j \in J THEN "interrupted" ELSE status[j]]
    BY <1>2 DEF ReapMarksOrphans
  <2>2. Moves(t, "prune")
    BY <1>2 DEF ReapMarksOrphans, Goto, Moves, Holds
  <2>3. step[t] # "idle" /\ UNCHANGED <<next, runs, outcome, pc, up>>
    BY <1>2 DEF ReapMarksOrphans, workers, env
  <2> QED
    BY <1>0, <2>1, <2>2, <2>3, BusyIsUp, InterruptGood
<1>3. CASE ReapMarksStalled(t)
  <2>1. status' = [j \in Job |-> IF j \in Stalled THEN "interrupted" ELSE status[j]]
    BY <1>3 DEF ReapMarksStalled
  <2>2. Moves(t, "wedged")
    BY <1>3 DEF ReapMarksStalled, Goto, Moves, Holds
  <2>3. step[t] # "idle" /\ UNCHANGED <<next, runs, outcome, pc, up>>
    BY <1>3 DEF ReapMarksStalled, workers, env
  <2>4. Stalled \in SUBSET {j \in Job : status[j] \notin {"none", "queued", "pruned"}}
    BY DEF Stalled, Running
  <2> QED
    BY <1>0, <2>1, <2>2, <2>3, <2>4, BusyIsUp, InterruptGood
<1>4. CASE ReapReadsWedged(t)
  <2>1. PICK s \in {"prune", "wedge"} : step' = [step EXCEPT ![t] = s]
    BY <1>4 DEF ReapReadsWedged, Goto
  <2>2. /\ step[t] = "wedged"
        /\ seen' = [seen EXCEPT ![t] = Wedged]
        /\ UNCHANGED <<status, next, runs, outcome, pc, job, up>>
    BY <1>4 DEF ReapReadsWedged, columns, workers, env
  <2>3. \A u \in Thread : /\ step'[u] = IF u = t THEN s ELSE step[u]
                          /\ seen'[u] = IF u = t THEN Wedged ELSE seen[u]
    BY <2>1, <2>2 DEF TypeOK
  <2>4. \A j \in Wedged : status[j] = "running"
    BY DEF Wedged, Running
  <2>5. StartInv'
    <3>1. Fresh' /\ Waiting' /\ OneWorker' /\ Unreported' /\ Dropped'
      BY <2>2 DEF StartInv
    <3>2. RightIsFresh' /\ RightIsUnique'
      BY <2>1, <2>2, <2>3 DEF StartInv, Holds
    <3>3. WedgedStarted'
      BY <2>2, <2>3, <2>4 DEF StartInv
    <3>4. DownIsIdle'
      BY <1>0, <2>2, <2>3, BusyIsUp, ThreadFacts DEF StartInv
    <3> QED
      BY <3>1, <3>2, <3>3, <3>4 DEF StartInv
  <2>6. UNCHANGED Table!vars
    BY <2>1, <2>2, <2>3 DEF Table!vars, Rights, Starting, Ended
  <2> QED
    BY <2>5, <2>6 DEF Good
<1>5. CASE ReapMarksWedged(t)
  <2> DEFINE J == {j \in seen[t] : status[j] # "pruned"}
  <2>1. status' = [j \in Job |-> IF j \in J THEN "interrupted" ELSE status[j]]
    BY <1>5 DEF ReapMarksWedged
  <2>2. Moves(t, "prune")
    BY <1>5 DEF ReapMarksWedged, Goto, Moves, Holds, TypeOK
  <2>3. step[t] = "wedge" /\ UNCHANGED <<next, runs, outcome, pc, up>>
    BY <1>5 DEF ReapMarksWedged, workers, env
  <2>4. J \in SUBSET {j \in Job : status[j] \notin {"none", "queued", "pruned"}}
    BY <1>0, <2>3 DEF StartInv, TypeOK
  <2> QED
    BY <1>0, <2>1, <2>2, <2>3, <2>4, BusyIsUp, InterruptGood
<1>6. CASE ReapPrunes(t)
  <2>1. /\ step[t] = "prune"
        /\ status' = [j \in Job |-> IF j \in Surplus THEN "pruned" ELSE status[j]]
        /\ step' = [step EXCEPT ![t] = Return(t)]
        /\ UNCHANGED <<next, runs, outcome, pc, job, seen, up>>
    BY <1>6 DEF ReapPrunes, Goto, workers, env
  <2>2. \A u \in Thread : step'[u] = IF u = t THEN Return(t) ELSE step[u]
    BY <2>1 DEF TypeOK
  <2>3. Surplus \in SUBSET {j \in Job : status[j] \notin {"none", "running"}}
    BY DEF Surplus, Rows
  <2>4. StartInv'
    <3>1. Fresh' /\ Waiting' /\ OneWorker' /\ Unreported' /\ Dropped'
      BY <2>1, <2>3 DEF StartInv
    <3>2. RightIsFresh' /\ RightIsUnique'
      BY <2>1, <2>2, ReturnQuiet DEF StartInv, Holds
    <3>3. WedgedStarted'
      BY <2>1, <2>2, ReturnQuiet DEF StartInv, TypeOK
    <3>4. DownIsIdle'
      BY <1>0, <2>1, <2>2, BusyIsUp, ThreadFacts DEF StartInv
    <3> QED
      BY <3>1, <3>2, <3>3, <3>4 DEF StartInv
  <2>5. UNCHANGED Rights /\ UNCHANGED Ended
    BY <2>1, <2>2, ReturnQuiet DEF Rights, Starting, Ended
  <2>6. Table!Prune
    BY <2>1, <2>3, <2>5 DEF Table!Prune
  <2> QED
    BY <2>4, <2>6 DEF Good, Table!Next
<1> QED
  BY <1>1, <1>2, <1>3, <1>4, <1>5, <1>6 DEF ReapStep

\* The environment takes rights away and never gives any.
LEMMA EnvironmentGood ==
  ASSUME TypeOK, StartInv
  PROVE  /\ \A p \in Proc : Crash(p) \/ Boot(p) => Good
         /\ HostSleeps \/ TogglePause => Good
<1>1. ASSUME NEW p \in Proc, Crash(p)
      PROVE  Good
  <2>1. /\ \A t \in Thread : /\ At(t) = p => step'[t] = "idle"
                             /\ At(t) # p => /\ step'[t] = step[t]
                                             /\ job'[t] = job[t]
                                             /\ seen'[t] = seen[t]
        /\ \A j \in Job : \/ pc'[j] = pc[j]
                          \/ pc'[j] = "dead" /\ pc[j] # "none"
        /\ \A q \in Proc : q # p /\ up[q] => up'[q]
        /\ UNCHANGED <<status, next, runs, outcome>>
    BY <1>1 DEF Crash, TypeOK, columns
  <2>2. StartInv'
    <3>1. Fresh' /\ Waiting' /\ OneWorker' /\ Unreported' /\ Dropped'
      BY <2>1 DEF StartInv
    <3>2. RightIsFresh' /\ RightIsUnique'
      BY <2>1 DEF StartInv, Holds
    <3>3. WedgedStarted'
      BY <2>1 DEF StartInv
    <3>4. DownIsIdle'
      BY <2>1, HomeFacts, ThreadFacts DEF StartInv
    <3> QED
      BY <3>1, <3>2, <3>3, <3>4 DEF StartInv
  <2>3. Rights' \subseteq Rights
    BY <2>1 DEF Rights, Starting
  <2>4. Rights' = Rights \ (Rights \ Rights') /\ UNCHANGED Ended
    BY <2>1, <2>3 DEF Ended
  <2>5. Table!LoseTickets
    BY <2>1, <2>4 DEF Table!LoseTickets
  <2> QED
    BY <2>2, <2>5 DEF Good, Table!Next
<1>2. ASSUME NEW p \in Proc, Boot(p)
      PROVE  Good
  <2> DEFINE m == Main[p]
  <2>1. m \in Client /\ m \in Thread /\ step[m] = "idle"
    BY <1>2, HomeFacts, ThreadFacts DEF Boot, StartInv
  <2>2. /\ \A u \in Thread : step'[u] = IF u = m THEN "orphans" ELSE step[u]
        /\ up'[p] /\ \A q \in Proc : up[q] => up'[q]
        /\ UNCHANGED <<status, next, runs, outcome, pc, job, seen>>
    BY <1>2 DEF Boot, Goto, TypeOK, columns, workers
  <2>3. \A c \in Client : ~up'[Home[c]] => step'[c] = "idle"
    BY <2>1, <2>2, HomeFacts, ThreadFacts DEF StartInv
  <2>4. Frame
    BY <2>1, <2>2, <2>3 DEF Frame, Holds
  <2> QED
    BY <2>4, FrameGood
<1>3. ASSUME HostSleeps \/ TogglePause
      PROVE  Good
  <2>1. Frame
    BY <1>3 DEF HostSleeps, TogglePause, Frame, Holds, StartInv, columns,
                workers, calls
  <2> QED
    BY <2>1, FrameGood
<1> QED
  BY <1>1, <1>2, <1>3

LEMMA InitGood == Init => StartInv /\ Table!Init
<1> SUFFICES ASSUME Init PROVE StartInv /\ Table!Init
  OBVIOUS
<1>1. StartInv
  BY ThreadFacts DEF Init, StartInv, Holds
<1>2. Rights = {} /\ Ended = {}
  BY DEF Init, Rights, Starting, Ended
<1> QED
  BY <1>1, <1>2 DEF Init, Table!Init

LEMMA NextGood == TypeOK /\ StartInv /\ [Next]_vars => Good
<1> SUFFICES ASSUME TypeOK, StartInv, [Next]_vars PROVE Good
  OBVIOUS
<1>1. CASE UNCHANGED vars
  <2>1. Frame
    BY <1>1 DEF Frame, Holds, StartInv, vars, columns, workers, calls, env
  <2> QED
    BY <2>1, FrameGood
<1> QED
  BY <1>1, StartGood, PromoteGood, ReapGood, WorkerGood, ClientGood,
     EnvironmentGood DEF Next

LEMMA AlwaysStartInv == Spec => [](TypeOK /\ StartInv)
<1>1. Init => TypeOK /\ StartInv
  BY InitTypes, InitGood
<1>2. TypeOK /\ StartInv /\ [Next]_vars => (TypeOK /\ StartInv)'
  BY NextTypes, NextGood DEF Good
<1> QED
  BY <1>1, <1>2, PTL DEF Spec

\* However many processes promote the same queue, and whichever of them dies
\* between its claim and its thread, a row gets at most one worker.
THEOREM OneWorkerPerRow == Spec => []WorkerStartsOnce
<1>1. ASSUME StartInv
      PROVE  WorkerStartsOnce
  <2>1. \A j \in Job : runs[j] <= 1
    BY <1>1 DEF StartInv
  <2>2. \A j \in Job : Starting(j) => runs[j] = 0
    BY <1>1 DEF StartInv, Starting, Holds
  <2>3. \A t, u \in Thread : Holds(t) /\ Holds(u) /\ job[t] = job[u] => t = u
    BY <1>1 DEF StartInv
  <2> QED
    BY <2>1, <2>2, <2>3 DEF WorkerStartsOnce, Holds
<1> QED
  BY <1>1, AlwaysStartInv, PTL

\* A row that cancel() dropped from the queue has no worker and nobody holds
\* the right to start one.
THEOREM DroppedStaysDropped == Spec => []DroppedNeverRuns
<1>1. StartInv => DroppedNeverRuns
  BY DEF StartInv, DroppedNeverRuns, Starting, Holds
<1> QED
  BY <1>1, AlwaysStartInv, PTL

\* The registry implements the job-table protocol of JobRows: Init maps to
\* its initial state, and every step to one of its steps or to a stutter.
THEOREM Implements == Spec => RowProtocol
<1>1. Init => Table!Init
  BY InitGood
<1>2. TypeOK /\ StartInv /\ [Next]_vars => [Table!Next]_(Table!vars)
  BY NextGood DEF Good
<1> QED
  BY <1>1, <1>2, AlwaysStartInv, PTL DEF Spec, RowProtocol, Table!Spec

-----------------------------------------------------------------------------
(* Crash loops: what a reaper carries from its SELECT to the relaunch.     *)

\* A row that may be relaunched once more.
Relaunchable(j) == j \in Job /\ status[j] # "none" /\ row[j].attempt < MaxAttempts

Calling == {"read", "dedup", "insert"}

\* A reaper's worklist, and the row an automatic start() was called for.
Carries(t) ==
  /\ step[t] # "claim" => \A j \in todo[t] : Relaunchable(j)
  /\ step[t] \in Calling /\ req[t].auto => Relaunchable(req[t].from)

LoopInv == CrashLoopBounded /\ \A t \in Thread : Carries(t)

\* A step that adds nothing to what the thread u carries.
Tame(u) ==
  /\ \/ step'[u] = "claim"
     \/ todo'[u] = {}
     \/ step[u] # "claim" /\ todo'[u] \subseteq todo[u]
  /\ \/ step'[u] \notin Calling
     \/ ~req'[u].auto
     \/ step[u] \in Calling /\ req'[u].auto = req[u].auto /\ req'[u].from = req[u].from

\* The rows that are there stay as they were inserted.
Lasting == \A j \in Job : status[j] # "none" => status'[j] # "none" /\ row'[j] = row[j]

\* Only the insert of a start() makes a row, or writes what it is a row of.
LEMMA OnlyInserts ==
  ASSUME TypeOK, StartInv, [Next]_vars
  PROVE  \/ \E t \in Thread : StartInserts(t)
         \/ row' = row /\ \A j \in Job : status[j] = "none" => status'[j] = "none"
<1> DEFINE Quiet == row' = row /\ \A j \in Job : status[j] = "none" => status'[j] = "none"
<1>1. CASE UNCHANGED vars
  BY <1>1 DEF vars, columns
<1>2. ASSUME NEW t \in Thread, StartStep(t)
      PROVE  Quiet \/ StartInserts(t)
  BY <1>2 DEF StartStep, StartReadsRunning, StartReadsQueue, StartHitsBound,
     StartThread, columns
<1>3. ASSUME NEW t \in Thread, PromoteStep(t)
      PROVE  Quiet
  BY <1>3 DEF PromoteStep, PromoteReadsRunning, PromoteReadsQueue,
     PromoteClaims, Claimable, TypeOK, columns
<1>4. ASSUME NEW t \in Client, ReapStep(t)
      PROVE  Quiet
  <2>1. CASE ReapMarksOrphans(t) \/ ReapMarksStalled(t) \/ ReapPrunes(t)
    BY <2>1 DEF ReapMarksOrphans, ReapMarksStalled, ReapPrunes, Surplus, Stalled,
       Running, Rows
  <2>2. CASE ReapMarksWedged(t)
    BY <2>2, ThreadFacts DEF ReapMarksWedged, StartInv
  <2> QED
    BY <1>4, <2>1, <2>2 DEF ReapStep, ReapReadsOrphans, ReapReadsStalled,
       ReapReadsWedged, ReapResumes, columns
<1>5. ASSUME NEW t \in Client, ClientStep(t)
      PROVE  Quiet
  <2>1. ASSUME NEW j \in Job, ClientCancels(t, j)
        PROVE  Quiet
    BY <2>1 DEF ClientCancels, Droppable, TypeOK
  <2>2. ASSUME NEW j \in Job, ClientRestarts(t, j)
        PROVE  Quiet
    BY <2>2 DEF ClientRestarts, columns
  <2> QED
    BY <1>5, <2>1, <2>2 DEF ClientStep, ClientStarts, ClientPromotes,
       ClientReaps, RestartAsks, columns
<1>6. ASSUME NEW j \in Job,
             WorkerStep(j) \/ WorkerHangs(j) \/ WorkerReturns(j) \/ LeaseExpires(j)
      PROVE  Quiet
  <2>1. CASE WorkerEnds(j)
    <3>1. status[j] # "none"
      BY <2>1 DEF WorkerEnds, StartInv
    <3> QED
      BY <2>1, <3>1 DEF WorkerEnds, TypeOK
  <2> QED
    BY <1>6, <2>1 DEF WorkerStep, WorkerSeesCancel, WorkerPulses,
       WorkerResumes, WorkerChains, WorkerPromotes, WorkerHangs, WorkerReturns,
       LeaseExpires, columns
<1>7. CASE (\E p \in Proc : Crash(p) \/ Boot(p)) \/ HostSleeps \/ TogglePause
  BY <1>7 DEF Crash, Boot, HostSleeps, TogglePause, columns
<1> QED
  BY <1>1, <1>2, <1>3, <1>4, <1>5, <1>6, <1>7 DEF Next

LEMMA RowsLast ==
  ASSUME TypeOK, StartInv, [Next]_vars
  PROVE  Lasting
<1>1. \A j \in Job : status[j] # "none" => status'[j] # "none"
  <2>1. [Table!Next]_(Table!vars)
    BY NextGood DEF Good
  <2>2. status \in [Job -> Status]
    BY DEF TypeOK
  <2> QED
    BY <2>1, <2>2 DEF Table!Next, Table!vars, Table!Enqueue, Table!CreateRunning,
       Table!Claim, Table!Drop, Table!StartWorker, Table!LoseTickets,
       Table!EndWorker, Table!Interrupt, Table!Prune
<1>2. row' = row \/ \E t \in Thread : StartInserts(t)
  BY OnlyInserts
<1>3. ASSUME NEW t \in Thread, StartInserts(t), NEW j \in Job, status[j] # "none"
      PROVE  row'[j] = row[j]
  <2>1. status[next] = "none"
    BY <1>3 DEF StartInserts, StartInv, Job
  <2> QED
    BY <1>3, <2>1 DEF StartInserts, TypeOK
<1> QED
  BY <1>1, <1>2, <1>3 DEF Lasting

LEMMA TameCarries ==
  ASSUME Lasting, NEW t \in Thread, Carries(t), Tame(t)
  PROVE  Carries(t)'
BY DEF Lasting, Carries, Tame, Relaunchable

LEMMA StartTame ==
  ASSUME TypeOK, NEW t \in Thread, StartStep(t)
  PROVE  \A u \in Thread : Tame(u)
<1>1. todo' = todo /\ step[t] # "claim"
  BY DEF StartStep, StartReadsRunning, StartReadsQueue, StartInserts,
     StartHitsBound, StartThread
<1>2. \A u \in Thread \ {t} : step'[u] = step[u] /\ req'[u] = req[u]
  BY DEF StartStep, StartReadsRunning, StartReadsQueue, StartInserts,
     StartHitsBound, StartThread, StartReturns, Goto, TypeOK
<1>3. \/ step'[t] \notin Calling
      \/ step[t] \in Calling /\ req'[t].auto = req[t].auto /\ req'[t].from = req[t].from
  <2>1. Return(t) \notin Calling
    BY DEF Return, Calling
  <2>2. req[t] \in Request
    BY DEF TypeOK
  <2>3. CASE StartReadsRunning(t)
    BY <2>1, <2>2, <2>3 DEF StartReadsRunning, StartReturns, Goto, TypeOK, Calling,
       Request
  <2>4. CASE StartReadsQueue(t)
    BY <2>1, <2>4 DEF StartReadsQueue, StartReturns, Goto, TypeOK, Calling
  <2>5. CASE StartInserts(t)
    BY <2>1, <2>5 DEF StartInserts, StartReturns, Goto, TypeOK, Calling
  <2>6. CASE StartHitsBound(t)
    BY <2>1, <2>6 DEF StartHitsBound, StartReturns, Goto, TypeOK
  <2>7. CASE StartThread(t)
    BY <2>1, <2>7 DEF StartThread, StartReturns, Goto, TypeOK, Calling
  <2> QED
    BY <2>3, <2>4, <2>5, <2>6, <2>7 DEF StartStep
<1> QED
  BY <1>1, <1>2, <1>3 DEF Tame

LEMMA PromoteTame ==
  ASSUME TypeOK, NEW t \in Thread, PromoteStep(t)
  PROVE  \A u \in Thread : Tame(u)
<1>1. \A u \in Thread \ {t} : step'[u] = step[u] /\ todo'[u] = todo[u]
  BY DEF PromoteStep, PromoteReadsRunning, PromoteReadsQueue, PromoteClaims,
     Goto, TypeOK
<1>2. req' = req
  BY DEF PromoteStep, PromoteReadsRunning, PromoteReadsQueue, PromoteClaims
<1>3. step'[t] \notin Calling
  BY DEF PromoteStep, PromoteReadsRunning, PromoteReadsQueue, PromoteClaims,
     Goto, TypeOK, Calling
<1>4. \/ step'[t] = "claim"
      \/ todo'[t] = {}
      \/ step[t] # "claim" /\ todo'[t] \subseteq todo[t]
  BY DEF PromoteStep, PromoteReadsRunning, PromoteReadsQueue, PromoteClaims,
     Goto, TypeOK
<1> QED
  BY <1>1, <1>2, <1>3, <1>4 DEF Tame

LEMMA WorkerTame ==
  ASSUME TypeOK, NEW j \in Job,
         WorkerStep(j) \/ WorkerHangs(j) \/ WorkerReturns(j) \/ LeaseExpires(j)
  PROVE  \A u \in Thread : Tame(u)
<1>1. todo' = todo /\ j \in Thread
  BY ThreadFacts DEF WorkerStep, WorkerSeesCancel, WorkerPulses, WorkerEnds,
     WorkerResumes, WorkerChains, WorkerPromotes, WorkerHangs, WorkerReturns,
     LeaseExpires, calls
<1>2. \/ UNCHANGED <<step, req>>
      \/ /\ step[j] = "idle"
         /\ \A u \in Thread \ {j} : step'[u] = step[u] /\ req'[u] = req[u]
         /\ step'[j] \notin Calling \/ ~req'[j].auto
  BY <1>1 DEF WorkerStep, WorkerSeesCancel, WorkerPulses, WorkerEnds,
     WorkerResumes, WorkerChains, WorkerPromotes, WorkerHangs, WorkerReturns,
     LeaseExpires, calls, Call, Goto, TypeOK, Calling
<1> QED
  BY <1>1, <1>2 DEF Tame

LEMMA ClientTame ==
  ASSUME TypeOK, NEW t \in Client, ClientStep(t)
  PROVE  \A u \in Thread : Tame(u)
<1>1. todo' = todo /\ t \in Thread
  BY ThreadFacts DEF ClientStep, ClientStarts, ClientPromotes, ClientReaps,
     RestartAsks, ClientCancels, ClientRestarts, calls
<1>2. \/ UNCHANGED <<step, req>>
      \/ /\ step[t] # "claim"
         /\ \A u \in Thread \ {t} : step'[u] = step[u] /\ req'[u] = req[u]
         /\ step'[t] \notin Calling \/ ~req'[t].auto
  BY <1>1 DEF ClientStep, ClientStarts, ClientPromotes, ClientReaps,
     RestartAsks, ClientCancels, ClientRestarts, calls, Free, Call, Goto, TypeOK,
     Calling
<1> QED
  BY <1>1, <1>2 DEF Tame

LEMMA EnvironmentTame ==
  ASSUME TypeOK, StartInv,
         (\E p \in Proc : Crash(p) \/ Boot(p)) \/ HostSleeps \/ TogglePause
  PROVE  \A u \in Thread : Tame(u)
<1>1. ASSUME NEW p \in Proc, Crash(p)
      PROVE  \A u \in Thread : Tame(u)
  BY <1>1 DEF Crash, Tame, Calling
<1>2. ASSUME NEW p \in Proc, Boot(p)
      PROVE  \A u \in Thread : Tame(u)
  <2>1. Main[p] \in Thread /\ step[Main[p]] = "idle"
    BY <1>2, HomeFacts, ThreadFacts DEF Boot, StartInv
  <2>2. /\ step' = [step EXCEPT ![Main[p]] = "orphans"]
        /\ UNCHANGED <<req, todo>>
    BY <1>2 DEF Boot, Goto
  <2>3. \A u \in Thread : step'[u] = IF u = Main[p] THEN "orphans" ELSE step[u]
    BY <2>1, <2>2 DEF TypeOK
  <2> QED
    BY <2>1, <2>2, <2>3 DEF Tame, Calling
<1>3. CASE HostSleeps \/ TogglePause
  BY <1>3 DEF HostSleeps, TogglePause, Tame, calls
<1> QED
  BY <1>1, <1>2, <1>3

\* A reaper puts on its worklist only what may be relaunched, and calls
\* start() only for what is on it.
LEMMA ReapCarries ==
  ASSUME TypeOK, Lasting, NEW t \in Client, ReapStep(t), \A u \in Thread : Carries(u)
  PROVE  \A u \in Thread : Carries(u)'
<1>1. t \in Thread /\ step[t] # "claim"
  BY ThreadFacts DEF ReapStep, ReapReadsOrphans, ReapMarksOrphans,
     ReapReadsStalled, ReapMarksStalled, ReapReadsWedged, ReapMarksWedged,
     ReapPrunes, ReapResumes
<1>2. \A u \in Thread \ {t} : step'[u] = step[u] /\ todo'[u] = todo[u] /\ req'[u] = req[u]
  BY DEF ReapStep, ReapReadsOrphans, ReapMarksOrphans,
     ReapReadsStalled, ReapMarksStalled, ReapReadsWedged, ReapMarksWedged,
     ReapPrunes, ReapResumes, Goto, Call, TypeOK
<1>3. \A R \in SUBSET Running : \A j \in Resumable(R) : Relaunchable(j)'
  BY DEF Lasting, Resumable, Running, Relaunchable
<1>4. \A j : Relaunchable(j) => Relaunchable(j)'
  BY DEF Lasting, Relaunchable
<1>5. Carries(t)'
  <2>1. CASE ReapReadsOrphans(t)
    <3>1. /\ step'[t] = "orphaned"
          /\ todo'[t] \subseteq Resumable({j \in Running : row[j].origin = Home[t]})
      BY <1>1, <2>1 DEF ReapReadsOrphans, Goto, TypeOK
    <3> QED
      BY <1>3, <3>1 DEF Carries, Calling
  <2>2. CASE ReapReadsStalled(t)
    <3>1. step'[t] \in {"wedged", "stall"} /\ todo'[t] = Resumable(Stalled)
      BY <1>1, <2>2 DEF ReapReadsStalled, Goto, TypeOK
    <3>2. Stalled \in SUBSET Running
      BY DEF Stalled
    <3> QED
      BY <1>3, <3>1, <3>2 DEF Carries, Calling
  <2>3. CASE ReapReadsWedged(t)
    <3>1. /\ step'[t] \in {"prune", "wedge"}
          /\ todo'[t] = todo[t] \cup Resumable(Wedged)
      BY <1>1, <2>3 DEF ReapReadsWedged, Goto, TypeOK
    <3>2. Wedged \in SUBSET Running
      BY DEF Wedged
    <3> QED
      BY <1>1, <1>3, <1>4, <3>1, <3>2 DEF Carries, Calling
  <2>4. CASE ReapResumes(t)
    <3>1. PICK j \in todo[t] : /\ todo' = [todo EXCEPT ![t] = @ \ {j}]
                               /\ Call(t, ResumeTask(row[j].task), FALSE, j, TRUE)
      BY <2>4 DEF ReapResumes
    <3>2. todo'[t] \subseteq todo[t] /\ step'[t] = "read" /\ req'[t].from = j
      BY <1>1, <3>1 DEF Call, Goto, TypeOK
    <3> QED
      BY <1>1, <1>4, <3>1, <3>2 DEF Carries, Calling
  <2>5. CASE ReapMarksOrphans(t) \/ ReapMarksStalled(t) \/ ReapMarksWedged(t) \/ ReapPrunes(t)
    <3>1. todo' = todo /\ step'[t] \notin Calling
      BY <1>1, <2>5 DEF ReapMarksOrphans, ReapMarksStalled, ReapMarksWedged,
         ReapPrunes, Return, Goto, TypeOK, Calling
    <3> QED
      BY <1>1, <1>4, <3>1 DEF Carries
  <2> QED
    BY <2>1, <2>2, <2>3, <2>4, <2>5 DEF ReapStep
<1> QED
  BY <1>1, <1>2, <1>4, <1>5 DEF Carries

\* A new row that was relaunched automatically has had one attempt more than
\* a row that had one left.
LEMMA InsertBounded ==
  ASSUME TypeOK, StartInv, LoopInv, Lasting, NEW t \in Thread, StartInserts(t)
  PROVE  CrashLoopBounded'
<1>1. /\ next \in Job
      /\ \A j \in Job : j # next => row'[j] = row[j] /\ status'[j] = status[j]
      /\ row'[next].auto = req[t].auto
      /\ row'[next].attempt = IF req[t].from = 0 THEN 1 ELSE row[req[t].from].attempt + 1
  BY DEF StartInserts, TypeOK
<1>2. row'[next].auto => row'[next].attempt <= MaxAttempts
  <2> SUFFICES ASSUME req[t].auto
               PROVE  row'[next].attempt <= MaxAttempts
    BY <1>1
  <2>1. Relaunchable(req[t].from)
    BY DEF LoopInv, Carries, StartInserts, Calling
  <2>2. req[t].from # 0 /\ row[req[t].from].attempt \in Nat
    BY <2>1, ThreadFacts DEF Relaunchable, TypeOK, Row
  <2> QED
    BY <1>1, <2>1, <2>2, JobsAssumption DEF Relaunchable
<1> QED
  BY <1>1, <1>2 DEF LoopInv, CrashLoopBounded

LEMMA NextLoop == TypeOK /\ StartInv /\ LoopInv /\ [Next]_vars => LoopInv'
<1> SUFFICES ASSUME TypeOK, StartInv, LoopInv, [Next]_vars PROVE LoopInv'
  OBVIOUS
<1>1. Lasting
  BY RowsLast
<1>2. \A t \in Thread : Carries(t)'
  <2>1. CASE \A t \in Thread : Tame(t)
    BY <1>1, <2>1, TameCarries DEF LoopInv
  <2>2. CASE UNCHANGED vars
    BY <2>2 DEF vars, calls, LoopInv, Carries, Relaunchable, columns
  <2>3. CASE \E t \in Client : ReapStep(t)
    BY <1>1, <2>3, ReapCarries DEF LoopInv
  <2> QED
    BY <2>1, <2>2, <2>3, StartTame, PromoteTame, WorkerTame, ClientTame,
       EnvironmentTame DEF Next
<1>3. CrashLoopBounded'
  <2>1. CASE \E t \in Thread : StartInserts(t)
    BY <1>1, <2>1, InsertBounded
  <2>2. CASE \A j \in Job : status'[j] # "none" => status[j] # "none"
    BY <1>1, <2>2 DEF Lasting, LoopInv, CrashLoopBounded
  <2> QED
    BY <2>1, <2>2, OnlyInserts
<1> QED
  BY <1>2, <1>3 DEF LoopInv

\* A job that kills every process that runs it is relaunched by reapers at
\* most MAX_RESUME_ATTEMPTS - 1 times, however many reapers find it, and
\* whatever happens between a reaper's SELECT and its relaunch.
THEOREM CrashLoopsEnd == Spec => []CrashLoopBounded
<1>1. Init => LoopInv
  <2>1. Init => CrashLoopBounded
    BY DEF Init, CrashLoopBounded
  <2>2. Init => \A t \in Thread : Carries(t)
    BY DEF Init, Carries, Calling
  <2> QED
    BY <2>1, <2>2 DEF LoopInv
<1>2. TypeOK /\ StartInv /\ LoopInv /\ [Next]_vars => LoopInv'
  BY NextLoop
<1>3. LoopInv => CrashLoopBounded
  BY DEF LoopInv
<1> QED
  BY <1>1, <1>2, <1>3, AlwaysStartInv, PTL DEF Spec

-----------------------------------------------------------------------------
(* Restarts: what a relaunch that no reaper made rests on.                 *)

\* Row j has left the hands of its worker: the worker has reported, or the row
\* was dropped from the queue, given up by a reaper, or pruned.
Past(j) == j \in Job /\ (j \in Ended \/ status[j] \in {"cancelled", "interrupted", "pruned"})

\* An outcome in the table is a worker's, and so is a wish to relaunch the row.
Reported == \A j \in Job :
  status[j] \in {"done", "error"} \/ pc[j] = "resume" => j \in Ended

\* The thread t is in a start() that relaunches row j and was not called by a
\* reaper.
Relaunches(t, j) == step[t] \in Calling /\ ~req[t].auto /\ req[t].from = j

Heirs(t) == \A j \in Job : Relaunches(t, j) => Past(j)

Replaced == \A c \in Job :
  status[c] # "none" /\ row[c].from # 0 /\ ~row[c].auto => Past(row[c].from)

RestartInv == Reported /\ (\A t \in Thread : Heirs(t)) /\ Replaced

\* What is past stays past, and what was reported was: the abstract table has
\* no step that takes either back.
LEMMA PastLasts ==
  ASSUME TypeOK, StartInv, [Next]_vars
  PROVE  /\ Ended \subseteq Ended'
         /\ \A j : Past(j) => Past(j)'
         /\ \A j \in Job : status'[j] \in {"done", "error"} =>
              status[j] = status'[j] \/ j \in Ended'
<1>1. [Table!Next]_(Table!vars)
  BY NextGood DEF Good
<1>2. status \in [Job -> Status]
  BY DEF TypeOK
<1>3. CASE \E j \in Job : Table!EndWorker(j)
  BY <1>2, <1>3 DEF Table!EndWorker, Past
<1>4. CASE \A j \in Job : ~Table!EndWorker(j)
  <2>1. Ended \subseteq Ended'
    BY <1>1, <1>4 DEF Table!Next, Table!vars, Table!Enqueue, Table!CreateRunning,
       Table!Claim, Table!Drop, Table!StartWorker, Table!LoseTickets,
       Table!Interrupt, Table!Prune
  <2>2. \A j \in Job :
          /\ status[j] \in {"cancelled", "interrupted", "pruned"} =>
               status'[j] \in {"cancelled", "interrupted", "pruned"}
          /\ status'[j] \in {"done", "error"} => status[j] = status'[j]
    BY <1>1, <1>2, <1>4 DEF Table!Next, Table!vars, Table!Enqueue,
       Table!CreateRunning, Table!Claim, Table!Drop, Table!StartWorker,
       Table!LoseTickets, Table!Interrupt, Table!Prune
  <2> QED
    BY <2>1, <2>2 DEF Past
<1> QED
  BY <1>3, <1>4

\* Only its own end leaves a worker with something to resume.
LEMMA ResumeReported ==
  ASSUME TypeOK, StartInv, [Next]_vars, NEW j \in Job, pc'[j] = "resume"
  PROVE  pc[j] = "resume" \/ j \in Ended'
<1>1. CASE UNCHANGED vars
  BY <1>1 DEF vars, workers
<1>2. ASSUME NEW t \in Thread, StartStep(t)
      PROVE  pc[j] = "resume"
  BY <1>2 DEF StartStep, StartReadsRunning, StartReadsQueue, StartInserts,
     StartHitsBound, StartThread, TypeOK, workers
<1>3. ASSUME NEW t \in Thread, PromoteStep(t)
      PROVE  pc' = pc
  BY <1>3 DEF PromoteStep, PromoteReadsRunning, PromoteReadsQueue, PromoteClaims,
     workers
<1>4. ASSUME NEW t \in Client, ReapStep(t)
      PROVE  pc' = pc
  BY <1>4 DEF ReapStep, ReapReadsOrphans, ReapMarksOrphans, ReapReadsStalled,
     ReapMarksStalled, ReapReadsWedged, ReapMarksWedged, ReapPrunes, ReapResumes,
     workers
<1>5. ASSUME NEW t \in Client, ClientStep(t)
      PROVE  pc' = pc
  BY <1>5 DEF ClientStep, ClientStarts, ClientPromotes, ClientReaps, RestartAsks,
     ClientCancels, ClientRestarts, workers
<1>6. ASSUME NEW i \in Job,
             WorkerStep(i) \/ WorkerHangs(i) \/ WorkerReturns(i) \/ LeaseExpires(i)
      PROVE  pc[j] = "resume" \/ j \in Ended'
  <2>1. CASE WorkerEnds(i)
    BY <2>1 DEF WorkerEnds, Ended, TypeOK
  <2>2. CASE ~WorkerEnds(i)
    BY <1>6, <2>2 DEF WorkerStep, WorkerSeesCancel, WorkerPulses, AfterResume,
       WorkerResumes, WorkerChains, WorkerPromotes, WorkerHangs, WorkerReturns,
       LeaseExpires, TypeOK, workers
  <2> QED
    BY <2>1, <2>2
<1>7. CASE (\E p \in Proc : Crash(p) \/ Boot(p)) \/ HostSleeps \/ TogglePause
  BY <1>7 DEF Crash, Boot, HostSleeps, TogglePause, TypeOK, workers
<1> QED
  BY <1>1, <1>2, <1>3, <1>4, <1>5, <1>6, <1>7 DEF Next

LEMMA NextReported ==
  ASSUME TypeOK, StartInv, Reported, [Next]_vars
  PROVE  Reported'
BY PastLasts, ResumeReported DEF Reported

\* A thread that comes to relaunch row j, without being a reaper, does so for a
\* row that is past.
Asked(u) == \A j \in Job : Relaunches(u, j)' => Relaunches(u, j) \/ Past(j)'

LEMMA StartAsked ==
  ASSUME TypeOK, NEW t \in Thread, StartStep(t)
  PROVE  \A u \in Thread : Asked(u)
<1>1. \A u \in Thread \ {t} : step'[u] = step[u] /\ req'[u] = req[u]
  BY DEF StartStep, StartReadsRunning, StartReadsQueue, StartInserts,
     StartHitsBound, StartThread, StartReturns, Goto, TypeOK
<1>2. step'[t] \in Calling =>
        step[t] \in Calling /\ req'[t].from = req[t].from /\ req'[t].auto = req[t].auto
  <2>1. Return(t) \notin Calling
    BY DEF Return, Calling
  <2>2. req[t] \in Request
    BY DEF TypeOK
  <2> QED
    BY <2>1, <2>2 DEF StartStep, StartReadsRunning, StartReadsQueue, StartInserts,
       StartHitsBound, StartThread, StartReturns, Goto, TypeOK, Calling, Request
<1> QED
  BY <1>1, <1>2 DEF Asked, Relaunches

LEMMA PromoteAsked ==
  ASSUME TypeOK, NEW t \in Thread, PromoteStep(t)
  PROVE  \A u \in Thread : Asked(u)
BY DEF PromoteStep, PromoteReadsRunning, PromoteReadsQueue, PromoteClaims,
   Goto, TypeOK, Calling, Asked, Relaunches

\* What a reaper relaunches, it relaunches automatically.
LEMMA ReapAsked ==
  ASSUME TypeOK, NEW t \in Client, ReapStep(t)
  PROVE  \A u \in Thread : Asked(u)
<1>1. t \in Thread /\ Return(t) \notin Calling
  BY ThreadFacts DEF Return, Calling
<1>2. \A u \in Thread \ {t} : step'[u] = step[u] /\ req'[u] = req[u]
  BY DEF ReapStep, ReapReadsOrphans, ReapMarksOrphans, ReapReadsStalled,
     ReapMarksStalled, ReapReadsWedged, ReapMarksWedged, ReapPrunes, ReapResumes,
     Goto, Call, TypeOK
<1>3. step'[t] \in Calling => req'[t].auto
  BY <1>1 DEF ReapStep, ReapReadsOrphans, ReapMarksOrphans, ReapReadsStalled,
     ReapMarksStalled, ReapReadsWedged, ReapMarksWedged, ReapPrunes, ReapResumes,
     Goto, Call, TypeOK, Calling
<1> QED
  BY <1>1, <1>2, <1>3 DEF Asked, Relaunches

LEMMA WorkerAsked ==
  ASSUME TypeOK, StartInv, Reported, NEW j \in Job,
         WorkerStep(j) \/ WorkerHangs(j) \/ WorkerReturns(j) \/ LeaseExpires(j)
  PROVE  \A u \in Thread : Asked(u)
<1>1. CASE WorkerResumes(j)
  <2>1. j \in Thread /\ pc[j] = "resume" /\ j \in Ended'
    BY <1>1, ThreadFacts DEF WorkerResumes, Reported, Ended
  <2>2. /\ \A u \in Thread \ {j} : step'[u] = step[u] /\ req'[u] = req[u]
        /\ step'[j] \in Calling => req'[j].from = j
    BY <1>1, <2>1 DEF WorkerResumes, Call, Goto, TypeOK, Calling
  <2> QED
    BY <2>1, <2>2 DEF Asked, Relaunches, Past
<1>2. CASE ~WorkerResumes(j)
  BY <1>2, ThreadFacts DEF WorkerStep, WorkerSeesCancel, WorkerPulses, WorkerEnds,
     WorkerChains, WorkerPromotes, WorkerHangs, WorkerReturns, LeaseExpires, calls,
     Call, Goto, TypeOK, Calling, Asked, Relaunches
<1> QED
  BY <1>1, <1>2

\* The panel restarts a row at once only when it is not running.
LEMMA ClientAsked ==
  ASSUME TypeOK, Reported, NEW t \in Client, ClientStep(t)
  PROVE  \A u \in Thread : Asked(u)
<1>1. ASSUME NEW j \in Job, ClientRestarts(t, j)
      PROVE  \A u \in Thread : Asked(u)
  <2>1. t \in Thread /\ step[t] = "idle"
    BY <1>1, ThreadFacts DEF ClientRestarts, Free
  <2>2. CASE MustStopFirst(j)
    BY <1>1, <2>1, <2>2 DEF ClientRestarts, Goto, TypeOK, Calling, Asked, Relaunches
  <2>3. CASE ~MustStopFirst(j)
    <3>1. status[j] \in Terminal
      BY <1>1, <2>3 DEF ClientRestarts, MustStopFirst, Rows, Queued, TypeOK, Status
    <3>2. Past(j)'
      BY <1>1, <3>1 DEF ClientRestarts, columns, workers, Reported, Past, Ended, Terminal
    <3>3. /\ \A u \in Thread \ {t} : step'[u] = step[u] /\ req'[u] = req[u]
          /\ req'[t].from = j
      BY <1>1, <2>1, <2>3 DEF ClientRestarts, Call, Goto, TypeOK
    <3> QED
      BY <3>2, <3>3 DEF Asked, Relaunches
  <2> QED
    BY <2>2, <2>3
<1>2. CASE \A j \in Job : ~ClientRestarts(t, j)
  BY <1>2, ThreadFacts DEF ClientStep, ClientStarts, ClientPromotes, ClientReaps,
     RestartAsks, ClientCancels, calls, Call, Goto, TypeOK, Calling, Asked, Relaunches
<1> QED
  BY <1>1, <1>2

LEMMA EnvironmentAsked ==
  ASSUME TypeOK, StartInv,
         (\E p \in Proc : Crash(p) \/ Boot(p)) \/ HostSleeps \/ TogglePause
  PROVE  \A u \in Thread : Asked(u)
<1>1. ASSUME NEW p \in Proc, Crash(p)
      PROVE  \A u \in Thread : Asked(u)
  BY <1>1 DEF Crash, Asked, Relaunches, Calling
<1>2. ASSUME NEW p \in Proc, Boot(p)
      PROVE  \A u \in Thread : Asked(u)
  BY <1>2, HomeFacts, ThreadFacts DEF Boot, Goto, TypeOK, Asked, Relaunches, Calling
<1>3. CASE HostSleeps \/ TogglePause
  BY <1>3 DEF HostSleeps, TogglePause, Asked, Relaunches, calls
<1> QED
  BY <1>1, <1>2, <1>3

LEMMA NextHeirs ==
  ASSUME TypeOK, StartInv, RestartInv, [Next]_vars
  PROVE  \A u \in Thread : Heirs(u)'
<1>1. \A u \in Thread : Asked(u)
  <2>1. CASE UNCHANGED vars
    BY <2>1 DEF vars, calls, Asked, Relaunches
  <2> QED
    BY <2>1, StartAsked, PromoteAsked, ReapAsked, WorkerAsked, ClientAsked,
       EnvironmentAsked DEF Next, RestartInv
<1> QED
  BY <1>1, PastLasts DEF RestartInv, Heirs, Asked

LEMMA NextReplaced ==
  ASSUME TypeOK, StartInv, RestartInv, [Next]_vars
  PROVE  Replaced'
<1>1. (\A j : Past(j) => Past(j)') /\ Lasting
  BY PastLasts, RowsLast
<1> SUFFICES ASSUME NEW c \in Job, status'[c] # "none", row'[c].from # 0, ~row'[c].auto
             PROVE  \E j : j = row'[c].from /\ Past(j)'
  BY DEF Replaced
<1>2. CASE status[c] # "none"
  BY <1>1, <1>2 DEF Lasting, RestartInv, Replaced
<1>3. CASE status[c] = "none"
  <2>1. PICK t \in Thread : StartInserts(t)
    BY <1>3, OnlyInserts
  <2>2. c = next /\ row'[c].from = req[t].from /\ row'[c].auto = req[t].auto
    BY <1>3, <2>1 DEF StartInserts, TypeOK
  <2>3. req[t].from \in Job
    BY <2>2 DEF TypeOK, Request, Job
  <2>4. Past(req[t].from)
    BY <2>1, <2>2, <2>3 DEF StartInserts, RestartInv, Heirs, Relaunches, Calling
  <2> QED
    BY <1>1, <2>2, <2>4
<1> QED
  BY <1>2, <1>3

\* A row that a person, or the worker of the old row when it ended, relaunched
\* from another one is not in the table while the old worker is at work or hangs,
\* whoever cancels, reaps, crashes or sleeps meanwhile - unless a reaper has
\* interrupted the old row: then there may be two workers, and restart() does not
\* keep its "never overlap".
THEOREM RestartsWait == Spec => []RestartNeverOverlaps
<1>1. Init => RestartInv
  BY DEF Init, RestartInv, Reported, Heirs, Relaunches, Calling, Replaced
<1>2. TypeOK /\ StartInv /\ RestartInv /\ [Next]_vars => RestartInv'
  BY NextReported, NextHeirs, NextReplaced DEF RestartInv
<1>3. TypeOK /\ StartInv /\ RestartInv => RestartNeverOverlaps
  <2> SUFFICES ASSUME StartInv, RestartInv, NEW c \in Job, status[c] # "none",
                      row[c].from # 0, ~row[c].auto, pc[row[c].from] \in {"run", "hung"}
               PROVE  status[row[c].from] \in {"interrupted", "pruned"}
    BY DEF RestartNeverOverlaps
  <2>1. Past(row[c].from)
    BY DEF RestartInv, Replaced
  <2>2. PICK j \in Job : j = row[c].from
    BY <2>1 DEF Past
  <2>3. outcome[j] = "none" /\ runs[j] # 0
    BY <2>2 DEF StartInv
  <2> QED
    BY <2>1, <2>2, <2>3 DEF Past, Ended, StartInv
<1> QED
  BY <1>1, <1>2, <1>3, AlwaysStartInv, PTL DEF Spec
=============================================================================
