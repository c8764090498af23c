---------------------------- MODULE Orchestrator ----------------------------
(***************************************************************************)
(* The relay that embeds the catalogue on a cluster: shards of chunks are   *)
(* exported, shipped over ssh, embedded by an array job, fetched and        *)
(* imported.  A run goes through the phases in order and stamps each in a   *)
(* file, so that a later run goes on at the first without a stamp.  One run *)
(* at a time works on a directory.                                          *)
(*                                                                         *)
(* ssh and rsync fail without stopping the run.  faults remembers the       *)
(* failures that the code takes for an answer.                              *)
(***************************************************************************)
EXTENDS Naturals

CONSTANTS
  ShardCount, \* shards of the export
  TaskCount,  \* tasks of an array job
  Array,      \* job ids of the cluster
  NoArray,    \* no id
  MaxSlips    \* bound: crashes, stops, kills and failures of the network

ASSUME OrchestratorAssumption ==
  /\ ShardCount \in Nat
  /\ TaskCount \in Nat \ {0}
  /\ NoArray \notin Array
  /\ MaxSlips \in Nat

Shard == 1..ShardCount
Task == 1..TaskCount
Manifest == 0
File == Shard \cup {Manifest}

Phase == {"export", "ship", "submit", "poll", "fetch", "import", "index"}
Rank == [export |-> 1, ship |-> 2, submit |-> 3, poll |-> 4, fetch |-> 5,
         import |-> 6, index |-> 7]
Before(p) == {q \in Phase : Rank[q] < Rank[p]}

VARIABLES
  stamps, jobId,    \* the state file
  at, go, answer,   \* the run: where it is, whether it executes, what qsub said
  exported,         \* the directory has the shards and their manifest
  fetched, held,    \* their vectors in the directory and in the catalogue
  there, bin, meta, \* on the cluster: files shipped, vectors and their sidecars
  tat, todo,        \* a task: where it is and what it has to do
  reported,         \* a run has said that the relay is complete
  faults, slips

run == <<at, go, answer>>
local == <<exported, fetched, held>>
cluster == <<bin, meta, tat, todo>>
vars == <<stamps, jobId, run, local, there, cluster, reported, faults, slips>>

Init ==
  /\ stamps = {}
  /\ jobId = NoArray
  /\ at = "off"
  /\ go = FALSE
  /\ answer = NoArray
  /\ exported = FALSE
  /\ fetched = [s \in Shard |-> "none"]
  /\ held = [s \in Shard |-> "none"]
  /\ there = {}
  /\ bin = [s \in Shard |-> "none"]
  /\ meta = {}
  /\ tat = [k \in Array \X Task |-> "over"]
  /\ todo = [k \in Array \X Task |-> {}]
  /\ reported = FALSE
  /\ faults = {}
  /\ slips = 0

Slip == slips < MaxSlips /\ slips' = slips + 1
SlipIf(c) == IF c THEN Slip ELSE UNCHANGED slips
Fault(f) == Slip /\ faults' = faults \cup {f}

\* A run reaches a phase when every earlier one has its stamp.
Reached(p) == at = "on" /\ p \notin stamps /\ Before(p) \subseteq stamps
Stamp(p) == stamps' = stamps \cup {p}
Does(p) == Reached(p) /\ go /\ Stamp(p) /\ UNCHANGED <<jobId, run, reported>>

\* Steps without a stamp: within the run, and its end.
Goto(l) == at' = l /\ UNCHANGED <<stamps, jobId, go, reported>>
Ends == at' = "off" /\ go' = FALSE /\ UNCHANGED <<stamps, jobId>>

\* An array that qstat lists.
MutantLive(a) == a # NoArray /\ \E t \in Task : tat[a, t] \in {"load", "write"}
Live(a) == a # NoArray /\ \E t \in Task : tat[a, t] # "over"

-----------------------------------------------------------------------------
(* The run.                                                                *)

Start(g) ==
  /\ at = "off"
  /\ at' = "on"
  /\ go' = g
  /\ UNCHANGED <<stamps, jobId, answer, local, there, cluster, reported, faults, slips>>

\* A dry run prints the commands of the phase, and stamps it.
Plan(p) ==
  /\ Reached(p) /\ ~go
  /\ Stamp(p)
  /\ jobId' = IF p = "submit" THEN NoArray ELSE jobId
  /\ faults' = faults \cup {"dry"}
  /\ UNCHANGED <<run, local, there, cluster, reported, slips>>

Export ==
  /\ Does("export")
  /\ exported' = TRUE
  /\ UNCHANGED <<fetched, held, there, cluster, faults, slips>>

\* rsync may leave files behind; one that arrived in part counts as not there.
Ship(got) ==
  /\ Does("ship")
  /\ there' = IF exported THEN there \cup got ELSE there
  /\ SlipIf(got # File)
  /\ UNCHANGED <<local, cluster, faults>>

\* Shards without any vector file.
MutantRemaining == {s \in Shard \ there : bin[s] # "none"}
Remaining == {s \in there \cap Shard : bin[s] = "none" /\ s \notin meta}

\* qsub, the first time or because shards are left; its answer, and with it
\* the id, may be lost.
Submits ==
  /\ go
  /\ Reached("submit") \/ (at = "absent" /\ Remaining # {})
  /\ Goto("submitted")
  /\ UNCHANGED <<local, there, bin, meta, todo>>

Queue(a) ==
  /\ a # jobId /\ ~Live(a)
  /\ tat' = [k \in Array \X Task |-> IF k[1] = a THEN "queued" ELSE tat[k]]

Submit(a) == Submits /\ Queue(a) /\ answer' = a /\ UNCHANGED <<faults, slips>>
SubmitUnheard(a) == Submits /\ Queue(a) /\ answer' = NoArray /\ Fault("unheard")
SubmitFails == Submits /\ UNCHANGED tat /\ answer' = NoArray /\ Slip /\ UNCHANGED faults

Submitted ==
  /\ at = "submitted"
  /\ at' = "on"
  /\ jobId' = answer
  /\ answer' = NoArray
  /\ Stamp("submit")
  /\ UNCHANGED <<go, local, there, cluster, reported, faults, slips>>

\* The run waits while qstat lists the array.
Poll ==
  /\ Reached("poll") /\ go
  /\ UNCHANGED <<answer, local, there, cluster>>

Cleared == Poll /\ ~Live(jobId) /\ Goto("absent") /\ UNCHANGED <<faults, slips>>

\* qstat failed, and lists nothing.
Unlisted == Poll /\ Live(jobId) /\ Goto("absent") /\ Fault("blind")

\* The deadline or a cancel.
Stop == Poll /\ Ends /\ Slip /\ UNCHANGED <<reported, faults>>

\* No shard is left; or the count failed, and an unknown count is taken for none.
EndPoll ==
  /\ at = "absent"
  /\ at' = "on"
  /\ Stamp("poll")
  /\ \/ Remaining = {} /\ UNCHANGED <<faults, slips>>
     \/ Fault("blind")
  /\ UNCHANGED <<jobId, go, answer, local, there, cluster, reported>>

\* The two files of a shard arrive, or do not.
Fetch(got) ==
  /\ Does("fetch")
  /\ fetched' = [s \in Shard |-> IF s \in got \cap meta THEN bin[s] ELSE fetched[s]]
  /\ SlipIf(got # Shard)
  /\ UNCHANGED <<exported, held, there, cluster, faults>>

\* The import takes the shards in order.  It passes over one whose documents
\* all have vectors, and refuses one whose file is too short.
First(S) == {s \in S : \A r \in S : s <= r}
Torn == {s \in Shard : fetched[s] = "torn"}
MutantImportable == {s \in Shard : fetched[s] = "whole"}
Importable == {s \in Shard : fetched[s] = "whole" /\ held[s] = "none"}
Adding == {s \in Shard : held[s] = "adding"}

Importing ==
  /\ Reached("import") /\ go /\ Adding = {}
  /\ UNCHANGED <<answer, exported, fetched, there, cluster, faults, slips>>

\* The first vectors of the last document of the shard, and its last.
Add(s) ==
  /\ Importing
  /\ exported
  /\ s \in First(Importable \cup Torn) \ Torn
  /\ held' = [held EXCEPT ![s] = "adding"]
  /\ Goto("on")

Added(s) ==
  /\ at = "on" /\ s \in Adding
  /\ held' = [held EXCEPT ![s] = "whole"]
  /\ UNCHANGED <<stamps, jobId, run, exported, fetched, there, cluster, reported,
                 faults, slips>>

Refuse ==
  /\ Importing
  /\ ~exported \/ First(Importable \cup Torn) \cap Torn # {}
  /\ Ends
  /\ UNCHANGED <<held, reported>>

Imported ==
  /\ Does("import")
  /\ exported /\ Adding = {}
  /\ Importable \cup Torn = {}
  /\ UNCHANGED <<local, there, cluster, faults, slips>>

Index == Does("index") /\ UNCHANGED <<local, there, cluster, faults, slips>>

Complete ==
  /\ at = "on"
  /\ stamps = Phase
  /\ Ends
  /\ reported' = (reported \/ go)
  /\ UNCHANGED <<answer, local, there, cluster, faults, slips>>

\* The process dies, or a command outlasts its timeout.  The id of a qsub is
\* lost, and a document that was being added keeps the vectors it has.
Die ==
  /\ at # "off"
  /\ Slip
  /\ Ends
  /\ answer' = NoArray
  /\ held' = [s \in Shard |-> IF s \in Adding THEN "part" ELSE held[s]]
  /\ faults' = IF at = "submitted" THEN faults \cup {"unheard"} ELSE faults
  /\ UNCHANGED <<exported, fetched, there, cluster, reported>>

-----------------------------------------------------------------------------
(* The tasks of an array.                                                  *)

Owner(s) == ((s - 1) % TaskCount) + 1
Mine(t) == {s \in Shard : Owner(s) = t}
MutantToDo(t) == Mine(t)
ToDo(t) == Mine(t) \ meta

\* The task goes on with S, which is left to do.
MutantGoesOn(k, S) == todo' = [todo EXCEPT ![k] = S] /\ tat' = [tat EXCEPT ![k] = "load"]
GoesOn(k, S) ==
  /\ todo' = [todo EXCEPT ![k] = S]
  /\ tat' = [tat EXCEPT ![k] = IF S = {} THEN "over" ELSE "load"]

\* A step of the task at l, on the first shard it has to do.
TaskAt(k, l) == tat[k] = l /\ UNCHANGED <<stamps, jobId, run, local, there, reported, faults>>
WorksOn(k, l, s) == TaskAt(k, l) /\ s \in First(todo[k]) /\ UNCHANGED slips

Begin(k) ==
  /\ TaskAt(k, "queued")
  /\ GoesOn(k, IF Manifest \in there THEN ToDo(k[2]) ELSE {})
  /\ UNCHANGED <<bin, meta, slips>>

\* The vectors are computed and their file is opened; then it has them all, and
\* a sidecar.  A task that is killed before the sidecar is written may leave the
\* file whole, which is the same to everyone.
Open(k, s) ==
  /\ WorksOn(k, "load", s)
  /\ s \in there
  /\ bin' = [bin EXCEPT ![s] = "torn"]
  /\ tat' = [tat EXCEPT ![k] = "write"]
  /\ UNCHANGED <<meta, todo>>

Write(k, s) ==
  /\ WorksOn(k, "write", s)
  /\ bin' = [bin EXCEPT ![s] = "whole"]
  /\ meta' = meta \cup {s}
  /\ GoesOn(k, todo[k] \ {s})

\* A shard that was not shipped ends the task.
Lacks(k, s) == WorksOn(k, "load", s) /\ s \notin there /\ GoesOn(k, {}) /\ UNCHANGED <<bin, meta>>

\* The wallclock, or the node.
Kill(k) ==
  /\ tat[k] # "over"
  /\ TaskAt(k, tat[k])
  /\ GoesOn(k, {})
  /\ Slip
  /\ UNCHANGED <<bin, meta>>

-----------------------------------------------------------------------------
Run ==
  \/ Export \/ \E got \in SUBSET File : Ship(got)
  \/ \E a \in Array : Submit(a) \/ SubmitUnheard(a)
  \/ SubmitFails \/ Submitted \/ Cleared \/ Unlisted \/ EndPoll
  \/ \E got \in SUBSET Shard : Fetch(got)
  \/ \E s \in Shard : Add(s) \/ Added(s)
  \/ Refuse \/ Imported \/ Index \/ Complete

Works(k) ==
  \/ Begin(k)
  \/ \E s \in Shard : Open(k, s) \/ Lacks(k, s) \/ Write(k, s)

Next ==
  \/ \E g \in BOOLEAN : Start(g)
  \/ \E p \in Phase : Plan(p)
  \/ Run \/ Stop \/ Die
  \/ \E k \in Array \X Task : Works(k) \/ Kill(k)

\* A person starts the relay for real again and again, a run goes on until it is
\* stopped, and the cluster runs what is queued.
Fairness ==
  /\ SF_vars(Start(TRUE))
  /\ WF_vars(Run \/ \E p \in Phase : Plan(p))
  /\ \A k \in Array \X Task : WF_vars(Works(k))

Spec == Init /\ [][Next]_vars /\ Fairness

-----------------------------------------------------------------------------
TypeOK ==
  /\ stamps \subseteq Phase
  /\ jobId \in Array \cup {NoArray} /\ answer \in Array \cup {NoArray}
  /\ at \in {"off", "on", "submitted", "absent"}
  /\ go \in BOOLEAN
  /\ exported \in BOOLEAN
  /\ fetched \in [Shard -> {"none", "torn", "whole"}]
  /\ held \in [Shard -> {"none", "adding", "part", "whole"}]
  /\ there \subseteq File
  /\ bin \in [Shard -> {"none", "torn", "whole"}]
  /\ meta \subseteq Shard
  /\ tat \in [Array \X Task -> {"queued", "load", "write", "over"}]
  /\ todo \in [Array \X Task -> SUBSET Shard]
  /\ \A k \in Array \X Task : tat[k] \in {"queued", "over"} <=> todo[k] = {}
  /\ reported \in BOOLEAN
  /\ faults \subseteq {"dry", "unheard", "blind"}
  /\ slips \in 0..MaxSlips

\* One array works at a time, through stops, crashes, kills and resubmissions,
\* unless the id of one was lost or qstat failed: two arrays compute, and pay
\* for, the same shards.
OneArray ==
  faults = {} => \A a, b \in Array : Live(a) /\ Live(b) => a = b

\* A shard that is finished is not computed again, and its vectors stay as they
\* are for whoever fetches them.
FinishedStays ==
  [][faults = {} => \A s \in meta : s \in meta' /\ bin'[s] = bin[s]]_vars

\* What the stamps in the state file stand for, over stops, crashes, kills, lost
\* ids and resubmissions: the shards are exported; no shipped shard is without a
\* vector file, whoever computed it; and all that was fetched is in the
\* catalogue, but for the document a run died in, which the import passes over.
\* A planned phase has a stamp and nothing behind it, and a failed count stands
\* for none: these two are left out.  A file that was opened and not finished
\* counts for the poll as for remaining_shards, so "all shards embedded" is more
\* than the stamp of the poll says.
StampsHold ==
  "dry" \notin faults =>
    /\ "export" \in stamps => exported
    /\ "poll" \in stamps /\ "blind" \notin faults =>
         \A s \in there \cap Shard : bin[s] # "none" \/ s \in meta
    /\ "import" \in stamps =>
         \A s \in Shard : fetched[s] = "none" \/ held[s] \in {"part", "whole"}

\* How far a shard has come, read off from where its files are.
Place(s) ==
  IF held[s] # "none" THEN held[s]
  ELSE IF fetched[s] # "none" THEN "fetched"
  ELSE IF s \in meta THEN "embedded"
  ELSE IF s \in there THEN "shipped"
  ELSE IF exported THEN "exported" ELSE "none"

\* Every shard goes from the export to the catalogue by all its stages and by
\* each once, also when stamps are planned, ids are lost, two arrays compute it
\* and a count that failed is taken for none.
Journey == INSTANCE Shards WITH place <- [s \in Shard |-> Place(s)]
ShardsTravel == Journey!Spec

\* A relay whose files were shipped is complete in the end, however often its
\* runs are stopped and its tasks are killed.
Sound == faults = {} /\ ("ship" \in stamps => File \subseteq there)
=============================================================================
