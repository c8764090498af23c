------------------------ MODULE OrchestratorProofs -------------------------
(***************************************************************************)
(* Proofs about Orchestrator, for any number of shards, tasks, arrays and   *)
(* slips.                                                                   *)
(*                                                                         *)
(* The invariant says that the stamps are in order and, while no failure    *)
(* was taken for an answer, that a live array is the one whose id the run   *)
(* has in hand or in its file; that no task has a finished shard before it; *)
(* and that a sidecar stands for a whole file.                              *)
(***************************************************************************)
EXTENDS Orchestrator, TLAPS

\* The types, in three parts.
RunTypes ==
  /\ stamps \subseteq Phase
  /\ jobId \in Array \cup {NoArray} /\ answer \in Array \cup {NoArray}
  /\ at \in {"off", "on", "submitted", "absent"}
  /\ go \in BOOLEAN /\ exported \in BOOLEAN /\ reported \in BOOLEAN
  /\ there \subseteq File /\ meta \subseteq Shard
  /\ faults \subseteq {"dry", "unheard", "blind"}
  /\ slips \in 0..MaxSlips

VectorTypes ==
  /\ fetched \in [Shard -> {"none", "torn", "whole"}]
  /\ held \in [Shard -> {"none", "adding", "part", "whole"}]
  /\ bin \in [Shard -> {"none", "torn", "whole"}]

TaskTypes ==
  /\ tat \in [Array \X Task -> {"queued", "load", "write", "over"}]
  /\ todo \in [Array \X Task -> SUBSET Shard]
  /\ \A k \in Array \X Task : tat[k] \in {"queued", "over"} <=> todo[k] = {}

\* The stamps are in order.
InOrder ==
  /\ \A p \in stamps : Before(p) \subseteq stamps
  /\ at \in {"submitted", "absent"} => Before("submit") \subseteq stamps /\ "poll" \notin stamps
  /\ at = "absent" => "submit" \in stamps

\* Who knows of an array that is alive.
Known ==
  \A a \in Array : Live(a) =>
    /\ "poll" \notin stamps
    /\ at # "absent"
    /\ at = "submitted" => answer = a
    /\ at # "submitted" => jobId = a /\ "submit" \in stamps

\* A task has its own shards before it, none of them finished.
Ahead == \A k \in Array \X Task : todo[k] \subseteq Mine(k[2]) \ meta

\* A sidecar stands for a whole file, here and there.
Whole == (\A s \in meta : bin[s] = "whole") /\ Torn = {}

Sane == Known /\ Ahead /\ Whole
IInv == TypeOK /\ InOrder /\ (faults = {} => Sane)

LEMMA Phases ==
  /\ Before("export") = {}
  /\ Before("ship") = {"export"}
  /\ Before("submit") = {"export", "ship"}
  /\ Before("poll") = {"export", "ship", "submit"}
  /\ Before("fetch") = {"export", "ship", "submit", "poll"}
  /\ Before("import") = {"export", "ship", "submit", "poll", "fetch"}
  /\ Before("index") = {"export", "ship", "submit", "poll", "fetch", "import"}
BY DEF Before, Phase, Rank

LEMMA InitInv == Init => IInv
<1> SUFFICES ASSUME Init PROVE IInv
    OBVIOUS
<1>1. TypeOK
  <2>1. tat \in [Array \X Task -> {"queued", "load", "write", "over"}]
    BY DEF Init
  <2>2. todo \in [Array \X Task -> SUBSET Shard]
    BY DEF Init
  <2>3. \A k \in Array \X Task : tat[k] \in {"queued", "over"} <=> todo[k] = {}
    BY DEF Init
  <2>4. slips \in 0..MaxSlips
    BY OrchestratorAssumption DEF Init
  <2> QED
    BY <2>1, <2>2, <2>3, <2>4 DEF Init, TypeOK
<1>2. InOrder
  BY DEF Init, InOrder
<1>3. Known
  BY DEF Init, Known, Live
<1>4. Ahead /\ Whole
  BY DEF Init, Ahead, Whole, Torn
<1> QED
  BY <1>1, <1>2, <1>3, <1>4 DEF IInv, Sane


-----------------------------------------------------------------------------
(* Types.                                                                  *)

LEMMA SlipTypes ==
  ASSUME slips \in 0..MaxSlips
  PROVE  /\ Slip => slips' \in 0..MaxSlips
         /\ \A c \in BOOLEAN : SlipIf(c) => slips' \in 0..MaxSlips
BY OrchestratorAssumption DEF Slip, SlipIf

\* The tasks of an array that is not alive are over.
LEMMA Idle ==
  ASSUME NEW a \in Array, ~Live(a), NEW k \in Array \X Task, k[1] = a,
         tat \in [Array \X Task -> {"queued", "load", "write", "over"}]
  PROVE  tat[k] = "over"
<1>1. k = <<a, k[2]>> /\ k[2] \in Task
  OBVIOUS
<1> QED
  BY <1>1, OrchestratorAssumption DEF Live

LEMMA QueueTypes ==
  ASSUME TaskTypes, NEW a \in Array, Queue(a), todo' = todo
  PROVE  TaskTypes'
<1>1. \A k \in Array \X Task : k[1] = a => tat[k] = "over"
  BY Idle DEF Queue, TaskTypes
<1>2. tat' = [k \in Array \X Task |-> IF k[1] = a THEN "queued" ELSE tat[k]]
  BY DEF Queue
<1> QED
  BY <1>1, <1>2 DEF TaskTypes

LEMMA ToDoTypes == \A t \in Task : ToDo(t) \subseteq Shard /\ ToDo(t) \subseteq Mine(t) \ meta
BY DEF ToDo, Mine

LEMMA BeginTypes ==
  ASSUME TaskTypes, NEW k \in Array \X Task, Begin(k)
  PROVE  TaskTypes'
<1> DEFINE S == IF Manifest \in there THEN ToDo(k[2]) ELSE {}
<1>1. k[2] \in Task
  OBVIOUS
<1>2. S \subseteq Shard
  BY <1>1, ToDoTypes
<1>3. GoesOn(k, S)
  BY DEF Begin
<1> HIDE DEF S
<1> QED
  BY <1>2, <1>3 DEF TaskTypes, GoesOn

LEMMA RunTypesInv ==
  ASSUME RunTypes, [Next]_vars
  PROVE  RunTypes'
<1> USE OrchestratorAssumption
<1>1. ASSUME NEW g \in BOOLEAN, Start(g)
     PROVE  RunTypes'
  BY <1>1, SlipTypes DEF Start, RunTypes, local, cluster
<1>2. ASSUME NEW p \in Phase, Plan(p)
     PROVE  RunTypes'
  BY <1>2, SlipTypes DEF Plan, Stamp, run, RunTypes, local, cluster
<1>3. CASE Export
  BY <1>3, SlipTypes DEF Export, Does, Stamp, run, RunTypes, cluster, Phase
<1>4. ASSUME NEW got \in SUBSET File, Ship(got)
     PROVE  RunTypes'
  BY <1>4, SlipTypes DEF Ship, Does, Stamp, run, RunTypes, local, cluster, Phase
<1>5. ASSUME NEW a \in Array, Submit(a)
     PROVE  RunTypes'
  BY <1>5, SlipTypes DEF Submit, Submits, Goto, RunTypes, local
<1>6. ASSUME NEW a \in Array, SubmitUnheard(a)
     PROVE  RunTypes'
  BY <1>6, SlipTypes DEF SubmitUnheard, Submits, Goto, Fault, RunTypes, local
<1>7. CASE SubmitFails
  BY <1>7, SlipTypes DEF SubmitFails, Submits, Goto, RunTypes, local
<1>8. CASE Submitted
  BY <1>8, SlipTypes DEF Submitted, Stamp, RunTypes, local, cluster, Phase
<1>9. CASE Cleared
  BY <1>9, SlipTypes DEF Cleared, Poll, Goto, RunTypes, local, cluster
<1>10. CASE Unlisted
  BY <1>10, SlipTypes DEF Unlisted, Poll, Goto, Fault, RunTypes, local, cluster
<1>11. CASE EndPoll
  BY <1>11, SlipTypes DEF EndPoll, Stamp, Fault, RunTypes, local, cluster, Phase
<1>12. ASSUME NEW got \in SUBSET Shard, Fetch(got)
      PROVE  RunTypes'
  BY <1>12, SlipTypes DEF Fetch, Does, Stamp, run, RunTypes, cluster, Phase
<1>13. ASSUME NEW s \in Shard, Add(s)
      PROVE  RunTypes'
  BY <1>13, SlipTypes DEF Add, Importing, Goto, RunTypes, cluster
<1>14. ASSUME NEW s \in Shard, Added(s)
      PROVE  RunTypes'
  BY <1>14, SlipTypes DEF Added, run, RunTypes, cluster
<1>15. CASE Refuse
  BY <1>15, SlipTypes DEF Refuse, Importing, Ends, RunTypes, cluster
<1>16. CASE Imported
  BY <1>16, SlipTypes DEF Imported, Does, Stamp, run, RunTypes, local, cluster, Phase
<1>17. CASE Index
  BY <1>17, SlipTypes DEF Index, Does, Stamp, run, RunTypes, local, cluster, Phase
<1>18. CASE Complete
  BY <1>18 DEF Complete, Ends, RunTypes, local, cluster
<1>19. CASE Stop
  BY <1>19, SlipTypes DEF Stop, Poll, Ends, RunTypes, local, cluster
<1>20. CASE Die
  BY <1>20, SlipTypes DEF Die, Ends, RunTypes, cluster
<1>21. ASSUME NEW k \in Array \X Task, Begin(k)
      PROVE  RunTypes'
  BY <1>21, SlipTypes DEF Begin, TaskAt, run, RunTypes, local
<1>22. ASSUME NEW k \in Array \X Task, NEW s \in Shard, Open(k, s)
      PROVE  RunTypes'
  BY <1>22, SlipTypes DEF Open, WorksOn, TaskAt, run, RunTypes, local
<1>23. ASSUME NEW k \in Array \X Task, NEW s \in Shard, Lacks(k, s)
      PROVE  RunTypes'
  BY <1>23, SlipTypes DEF Lacks, WorksOn, TaskAt, run, RunTypes, local
<1>24. ASSUME NEW k \in Array \X Task, NEW s \in Shard, Write(k, s)
      PROVE  RunTypes'
  BY <1>24, SlipTypes DEF Write, WorksOn, TaskAt, run, RunTypes, local
<1>25. ASSUME NEW k \in Array \X Task, Kill(k)
      PROVE  RunTypes'
  BY <1>25, SlipTypes DEF Kill, TaskAt, run, RunTypes, local
<1>26. CASE UNCHANGED vars
  BY <1>26 DEF RunTypes, local, cluster, vars, run
<1> QED
  BY <1>1, <1>2, <1>3, <1>4, <1>5, <1>6, <1>7, <1>8, <1>9, <1>10, <1>11, <1>12, <1>13, <1>14, <1>15, <1>16, <1>17, <1>18, <1>19, <1>20, <1>21, <1>22, <1>23, <1>24, <1>25, <1>26 DEF Next, Run, Works

LEMMA VectorTypesInv ==
  ASSUME VectorTypes, [Next]_vars
  PROVE  VectorTypes'
<1>1. ASSUME NEW g \in BOOLEAN, Start(g)
     PROVE  VectorTypes'
  BY <1>1 DEF Start, VectorTypes, local, cluster
<1>2. ASSUME NEW p \in Phase, Plan(p)
     PROVE  VectorTypes'
  BY <1>2 DEF Plan, VectorTypes, local, cluster
<1>3. CASE Export
  BY <1>3 DEF Export, VectorTypes, cluster
<1>4. ASSUME NEW got \in SUBSET File, Ship(got)
     PROVE  VectorTypes'
  BY <1>4 DEF Ship, VectorTypes, local, cluster
<1>5. ASSUME NEW a \in Array, Submit(a)
     PROVE  VectorTypes'
  BY <1>5 DEF Submit, Submits, VectorTypes, local
<1>6. ASSUME NEW a \in Array, SubmitUnheard(a)
     PROVE  VectorTypes'
  BY <1>6 DEF SubmitUnheard, Submits, VectorTypes, local
<1>7. CASE SubmitFails
  BY <1>7 DEF SubmitFails, Submits, VectorTypes, local
<1>8. CASE Submitted
  BY <1>8 DEF Submitted, VectorTypes, local, cluster
<1>9. CASE Cleared
  BY <1>9 DEF Cleared, Poll, VectorTypes, local, cluster
<1>10. CASE Unlisted
  BY <1>10 DEF Unlisted, Poll, VectorTypes, local, cluster
<1>11. CASE EndPoll
  BY <1>11 DEF EndPoll, VectorTypes, local, cluster
<1>12. ASSUME NEW got \in SUBSET Shard, Fetch(got)
      PROVE  VectorTypes'
  BY <1>12 DEF Fetch, VectorTypes, cluster
<1>13. ASSUME NEW s \in Shard, Add(s)
      PROVE  VectorTypes'
  BY <1>13 DEF Add, Importing, VectorTypes, cluster
<1>14. ASSUME NEW s \in Shard, Added(s)
      PROVE  VectorTypes'
  BY <1>14 DEF Added, VectorTypes, cluster
<1>15. CASE Refuse
  BY <1>15 DEF Refuse, Importing, VectorTypes, cluster
<1>16. CASE Imported
  BY <1>16 DEF Imported, VectorTypes, local, cluster
<1>17. CASE Index
  BY <1>17 DEF Index, VectorTypes, local, cluster
<1>18. CASE Complete
  BY <1>18 DEF Complete, VectorTypes, local, cluster
<1>19. CASE Stop
  BY <1>19 DEF Stop, Poll, VectorTypes, local, cluster
<1>20. CASE Die
  BY <1>20 DEF Die, VectorTypes, cluster
<1>21. ASSUME NEW k \in Array \X Task, Begin(k)
      PROVE  VectorTypes'
  BY <1>21 DEF Begin, TaskAt, VectorTypes, local
<1>22. ASSUME NEW k \in Array \X Task, NEW s \in Shard, Open(k, s)
      PROVE  VectorTypes'
  BY <1>22 DEF Open, WorksOn, TaskAt, VectorTypes, local
<1>23. ASSUME NEW k \in Array \X Task, NEW s \in Shard, Lacks(k, s)
      PROVE  VectorTypes'
  BY <1>23 DEF Lacks, WorksOn, TaskAt, VectorTypes, local
<1>24. ASSUME NEW k \in Array \X Task, NEW s \in Shard, Write(k, s)
      PROVE  VectorTypes'
  BY <1>24 DEF Write, WorksOn, TaskAt, VectorTypes, local
<1>25. ASSUME NEW k \in Array \X Task, Kill(k)
      PROVE  VectorTypes'
  BY <1>25 DEF Kill, TaskAt, VectorTypes, local
<1>26. CASE UNCHANGED vars
  BY <1>26 DEF VectorTypes, local, cluster, vars
<1> QED
  BY <1>1, <1>2, <1>3, <1>4, <1>5, <1>6, <1>7, <1>8, <1>9, <1>10, <1>11, <1>12, <1>13, <1>14, <1>15, <1>16, <1>17, <1>18, <1>19, <1>20, <1>21, <1>22, <1>23, <1>24, <1>25, <1>26 DEF Next, Run, Works

LEMMA TaskTypesInv ==
  ASSUME TaskTypes, [Next]_vars
  PROVE  TaskTypes'
<1>1. ASSUME NEW g \in BOOLEAN, Start(g)
     PROVE  TaskTypes'
  BY <1>1 DEF Start, TaskTypes, cluster
<1>2. ASSUME NEW p \in Phase, Plan(p)
     PROVE  TaskTypes'
  BY <1>2 DEF Plan, TaskTypes, cluster
<1>3. CASE Export
  BY <1>3 DEF Export, TaskTypes, cluster
<1>4. ASSUME NEW got \in SUBSET File, Ship(got)
     PROVE  TaskTypes'
  BY <1>4 DEF Ship, TaskTypes, cluster
<1>5. ASSUME NEW a \in Array, Submit(a)
     PROVE  TaskTypes'
  BY <1>5, QueueTypes DEF Submit, Submits
<1>6. ASSUME NEW a \in Array, SubmitUnheard(a)
     PROVE  TaskTypes'
  BY <1>6, QueueTypes DEF SubmitUnheard, Submits
<1>7. CASE SubmitFails
  BY <1>7 DEF SubmitFails, Submits, TaskTypes
<1>8. CASE Submitted
  BY <1>8 DEF Submitted, TaskTypes, cluster
<1>9. CASE Cleared
  BY <1>9 DEF Cleared, Poll, TaskTypes, cluster
<1>10. CASE Unlisted
  BY <1>10 DEF Unlisted, Poll, TaskTypes, cluster
<1>11. CASE EndPoll
  BY <1>11 DEF EndPoll, TaskTypes, cluster
<1>12. ASSUME NEW got \in SUBSET Shard, Fetch(got)
      PROVE  TaskTypes'
  BY <1>12 DEF Fetch, TaskTypes, cluster
<1>13. ASSUME NEW s \in Shard, Add(s)
      PROVE  TaskTypes'
  BY <1>13 DEF Add, Importing, TaskTypes, cluster
<1>14. ASSUME NEW s \in Shard, Added(s)
      PROVE  TaskTypes'
  BY <1>14 DEF Added, TaskTypes, cluster
<1>15. CASE Refuse
  BY <1>15 DEF Refuse, Importing, TaskTypes, cluster
<1>16. CASE Imported
  BY <1>16 DEF Imported, TaskTypes, cluster
<1>17. CASE Index
  BY <1>17 DEF Index, TaskTypes, cluster
<1>18. CASE Complete
  BY <1>18 DEF Complete, TaskTypes, cluster
<1>19. CASE Stop
  BY <1>19 DEF Stop, Poll, TaskTypes, cluster
<1>20. CASE Die
  BY <1>20 DEF Die, TaskTypes, cluster
<1>21. ASSUME NEW k \in Array \X Task, Begin(k)
      PROVE  TaskTypes'
  BY <1>21, BeginTypes
<1>22. ASSUME NEW k \in Array \X Task, NEW s \in Shard, Open(k, s)
      PROVE  TaskTypes'
  BY <1>22 DEF Open, WorksOn, First, TaskTypes
<1>23. ASSUME NEW k \in Array \X Task, NEW s \in Shard, Lacks(k, s)
      PROVE  TaskTypes'
  BY <1>23 DEF Lacks, GoesOn, TaskTypes
<1>24. ASSUME NEW k \in Array \X Task, NEW s \in Shard, Write(k, s)
      PROVE  TaskTypes'
  BY <1>24 DEF Write, GoesOn, TaskTypes
<1>25. ASSUME NEW k \in Array \X Task, Kill(k)
      PROVE  TaskTypes'
  BY <1>25 DEF Kill, GoesOn, TaskTypes
<1>26. CASE UNCHANGED vars
  BY <1>26 DEF TaskTypes, cluster, vars
<1> QED
  BY <1>1, <1>2, <1>3, <1>4, <1>5, <1>6, <1>7, <1>8, <1>9, <1>10, <1>11, <1>12, <1>13, <1>14, <1>15, <1>16, <1>17, <1>18, <1>19, <1>20, <1>21, <1>22, <1>23, <1>24, <1>25, <1>26 DEF Next, Run, Works

LEMMA TypeInv ==
  ASSUME TypeOK, [Next]_vars
  PROVE  TypeOK'
<1>1. RunTypes /\ VectorTypes /\ TaskTypes
  BY DEF TypeOK, RunTypes, VectorTypes, TaskTypes
<1>2. RunTypes' /\ VectorTypes' /\ TaskTypes'
  BY <1>1, RunTypesInv, VectorTypesInv, TaskTypesInv
<1> QED
  BY <1>2 DEF TypeOK, RunTypes, VectorTypes, TaskTypes

-----------------------------------------------------------------------------
(* The stamps.                                                             *)

LEMMA InOrderInv ==
  ASSUME TypeOK, InOrder, [Next]_vars
  PROVE  InOrder'
<1>1. ASSUME NEW g \in BOOLEAN, Start(g)
     PROVE  InOrder'
  BY <1>1, Phases DEF Start, InOrder
<1>2. ASSUME NEW p \in Phase, Plan(p)
     PROVE  InOrder'
  BY <1>2, Phases DEF Plan, Reached, Stamp, run, InOrder
<1>3. CASE Export
  BY <1>3, Phases DEF Export, Does, Stamp, run, InOrder
<1>4. ASSUME NEW got \in SUBSET File, Ship(got)
     PROVE  InOrder'
  BY <1>4, Phases DEF Ship, Does, Reached, Stamp, run, InOrder
<1>5. ASSUME NEW a \in Array, Submit(a)
     PROVE  InOrder'
  BY <1>5, Phases DEF Submit, Submits, Goto, Reached, InOrder
<1>6. ASSUME NEW a \in Array, SubmitUnheard(a)
     PROVE  InOrder'
  BY <1>6, Phases DEF SubmitUnheard, Submits, Goto, Reached, InOrder
<1>7. CASE SubmitFails
  BY <1>7, Phases DEF SubmitFails, Submits, Goto, Reached, InOrder
<1>8. CASE Submitted
  BY <1>8, Phases DEF Submitted, Stamp, InOrder
<1>9. CASE Cleared
  BY <1>9, Phases DEF Cleared, Poll, Reached, Goto, InOrder
<1>10. CASE Unlisted
  BY <1>10, Phases DEF Unlisted, Poll, Reached, Goto, InOrder
<1>11. CASE EndPoll
  BY <1>11, Phases DEF EndPoll, Stamp, InOrder
<1>12. ASSUME NEW got \in SUBSET Shard, Fetch(got)
      PROVE  InOrder'
  BY <1>12, Phases DEF Fetch, Does, Reached, Stamp, run, InOrder
<1>13. ASSUME NEW s \in Shard, Add(s)
      PROVE  InOrder'
  BY <1>13, Phases DEF Add, Goto, InOrder
<1>14. ASSUME NEW s \in Shard, Added(s)
      PROVE  InOrder'
  BY <1>14, Phases DEF Added, run, InOrder
<1>15. CASE Refuse
  BY <1>15, Phases DEF Refuse, Ends, InOrder
<1>16. CASE Imported
  BY <1>16, Phases DEF Imported, Does, Reached, Stamp, run, InOrder
<1>17. CASE Index
  BY <1>17, Phases DEF Index, Does, Reached, Stamp, run, InOrder
<1>18. CASE Complete
  BY <1>18, Phases DEF Complete, Ends, InOrder
<1>19. CASE Stop
  BY <1>19, Phases DEF Stop, Ends, InOrder
<1>20. CASE Die
  BY <1>20, Phases DEF Die, Ends, InOrder
<1>21. ASSUME NEW k \in Array \X Task, Begin(k)
      PROVE  InOrder'
  BY <1>21 DEF Begin, TaskAt, run, InOrder
<1>22. ASSUME NEW k \in Array \X Task, NEW s \in Shard, Open(k, s)
      PROVE  InOrder'
  BY <1>22 DEF Open, WorksOn, TaskAt, run, InOrder
<1>23. ASSUME NEW k \in Array \X Task, NEW s \in Shard, Lacks(k, s)
      PROVE  InOrder'
  BY <1>23 DEF Lacks, WorksOn, TaskAt, run, InOrder
<1>24. ASSUME NEW k \in Array \X Task, NEW s \in Shard, Write(k, s)
      PROVE  InOrder'
  BY <1>24 DEF Write, WorksOn, TaskAt, run, InOrder
<1>25. ASSUME NEW k \in Array \X Task, Kill(k)
      PROVE  InOrder'
  BY <1>25 DEF Kill, TaskAt, run, InOrder
<1>26. CASE UNCHANGED vars
  BY <1>26 DEF InOrder, vars, run
<1> QED
  BY <1>1, <1>2, <1>3, <1>4, <1>5, <1>6, <1>7, <1>8, <1>9, <1>10, <1>11, <1>12, <1>13, <1>14, <1>15, <1>16, <1>17, <1>18, <1>19, <1>20, <1>21, <1>22, <1>23, <1>24, <1>25, <1>26 DEF Next, Run, Works

\* Neither a failure nor a stamp is forgotten.
LEMMA Monotone ==
  ASSUME [Next]_vars
  PROVE  (faults' = {} => faults = {}) /\ stamps \subseteq stamps'
<1>1. ASSUME NEW g \in BOOLEAN, Start(g)
     PROVE  (faults' = {} => faults = {}) /\ stamps \subseteq stamps'
  BY <1>1 DEF Start
<1>2. ASSUME NEW p \in Phase, Plan(p)
     PROVE  (faults' = {} => faults = {}) /\ stamps \subseteq stamps'
  BY <1>2 DEF Plan, Stamp
<1>3. CASE Export
  BY <1>3 DEF Export, Does, Stamp
<1>4. ASSUME NEW got \in SUBSET File, Ship(got)
     PROVE  (faults' = {} => faults = {}) /\ stamps \subseteq stamps'
  BY <1>4 DEF Ship, Does, Stamp
<1>5. ASSUME NEW a \in Array, Submit(a)
     PROVE  (faults' = {} => faults = {}) /\ stamps \subseteq stamps'
  BY <1>5 DEF Submit, Submits, Goto
<1>6. ASSUME NEW a \in Array, SubmitUnheard(a)
     PROVE  (faults' = {} => faults = {}) /\ stamps \subseteq stamps'
  BY <1>6 DEF SubmitUnheard, Submits, Goto, Fault
<1>7. CASE SubmitFails
  BY <1>7 DEF SubmitFails, Submits, Goto
<1>8. CASE Submitted
  BY <1>8 DEF Submitted, Stamp
<1>9. CASE Cleared
  BY <1>9 DEF Cleared, Goto
<1>10. CASE Unlisted
  BY <1>10 DEF Unlisted, Goto, Fault
<1>11. CASE EndPoll
  BY <1>11 DEF EndPoll, Stamp, Fault
<1>12. ASSUME NEW got \in SUBSET Shard, Fetch(got)
      PROVE  (faults' = {} => faults = {}) /\ stamps \subseteq stamps'
  BY <1>12 DEF Fetch, Does, Stamp
<1>13. ASSUME NEW s \in Shard, Add(s)
      PROVE  (faults' = {} => faults = {}) /\ stamps \subseteq stamps'
  BY <1>13 DEF Add, Importing, Goto
<1>14. ASSUME NEW s \in Shard, Added(s)
      PROVE  (faults' = {} => faults = {}) /\ stamps \subseteq stamps'
  BY <1>14 DEF Added
<1>15. CASE Refuse
  BY <1>15 DEF Refuse, Importing, Ends
<1>16. CASE Imported
  BY <1>16 DEF Imported, Does, Stamp
<1>17. CASE Index
  BY <1>17 DEF Index, Does, Stamp
<1>18. CASE Complete
  BY <1>18 DEF Complete, Ends
<1>19. CASE Stop
  BY <1>19 DEF Stop, Ends
<1>20. CASE Die
  BY <1>20 DEF Die, Ends
<1>21. ASSUME NEW k \in Array \X Task, Begin(k)
      PROVE  (faults' = {} => faults = {}) /\ stamps \subseteq stamps'
  BY <1>21 DEF Begin, TaskAt
<1>22. ASSUME NEW k \in Array \X Task, NEW s \in Shard, Open(k, s)
      PROVE  (faults' = {} => faults = {}) /\ stamps \subseteq stamps'
  BY <1>22 DEF Open, WorksOn, TaskAt
<1>23. ASSUME NEW k \in Array \X Task, NEW s \in Shard, Lacks(k, s)
      PROVE  (faults' = {} => faults = {}) /\ stamps \subseteq stamps'
  BY <1>23 DEF Lacks, WorksOn, TaskAt
<1>24. ASSUME NEW k \in Array \X Task, NEW s \in Shard, Write(k, s)
      PROVE  (faults' = {} => faults = {}) /\ stamps \subseteq stamps'
  BY <1>24 DEF Write, WorksOn, TaskAt
<1>25. ASSUME NEW k \in Array \X Task, Kill(k)
      PROVE  (faults' = {} => faults = {}) /\ stamps \subseteq stamps'
  BY <1>25 DEF Kill, TaskAt
<1>26. CASE UNCHANGED vars
  BY <1>26 DEF vars
<1> QED
  BY <1>1, <1>2, <1>3, <1>4, <1>5, <1>6, <1>7, <1>8, <1>9, <1>10, <1>11, <1>12, <1>13, <1>14, <1>15, <1>16, <1>17, <1>18, <1>19, <1>20, <1>21, <1>22, <1>23, <1>24, <1>25, <1>26 DEF Next, Run, Works

-----------------------------------------------------------------------------
(* Arrays.                                                                 *)

LEMMA StaysLive ==
  /\ tat' = tat => \A a \in Array : Live(a)' <=> Live(a)
  /\ (\A k \in Array \X Task : tat'[k] # "over" => tat[k] # "over")
       => \A a \in Array : Live(a)' => Live(a)
  /\ \A k \in Array \X Task : tat[k] # "over" => k[1] \in Array /\ Live(k[1])
<1>1. ASSUME NEW k \in Array \X Task
      PROVE  k[1] \in Array /\ k[2] \in Task /\ k = <<k[1], k[2]>>
  OBVIOUS
<1>2. ASSUME NEW k \in Array \X Task, tat[k] # "over"
      PROVE  Live(k[1])
  BY <1>1, <1>2, OrchestratorAssumption DEF Live
<1>3. (\A k \in Array \X Task : tat'[k] # "over" => tat[k] # "over")
       => \A a \in Array : Live(a)' => Live(a)
  BY OrchestratorAssumption DEF Live
<1>4. tat' = tat => \A a \in Array : Live(a)' <=> Live(a)
  BY DEF Live
<1> QED
  BY <1>1, <1>2, <1>3, <1>4

LEMMA NewlyLive ==
  ASSUME TypeOK, NEW a \in Array, Queue(a)
  PROVE  \A b \in Array : Live(b)' => b = a \/ Live(b)
BY OrchestratorAssumption DEF Queue, Live

LEMMA WorkLive ==
  ASSUME TypeOK, NEW k \in Array \X Task, Works(k) \/ Kill(k)
  PROVE  \A a \in Array : Live(a)' => Live(a)
<1>1. tat[k] # "over"
  BY DEF Works, Kill, Begin, Open, Lacks, Write, WorksOn, TaskAt
<1>2. \A j \in Array \X Task : j # k => tat'[j] = tat[j]
  BY DEF TypeOK, Works, Kill, Begin, Open, Lacks, Write, WorksOn, TaskAt, GoesOn
<1> QED
  BY <1>1, <1>2, StaysLive

LEMMA KnownInv ==
  ASSUME TypeOK, InOrder, Known, faults' = {}, [Next]_vars
  PROVE  Known'
<1>1. ASSUME NEW g \in BOOLEAN, Start(g)
     PROVE  Known'
  BY <1>1, StaysLive DEF Start, Known, cluster
<1>2. ASSUME NEW p \in Phase, Plan(p)
     PROVE  Known'
  BY <1>2, StaysLive DEF Plan
<1>3. CASE Export
  BY <1>3, StaysLive DEF Export, Does, Stamp, run, Known, cluster
<1>4. ASSUME NEW got \in SUBSET File, Ship(got)
     PROVE  Known'
  BY <1>4, StaysLive DEF Ship, Does, Stamp, run, Known, cluster
<1>5. ASSUME NEW a \in Array, Submit(a)
     PROVE  Known'
  BY <1>5, NewlyLive, Phases DEF Submit, Submits, Goto, Reached, Known, InOrder
<1>6. ASSUME NEW a \in Array, SubmitUnheard(a)
     PROVE  Known'
  BY <1>6, StaysLive DEF SubmitUnheard, Fault
<1>7. CASE SubmitFails
  BY <1>7, StaysLive DEF SubmitFails, Submits, Reached, Known
<1>8. CASE Submitted
  BY <1>8, StaysLive DEF Submitted, Stamp, Known, cluster
<1>9. CASE Cleared
  BY <1>9, StaysLive DEF Cleared, Poll, Reached, Known, cluster
<1>10. CASE Unlisted
  BY <1>10, StaysLive DEF Unlisted, Fault
<1>11. CASE EndPoll
  BY <1>11, StaysLive DEF EndPoll, Known, cluster
<1>12. ASSUME NEW got \in SUBSET Shard, Fetch(got)
      PROVE  Known'
  BY <1>12, StaysLive DEF Fetch, Does, Stamp, run, Known, cluster
<1>13. ASSUME NEW s \in Shard, Add(s)
      PROVE  Known'
  BY <1>13, StaysLive DEF Add, Importing, Reached, Goto, Known, cluster
<1>14. ASSUME NEW s \in Shard, Added(s)
      PROVE  Known'
  BY <1>14, StaysLive DEF Added, run, Known, cluster
<1>15. CASE Refuse
  BY <1>15, StaysLive DEF Refuse, Importing, Reached, Ends, Known, cluster
<1>16. CASE Imported
  BY <1>16, StaysLive DEF Imported, Does, Stamp, run, Known, cluster
<1>17. CASE Index
  BY <1>17, StaysLive DEF Index, Does, Stamp, run, Known, cluster
<1>18. CASE Complete
  BY <1>18, StaysLive DEF Complete, Known, cluster, Phase
<1>19. CASE Stop
  BY <1>19, StaysLive DEF Stop, Poll, Reached, Ends, Known, cluster
<1>20. CASE Die
  BY <1>20, StaysLive DEF Die, Ends, Known, cluster
<1>21. ASSUME NEW k \in Array \X Task, Begin(k)
      PROVE  Known'
  BY <1>21, WorkLive DEF Begin, Known, TaskAt, run, Works
<1>22. ASSUME NEW k \in Array \X Task, NEW s \in Shard, Open(k, s)
      PROVE  Known'
  BY <1>22, WorkLive DEF Open, Known, TaskAt, run, Works, WorksOn
<1>23. ASSUME NEW k \in Array \X Task, NEW s \in Shard, Lacks(k, s)
      PROVE  Known'
  BY <1>23, WorkLive DEF Lacks, Known, TaskAt, run, Works, WorksOn
<1>24. ASSUME NEW k \in Array \X Task, NEW s \in Shard, Write(k, s)
      PROVE  Known'
  BY <1>24, WorkLive DEF Write, Known, TaskAt, run, Works, WorksOn
<1>25. ASSUME NEW k \in Array \X Task, Kill(k)
      PROVE  Known'
  BY <1>25, WorkLive DEF Kill, Known, TaskAt, run
<1>26. CASE UNCHANGED vars
  BY <1>26, StaysLive DEF Known, cluster, vars, run
<1> QED
  BY <1>1, <1>2, <1>3, <1>4, <1>5, <1>6, <1>7, <1>8, <1>9, <1>10, <1>11, <1>12, <1>13, <1>14, <1>15, <1>16, <1>17, <1>18, <1>19, <1>20, <1>21, <1>22, <1>23, <1>24, <1>25, <1>26 DEF Next, Run, Works

-----------------------------------------------------------------------------
(* Files.                                                                  *)

\* While no failure was taken for an answer, live tasks are of one array.
LEMMA OneKnown ==
  ASSUME Known
  PROVE  OneArray
BY DEF Known, OneArray

\* A task has a shard of its own before it, which no other task has.
LEMMA Single ==
  ASSUME TypeOK, Sane, faults = {}, NEW k \in Array \X Task, NEW s \in todo[k],
         tat[k] # "over"
  PROVE  /\ s \in Shard /\ s \notin meta
         /\ \A j \in Array \X Task : j # k => s \notin todo[j]
<1>1. s \in Shard /\ s \notin meta /\ s \in Mine(k[2])
  BY DEF TypeOK, Sane, Ahead
<1>2. ASSUME NEW j \in Array \X Task, s \in todo[j]
      PROVE  j = k
  <2>1. tat[j] # "over"
    BY <1>2 DEF TypeOK
  <2>2. j[1] = k[1]
    BY <2>1, StaysLive, OneKnown DEF Sane, OneArray
  <2>3. j[2] = k[2]
    BY <1>1, <1>2 DEF Sane, Ahead, Mine
  <2> QED
    BY <2>2, <2>3
<1> QED
  BY <1>1, <1>2

\* Who changes what.
LEMMA Frames ==
  ASSUME [Next]_vars
  PROVE
  /\ Export \/ exported' = exported
  /\ (\E k \in Array \X Task : Works(k) \/ Kill(k))
       \/ (bin' = bin /\ meta' = meta /\ todo' = todo)
  /\ (\E got \in SUBSET File : Ship(got)) \/ there' = there
  /\ (\E got \in SUBSET Shard : Fetch(got)) \/ fetched' = fetched
  /\ (\E s \in Shard : Add(s) \/ Added(s)) \/ Die \/ held' = held
<1>1. ASSUME NEW g \in BOOLEAN, Start(g)
     PROVE  exported' = exported /\ bin' = bin /\ meta' = meta /\ todo' = todo /\ there' = there /\ fetched' = fetched /\ held' = held
  BY <1>1 DEF Start, local, cluster
<1>2. ASSUME NEW p \in Phase, Plan(p)
     PROVE  exported' = exported /\ bin' = bin /\ meta' = meta /\ todo' = todo /\ there' = there /\ fetched' = fetched /\ held' = held
  BY <1>2 DEF Plan, local, cluster
<1>3. ASSUME Export
     PROVE  bin' = bin /\ meta' = meta /\ todo' = todo /\ there' = there /\ fetched' = fetched /\ held' = held
  BY <1>3 DEF Export, cluster
<1>4. ASSUME NEW got \in SUBSET File, Ship(got)
     PROVE  exported' = exported /\ bin' = bin /\ meta' = meta /\ todo' = todo /\ fetched' = fetched /\ held' = held
  BY <1>4 DEF Ship, local, cluster
<1>5. ASSUME NEW a \in Array, Submit(a)
     PROVE  exported' = exported /\ bin' = bin /\ meta' = meta /\ todo' = todo /\ there' = there /\ fetched' = fetched /\ held' = held
  BY <1>5 DEF Submit, Submits, local
<1>6. ASSUME NEW a \in Array, SubmitUnheard(a)
     PROVE  exported' = exported /\ bin' = bin /\ meta' = meta /\ todo' = todo /\ there' = there /\ fetched' = fetched /\ held' = held
  BY <1>6 DEF SubmitUnheard, Submits, local
<1>7. ASSUME SubmitFails
     PROVE  exported' = exported /\ bin' = bin /\ meta' = meta /\ todo' = todo /\ there' = there /\ fetched' = fetched /\ held' = held
  BY <1>7 DEF SubmitFails, Submits, local
<1>8. ASSUME Submitted
     PROVE  exported' = exported /\ bin' = bin /\ meta' = meta /\ todo' = todo /\ there' = there /\ fetched' = fetched /\ held' = held
  BY <1>8 DEF Submitted, local, cluster
<1>9. ASSUME Cleared
     PROVE  exported' = exported /\ bin' = bin /\ meta' = meta /\ todo' = todo /\ there' = there /\ fetched' = fetched /\ held' = held
  BY <1>9 DEF Cleared, Poll, local, cluster
<1>10. ASSUME Unlisted
      PROVE  exported' = exported /\ bin' = bin /\ meta' = meta /\ todo' = todo /\ there' = there /\ fetched' = fetched /\ held' = held
  BY <1>10 DEF Unlisted, Poll, local, cluster
<1>11. ASSUME EndPoll
      PROVE  exported' = exported /\ bin' = bin /\ meta' = meta /\ todo' = todo /\ there' = there /\ fetched' = fetched /\ held' = held
  BY <1>11 DEF EndPoll, local, cluster
<1>12. ASSUME NEW got \in SUBSET Shard, Fetch(got)
      PROVE  exported' = exported /\ bin' = bin /\ meta' = meta /\ todo' = todo /\ there' = there /\ held' = held
  BY <1>12 DEF Fetch, cluster
<1>13. ASSUME NEW s \in Shard, Add(s)
      PROVE  exported' = exported /\ bin' = bin /\ meta' = meta /\ todo' = todo /\ there' = there /\ fetched' = fetched
  BY <1>13 DEF Add, Importing, cluster
<1>14. ASSUME NEW s \in Shard, Added(s)
      PROVE  exported' = exported /\ bin' = bin /\ meta' = meta /\ todo' = todo /\ there' = there /\ fetched' = fetched
  BY <1>14 DEF Added, cluster
<1>15. ASSUME Refuse
      PROVE  exported' = exported /\ bin' = bin /\ meta' = meta /\ todo' = todo /\ there' = there /\ fetched' = fetched /\ held' = held
  BY <1>15 DEF Refuse, Importing, cluster
<1>16. ASSUME Imported
      PROVE  exported' = exported /\ bin' = bin /\ meta' = meta /\ todo' = todo /\ there' = there /\ fetched' = fetched /\ held' = held
  BY <1>16 DEF Imported, local, cluster
<1>17. ASSUME Index
      PROVE  exported' = exported /\ bin' = bin /\ meta' = meta /\ todo' = todo /\ there' = there /\ fetched' = fetched /\ held' = held
  BY <1>17 DEF Index, local, cluster
<1>18. ASSUME Complete
      PROVE  exported' = exported /\ bin' = bin /\ meta' = meta /\ todo' = todo /\ there' = there /\ fetched' = fetched /\ held' = held
  BY <1>18 DEF Complete, local, cluster
<1>19. ASSUME Stop
      PROVE  exported' = exported /\ bin' = bin /\ meta' = meta /\ todo' = todo /\ there' = there /\ fetched' = fetched /\ held' = held
  BY <1>19 DEF Stop, Poll, local, cluster
<1>20. ASSUME Die
      PROVE  exported' = exported /\ bin' = bin /\ meta' = meta /\ todo' = todo /\ there' = there /\ fetched' = fetched
  BY <1>20 DEF Die, cluster
<1>21. ASSUME NEW k \in Array \X Task, Begin(k)
      PROVE  exported' = exported /\ there' = there /\ fetched' = fetched /\ held' = held
  BY <1>21 DEF Begin, TaskAt, local
<1>22. ASSUME NEW k \in Array \X Task, NEW s \in Shard, Open(k, s)
      PROVE  exported' = exported /\ there' = there /\ fetched' = fetched /\ held' = held
  BY <1>22 DEF Open, TaskAt, WorksOn, local
<1>23. ASSUME NEW k \in Array \X Task, NEW s \in Shard, Lacks(k, s)
      PROVE  exported' = exported /\ there' = there /\ fetched' = fetched /\ held' = held
  BY <1>23 DEF Lacks, TaskAt, WorksOn, local
<1>24. ASSUME NEW k \in Array \X Task, NEW s \in Shard, Write(k, s)
      PROVE  exported' = exported /\ there' = there /\ fetched' = fetched /\ held' = held
  BY <1>24 DEF Write, TaskAt, WorksOn, local
<1>25. ASSUME NEW k \in Array \X Task, Kill(k)
      PROVE  exported' = exported /\ there' = there /\ fetched' = fetched /\ held' = held
  BY <1>25 DEF Kill, TaskAt, local
<1>26. CASE UNCHANGED vars
  BY <1>26 DEF vars, local, cluster
<1> QED
  BY <1>1, <1>2, <1>3, <1>4, <1>5, <1>6, <1>7, <1>8, <1>9, <1>10, <1>11, <1>12, <1>13, <1>14, <1>15, <1>16, <1>17, <1>18, <1>19, <1>20, <1>21, <1>22, <1>23, <1>24, <1>25, <1>26 DEF Next, Run, Works

LEMMA AheadInv ==
  ASSUME TypeOK, Sane, faults = {}, [Next]_vars
  PROVE  Ahead'
<1>1. ASSUME NEW k \in Array \X Task, Begin(k)
     PROVE  Ahead'
  BY <1>1, ToDoTypes DEF Begin, GoesOn, Sane, Ahead
<1>2. ASSUME NEW k \in Array \X Task, NEW s \in Shard, Open(k, s)
     PROVE  Ahead'
  BY <1>2 DEF Open, Sane, Ahead
<1>3. ASSUME NEW k \in Array \X Task, NEW s \in Shard, Lacks(k, s)
     PROVE  Ahead'
  BY <1>3 DEF Lacks, GoesOn, Sane, Ahead
<1>4. ASSUME NEW k \in Array \X Task, NEW s \in Shard, Write(k, s)
     PROVE  Ahead'
  BY <1>4, Single DEF Write, WorksOn, GoesOn, First, Sane, Ahead, TypeOK
<1>5. ASSUME NEW k \in Array \X Task, Kill(k)
     PROVE  Ahead'
  BY <1>5 DEF Kill, GoesOn, Sane, Ahead
<1>6. CASE bin' = bin /\ meta' = meta /\ todo' = todo
  BY <1>6 DEF Sane, Ahead
<1> QED
  BY Frames, <1>1, <1>2, <1>3, <1>4, <1>5, <1>6 DEF Works

LEMMA WholeInv ==
  ASSUME TypeOK, Sane, faults = {}, [Next]_vars
  PROVE  Whole'
<1>1. ASSUME NEW got \in SUBSET Shard, Fetch(got)
     PROVE  Whole'
  BY <1>1 DEF Fetch, cluster, Sane, Whole, Torn
<1>2. ASSUME NEW k \in Array \X Task, Begin(k)
     PROVE  Whole'
  BY <1>2 DEF Begin, TaskAt, local, Sane, Whole, Torn
<1>3. ASSUME NEW k \in Array \X Task, NEW s \in Shard, Open(k, s)
     PROVE  Whole'
  BY <1>3, Single DEF Open, WorksOn, TaskAt, First, local, Sane, Whole, Torn
<1>4. ASSUME NEW k \in Array \X Task, NEW s \in Shard, Lacks(k, s)
     PROVE  Whole'
  BY <1>4 DEF Lacks, WorksOn, TaskAt, local, Sane, Whole, Torn
<1>5. ASSUME NEW k \in Array \X Task, NEW s \in Shard, Write(k, s)
     PROVE  Whole'
  BY <1>5 DEF Write, WorksOn, TaskAt, local, Sane, Whole, Torn, TypeOK
<1>6. ASSUME NEW k \in Array \X Task, Kill(k)
     PROVE  Whole'
  BY <1>6 DEF Kill, TaskAt, local, Sane, Whole, Torn
<1>7. CASE bin' = bin /\ meta' = meta /\ fetched' = fetched
  BY <1>7 DEF Sane, Whole, Torn
<1> QED
  BY Frames, <1>1, <1>2, <1>3, <1>4, <1>5, <1>6, <1>7 DEF Works

-----------------------------------------------------------------------------
(* What the stamps stand for.                                              *)

LEMMA StampsStep ==
  ASSUME TypeOK, InOrder, StampsHold, [Next]_vars
  PROVE  StampsHold'
<1> USE DEF StampsHold, Remaining
<1>1. ASSUME NEW g \in BOOLEAN, Start(g)
      PROVE  StampsHold'
  BY <1>1 DEF Start, local, cluster
<1>2. ASSUME NEW p \in Phase, Plan(p)
      PROVE  StampsHold'
  BY <1>2 DEF Plan
<1>3. ASSUME Export
      PROVE  StampsHold'
  BY <1>3, Phases DEF Export, Does, Reached, Stamp, cluster, InOrder
<1>4. ASSUME NEW got \in SUBSET File, Ship(got)
      PROVE  StampsHold'
  BY <1>4, Phases DEF Ship, Does, Reached, Stamp, local, cluster, InOrder
<1>5. ASSUME NEW a \in Array, Submit(a)
      PROVE  StampsHold'
  BY <1>5 DEF Submit, Submits, Goto, local
<1>6. ASSUME NEW a \in Array, SubmitUnheard(a)
      PROVE  StampsHold'
  BY <1>6 DEF SubmitUnheard, Submits, Goto, Fault, local
<1>7. ASSUME SubmitFails
      PROVE  StampsHold'
  BY <1>7 DEF SubmitFails, Submits, Goto, local
<1>8. ASSUME Submitted
      PROVE  StampsHold'
  BY <1>8 DEF Submitted, Stamp, local, cluster
<1>9. ASSUME Cleared
      PROVE  StampsHold'
  BY <1>9 DEF Cleared, Poll, Goto, local, cluster
<1>10. ASSUME Unlisted
       PROVE  StampsHold'
  BY <1>10 DEF Unlisted, Poll, Goto, Fault, local, cluster
<1>11. ASSUME EndPoll
       PROVE  StampsHold'
  BY <1>11 DEF EndPoll, Stamp, Fault, local, cluster
<1>12. ASSUME NEW got \in SUBSET Shard, Fetch(got)
       PROVE  StampsHold'
  BY <1>12, Phases DEF Fetch, Does, Reached, Stamp, cluster, InOrder
<1>13. ASSUME NEW s \in Shard, Add(s)
       PROVE  StampsHold'
  BY <1>13, Phases DEF Add, Importing, Reached, Goto, cluster, TypeOK, InOrder
<1>14. ASSUME NEW s \in Shard, Added(s)
       PROVE  StampsHold'
  BY <1>14 DEF Added, run, cluster, TypeOK
<1>15. ASSUME Refuse
       PROVE  StampsHold'
  BY <1>15 DEF Refuse, Importing, Ends, cluster
<1>16. ASSUME Imported
       PROVE  StampsHold'
  BY <1>16 DEF Imported, Does, Stamp, local, cluster, Importable, Adding, Torn, TypeOK
<1>17. ASSUME Index
       PROVE  StampsHold'
  BY <1>17 DEF Index, Does, Stamp, local, cluster
<1>18. ASSUME Complete
       PROVE  StampsHold'
  BY <1>18 DEF Complete, Ends, local, cluster
<1>19. ASSUME Stop
       PROVE  StampsHold'
  BY <1>19 DEF Stop, Poll, Ends, local, cluster
<1>20. ASSUME Die
       PROVE  StampsHold'
  BY <1>20 DEF Die, Ends, cluster, TypeOK
<1>21. ASSUME NEW k \in Array \X Task, Begin(k)
       PROVE  StampsHold'
  BY <1>21 DEF Begin, TaskAt, local
<1>22. ASSUME NEW k \in Array \X Task, NEW s \in Shard, Open(k, s)
       PROVE  StampsHold'
  BY <1>22 DEF Open, WorksOn, TaskAt, local, TypeOK
<1>23. ASSUME NEW k \in Array \X Task, NEW s \in Shard, Lacks(k, s)
       PROVE  StampsHold'
  BY <1>23 DEF Lacks, WorksOn, TaskAt, local
<1>24. ASSUME NEW k \in Array \X Task, NEW s \in Shard, Write(k, s)
       PROVE  StampsHold'
  BY <1>24 DEF Write, WorksOn, TaskAt, local, TypeOK
<1>25. ASSUME NEW k \in Array \X Task, Kill(k)
       PROVE  StampsHold'
  BY <1>25 DEF Kill, TaskAt, local
<1>26. CASE UNCHANGED vars
  BY <1>26 DEF vars, local, cluster
<1> QED
  BY <1>1, <1>2, <1>3, <1>4, <1>5, <1>6, <1>7, <1>8, <1>9, <1>10, <1>11, <1>12, <1>13, <1>14, <1>15, <1>16, <1>17, <1>18, <1>19, <1>20, <1>21, <1>22, <1>23, <1>24, <1>25, <1>26 DEF Next, Run, Works

-----------------------------------------------------------------------------
(* Theorems.                                                               *)

LEMMA NextInv ==
  ASSUME IInv, [Next]_vars
  PROVE  IInv'
<1>1. TypeOK' /\ InOrder'
  BY TypeInv, InOrderInv DEF IInv
<1>2. ASSUME faults' = {}
      PROVE  Sane'
  <2>1. faults = {} /\ Sane
    BY <1>2, Monotone DEF IInv
  <2>2. Known'
    BY <1>2, <2>1, KnownInv DEF IInv, Sane
  <2>3. Ahead' /\ Whole'
    BY <1>2, <2>1, AheadInv, WholeInv DEF IInv
  <2> QED
    BY <2>2, <2>3 DEF Sane
<1> QED
  BY <1>1, <1>2 DEF IInv

LEMMA Invariance == Spec => []IInv
<1>1. Init => IInv
  BY InitInv
<1>2. IInv /\ [Next]_vars => IInv'
  BY NextInv
<1> QED
  BY <1>1, <1>2, PTL DEF Spec

\* Every variable keeps its type.
THEOREM TypeCorrect == Spec => []TypeOK
<1>1. IInv => TypeOK
  BY DEF IInv
<1> QED
  BY <1>1, Invariance, PTL

\* One array works at a time, however often runs are stopped and tasks killed,
\* unless the id of one was lost or qstat failed: run_hpc_embed submits again
\* only when no task of its array is left.
THEOREM OneArrayWorks == Spec => []OneArray
<1>1. IInv => OneArray
  BY OneKnown DEF IInv, Sane, OneArray
<1> QED
  BY <1>1, Invariance, PTL

\* What the stamps stand for, through stops, crashes, kills, lost ids and
\* resubmissions: run_hpc_embed leaves the poll when no shipped shard is without
\* a file, and import_shards takes every shard that was fetched.
THEOREM StampsHoldAlways == Spec => []StampsHold
<1>1. Init => StampsHold
  BY DEF Init, StampsHold
<1>2. TypeOK /\ InOrder /\ StampsHold /\ [Next]_vars => StampsHold'
  BY StampsStep
<1>3. IInv => TypeOK /\ InOrder
  BY DEF IInv
<1> QED
  BY <1>1, <1>2, <1>3, Invariance, PTL DEF Spec

\* A finished shard is not computed again: while one array works, the tasks that
\* embed_shards.py starts have only shards without a sidecar before them.
THEOREM FinishedShardsStay == Spec => FinishedStays
<1>1. ASSUME IInv, [Next]_vars
      PROVE  [faults = {} => \A s \in meta : s \in meta' /\ bin'[s] = bin[s]]_vars
  <2> SUFFICES ASSUME faults = {}, NEW s \in meta
               PROVE  s \in meta' /\ bin'[s] = bin[s]
    OBVIOUS
  <2>1. ASSUME NEW k \in Array \X Task, NEW r \in Shard, Open(k, r) \/ Write(k, r)
        PROVE  s \in meta' /\ bin'[s] = bin[s]
    <3>1. r \in todo[k] /\ tat[k] # "over"
      BY <2>1 DEF Open, Write, WorksOn, TaskAt, First
    <3>2. r # s
      BY <1>1, <3>1, Single DEF IInv
    <3> QED
      BY <1>1, <2>1, <3>2 DEF Open, Write, IInv, TypeOK
  <2>2. ASSUME NEW k \in Array \X Task,
               Begin(k) \/ Kill(k) \/ \E r \in Shard : Lacks(k, r)
        PROVE  s \in meta' /\ bin'[s] = bin[s]
    BY <2>2 DEF Begin, Lacks, Kill
  <2>3. CASE bin' = bin /\ meta' = meta
    BY <2>3
  <2>4. (\E k \in Array \X Task : Works(k) \/ Kill(k)) \/ (bin' = bin /\ meta' = meta)
    BY <1>1, Frames
  <2> QED
    BY <2>1, <2>2, <2>3, <2>4 DEF Works
<1> QED
  BY <1>1, Invariance, PTL DEF Spec, FinishedStays

-----------------------------------------------------------------------------
(* The way of a shard.                                                     *)

\* What has come to a stage has come through those before it.  This needs no
\* failure to be absent.
Nested ==
  /\ \A s \in Shard :
       /\ s \in there => exported
       /\ s \in meta => s \in there /\ bin[s] # "none"
       /\ fetched[s] # "none" => s \in meta
       /\ held[s] # "none" => fetched[s] # "none"
  /\ \A k \in Array \X Task : tat[k] = "write" => First(todo[k]) \subseteq there

LEMMA NestedTasks ==
  ASSUME TypeOK, Nested, [Next]_vars
  PROVE  \A k \in Array \X Task : tat'[k] = "write" => First(todo[k])' \subseteq there'
<1> SUFFICES ASSUME NEW k \in Array \X Task, tat'[k] = "write"
             PROVE  First(todo'[k]) \subseteq there'
  BY DEF First
<1>1. there \subseteq there'
  BY Frames DEF Ship
<1>2. CASE tat[k] = "write" /\ todo'[k] = todo[k]
  BY <1>1, <1>2 DEF Nested
<1>3. ASSUME NEW l \in Array \X Task, NEW s \in Shard, Open(l, s)
      PROVE  First(todo'[k]) \subseteq there'
  <2>1. CASE l # k
    <3>1. tat[k] = "write" /\ todo'[k] = todo[k]
      BY <1>3, <2>1 DEF Open, TypeOK
    <3> QED BY <1>2, <3>1
  <2>2. CASE l = k
    <3>1. s \in First(todo[k]) /\ s \in there /\ todo'[k] = todo[k]
      BY <1>3, <2>2 DEF Open, WorksOn
    <3>2. \A r \in First(todo[k]) : r = s
      BY <3>1 DEF First, TypeOK, Shard
    <3> QED
      BY <1>1, <3>1, <3>2
  <2> QED BY <2>1, <2>2
<1>4. ASSUME NEW l \in Array \X Task,
             Begin(l) \/ Kill(l) \/ \E s \in Shard : Lacks(l, s) \/ Write(l, s)
      PROVE  First(todo'[k]) \subseteq there'
  <2>1. PICK S \in SUBSET Shard : GoesOn(l, S)
    BY <1>4, ToDoTypes DEF Begin, Kill, Lacks, Write, TypeOK
  <2>2. tat[k] = "write" /\ todo'[k] = todo[k]
    BY <2>1 DEF GoesOn, TypeOK
  <2> QED
    BY <1>2, <2>2
<1>5. ASSUME NEW a \in Array, Submit(a) \/ SubmitUnheard(a)
      PROVE  First(todo'[k]) \subseteq there'
  <2>1. tat[k] = "write" /\ todo'[k] = todo[k]
    BY <1>5 DEF Submit, SubmitUnheard, Submits, Queue
  <2> QED
    BY <1>2, <2>1
<1>6. CASE UNCHANGED <<tat, todo>>
  BY <1>2, <1>6
<1> QED
  BY <1>3, <1>4, <1>5, <1>6
     DEF Next, Run, Works, Start, Plan, Export, Ship, Does, SubmitFails, Submits,
         Submitted, Cleared, Unlisted, Poll, EndPoll, Fetch, Add, Added, Importing,
         Refuse, Imported, Index, Complete, Stop, Die, cluster, vars

LEMMA NestedInv ==
  ASSUME TypeOK, Nested, [Next]_vars
  PROVE  Nested'
<1> SUFFICES ASSUME NEW s \in Shard
             PROVE  /\ s \in there' => exported'
                    /\ s \in meta' => s \in there' /\ bin'[s] # "none"
                    /\ fetched'[s] # "none" => s \in meta'
                    /\ held'[s] # "none" => fetched'[s] # "none"
  BY NestedTasks DEF Nested
<1> DEFINE Here == /\ s \in there => exported
                   /\ s \in meta => s \in there /\ bin[s] # "none"
                   /\ fetched[s] # "none" => s \in meta
                   /\ held[s] # "none" => fetched[s] # "none"
<1>0. Here
  BY DEF Nested
<1>1. CASE Export
  BY <1>0, <1>1 DEF Export, cluster
<1>2. ASSUME NEW got \in SUBSET File, Ship(got)
      PROVE  Here'
  BY <1>0, <1>2 DEF Ship, local, cluster
<1>3. ASSUME NEW got \in SUBSET Shard, Fetch(got)
      PROVE  Here'
  BY <1>0, <1>3 DEF Fetch, cluster
<1>4. ASSUME NEW r \in Shard, Add(r)
      PROVE  Here'
  BY <1>0, <1>4 DEF Add, Importing, First, Importable, Torn, cluster, TypeOK
<1>5. ASSUME NEW r \in Shard, Added(r)
      PROVE  Here'
  BY <1>0, <1>5 DEF Added, Adding, cluster, TypeOK
<1>6. CASE Die
  BY <1>0, <1>6 DEF Die, Adding, cluster, TypeOK
<1>7. ASSUME NEW k \in Array \X Task, Works(k) \/ Kill(k)
      PROVE  Here'
  <2>1. UNCHANGED <<exported, there, fetched, held>>
    BY <1>7 DEF Works, Kill, Begin, Open, Lacks, Write, WorksOn, TaskAt, local
  <2>2. ASSUME NEW r \in Shard, Open(k, r)
        PROVE  Here'
    BY <1>0, <2>1, <2>2 DEF Open, TypeOK
  <2>3. ASSUME NEW r \in Shard, Write(k, r)
        PROVE  Here'
    BY <1>0, <2>1, <2>3 DEF Write, WorksOn, TaskAt, Nested, TypeOK
  <2>4. CASE Begin(k) \/ Kill(k) \/ \E r \in Shard : Lacks(k, r)
    BY <1>0, <2>1, <2>4 DEF Begin, Kill, Lacks
  <2> QED
    BY <1>7, <2>2, <2>3, <2>4 DEF Works
<1>8. CASE UNCHANGED <<exported, there, bin, meta, fetched, held>>
  BY <1>0, <1>8
<1> QED
  BY Frames, <1>1, <1>2, <1>3, <1>4, <1>5, <1>6, <1>7, <1>8

LEMMA PlaceIs ==
  ASSUME NEW s \in Shard, TypeOK, Nested
  PROVE  /\ Place(s) = "none" <=> ~exported
         /\ Place(s) = "exported" <=> exported /\ s \notin there
         /\ Place(s) = "shipped" <=> s \in there /\ s \notin meta
         /\ Place(s) = "embedded" <=> s \in meta /\ fetched[s] = "none"
         /\ Place(s) = "fetched" <=> fetched[s] # "none" /\ held[s] = "none"
         /\ \A l \in {"adding", "part", "whole"} : Place(s) = l <=> held[s] = l
BY DEF Place, Nested, TypeOK

\* A step that takes the shards of S from one place to the next.
LEMMA Moves ==
  ASSUME NEW S \in SUBSET Shard, NEW from, NEW to,
         \A s \in S : Place(s) = from /\ Place(s)' = to,
         \A s \in Shard \ S : Place(s)' = Place(s)
  PROVE  Journey!Move(S, from, to)
BY DEF Journey!Move

LEMMA JourneyStep ==
  ASSUME TypeOK, Nested, [Next]_vars, TypeOK', Nested'
  PROVE  [Journey!Next]_([s \in Shard |-> Place(s)])
<1> DEFINE places == [s \in Shard |-> Place(s)]
<1>1. CASE Export
  <2>1. UNCHANGED <<there, meta, fetched, held>> /\ exported'
    BY <1>1 DEF Export, cluster
  <2>2. CASE exported
    <3>1. \A s \in Shard : Place(s)' = Place(s)
      BY <2>1, <2>2 DEF Place
    <3> QED BY <3>1
  <2>3. CASE ~exported
    <3>1. \A s \in Shard : Place(s) = "none" /\ Place(s)' = "exported"
      BY <2>1, <2>3 DEF Place, Nested
    <3>2. Journey!Export
      BY <3>1, Moves DEF Journey!Export
    <3> QED BY <3>2 DEF Journey!Next
  <2> QED BY <2>2, <2>3
<1>2. ASSUME NEW got \in SUBSET File, Ship(got)
      PROVE  [Journey!Next]_places
  <2>1. UNCHANGED <<exported, meta, fetched, held>>
    BY <1>2 DEF Ship, local, cluster
  <2> DEFINE S == {s \in Shard : s \in there' /\ s \notin there}
  <2>2. \A s \in S : Place(s) = "exported" /\ Place(s)' = "shipped"
    BY <1>2, <2>1 DEF Place, Nested, Ship
  <2>3. \A s \in Shard \ S : Place(s)' = Place(s)
    BY <1>2, <2>1 DEF Place, Ship
  <2>4. Journey!Ship(S)
    BY <2>2, <2>3, Moves DEF Journey!Ship
  <2> QED BY <2>4 DEF Journey!Next
<1>3. ASSUME NEW got \in SUBSET Shard, Fetch(got)
      PROVE  [Journey!Next]_places
  <2>1. UNCHANGED <<exported, there, meta, held>>
    BY <1>3 DEF Fetch, cluster
  <2> DEFINE S == {s \in got \cap meta : fetched[s] = "none"}
  <2>2. \A s \in S : fetched'[s] # "none"
    BY <1>3 DEF Fetch, Nested
  <2>3. \A s \in Shard \ S : fetched'[s] # "none" <=> fetched[s] # "none"
    BY <1>3 DEF Fetch, Nested
  <2>4. \A s \in S : Place(s) = "embedded" /\ Place(s)' = "fetched"
    BY <2>1, <2>2 DEF Place, Nested
  <2>5. \A s \in Shard \ S : Place(s)' = Place(s)
    BY <2>1, <2>3 DEF Place
  <2>6. S \in SUBSET Shard
    OBVIOUS
  <2>7. Journey!Fetch(S)
    BY <2>4, <2>5, <2>6, Moves DEF Journey!Fetch
  <2> QED BY <2>6, <2>7 DEF Journey!Next
<1>4. ASSUME NEW r \in Shard, Add(r)
      PROVE  [Journey!Next]_places
  <2>1. UNCHANGED <<exported, there, meta, fetched>> /\ Adding = {}
    BY <1>4 DEF Add, Importing, cluster
  <2>2. held[r] = "none" /\ fetched[r] = "whole" /\ held' = [held EXCEPT ![r] = "adding"]
    BY <1>4 DEF Add, First, Importable
  <2>3. Place(r) = "fetched" /\ Place(r)' = "adding"
    BY <2>2 DEF Place, TypeOK
  <2>4. \A s \in Shard \ {r} : Place(s)' = Place(s)
    BY <2>1, <2>2 DEF Place, TypeOK
  <2>5. Journey!Adding = {}
    BY <2>1, PlaceIs DEF Journey!Adding, Adding
  <2>6. Journey!Add(r)
    BY <2>3, <2>4, <2>5, Moves DEF Journey!Add
  <2> QED BY <2>6 DEF Journey!Next
<1>5. ASSUME NEW r \in Shard, Added(r)
      PROVE  [Journey!Next]_places
  <2>1. UNCHANGED <<exported, there, meta, fetched>>
    BY <1>5 DEF Added, cluster
  <2>2. held[r] = "adding" /\ held' = [held EXCEPT ![r] = "whole"]
    BY <1>5 DEF Added, Adding
  <2>3. Place(r) = "adding" /\ Place(r)' = "whole"
    BY <2>2 DEF Place, TypeOK
  <2>4. \A s \in Shard \ {r} : Place(s)' = Place(s)
    BY <2>1, <2>2 DEF Place, TypeOK
  <2>5. Journey!Added(r)
    BY <2>3, <2>4, Moves DEF Journey!Added
  <2> QED BY <2>5 DEF Journey!Next
<1>6. CASE Die
  <2>1. UNCHANGED <<exported, there, meta, fetched>>
    BY <1>6 DEF Die, cluster
  <2>2. held' = [s \in Shard |-> IF s \in Adding THEN "part" ELSE held[s]]
    BY <1>6 DEF Die
  <2>3. \A s \in Adding : Place(s) = "adding" /\ Place(s)' = "part"
    BY <2>2 DEF Place, Adding
  <2>4. \A s \in Shard \ Adding : Place(s)' = Place(s)
    BY <2>1, <2>2 DEF Place
  <2>5. Journey!Adding = Adding /\ Adding \in SUBSET Shard
    BY PlaceIs DEF Journey!Adding, Adding
  <2>6. Journey!CutShort
    BY <2>3, <2>4, <2>5, Moves DEF Journey!CutShort
  <2> QED BY <2>6 DEF Journey!Next
<1>7. ASSUME NEW k \in Array \X Task, Works(k) \/ Kill(k)
      PROVE  [Journey!Next]_places
  <2>1. UNCHANGED <<exported, there, fetched, held>>
    BY <1>7 DEF Works, Kill, Begin, Open, Lacks, Write, WorksOn, TaskAt, local
  <2>2. CASE meta' = meta
    <3>1. \A s \in Shard : Place(s)' = Place(s)
      BY <2>1, <2>2 DEF Place
    <3> QED BY <3>1
  <2>3. ASSUME NEW r \in Shard, Write(k, r), r \notin meta
        PROVE  [Journey!Next]_places
    <3>1. meta' = meta \cup {r} /\ r \in there
      BY <2>3 DEF Write, WorksOn, TaskAt, Nested
    <3>2. Place(r) = "shipped" /\ Place(r)' = "embedded"
      BY <2>1, <2>3, <3>1 DEF Place, Nested
    <3>3. \A s \in Shard \ {r} : Place(s)' = Place(s)
      BY <2>1, <3>1 DEF Place
    <3>4. Journey!Embed(r)
      BY <3>2, <3>3, Moves DEF Journey!Embed
    <3> QED BY <3>4 DEF Journey!Next
  <2> QED
    BY <1>7, <2>2, <2>3 DEF Works, Kill, Begin, Open, Lacks, Write
<1>8. CASE UNCHANGED <<exported, there, meta, fetched, held>>
  <2>1. \A s \in Shard : Place(s)' = Place(s)
    BY <1>8 DEF Place
  <2> QED BY <2>1
<1> QED
  BY Frames, <1>1, <1>2, <1>3, <1>4, <1>5, <1>6, <1>7, <1>8

\* The relay implements the journey of its shards, whatever fails: a vector in
\* the catalogue was embedded by a task from a shard that was shipped, and came
\* back with its sidecar, and no shard goes back a stage or is imported twice.
THEOREM ShardsTravelInOrder == Spec => ShardsTravel
<1>1. Init => Nested
  BY DEF Init, Nested
<1>2. IInv /\ Nested /\ [Next]_vars => Nested'
  BY NestedInv DEF IInv
<1>3. Init => Journey!Init
  BY DEF Init, Journey!Init, Place
<1>4. IInv /\ IInv' /\ Nested /\ Nested' /\ [Next]_vars
        => [Journey!Next]_([s \in Shard |-> Place(s)])
  BY JourneyStep DEF IInv
<1> QED
  BY <1>1, <1>2, <1>3, <1>4, Invariance, PTL DEF Spec, ShardsTravel, Journey!Spec
=============================================================================
