------------------------------ MODULE JobRows ------------------------------
(***************************************************************************)
(* What the durable jobs table promises about one job, whatever process    *)
(* holds the worker: a row is inserted once, waits in the queue at most    *)
(* once, hands out at most one right to run (a ticket), and that ticket    *)
(* starts at most one worker, which reports its end at most once.  Jobs    *)
(* implements this specification.                                          *)
(***************************************************************************)
EXTENDS Naturals

CONSTANT Job

VARIABLES
  status,   \* the row's status column
  tickets,  \* rows somebody holds the right to start a worker for
  runs,     \* how many worker threads the row has had
  ended     \* rows whose worker has come to its end

vars == <<status, tickets, runs, ended>>

Terminal == {"done", "error", "cancelled", "interrupted"}
Status == Terminal \cup {"none", "queued", "running", "pruned"}

Init ==
  /\ status = [j \in Job |-> "none"]
  /\ tickets = {}
  /\ runs = [j \in Job |-> 0]
  /\ ended = {}

Enqueue(j) ==
  /\ status[j] = "none"
  /\ status' = [status EXCEPT ![j] = "queued"]
  /\ UNCHANGED <<tickets, runs, ended>>

CreateRunning(j) ==
  /\ status[j] = "none"
  /\ status' = [status EXCEPT ![j] = "running"]
  /\ tickets' = tickets \cup {j}
  /\ UNCHANGED <<runs, ended>>

Claim(j) ==
  /\ status[j] = "queued"
  /\ status' = [status EXCEPT ![j] = "running"]
  /\ tickets' = tickets \cup {j}
  /\ UNCHANGED <<runs, ended>>

Drop(j) ==
  /\ status[j] = "queued"
  /\ status' = [status EXCEPT ![j] = "cancelled"]
  /\ UNCHANGED <<tickets, runs, ended>>

StartWorker(j) ==
  /\ j \in tickets
  /\ runs[j] = 0
  /\ tickets' = tickets \ {j}
  /\ runs' = [runs EXCEPT ![j] = 1]
  /\ UNCHANGED <<status, ended>>

\* A process dies holding tickets: nobody will ever start those workers.
LoseTickets ==
  /\ \E J \in SUBSET tickets : tickets' = tickets \ J
  /\ UNCHANGED <<status, runs, ended>>

\* The worker ends; the write of its outcome may fail and leave the row.
EndWorker(j) ==
  /\ runs[j] = 1
  /\ j \notin ended
  /\ ended' = ended \cup {j}
  /\ \/ UNCHANGED status
     \/ /\ status[j] \notin {"none", "queued", "pruned"}
        /\ \E s \in {"done", "error", "cancelled"} :
             status' = [status EXCEPT ![j] = s]
  /\ UNCHANGED <<tickets, runs>>

\* A reaper interrupts rows that have been given the right to run.
Interrupt ==
  /\ \E J \in SUBSET {j \in Job : status[j] \notin {"none", "queued", "pruned"}} :
       status' = [j \in Job |-> IF j \in J THEN "interrupted" ELSE status[j]]
  /\ UNCHANGED <<tickets, runs, ended>>

Prune ==
  /\ \E J \in SUBSET {j \in Job : status[j] \notin {"none", "running"}} :
       status' = [j \in Job |-> IF j \in J THEN "pruned" ELSE status[j]]
  /\ UNCHANGED <<tickets, runs, ended>>

Next ==
  \/ \E j \in Job : \/ Enqueue(j) \/ CreateRunning(j) \/ Claim(j) \/ Drop(j)
                    \/ StartWorker(j) \/ EndWorker(j)
  \/ LoseTickets
  \/ Interrupt
  \/ Prune

Spec == Init /\ [][Next]_vars

=============================================================================
