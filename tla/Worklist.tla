------------------------------ MODULE Worklist ------------------------------
(***************************************************************************)
(* Draining the worklist of hanging references.  A reference somebody cites *)
(* and nobody holds is fetched from its source; what was fetched is mined,  *)
(* which cites more; the edges are linked.  References a source refused     *)
(* cool down.  Drains, single clicks, the scheduler's resolver and the      *)
(* roll-up the worklist is read from all run beside each other, and a drain *)
(* keeps what it has done in memory until its end.                          *)
(***************************************************************************)
EXTENDS Naturals, FiniteSets

CONSTANTS
  Ref,        \* the references that can be fetched, by candidate
  Corpus,     \* the documents held from the start, as one
  Cites,      \* what a document, once mined, refers to
  Rank,       \* the worklist's order: the most cited first
  Source, SourceOf,
  Id,         \* references whose candidate is the stable_id of the document
  Loose,      \* references only find_document_id recognises, no SQL pass does
  Late,       \* references whose source publishes them late or never
  Twin,       \* references whose document the corpus has under another identity
  Drain,      \* processes that fetch
  Bulk,       \* those that drain the list; the others are single clicks
  Limit,      \* the limit of a drain
  Scan,       \* how much of the list a drain reads to fill it
  MaxClicks,  \* bound: single fetches and cleared cool-downs
  MaxFaults   \* bound: errors, rate limits, cancellations and crashes

ASSUME WorklistAssumption ==
  /\ IsFiniteSet(Ref)
  /\ Corpus \notin Ref
  /\ Cites \in [Ref \cup {Corpus} -> SUBSET Ref]
  /\ Rank \in [Ref -> Nat]
  /\ \A r, q \in Ref : Rank[r] = Rank[q] => r = q
  /\ SourceOf \in [Ref -> Source]
  /\ Id \subseteq Ref /\ Loose \subseteq Ref \ Id /\ Late \subseteq Ref
  /\ Twin \subseteq Ref
  /\ Bulk \subseteq Drain
  /\ Limit \in [Drain -> Nat] /\ Scan \in [Drain -> Nat]
  /\ MaxClicks \in Nat
  /\ MaxFaults \in Nat

Document == Ref \cup {Corpus}

VARIABLES
  exists,          \* what the sources can serve
  \* the catalogue: documents held and mined, pending edges, the roll-up of
  \* their targets, and the two cool-down lists
  held, mined, pending, rollup, miss, retry,
  aged,            \* misses a later drain has passed over: old enough to expire
  \* a drain: where it is, whether it is a single click, the rows it has yet
  \* to ask for and, from its own memory, what came of the others
  pc, click, todo, fetched, absent, transient, unmined, unlinked,
  \* what the properties remember: documents stored and then lost sight of
  orphans,
  clicks, faults

store == <<held, mined, pending, rollup, miss, retry, aged>>
drains == <<pc, click, todo, fetched, absent, transient, unmined, unlinked>>
bounds == <<clicks, faults>>
vars == <<exists, store, drains, orphans, bounds>>

Init ==
  /\ exists = Ref \ Late
  /\ held = {}
  /\ mined = {Corpus}
  /\ pending = {Corpus} \X Cites[Corpus]
  /\ rollup = {}
  /\ miss = {}
  /\ retry = {}
  /\ aged = {}
  /\ pc = [p \in Drain |-> "idle"]
  /\ click = [p \in Drain |-> FALSE]
  /\ todo = [p \in Drain |-> {}]
  /\ fetched = [p \in Drain |-> {}]
  /\ absent = [p \in Drain |-> {}]
  /\ transient = [p \in Drain |-> {}]
  /\ unmined = [p \in Drain |-> {}]
  /\ unlinked = [p \in Drain |-> {}]
  /\ orphans = {}
  /\ clicks = 0
  /\ faults = 0

Fault == faults < MaxFaults /\ faults' = faults + 1

-----------------------------------------------------------------------------
(* Choosing what to fetch.                                                 *)

Wanted == {e[2] : e \in pending}

\* pending_reference_groups_rollup, or the live aggregate while there is none.
Groups == IF rollup # {} THEN rollup ELSE Wanted

\* The n most cited.
Top(S, n) == {r \in S : Cardinality({q \in S : Rank[q] < Rank[r]}) < n}

Cooled == miss \cup retry

Begin(p, rows, single) ==
  /\ pc[p] = "idle"
  /\ pc' = [pc EXCEPT ![p] = "fetch"]
  /\ click' = [click EXCEPT ![p] = single]
  /\ todo' = [todo EXCEPT ![p] = rows]
  /\ UNCHANGED <<exists, held, mined, pending, rollup, miss, retry, fetched, absent,
                 transient, unmined, unlinked, orphans, faults>>

\* harvest_all_references, of the top of the list.  retry_cooled asks for what
\* cools, too.
Start(p) ==
  /\ p \in Bulk
  /\ Begin(p, Top(Top(Groups, Scan[p]) \ Cooled, Limit[p]), FALSE)
  /\ aged' = aged \cup miss
  /\ UNCHANGED clicks

StartCooled(p) ==
  /\ p \in Bulk
  /\ clicks < MaxClicks
  /\ clicks' = clicks + 1
  /\ Begin(p, Top(Top(Groups, Scan[p]), Limit[p]), FALSE)
  /\ UNCHANGED aged

\* harvest_reference: one row of the list.
Click(p, r) ==
  /\ clicks < MaxClicks
  /\ clicks' = clicks + 1
  /\ r \in Groups
  /\ Begin(p, {r}, TRUE)
  /\ UNCHANGED aged

-----------------------------------------------------------------------------
(* _fetch_reference, one worker per source.                                *)

\* The row a worker is at.
Next1(p, r) ==
  /\ pc[p] = "fetch"
  /\ r \in todo[p]
  /\ \A q \in todo[p] : SourceOf[q] = SourceOf[r] => Rank[r] <= Rank[q]

MutantDone(p, r) == todo' = todo
Done(p, r) == todo' = [todo EXCEPT ![p] = @ \ {r}]

\* find_document_id, or the builder, finds it held.
Present(p, r) ==
  /\ Next1(p, r)
  /\ r \in held
  /\ Done(p, r)
  /\ fetched' = [fetched EXCEPT ![p] = @ \cup {r}]
  /\ UNCHANGED <<exists, store, pc, click, absent, transient, unmined, unlinked,
                 orphans, bounds>>

\* What is fetched is a duplicate: the same bytes are held by another name, and
\* the reference leads nowhere as before, or record_rendition makes it an alias
\* of the document that is held, and mined in its own right.
Deduped(p, r) ==
  /\ Next1(p, r)
  /\ r \in (exists \cap Twin) \ held
  /\ Done(p, r)
  /\ \E alias \in SUBSET {r} : held' = held \cup alias /\ mined' = mined \cup alias
  /\ fetched' = [fetched EXCEPT ![p] = @ \cup {r}]
  /\ UNCHANGED <<exists, pending, rollup, miss, retry, aged, pc, click, absent,
                 transient, unmined, unlinked, orphans, bounds>>

Stored(p, r) ==
  /\ Next1(p, r)
  /\ r \in exists \ (held \cup Twin)
  /\ Done(p, r)
  /\ held' = held \cup {r}
  /\ fetched' = [fetched EXCEPT ![p] = @ \cup {r}]
  /\ UNCHANGED <<exists, mined, pending, rollup, miss, retry, aged, pc, click, absent,
                 transient, unmined, unlinked, orphans, bounds>>

\* A 404, an empty answer, or an adapter that takes an error for one.
Absent(p, r) ==
  /\ Next1(p, r)
  /\ r \notin held
  /\ IF r \in exists THEN Fault ELSE UNCHANGED faults
  /\ Done(p, r)
  /\ absent' = [absent EXCEPT ![p] = @ \cup {r}]
  /\ UNCHANGED <<exists, store, pc, click, fetched, transient, unmined, unlinked,
                 orphans, clicks>>

\* A run that fails or is throttled may have stored the document before.
HalfStored(r) ==
  \E S \in SUBSET ({r} \cap (exists \ Twin)) :
    held' = held \cup S /\ orphans' = orphans \cup S

\* A timeout, a 5xx, or an _ingest that raises, perhaps after its commit.
Transient(p, r) ==
  /\ Next1(p, r)
  /\ r \notin held
  /\ Fault
  /\ Done(p, r)
  /\ HalfStored(r)
  /\ transient' = [transient EXCEPT ![p] = @ \cup {r}]
  /\ UNCHANGED <<exists, mined, pending, rollup, miss, retry, aged, pc, click, fetched,
                 absent, unmined, unlinked, clicks>>

\* The source throttles: its worker stops, its other rows stay queued.
RateLimited(p, r) ==
  /\ Next1(p, r)
  /\ r \notin held
  /\ Fault
  /\ todo' = [todo EXCEPT ![p] = {q \in @ : SourceOf[q] # SourceOf[r]}]
  /\ HalfStored(r)
  /\ transient' = [transient EXCEPT ![p] = @ \cup {r}]
  /\ UNCHANGED <<exists, mined, pending, rollup, miss, retry, aged, pc, click, fetched,
                 absent, unmined, unlinked, clicks>>

\* cancel_check: every worker returns at its next row.
Cancel(p) ==
  /\ pc[p] = "fetch"
  /\ ~click[p]
  /\ todo[p] # {}
  /\ Fault
  /\ todo' = [todo EXCEPT ![p] = {}]
  /\ UNCHANGED <<exists, store, pc, click, fetched, absent, transient, unmined,
                 unlinked, orphans, clicks>>

-----------------------------------------------------------------------------
(* The end of a drain.                                                     *)

Forget(p) ==
  /\ pc' = [pc EXCEPT ![p] = "idle"]
  /\ click' = [click EXCEPT ![p] = FALSE]
  /\ todo' = [todo EXCEPT ![p] = {}]
  /\ fetched' = [fetched EXCEPT ![p] = {}]
  /\ absent' = [absent EXCEPT ![p] = {}]
  /\ transient' = [transient EXCEPT ![p] = {}]
  /\ unmined' = [unmined EXCEPT ![p] = {}]
  /\ unlinked' = [unlinked EXCEPT ![p] = {}]

MutantToMine(p) == IF absent[p] \cup transient[p] = {} THEN fetched[p] ELSE {}
ToMine(p) == fetched[p]

\* record_enrichment_misses, at the end and with the time of the end.  A click
\* that failed returns its error and records nothing.
Record(p) ==
  /\ pc[p] = "fetch"
  /\ todo[p] = {}
  /\ IF click[p] THEN UNCHANGED <<miss, retry, aged>>
     ELSE /\ miss' = miss \cup absent[p]
          /\ retry' = retry \cup transient[p]
          /\ aged' = aged \ absent[p]
  /\ pc' = [pc EXCEPT ![p] = "mine"]
  /\ unmined' = [unmined EXCEPT ![p] = ToMine(p)]
  /\ unlinked' = [unlinked EXCEPT ![p] = ToMine(p)]
  /\ fetched' = [fetched EXCEPT ![p] = {}]
  /\ absent' = [absent EXCEPT ![p] = {}]
  /\ transient' = [transient EXCEPT ![p] = {}]
  /\ UNCHANGED <<exists, held, mined, pending, rollup, click, todo, orphans, bounds>>

\* _extract_ids, document by document: its edges are written, all pending.  For
\* a candidate that is not held there is nothing to extract.
Mine(p, d) ==
  /\ pc[p] = "mine"
  /\ d \in unmined[p]
  /\ mined' = mined \cup ({d} \cap held)
  /\ pending' = pending \cup (({d} \cap held) \X Cites[d])
  /\ unmined' = [unmined EXCEPT ![p] = @ \ {d}]
  /\ orphans' = orphans \ {d}
  /\ UNCHANGED <<exists, held, rollup, miss, retry, aged, pc, click, todo, fetched,
                 absent, transient, unlinked, bounds>>

MutantJoins(r) == r \notin Loose

\* What the SQL passes join.
Joins(r) == r \in held \ Loose

\* run_for_documents gets candidates: get_document knows those that are held and
\* stable_ids, the others are passed over.
Link(p, d) ==
  /\ pc[p] = "mine"
  /\ unmined[p] = {}
  /\ d \in unlinked[p]
  /\ pending' = IF d \in Id \cap held
                THEN {e \in pending : ~(e[1] = d /\ Joins(e[2])) /\ e[2] # d}
                ELSE pending
  /\ unlinked' = [unlinked EXCEPT ![p] = @ \ {d}]
  /\ UNCHANGED <<exists, held, mined, rollup, miss, retry, aged, pc, click, todo,
                 fetched, absent, transient, unmined, orphans, bounds>>

End(p) ==
  /\ pc[p] = "mine"
  /\ unmined[p] \cup unlinked[p] = {}
  /\ Forget(p)
  /\ UNCHANGED <<exists, store, orphans, bounds>>

\* The process dies, or extract_document raises and the drain ends with it.
Crash(p) ==
  /\ pc[p] # "idle"
  /\ Fault
  /\ Forget(p)
  /\ orphans' = orphans \cup ((fetched[p] \cup unmined[p]) \ mined)
  /\ UNCHANGED <<exists, store, clicks>>

-----------------------------------------------------------------------------
(* Beside the drains.                                                      *)

\* The scheduler's whole-graph pass, a single transaction at this level.
Resolve ==
  /\ pending' = {e \in pending : ~Joins(e[2])}
  /\ pending' # pending
  /\ UNCHANGED <<exists, held, mined, rollup, miss, retry, aged, drains, orphans, bounds>>

\* rebuild_pending_reference_stats
Rebuild ==
  /\ rollup' = Wanted
  /\ rollup' # rollup
  /\ UNCHANGED <<exists, held, mined, pending, miss, retry, aged, drains, orphans, bounds>>

\* RAGLEX_RETRY_TTL_HOURS go by, or RAGLEX_MISS_TTL_DAYS: these are longer
\* than any drain and than the time between two.
RetryExpires(r) ==
  /\ r \in retry
  /\ retry' = retry \ {r}
  /\ UNCHANGED <<exists, held, mined, pending, rollup, miss, aged, drains, orphans, bounds>>

MutantMissExpires(r) ==
  /\ r \in miss \cap aged
  /\ aged' = aged \ {r}
  /\ UNCHANGED <<exists, held, mined, pending, rollup, miss, retry, drains, orphans, bounds>>

MissExpires(r) ==
  /\ r \in miss \cap aged
  /\ miss' = miss \ {r}
  /\ aged' = aged \ {r}
  /\ UNCHANGED <<exists, held, mined, pending, rollup, retry, drains, orphans, bounds>>

\* retry_failed_references
Clear ==
  /\ clicks < MaxClicks
  /\ clicks' = clicks + 1
  /\ miss' = {} /\ retry' = {} /\ aged' = {}
  /\ UNCHANGED <<exists, held, mined, pending, rollup, drains, orphans, faults>>

\* The source publishes what it lacked.
Publish(r) ==
  /\ r \notin exists
  /\ exists' = exists \cup {r}
  /\ UNCHANGED <<store, drains, orphans, bounds>>

-----------------------------------------------------------------------------
Work(p) ==
  \/ \E r \in Ref : \/ Present(p, r) \/ Deduped(p, r) \/ Stored(p, r)
                    \/ Absent(p, r) \/ Mine(p, r) \/ Link(p, r)
  \/ Record(p)
  \/ End(p)

Next ==
  \/ \E p \in Drain :
       \/ Start(p) \/ StartCooled(p) \/ Work(p) \/ Cancel(p) \/ Crash(p)
       \/ \E r \in Ref : Click(p, r) \/ Transient(p, r) \/ RateLimited(p, r)
  \/ Resolve \/ Rebuild \/ Clear
  \/ \E r \in Ref : RetryExpires(r) \/ MissExpires(r) \/ Publish(r)

Spec == Init /\ [][Next]_vars

\* A drain that began goes on, the nightly drain begins again and again, the
\* scheduler resolves and rebuilds, cool-downs end.  Nobody has to click, and
\* a source need not publish.
Fairness ==
  /\ \A p \in Drain : WF_vars(Work(p)) /\ WF_vars(Start(p))
  /\ WF_vars(Resolve) /\ WF_vars(Rebuild)
  /\ \A r \in Ref : WF_vars(RetryExpires(r)) /\ WF_vars(MissExpires(r))

FairSpec == Spec /\ Fairness

-----------------------------------------------------------------------------
(* Properties.                                                             *)

\* Types, and that a row of a drain is in one list: it is asked for once.
TypeOK ==
  /\ exists \subseteq Ref /\ held \subseteq Ref
  /\ mined \subseteq held \cup {Corpus}
  /\ pending \subseteq mined \X Ref
  /\ rollup \subseteq Ref /\ miss \subseteq Ref /\ retry \subseteq Ref
  /\ aged \subseteq miss
  /\ pc \in [Drain -> {"idle", "fetch", "mine"}]
  /\ click \in [Drain -> BOOLEAN]
  /\ \A l \in {todo, fetched, absent, transient, unmined, unlinked} :
       l \in [Drain -> SUBSET Ref]
  /\ \A p \in Drain :
       /\ todo[p] \cap (fetched[p] \cup absent[p] \cup transient[p]) = {}
       /\ fetched[p] \cap (absent[p] \cup transient[p]) = {}
       /\ absent[p] \cap transient[p] = {}
       /\ pc[p] = "idle" => todo[p] \cup fetched[p] \cup unlinked[p] = {}
  /\ orphans \subseteq Ref
  /\ clicks \in 0..MaxClicks /\ faults \in 0..MaxFaults

\* A drain that fetched, failed on some rows, was throttled or was cancelled
\* still mines what it stored, and so does one that found a document another
\* drain had stored: a held document stays unmined only while a drain has it in
\* hand, or because the drain that had it died, or the fetch that stored it went
\* wrong afterwards.
UnminedIsExplained ==
  \A d \in held \ mined : d \in orphans \/ \E p \in Drain : d \in fetched[p] \cup unmined[p]

\* An edge leaves the worklist only for a document the corpus holds, whatever
\* a drain believes it fetched.
LinkedMeansHeld == [][\A e \in pending \ pending' : e[2] \in held]_vars

\* A reference the corpus wants and its source serves is linked in the end:
\* failures cool down but nothing is flagged for good, the roll-up catches up,
\* the limit is no bar, an edge mined anew is linked anew.
EventuallyLinked ==
  \A r \in Ref \ (Loose \cup Twin) : r \in Wanted \cap exists ~> r \notin Wanted
=============================================================================
