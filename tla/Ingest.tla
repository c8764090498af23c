------------------------------- MODULE Ingest -------------------------------
(***************************************************************************)
(* Keeping one source current: Pipeline.run walks the upstream feed, stores *)
(* what the catalogue does not hold and moves two cursors, the watermark of *)
(* incremental runs and the frontier of backfills; the harvest then mines   *)
(* the citations of what the walk stored.  The catalogue is durable, the    *)
(* rest of a run dies with its process, and a job relaunched from the row   *)
(* of another one restores the walk from the row's checkpoint.              *)
(*                                                                         *)
(* An item of the feed is published, and revised, under a mark: the date    *)
(* or the instant the cursors are compared with.  What adapters and sources *)
(* differ in is a profile, chosen once.                                     *)
(***************************************************************************)
EXTENDS Integers, FiniteSets

CONSTANTS
  Item,          \* documents of the source, numbered
  Horizon,       \* bound: the last day
  MaxRevision,   \* bound: how often each item is published or revised
  Overlap,       \* _overlap_days
  Page,          \* what resume_floor subtracts from a restored offset
  Profiles,      \* the adapters considered
  MaxFaults      \* bound: how often something goes wrong

Day == 0 .. Horizon
Modes == {"incremental", "backfill", "full"}
Kinds == {"crash", "cancel", "transient", "limit"}

\* newestFirst: the order of the feed.  instants: marks are instants and grow
\* with every publication; otherwise they are days, at most `late' behind the
\* day of publication and at most `ahead' of it.  offsets: stubs carry a
\* resume_offset.
Profile == [newestFirst : BOOLEAN, instants : BOOLEAN, late : Day, ahead : Day,
            offsets : BOOLEAN, modes : SUBSET Modes, faults : SUBSET Kinds]

ASSUME IngestAssumption ==
  /\ Item \subseteq Nat
  /\ IsFiniteSet(Item)
  /\ Horizon \in Nat \ {0}
  /\ MaxRevision \in [Item -> Nat]
  /\ Overlap \in Nat
  /\ Page \in Nat \ {0}
  /\ Profiles \subseteq Profile
  /\ MaxFaults \in Nat

VARIABLES
  profile,
  \* upstream
  now, rev, mark,
  \* the catalogue: the revision held, the one whose citations are in the
  \* graph, whether last_extracted_at is set, and the two cursors
  held, mined, stamped, watermark, frontier,
  \* the row of the latest harvest job
  mode, checkpoint,
  \* the run: its program counter and the locals of Pipeline.run and harvest
  pc, list, todo, highest, frozen, cancelled, limited, resumed, ids,
  \* what the properties remember
  refused, swept, passed,
  faults

upstream == <<now, rev, mark>>
documents == <<held, mined, stamped>>
cursors == <<watermark, frontier>>
locals == <<list, todo, highest, frozen, cancelled, limited, resumed, ids>>
history == <<refused, swept, passed>>
vars == <<profile, upstream, documents, cursors, mode, checkpoint, pc, locals,
          history, faults>>

None == 0     \* no cursor: every mark is later

Init ==
  /\ profile \in Profiles
  /\ now = 1
  /\ rev = [i \in Item |-> 0]
  /\ mark = [i \in Item |-> 0]
  /\ held = [i \in Item |-> 0]
  /\ mined = [i \in Item |-> 0]
  /\ stamped = [i \in Item |-> FALSE]
  /\ watermark = None
  /\ frontier = None
  /\ mode = "none"
  /\ checkpoint = 0
  /\ pc = "idle"
  /\ list = {}
  /\ todo = {}
  /\ highest = None
  /\ frozen = FALSE
  /\ cancelled = FALSE
  /\ limited = FALSE
  /\ resumed = FALSE
  /\ ids = {}
  /\ refused = [i \in Item |-> 0]
  /\ swept = {}
  /\ passed = [i \in Item |-> 0]
  /\ faults = 0

Later(a, b) == IF a >= b THEN a ELSE b
Earlier(a, b) == IF a <= b THEN a ELSE b

Fault(kind) ==
  /\ kind \in profile.faults
  /\ faults < MaxFaults
  /\ faults' = faults + 1

-----------------------------------------------------------------------------
(* The source.                                                             *)

\* An item appears, or is revised and so moves up in the feed.
Publish(i) ==
  /\ rev[i] < MaxRevision[i]
  /\ IF profile.instants
     THEN /\ now < Horizon
          /\ now' = now + 1
          /\ mark' = [mark EXCEPT ![i] = now + 1]
     ELSE /\ \E m \in Day : /\ now - profile.late <= m /\ m <= now + profile.ahead
                            /\ Later(mark[i], 1) <= m
                            /\ mark' = [mark EXCEPT ![i] = m]
          /\ UNCHANGED now
  /\ rev' = [rev EXCEPT ![i] = @ + 1]
  /\ UNCHANGED <<profile, documents, cursors, mode, checkpoint, pc, locals,
                 history, faults>>

\* A day passes; a run ends on the day it began.
Tick ==
  /\ ~profile.instants
  /\ pc = "idle"
  /\ now < Horizon
  /\ now' = now + 1
  /\ UNCHANGED <<profile, rev, mark, documents, cursors, mode, checkpoint, pc,
                 locals, history, faults>>

-----------------------------------------------------------------------------
(* Pipeline.run: which part of the feed is asked for.                      *)

\* _apply_overlap
Overlapped(w) == IF w > Overlap THEN w - Overlap ELSE None

\* The cursor handed to discover(); a forced full walk has none.
Since(m) ==
  CASE m = "incremental" -> Overlapped(watermark)
    [] m = "backfill" -> frontier
    [] m = "full" -> None

Seed(m) ==
  CASE m = "incremental" -> watermark
    [] m = "backfill" -> frontier
    [] m = "full" -> None

\* What discover(since) yields, and in which order: a stub has the content hash
\* its item had then.
Current(i) == [item |-> i, mark |-> mark[i], rev |-> rev[i]]

Listing(since) == {Current(i) : i \in {k \in Item : rev[k] > 0 /\ mark[k] > since}}

Before(s, t) ==
  \/ IF profile.newestFirst THEN s.mark > t.mark ELSE s.mark < t.mark
  \/ s.mark = t.mark /\ s.item < t.item

\* The stub's position in the listing, its resume_offset.
Offset(s) == Cardinality({t \in list : Before(t, s)})

\* resume_floor: a resumed walk restarts a page before the checkpoint.
Floor(offset) == IF offset > Page THEN offset - Page ELSE 0

Walk(m, offset, again) ==
  LET L == Listing(Since(m))
  IN /\ mode' = m
     /\ list' = L
     /\ todo' = {s \in L : Cardinality({t \in L : Before(t, s)}) >= Floor(offset)}
     /\ checkpoint' = offset
     /\ highest' = Seed(m)
     /\ frozen' = FALSE
     /\ cancelled' = FALSE
     /\ limited' = FALSE
     /\ resumed' = again
     /\ ids' = {}
     /\ pc' = "walk"
     /\ UNCHANGED <<profile, upstream, documents, cursors, history, faults>>

\* A new harvest-source job.
Start == pc = "idle" /\ \E m \in profile.modes : Walk(m, 0, FALSE)

\* A job relaunched from the row of the latest one, by a reaper or by restart.
Resume == pc = "idle" /\ mode # "none" /\ Walk(mode, checkpoint, TRUE)

-----------------------------------------------------------------------------
(* Pipeline.run: the loop over the stubs.                                  *)

\* The stub the loop is at.
Head(s) ==
  /\ pc = "walk"
  /\ s \in todo
  /\ \A t \in todo : ~Before(t, s)

\* Heartbeats are throttled: the row's checkpoint may lag, not lead.
Checkpoint(s) ==
  checkpoint' \in IF profile.offsets THEN {checkpoint, Offset(s)} ELSE {checkpoint}

MutantAdvance(s) ==
  highest' = IF frozen THEN highest ELSE Later(highest, s.mark + 1)

Advance(s) ==
  highest' = IF frozen THEN highest ELSE Later(highest, s.mark)

\* The prefilter answers from the catalogue: held, and with the stub's hash.
Holds(s) == held[s.item] = s.rev

Dedup(s) ==
  /\ Head(s) /\ Holds(s)
  /\ Checkpoint(s)
  /\ Advance(s)
  /\ ids' = IF stamped[s.item] THEN ids ELSE ids \cup {s.item}
  /\ todo' = todo \ {s}
  /\ UNCHANGED <<profile, upstream, documents, cursors, mode, pc, list, frozen,
                 cancelled, limited, resumed, history, faults>>

\* upsert_document replaces the row and the edges in one transaction, and leaves
\* last_extracted_at as it is; what is fetched is the item as it is by now.
Upsert(i) ==
  /\ held' = [held EXCEPT ![i] = rev[i]]
  /\ mined' = [mined EXCEPT ![i] = 0]

\* fetch, then _ingest.
Store(s) ==
  /\ Head(s) /\ ~Holds(s)
  /\ Checkpoint(s)
  /\ Upsert(s.item)
  /\ ids' = ids \cup {s.item}
  /\ Advance(s)
  /\ todo' = todo \ {s}
  /\ UNCHANGED <<profile, upstream, stamped, cursors, mode, pc, list, frozen,
                 cancelled, limited, resumed, history, faults>>

\* The document turns out to be held under another identity.
FoundElsewhere(s) ==
  /\ Head(s) /\ ~Holds(s)
  /\ Checkpoint(s)
  /\ refused' = [refused EXCEPT ![s.item] = rev[s.item]]
  /\ Advance(s)
  /\ todo' = todo \ {s}
  /\ UNCHANGED <<profile, upstream, documents, cursors, mode, pc, list, frozen,
                 cancelled, limited, resumed, ids, swept, passed, faults>>

\* 404, 410, another permanent error, or nothing there: no retry is due.
Absent(s) ==
  /\ Head(s) /\ ~Holds(s)
  /\ Checkpoint(s)
  /\ refused' = [refused EXCEPT ![s.item] = rev[s.item]]
  /\ todo' = todo \ {s}
  /\ UNCHANGED <<profile, upstream, documents, cursors, mode, pc, list, highest,
                 frozen, cancelled, limited, resumed, ids, swept, passed,
                 faults>>

\* Remembers the stubs left for a later run whose marks the cursor of this one is
\* past already, the overlap included.
Pass(S) ==
  LET Behind == {s \in S : s.mark <= Overlapped(highest)}
  IN passed' = [i \in Item |-> IF \E s \in Behind : s.item = i THEN rev[i] ELSE passed[i]]

MutantFreezes == frozen

\* wm_frozen = True
Freezes == TRUE

\* A transient error, a parser that blows up, a record that cannot be stored, or
\* an _ingest that raises after upsert_document has committed.
Transient(s) ==
  /\ Head(s) /\ ~Holds(s)
  /\ Fault("transient")
  /\ Checkpoint(s)
  /\ Upsert(s.item) \/ UNCHANGED <<held, mined>>
  /\ frozen' = Freezes
  /\ Pass({s})
  /\ todo' = todo \ {s}
  /\ UNCHANGED <<profile, upstream, stamped, cursors, mode, pc, list, highest,
                 cancelled, limited, resumed, ids, refused, swept>>

\* RateLimitException, from fetch or from discover.
RateLimit ==
  /\ pc = "walk"
  /\ todo # {}
  /\ Fault("limit")
  /\ limited' = TRUE
  /\ todo' = {}
  /\ UNCHANGED <<profile, upstream, documents, cursors, mode, checkpoint, pc,
                 list, highest, frozen, cancelled, resumed, ids, history>>

\* cancel_check breaks the loop, or ends the extraction early.
Cancel ==
  /\ \/ pc = "walk" /\ todo # {}
     \/ pc = "extract" /\ ids # {}
  /\ Fault("cancel")
  /\ cancelled' = TRUE
  /\ Pass(todo)
  /\ todo' = {}
  /\ ids' = IF pc = "extract" THEN {} ELSE ids
  /\ UNCHANGED <<profile, upstream, documents, cursors, mode, checkpoint, pc,
                 list, highest, frozen, limited, resumed, refused, swept>>

-----------------------------------------------------------------------------
(* Pipeline.run: the two cursors.                                          *)

\* _clamp_future
Clamp(w) == Earlier(w, now)

\* if highest and not stats.rate_limited and not ignore_watermark
Advances == highest # None /\ ~limited

SetWatermark ==
  /\ pc = "walk" /\ todo = {}
  /\ watermark' = IF Advances THEN Clamp(highest) ELSE watermark
  /\ pc' = "frontier"
  /\ UNCHANGED <<profile, upstream, documents, frontier, mode, checkpoint,
                 locals, history, faults>>

MutantClean == highest # None /\ ~cancelled /\ ~limited

\* A full backfill that reached the end of the feed, nothing left to retry.
Clean == highest # None /\ ~cancelled /\ ~limited /\ ~frozen

SetFrontier ==
  /\ pc = "frontier"
  /\ IF mode # "incremental" /\ Clean
     THEN /\ frontier' = Clamp(highest)
          /\ swept' = swept \cup {s.item : s \in list}
     ELSE UNCHANGED <<frontier, swept>>
  /\ list' = {} /\ highest' = None /\ frozen' = FALSE /\ limited' = FALSE
  /\ pc' = "backlog"
  /\ UNCHANGED <<profile, upstream, documents, watermark, mode, checkpoint,
                 todo, cancelled, resumed, ids, refused, passed, faults>>

-----------------------------------------------------------------------------
(* harvest(): citation extraction.                                         *)

\* text_document_ids(only_never_extracted=True)
NeverExtracted == {i \in Item : held[i] > 0 /\ ~stamped[i]}

\* A resumed harvest rebuilds its worklist from the catalogue.
MutantWorklist == IF resumed THEN NeverExtracted ELSE ids
Worklist == IF resumed THEN ids \cup NeverExtracted ELSE ids

Backlog ==
  /\ pc = "backlog"
  /\ ids' = IF cancelled THEN {} ELSE Worklist
  /\ pc' = "extract"
  /\ UNCHANGED <<profile, upstream, documents, cursors, mode, checkpoint, list,
                 todo, highest, frozen, cancelled, limited, resumed, history,
                 faults>>

\* One document: its edges are replaced, its stamp is the last write.
Extract(i) ==
  /\ pc = "extract"
  /\ i \in ids
  /\ mined' = [mined EXCEPT ![i] = held[i]]
  /\ stamped' = [stamped EXCEPT ![i] = TRUE]
  /\ ids' = ids \ {i}
  /\ UNCHANGED <<profile, upstream, held, cursors, mode, checkpoint, pc, list,
                 todo, highest, frozen, cancelled, limited, resumed, history,
                 faults>>

\* No text to read, or a grammar that raises: the batch goes on without it.
Unreadable(i) ==
  /\ pc = "extract"
  /\ i \in ids
  /\ Fault("transient")
  /\ ids' = ids \ {i}
  /\ UNCHANGED <<profile, upstream, documents, cursors, mode, checkpoint, pc,
                 list, todo, highest, frozen, cancelled, limited, resumed,
                 history>>

Forget ==
  /\ pc' = "idle"
  /\ list' = {} /\ todo' = {} /\ highest' = None /\ ids' = {}
  /\ frozen' = FALSE /\ cancelled' = FALSE /\ limited' = FALSE /\ resumed' = FALSE

End ==
  /\ pc = "extract"
  /\ ids = {}
  /\ Forget
  /\ UNCHANGED <<profile, upstream, documents, cursors, mode, checkpoint,
                 history, faults>>

\* The process dies, or discover fails and the exception ends the job.
Crash ==
  /\ pc # "idle"
  /\ Fault("crash")
  /\ Forget
  /\ UNCHANGED <<profile, upstream, documents, cursors, mode, checkpoint, history>>

-----------------------------------------------------------------------------
Step ==
  \/ \E s \in todo : \/ Dedup(s) \/ Store(s) \/ FoundElsewhere(s) \/ Absent(s)
                     \/ Transient(s)
  \/ RateLimit
  \/ Cancel
  \/ SetWatermark
  \/ SetFrontier
  \/ Backlog
  \/ \E i \in ids : Extract(i) \/ Unreadable(i)
  \/ End

Next ==
  \/ \E i \in Item : Publish(i)
  \/ Tick
  \/ Start
  \/ Resume
  \/ Step
  \/ Crash

Spec == Init /\ [][Next]_vars

-----------------------------------------------------------------------------
(* Properties.                                                             *)

Stub == [item : Item, mark : Day, rev : Nat]

\* Every variable stays within its type.
TypeOK ==
  /\ profile \in Profiles
  /\ now \in Day
  /\ rev \in [Item -> Nat]
  /\ mark \in [Item -> Day]
  /\ held \in [Item -> Nat]
  /\ mined \in [Item -> Nat]
  /\ stamped \in [Item -> BOOLEAN]
  /\ watermark \in Day
  /\ frontier \in Day
  /\ mode \in Modes \cup {"none"}
  /\ checkpoint \in Nat
  /\ pc \in {"idle", "walk", "frontier", "backlog", "extract"}
  /\ list \subseteq Stub /\ IsFiniteSet(list)
  /\ todo \subseteq Stub
  /\ highest \in Day
  /\ frozen \in BOOLEAN
  /\ cancelled \in BOOLEAN
  /\ limited \in BOOLEAN
  /\ resumed \in BOOLEAN
  /\ ids \subseteq Item
  /\ refused \in [Item -> Nat]
  /\ swept \subseteq Item
  /\ passed \in [Item -> Nat]
  /\ faults \in Nat

Missing(i) == held[i] < rev[i] /\ refused[i] < rev[i]

Reached(i) == mark[i] > Overlapped(watermark)

\* "watermarks advance only after a clean run, so a crash re-pulls rather than
\* skips" (runner.py): a revision the catalogue does not hold, and that the
\* source has not refused, is in the part of the feed the next incremental run
\* asks for, whatever happened to the runs before it and however late or early
\* the item was dated.  It leaves out what a run gave up when its own cursor was
\* already past it.
NothingStranded ==
  pc = "idle" =>
    \A i \in Item : Missing(i) => Reached(i) \/ passed[i] = rev[i]

\* "Freeze the cursor here so the next incremental run re-reaches this stub and
\* retries" (runner.py): the same without the exception.  Freezing keeps a
\* cursor from rising, it does not lower the one that the newer stubs of a feed
\* walked newest first have raised.
FailedAreRetried == pc = "idle" => \A i \in Item : Missing(i) => Reached(i)

\* Held, but the graph has the citations of an earlier revision, or none.
Unmined(i) == held[i] > 0 /\ mined[i] # held[i]

\* What a run stored stays on its list until it is mined, through rate limits,
\* frozen cursors, duplicates and revisions that arrive meanwhile: only a crash, a
\* cancel, a text that cannot be read or an _ingest that raises after its commit
\* leaves a document unmined.
MiningNeverSlips ==
  [][\A i \in Item :
       Unmined(i)' /\ i \notin ids' =>
         \/ Unmined(i) /\ i \notin ids
         \/ Crash \/ Cancel \/ Unreadable(i)
         \/ \E s \in todo : s.item = i /\ Transient(s)
         \/ pc = "backlog" /\ cancelled]_vars

\* "Record the backfill frontier only when a FULL backfill completed cleanly
\* ... with no item left frozen for retry" (runner.py): whatever a backfill
\* that moved the frontier had listed is held or was refused.
FrontierHasNoGaps == \A i \in swept : held[i] > 0 \/ refused[i] > 0
=============================================================================
