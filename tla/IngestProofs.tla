---------------------------- MODULE IngestProofs ----------------------------
(***************************************************************************)
(* Theorems about Ingest for every number of documents, days, revisions    *)
(* and faults.                                                             *)
(***************************************************************************)
EXTENDS Ingest, FiniteSetTheorems, FunctionTheorems, TLAPS

USE DEF upstream, documents, cursors, locals, history

-----------------------------------------------------------------------------
(* Types.                                                                  *)

\* A listing has finitely many stubs, so that a stub has a position in it.
LEMMA ListingType ==
  ASSUME TypeOK, NEW since
  PROVE  Listing(since) \subseteq Stub /\ IsFiniteSet(Listing(since))
<1> DEFINE K == {k \in Item : rev[k] > 0 /\ mark[k] > since}
<1>1. IsFiniteSet(K)
  BY IngestAssumption, FS_Subset
<1>2. IsFiniteSet({Current(k) : k \in K})
  <2> DEFINE f == [k \in K |-> Current(k)]
  <2>1. f \in Surjection(K, {Current(k) : k \in K})
    BY DEF Surjection
  <2> HIDE DEF f, K
  <2> QED
    BY <1>1, <2>1, FS_Surjection
<1> QED
  BY <1>2 DEF TypeOK, Listing, Current, Stub

LEMMA PartsAreFinite ==
  ASSUME NEW L, IsFiniteSet(L), NEW K \in SUBSET L
  PROVE  Cardinality(K) \in Nat
BY FS_Subset, FS_CardinalityType

LEMMA CursorTypes ==
  ASSUME TypeOK
  PROVE  /\ \A w \in Day : Clamp(w) \in Day
         /\ \A a, b \in Day : Later(a, b) \in Day
         /\ \A m \in Modes : Seed(m) \in Day
BY IngestAssumption DEF TypeOK, Clamp, Earlier, Later, Day, Seed, Modes, None

LEMMA CheckpointType ==
  ASSUME TypeOK, NEW s \in todo, Checkpoint(s)
  PROVE  checkpoint' \in Nat
<1>1. Offset(s) \in Nat
  BY PartsAreFinite DEF TypeOK, Offset
<1> QED
  BY <1>1 DEF TypeOK, Checkpoint

LEMMA AdvanceType ==
  ASSUME TypeOK, NEW s \in todo, Advance(s)
  PROVE  highest' \in Day
<1>1. s.mark \in Day
  BY DEF TypeOK, Stub
<1> QED
  BY <1>1, CursorTypes DEF TypeOK, Advance

LEMMA UpsertType ==
  ASSUME TypeOK, NEW i \in Item, Upsert(i)
  PROVE  held' \in [Item -> Nat] /\ mined' \in [Item -> Nat]
BY DEF TypeOK, Upsert

LEMMA PassType ==
  ASSUME TypeOK, NEW S, Pass(S)
  PROVE  passed' \in [Item -> Nat]
BY DEF TypeOK, Pass

LEMMA FaultType == ASSUME TypeOK, NEW k, Fault(k) PROVE faults' \in Nat
BY DEF TypeOK, Fault

LEMMA WalkType ==
  ASSUME TypeOK, NEW m \in Modes, NEW offset \in Nat, NEW again \in BOOLEAN,
         Walk(m, offset, again)
  PROVE  TypeOK'
<1>1. list' \subseteq Stub /\ IsFiniteSet(list') /\ todo' \subseteq Stub
  BY ListingType DEF Walk
<1>2. highest' \in Day
  BY CursorTypes DEF Walk
<1> QED
  BY <1>1, <1>2 DEF Walk, TypeOK

LEMMA InitTypes == Init => TypeOK
<1> SUFFICES ASSUME Init PROVE TypeOK
  OBVIOUS
<1>1. 0 \in Day /\ 1 \in Day
  BY IngestAssumption DEF Day
<1> QED
  BY <1>1, FS_EmptySet DEF Init, TypeOK, None, Stub

LEMMA WorldTypes ==
  ASSUME TypeOK, (\E i \in Item : Publish(i)) \/ Tick
  PROVE  TypeOK'
<1>1. CASE Tick
  <2>1. now' \in Day
    BY <1>1, IngestAssumption DEF Tick, TypeOK, Day
  <2> QED
    BY <1>1, <2>1 DEF Tick, TypeOK
<1>2. ASSUME NEW i \in Item, Publish(i)
      PROVE  TypeOK'
  <2>1. now' \in Day /\ mark' \in [Item -> Day]
    <3>1. CASE profile.instants
      <4>1. now' = now + 1 /\ now + 1 \in Day
        BY <1>2, <3>1, IngestAssumption DEF Publish, TypeOK, Day
      <4>2. mark' = [mark EXCEPT ![i] = now + 1]
        BY <1>2, <3>1 DEF Publish
      <4> QED
        BY <4>1, <4>2 DEF TypeOK
    <3>2. CASE ~profile.instants
      <4>1. PICK m \in Day : mark' = [mark EXCEPT ![i] = m]
        BY <1>2, <3>2 DEF Publish
      <4>2. UNCHANGED now
        BY <1>2, <3>2 DEF Publish
      <4> QED
        BY <4>1, <4>2 DEF TypeOK
    <3> QED BY <3>1, <3>2
  <2>2. rev' \in [Item -> Nat]
    BY <1>2 DEF Publish, TypeOK
  <2> QED
    BY <1>2, <2>1, <2>2 DEF Publish, TypeOK
<1> QED
  BY <1>1, <1>2

LEMMA StubTypes ==
  ASSUME TypeOK, NEW s \in todo,
         \/ Dedup(s) \/ Store(s) \/ FoundElsewhere(s) \/ Absent(s) \/ Transient(s)
  PROVE  TypeOK'
<1>1. s.item \in Item /\ todo \ {s} \subseteq Stub /\ Checkpoint(s)
  BY DEF TypeOK, Stub, Dedup, Store, FoundElsewhere, Absent, Transient
<1>2. checkpoint' \in Nat
  BY <1>1, CheckpointType
<1>3. CASE Dedup(s)
  <2>1. highest' \in Day
    BY <1>3, AdvanceType DEF Dedup
  <2>2. ids' \subseteq Item
    BY <1>1, <1>3 DEF Dedup, TypeOK
  <2> QED
    BY <1>1, <1>2, <1>3, <2>1, <2>2 DEF Dedup, TypeOK
<1>4. CASE Store(s)
  <2>1. highest' \in Day
    BY <1>4, AdvanceType DEF Store
  <2>2. ids' \subseteq Item /\ held' \in [Item -> Nat] /\ mined' \in [Item -> Nat]
    BY <1>1, <1>4, UpsertType DEF Store, TypeOK
  <2> QED
    BY <1>1, <1>2, <1>4, <2>1, <2>2 DEF Store, TypeOK
<1>5. CASE FoundElsewhere(s)
  <2>1. highest' \in Day
    BY <1>5, AdvanceType DEF FoundElsewhere
  <2>2. refused' \in [Item -> Nat]
    BY <1>1, <1>5 DEF FoundElsewhere, TypeOK
  <2> QED
    BY <1>1, <1>2, <1>5, <2>1, <2>2 DEF FoundElsewhere, TypeOK
<1>6. CASE Absent(s)
  <2>1. refused' \in [Item -> Nat]
    BY <1>1, <1>6 DEF Absent, TypeOK
  <2> QED
    BY <1>1, <1>2, <1>6, <2>1 DEF Absent, TypeOK
<1>7. CASE Transient(s)
  <2>1. faults' \in Nat /\ passed' \in [Item -> Nat]
    BY <1>7, FaultType, PassType DEF Transient
  <2>2. held' \in [Item -> Nat] /\ mined' \in [Item -> Nat]
    BY <1>1, <1>7, UpsertType DEF Transient, TypeOK
  <2> QED
    BY <1>1, <1>2, <1>7, <2>1, <2>2 DEF Transient, Freezes, TypeOK
<1> QED
  BY <1>3, <1>4, <1>5, <1>6, <1>7

LEMMA RunTypes ==
  ASSUME TypeOK, RateLimit \/ Cancel \/ SetWatermark \/ SetFrontier
  PROVE  TypeOK'
<1>1. CASE RateLimit
  BY <1>1, FaultType DEF RateLimit, TypeOK
<1>2. CASE Cancel
  <2>1. faults' \in Nat /\ ids' \subseteq Item /\ passed' \in [Item -> Nat]
    BY <1>2, FaultType, PassType DEF Cancel, TypeOK
  <2> QED
    BY <1>2, <2>1 DEF Cancel, TypeOK
<1>3. CASE SetWatermark
  <2>1. watermark' \in Day
    BY <1>3, CursorTypes DEF SetWatermark, TypeOK
  <2> QED
    BY <1>3, <2>1 DEF SetWatermark, TypeOK
<1>4. CASE SetFrontier
  <2>1. frontier' \in Day /\ swept' \subseteq Item
    <3>1. {s.item : s \in list} \subseteq Item
      BY DEF TypeOK, Stub
    <3>2. Clamp(highest) \in Day
      BY CursorTypes DEF TypeOK
    <3> QED
      BY <1>4, <3>1, <3>2 DEF SetFrontier, TypeOK
  <2>2. None \in Day
    BY <1>4, IngestAssumption DEF None, Day
  <2> QED
    BY <1>4, <2>1, <2>2, FS_EmptySet DEF SetFrontier, TypeOK
<1> QED
  BY <1>1, <1>2, <1>3, <1>4

LEMMA HarvestTypes ==
  ASSUME TypeOK,
         \/ Backlog
         \/ \E i \in ids : Extract(i) \/ Unreadable(i)
         \/ End
         \/ Crash
  PROVE  TypeOK'
<1>1. CASE Backlog
  <2>1. ids' \subseteq Item
    BY <1>1 DEF Backlog, Worklist, NeverExtracted, TypeOK
  <2> QED
    BY <1>1, <2>1 DEF Backlog, TypeOK
<1>2. ASSUME NEW i \in ids, Extract(i)
      PROVE  TypeOK'
  <2>1. i \in Item
    BY DEF TypeOK
  <2>2. mined' \in [Item -> Nat] /\ stamped' \in [Item -> BOOLEAN]
    BY <1>2, <2>1 DEF Extract, TypeOK
  <2> QED
    BY <1>2, <2>2 DEF Extract, TypeOK
<1>3. ASSUME NEW i \in ids, Unreadable(i)
      PROVE  TypeOK'
  BY <1>3, FaultType DEF Unreadable, TypeOK
<1>4. CASE End \/ Crash
  <2>1. Forget /\ None \in Day
    BY <1>4, IngestAssumption DEF End, Crash, None, Day
  <2>2. UNCHANGED <<profile, upstream, documents, cursors, mode, checkpoint,
                    history>>
    BY <1>4 DEF End, Crash
  <2>3. faults' \in Nat
    BY <1>4, FaultType DEF End, Crash, TypeOK
  <2> QED
    BY <2>1, <2>2, <2>3, FS_EmptySet DEF Forget, TypeOK
<1> QED
  BY <1>1, <1>2, <1>3, <1>4

LEMMA NextTypes == TypeOK /\ [Next]_vars => TypeOK'
<1> SUFFICES ASSUME TypeOK, [Next]_vars PROVE TypeOK'
  OBVIOUS
<1>1. CASE UNCHANGED vars
  BY <1>1 DEF vars, TypeOK
<1>2. CASE Start
  <2>1. PICK m \in profile.modes : Walk(m, 0, FALSE)
    BY <1>2 DEF Start
  <2>2. m \in Modes
    BY IngestAssumption DEF TypeOK, Profile
  <2> QED
    BY <2>1, <2>2, WalkType
<1>3. CASE Resume
  BY <1>3, WalkType DEF Resume, TypeOK
<1> QED
  BY <1>1, <1>2, <1>3, WorldTypes, StubTypes, RunTypes, HarvestTypes DEF Next, Step

\* Every variable of a source's ingestion stays within its type, whatever the
\* feed, the adapter and the faults: a cursor never leaves the calendar.
THEOREM TypeCorrect == Spec => []TypeOK
BY InitTypes, NextTypes, PTL DEF Spec

-----------------------------------------------------------------------------
(* Frontiers.  Without resume offsets a walk has the whole listing before   *)
(* it; a stub leaves it when its item is held or refused, or it leaves a    *)
(* mark on the run.                                                         *)

\* No adapter considered hands out resume offsets.
NoOffsets == \A p \in Profiles : ~p.offsets

Settled(i) == held[i] > 0 \/ refused[i] > 0
Flawless == ~frozen /\ ~cancelled /\ ~limited

SweepInv ==
  /\ checkpoint = 0
  /\ todo \subseteq list
  /\ \A s \in list : s.rev > 0 /\ rev[s.item] > 0
  /\ pc = "frontier" => todo = {}
  /\ pc \in {"walk", "frontier"} /\ Flawless =>
       \A s \in list : s \in todo \/ Settled(s.item)
  /\ FrontierHasNoGaps

LEMMA NoOffsetsFact == ASSUME NoOffsets, TypeOK PROVE ~profile.offsets
BY DEF NoOffsets, TypeOK

\* A walk that skips no prefix has the whole listing before it.
LEMMA WholeListing ==
  ASSUME TypeOK, NEW m \in Modes, NEW again \in BOOLEAN, Walk(m, 0, again)
  PROVE  list' = Listing(Since(m)) /\ todo' = list'
<1> DEFINE L == Listing(Since(m))
<1>1. Floor(0) = 0
  BY IngestAssumption DEF Floor
<1>2. \A s \in L : Cardinality({t \in L : Before(t, s)}) >= 0
  <2>1. IsFiniteSet(L)
    BY ListingType
  <2>2. \A s \in L : {t \in L : Before(t, s)} \in SUBSET L
    OBVIOUS
  <2> QED
    BY <2>1, <2>2, PartsAreFinite
<1> QED
  BY <1>1, <1>2 DEF Walk

\* What a stub's outcomes have in common.
LEMMA StubOutcome ==
  ASSUME NoOffsets, TypeOK, checkpoint = 0, NEW s \in todo,
         \/ Dedup(s) \/ Store(s) \/ FoundElsewhere(s) \/ Absent(s) \/ Transient(s)
  PROVE  /\ checkpoint' = 0
         /\ pc = "walk"
         /\ todo' = todo \ {s}
         /\ UNCHANGED <<profile, now, rev, mark, cursors, mode, pc, list,
                        cancelled, limited, swept>>
<1>1. Head(s) /\ Checkpoint(s)
  BY DEF Dedup, Store, FoundElsewhere, Absent, Transient
<1>2. checkpoint' = 0 /\ pc = "walk"
  BY <1>1, NoOffsetsFact DEF Head, Checkpoint
<1> QED
  BY <1>2 DEF Dedup, Store, FoundElsewhere, Absent, Transient

LEMMA SweepWalk ==
  ASSUME TypeOK, SweepInv, NEW m \in Modes, NEW again \in BOOLEAN,
         Walk(m, 0, again)
  PROVE  SweepInv'
<1>1. list' = Listing(Since(m)) /\ todo' = list'
  BY WholeListing
<1>2. \A s \in list' : s.rev > 0 /\ rev'[s.item] > 0
  BY <1>1 DEF Listing, Current, Walk
<1>3. FrontierHasNoGaps'
  BY DEF SweepInv, FrontierHasNoGaps, Walk
<1> QED
  BY <1>1, <1>2, <1>3 DEF Walk, SweepInv

LEMMA SweepWorld ==
  ASSUME TypeOK, SweepInv, (\E i \in Item : Publish(i)) \/ Tick
  PROVE  SweepInv'
<1>1. \A i \in Item : rev[i] > 0 => rev'[i] > 0
  BY DEF Publish, Tick, TypeOK
<1>2. UNCHANGED <<documents, cursors, checkpoint, pc, locals, history>>
  BY DEF Publish, Tick
<1>3. \A s \in list : s.item \in Item
  BY DEF TypeOK, Stub
<1> QED
  BY <1>1, <1>2, <1>3 DEF SweepInv, FrontierHasNoGaps, Settled, Flawless

LEMMA SweepStub ==
  ASSUME NoOffsets, TypeOK, SweepInv, NEW s \in todo,
         \/ Dedup(s) \/ Store(s) \/ FoundElsewhere(s) \/ Absent(s) \/ Transient(s)
  PROVE  SweepInv'
<1> USE DEF Settled
<1>1. /\ checkpoint' = 0 /\ pc = "walk" /\ todo' = todo \ {s}
      /\ UNCHANGED <<rev, pc, list, cancelled, limited, swept>>
  BY StubOutcome DEF SweepInv
<1>2. s.item \in Item /\ \A t \in list : t.item \in Item
  BY DEF TypeOK, Stub
<1>3. s.rev > 0 /\ rev[s.item] > 0 /\ s \in list
  BY DEF SweepInv
<1>4. /\ \A i \in Item : Settled(i) => Settled(i)'
      /\ Settled(s.item)' \/ frozen'
  <2>1. CASE Dedup(s)
    BY <1>3, <2>1 DEF Dedup, Holds
  <2>2. CASE Store(s)
    BY <1>2, <1>3, <2>2 DEF Store, Upsert, TypeOK
  <2>3. CASE FoundElsewhere(s) \/ Absent(s)
    BY <1>2, <1>3, <2>3 DEF FoundElsewhere, Absent, TypeOK
  <2>4. CASE Transient(s)
    BY <1>2, <1>3, <2>4 DEF Transient, Upsert, Freezes, TypeOK
  <2> QED BY <2>1, <2>2, <2>3, <2>4
<1>5. frozen => frozen'
  BY DEF Dedup, Store, FoundElsewhere, Absent, Transient, Freezes
<1>6. ASSUME Flawless', NEW t \in list
      PROVE  t \in todo' \/ Settled(t.item)'
  <2>1. Flawless
    BY <1>1, <1>5, <1>6 DEF Flawless
  <2>2. t \in todo \/ Settled(t.item)
    BY <1>1, <2>1 DEF SweepInv
  <2>3. ~frozen'
    BY <1>6 DEF Flawless
  <2> QED
    BY <1>1, <1>2, <1>4, <2>2, <2>3
<1>7. FrontierHasNoGaps'
  <2>1. \A i \in swept : i \in Item
    BY DEF TypeOK
  <2> QED
    BY <1>1, <1>4, <2>1 DEF SweepInv, FrontierHasNoGaps
<1> HIDE DEF Settled
<1> QED
  BY <1>1, <1>6, <1>7 DEF SweepInv

LEMMA SweepRun ==
  ASSUME TypeOK, SweepInv,
         \/ RateLimit \/ Cancel \/ SetWatermark \/ SetFrontier
         \/ Backlog
         \/ \E i \in ids : Extract(i) \/ Unreadable(i)
         \/ End
         \/ Crash
  PROVE  SweepInv'
<1> USE DEF Settled, Flawless, FrontierHasNoGaps
<1>1. CASE RateLimit \/ Cancel
  BY <1>1 DEF RateLimit, Cancel, SweepInv
<1>2. CASE SetWatermark
  BY <1>2 DEF SetWatermark, SweepInv
<1>3. CASE SetFrontier
  <2>1. FrontierHasNoGaps'
    <3>1. CASE mode # "incremental" /\ Clean
      <4>1. \A s \in list : Settled(s.item)
        BY <1>3, <3>1 DEF SetFrontier, SweepInv, Clean
      <4>2. swept' = swept \cup {s.item : s \in list}
        BY <1>3, <3>1 DEF SetFrontier
      <4>3. UNCHANGED <<held, refused>>
        BY <1>3 DEF SetFrontier
      <4> QED
        BY <4>1, <4>2, <4>3 DEF SweepInv
    <3>2. CASE ~(mode # "incremental" /\ Clean)
      BY <1>3, <3>2 DEF SetFrontier, SweepInv
    <3> QED BY <3>1, <3>2
  <2> QED
    BY <1>3, <2>1 DEF SetFrontier, SweepInv
<1>4. CASE Backlog
  BY <1>4 DEF Backlog, SweepInv
<1>5. CASE \E i \in ids : Extract(i) \/ Unreadable(i)
  BY <1>5 DEF Extract, Unreadable, SweepInv
<1>6. CASE End \/ Crash
  BY <1>6 DEF End, Crash, Forget, SweepInv
<1> QED
  BY <1>1, <1>2, <1>3, <1>4, <1>5, <1>6

LEMMA SweepNext ==
  ASSUME NoOffsets, TypeOK, SweepInv, [Next]_vars
  PROVE  SweepInv'
<1>1. CASE UNCHANGED vars
  BY <1>1 DEF vars, SweepInv, Flawless, Settled, FrontierHasNoGaps
<1>2. CASE Start
  <2>1. PICK m \in profile.modes : Walk(m, 0, FALSE)
    BY <1>2 DEF Start
  <2>2. m \in Modes
    BY IngestAssumption DEF TypeOK, Profile
  <2> QED
    BY <2>1, <2>2, SweepWalk
<1>3. CASE Resume
  <2>1. mode \in Modes /\ Walk(mode, 0, TRUE)
    BY <1>3 DEF Resume, TypeOK, SweepInv
  <2> QED
    BY <2>1, SweepWalk
<1> QED
  BY <1>1, <1>2, <1>3, SweepWorld, SweepStub, SweepRun DEF Next, Step

\* A backfill that moves the frontier has held, or been refused, every item it
\* listed, whatever cancelled, limited or crashed the attempts before it: so
\* it is for every adapter that hands out no resume offsets.
THEOREM FrontierCovers == NoOffsets => (Spec => []FrontierHasNoGaps)
<1> SUFFICES ASSUME NoOffsets PROVE Spec => []FrontierHasNoGaps
  OBVIOUS
<1>1. Init => SweepInv
  BY DEF Init, SweepInv, FrontierHasNoGaps
<1>2. TypeOK /\ SweepInv /\ [Next]_vars => SweepInv'
  BY SweepNext
<1>3. SweepInv => FrontierHasNoGaps
  BY DEF SweepInv
<1> QED
  BY <1>1, <1>2, <1>3, TypeCorrect, PTL DEF Spec

-----------------------------------------------------------------------------
\* A daily drip: oldest first, items late by less than the overlap.
Drips == \A p \in Profiles : /\ ~p.instants /\ ~p.newestFirst /\ ~p.offsets
                             /\ p.late < Overlap
                             /\ p.modes \subseteq {"incremental", "full"}

Recent(i) == mark[i] >= now - profile.late
Ahead(i) == Current(i) \in todo

DripInv ==
  /\ checkpoint = 0
  /\ mode # "backfill"
  /\ watermark <= now
  /\ \A i \in Item : rev[i] > 0 => mark[i] >= 1
  /\ \A i \in Item : Missing(i) => mark[i] > Overlapped(watermark)
  /\ pc = "walk" =>
       \A i \in Item : Missing(i) => mark[i] > Overlapped(Clamp(highest))
  /\ pc = "walk" /\ ~frozen /\ todo # {} =>
       \A i \in Item : Missing(i) => Recent(i) \/ Ahead(i)

\* A mark that is not in the past by more than a walk forgives is ahead of
\* every cursor the walk can leave.
LEMMA RecentIsAhead ==
  ASSUME Drips, TypeOK, NEW i \in Item, mark[i] >= 1, Recent(i),
         NEW w \in Day, w <= now
  PROVE  mark[i] > Overlapped(w)
<1>1. profile.late \in Nat /\ profile.late < Overlap
  BY IngestAssumption DEF Drips, TypeOK, Profile, Day
<1> QED
  BY <1>1, IngestAssumption DEF Recent, Overlapped, TypeOK, Day, None

LEMMA ClampFacts ==
  ASSUME TypeOK, NEW w \in Day
  PROVE  Clamp(w) \in Day /\ Clamp(w) <= now /\ Clamp(w) <= w
BY CursorTypes DEF Clamp, Earlier, TypeOK, Day

\* A mark not behind w is ahead of the overlapped w.
LEMMA NotBehindIsAhead ==
  ASSUME Drips, TypeOK, NEW w \in Day, NEW m \in Day, m >= 1, w <= m
  PROVE  m > Overlapped(w)
<1>1. Overlap > 0
  BY IngestAssumption DEF Drips, TypeOK, Profile, Day
<1> QED
  BY <1>1, IngestAssumption DEF Overlapped, Day, None

LEMMA DripFacts ==
  ASSUME Drips, TypeOK
  PROVE  /\ NoOffsets
         /\ ~profile.instants
         /\ profile.modes \subseteq {"incremental", "full"}
         /\ \A s, t \in todo : Head(s) => s.mark <= t.mark
<1>1. \A s, t \in todo : ~(t.mark < s.mark) => s.mark <= t.mark
  BY DEF TypeOK, Stub, Day
<1> QED
  BY <1>1 DEF Drips, TypeOK, NoOffsets, Before, Head

LEMMA MarkTypes ==
  ASSUME TypeOK
  PROVE  /\ \A i \in Item : /\ mark[i] \in Day
                            /\ rev[i] \in Nat /\ held[i] \in Nat /\ refused[i] \in Nat
                            /\ Missing(i) => rev[i] > 0
         /\ Day \subseteq Nat
BY DEF TypeOK, Missing, Day

\* A walk begins: what is missing is recent enough to be in its listing.
LEMMA DripWalk ==
  ASSUME Drips, TypeOK, DripInv, NEW m \in {"incremental", "full"},
         NEW again \in BOOLEAN, Walk(m, 0, again)
  PROVE  DripInv'
<1>1. list' = Listing(Since(m)) /\ todo' = list'
  BY WholeListing DEF Modes
<1>2. UNCHANGED <<profile, now, rev, mark, held, refused, watermark>>
  BY DEF Walk
<1>3. \A i \in Item : Missing(i)' <=> Missing(i)
  BY <1>2 DEF Missing
<1>4. highest' \in {watermark, None}
  BY DEF Walk, Seed
<1>5. /\ Clamp(watermark) = watermark
      /\ Overlapped(Clamp(None)) = 0
  BY IngestAssumption DEF Clamp, Earlier, Overlapped, None, DripInv, TypeOK, Day
<1>6. ASSUME NEW i \in Item, Missing(i)
      PROVE  mark[i] > Since(m) /\ rev[i] > 0 /\ mark[i] >= 1
  BY <1>6, MarkTypes DEF DripInv, Since, None
<1>7. ASSUME NEW i \in Item, Missing(i)
      PROVE  Ahead(i)'
  <2>1. Current(i) \in todo'
    BY <1>1, <1>6, <1>7 DEF Listing
  <2> QED
    BY <1>2, <2>1 DEF Ahead, Current
<1>8. Clamp(highest)' = Clamp(highest') /\ Overlapped(watermark)' = Overlapped(watermark)
  BY <1>2 DEF Clamp, Earlier, Overlapped
<1>9. \A i \in Item : Missing(i) => mark[i] > Overlapped(Clamp(highest'))
  BY <1>4, <1>5, <1>6, MarkTypes DEF DripInv
<1>10. Overlapped(Clamp(highest))' = Overlapped(Clamp(highest'))
  BY <1>8 DEF Overlapped
<1>11. checkpoint' = 0 /\ mode' # "backfill"
  BY DEF Walk
<1> QED
  BY <1>2, <1>3, <1>7, <1>8, <1>9, <1>10, <1>11 DEF DripInv

\* The feed goes on: a new mark is recent, whatever the cursor.
LEMMA DripPublish ==
  ASSUME Drips, TypeOK, TypeOK', DripInv, NEW i \in Item, Publish(i)
  PROVE  DripInv'
<1>1. PICK m \in Day : /\ now - profile.late <= m
                       /\ Later(mark[i], 1) <= m
                       /\ mark' = [mark EXCEPT ![i] = m]
                       /\ UNCHANGED now
  BY DripFacts DEF Publish
<1>2. /\ rev' = [rev EXCEPT ![i] = @ + 1]
      /\ UNCHANGED <<profile, held, refused, watermark, mode, checkpoint, pc, todo,
                     highest, frozen>>
  BY DEF Publish
<1>3. mark'[i] >= 1 /\ mark'[i] >= mark[i] /\ Recent(i)'
  BY <1>1, <1>2, MarkTypes DEF Later, Recent, TypeOK
<1>4. \A k \in Item : k # i => /\ mark'[k] = mark[k] /\ rev'[k] = rev[k]
                               /\ Missing(k)' <=> Missing(k)
                               /\ Recent(k)' <=> Recent(k)
                               /\ Ahead(k)' <=> Ahead(k)
  BY <1>1, <1>2 DEF Missing, Recent, Ahead, Current, TypeOK
<1>5. watermark' \in Day /\ watermark' <= now' /\ highest' \in Day
  BY <1>1, <1>2 DEF TypeOK, DripInv
<1>6. /\ \A w \in Day : Overlapped(w)' = Overlapped(w)
      /\ Clamp(highest)' = Clamp(highest)
      /\ Overlapped(watermark)' = Overlapped(watermark)
      /\ Overlapped(Clamp(highest))' = Overlapped(Clamp(highest))
  BY <1>1, <1>2 DEF Overlapped, Clamp, Earlier
<1>7. /\ mark'[i] > Overlapped(watermark)'
      /\ mark'[i] > Overlapped(Clamp(highest))'
  <2>1. Clamp(highest)' \in Day /\ Clamp(highest)' <= now'
    BY <1>1, <1>6, ClampFacts DEF TypeOK
  <2>2. profile.late \in Nat /\ profile.late < Overlap
    BY IngestAssumption DEF Drips, TypeOK, Profile, Day
  <2>3. \A w \in Day : w <= now' => mark'[i] > Overlapped(w)
    BY <1>1, <1>2, <1>3, <2>2, IngestAssumption
       DEF Overlapped, Recent, TypeOK, Day, None
  <2> QED
    BY <1>1, <1>5, <1>6, <2>1, <2>3, <1>2
<1> QED
  BY <1>1, <1>2, <1>3, <1>4, <1>5, <1>6, <1>7 DEF DripInv

LEMMA DripTick ==
  ASSUME Drips, TypeOK, DripInv, Tick
  PROVE  DripInv'
BY DEF Tick, DripInv, Missing, Overlapped, TypeOK, Day

\* The walk handles the oldest stub before it: what it has not stored is in
\* front of it, or has frozen the mark, or came after the walk began.
LEMMA DripStub ==
  ASSUME Drips, TypeOK, DripInv, NEW s \in todo,
         \/ Dedup(s) \/ Store(s) \/ FoundElsewhere(s) \/ Absent(s) \/ Transient(s)
  PROVE  DripInv'
<1>1. /\ checkpoint' = 0 /\ pc = "walk" /\ todo' = todo \ {s}
      /\ UNCHANGED <<profile, now, rev, mark, watermark, mode, pc>>
  BY StubOutcome, DripFacts DEF DripInv
<1>2. Head(s) /\ s.item \in Item /\ s.mark \in Day
  BY DEF TypeOK, Stub, Dedup, Store, FoundElsewhere, Absent, Transient
<1>3. ASSUME NEW i \in Item, Missing(i)'
      PROVE  Missing(i) /\ (s = Current(i) => frozen')
  <2>1. CASE Dedup(s)
    BY <1>2, <1>3, <2>1, MarkTypes DEF Dedup, Holds, Missing, Current
  <2>2. CASE Store(s)
    BY <1>2, <1>3, <2>2, MarkTypes DEF Store, Upsert, Missing, Current, TypeOK
  <2>3. CASE FoundElsewhere(s) \/ Absent(s)
    BY <1>2, <1>3, <2>3, MarkTypes DEF FoundElsewhere, Absent, Missing, Current, TypeOK
  <2>4. CASE Transient(s)
    BY <1>2, <1>3, <2>4, MarkTypes DEF Transient, Upsert, Freezes, Missing, TypeOK
  <2> QED BY <2>1, <2>2, <2>3, <2>4
<1>4. highest' = highest \/ (highest' = s.mark /\ ~frozen)
  BY DEF Dedup, Store, FoundElsewhere, Absent, Transient, Advance, Later
<1>5. frozen => frozen'
  BY DEF Dedup, Store, FoundElsewhere, Absent, Transient, Freezes
<1>6. /\ Overlapped(watermark)' = Overlapped(watermark)
      /\ Overlapped(Clamp(highest))' = Overlapped(Clamp(highest'))
  BY <1>1 DEF Overlapped, Clamp, Earlier
<1>7. \A i \in Item : Missing(i) /\ ~frozen => Recent(i) \/ Ahead(i)
  BY <1>1 DEF DripInv
<1>8. ASSUME NEW i \in Item, Missing(i)
      PROVE  mark[i] > Overlapped(Clamp(highest'))
  <2>1. CASE highest' = highest
    BY <1>1, <1>8, <2>1 DEF DripInv
  <2>2. CASE highest' = s.mark /\ ~frozen
    <3>1. mark[i] >= 1 /\ mark[i] \in Day
      BY <1>8, MarkTypes DEF DripInv
    <3>2. Clamp(s.mark) \in Day /\ Clamp(s.mark) <= now /\ Clamp(s.mark) <= s.mark
      BY <1>2, ClampFacts
    <3>3. CASE Recent(i)
      BY <2>2, <3>1, <3>2, <3>3, RecentIsAhead
    <3>4. CASE Ahead(i)
      <4>1. PICK t \in todo : t.mark = mark[i]
        BY <3>4 DEF Ahead, Current
      <4>2. s.mark <= t.mark /\ t.mark \in Day
        BY <1>2, DripFacts DEF TypeOK, Stub
      <4>3. Clamp(s.mark) <= mark[i]
        BY <1>2, <3>1, <3>2, <4>1, <4>2 DEF Day
      <4> QED
        BY <2>2, <3>1, <3>2, <4>3, NotBehindIsAhead
    <3> QED
      BY <1>7, <1>8, <2>2, <3>3, <3>4
  <2> QED
    BY <1>4, <2>1, <2>2
<1>9. ASSUME NEW i \in Item, Missing(i)', ~frozen'
      PROVE  Recent(i)' \/ Ahead(i)'
  <2>1. Missing(i) /\ s # Current(i) /\ ~frozen
    BY <1>3, <1>5, <1>9
  <2>2. CASE Recent(i)
    BY <1>1, <2>2 DEF Recent
  <2>3. CASE Ahead(i)
    BY <1>1, <2>1, <2>3 DEF Ahead, Current
  <2> QED
    BY <1>7, <2>1, <2>2, <2>3
<1> QED
  BY <1>1, <1>3, <1>6, <1>8, <1>9 DEF DripInv

LEMMA DripRun ==
  ASSUME Drips, TypeOK, DripInv,
         \/ RateLimit \/ Cancel \/ SetWatermark \/ SetFrontier
         \/ Backlog
         \/ \E i \in ids : Extract(i) \/ Unreadable(i)
         \/ End
         \/ Crash
  PROVE  DripInv'
<1>1. /\ UNCHANGED <<profile, now, rev, mark, held, refused, checkpoint, mode>>
      /\ pc' = "walk" => /\ pc = "walk" /\ todo' = {}
                         /\ UNCHANGED <<highest, frozen, watermark>>
  BY DEF RateLimit, Cancel, SetWatermark, SetFrontier, Backlog, Extract,
         Unreadable, End, Crash, Forget
<1>2. \/ watermark' = watermark
      \/ watermark' = Clamp(highest) /\ pc = "walk"
  BY DEF RateLimit, Cancel, SetWatermark, SetFrontier, Backlog, Extract,
         Unreadable, End, Crash
<1>3. \A i \in Item : Missing(i)' <=> Missing(i)
  BY <1>1 DEF Missing
<1>4. watermark' <= now'
  BY <1>1, <1>2, ClampFacts DEF DripInv, TypeOK
<1>5. Overlapped(watermark)' = Overlapped(watermark')
  BY DEF Overlapped
<1>6. \A i \in Item : Missing(i) => mark[i] > Overlapped(watermark')
  BY <1>2 DEF DripInv
<1>7. pc' = "walk" => Overlapped(Clamp(highest))' = Overlapped(Clamp(highest))
  BY <1>1 DEF Overlapped, Clamp, Earlier
<1> QED
  BY <1>1, <1>3, <1>4, <1>5, <1>6, <1>7 DEF DripInv

LEMMA DripNext ==
  ASSUME Drips, TypeOK, TypeOK', DripInv, [Next]_vars
  PROVE  DripInv'
<1>1. CASE UNCHANGED vars
  BY <1>1 DEF vars, DripInv, Missing, Overlapped, Clamp, Earlier, Recent, Ahead, Current
<1>2. CASE Start
  BY <1>2, DripFacts, DripWalk DEF Start
<1>3. CASE Resume
  <2>1. mode \in {"incremental", "full"} /\ Walk(mode, 0, TRUE)
    BY <1>3 DEF Resume, TypeOK, DripInv, Modes
  <2> QED
    BY <2>1, DripWalk
<1> QED
  BY <1>1, <1>2, <1>3, DripPublish, DripTick, DripStub, DripRun DEF Next, Step

\* A source dated by the day, walked oldest first and re-read with an overlap
\* longer than its items are late never strands a revision: whatever run was
\* cancelled, limited, crashed or failed on an item, what the catalogue does
\* not hold is in the part of the feed the next incremental run asks for.
THEOREM DripStrandsNothing == Drips => (Spec => [](NothingStranded /\ FailedAreRetried))
<1> SUFFICES ASSUME Drips PROVE Spec => [](NothingStranded /\ FailedAreRetried)
  OBVIOUS
<1>1. Init => DripInv
  BY DEF Init, DripInv, Missing, None
<1>2. TypeOK /\ TypeOK' /\ DripInv /\ [Next]_vars => DripInv'
  BY DripNext
<1>3. DripInv => NothingStranded /\ FailedAreRetried
  BY DEF DripInv, NothingStranded, FailedAreRetried, Reached
<1> QED
  BY <1>1, <1>2, <1>3, TypeCorrect, PTL DEF Spec

-----------------------------------------------------------------------------
(* Streams.  A new mark is later than every mark and every cursor, so that  *)
(* a walk may be in any order.                                             *)

\* Marks are instants.
Streams == \A p \in Profiles : p.instants /\ ~p.offsets

\* Not held, not refused and not given up by a run that was past it.
Due(i) == Missing(i) /\ passed[i] # rev[i]

\* Later than all the walk has seen and will see.
After(i) == highest < mark[i] /\ \A s \in todo : s.mark < mark[i]

\* The walk has left it, with a cursor that keeps short of it.
Left(i) == (frozen \/ cancelled) /\ Overlapped(highest) < mark[i]

StreamInv ==
  /\ checkpoint = 0
  /\ watermark <= now /\ frontier <= now /\ highest <= now
  /\ \A i \in Item : rev[i] > 0 => 1 <= mark[i] /\ mark[i] <= now
  /\ \A s \in todo : s.mark <= now
  /\ \A i \in Item : Due(i) => Reached(i) /\ frontier < mark[i]
  /\ pc = "walk" /\ cancelled => todo = {}
  /\ pc = "walk" /\ ~limited =>
       \A i \in Item : Due(i) => Ahead(i) \/ After(i) \/ Left(i)
  /\ pc = "frontier" /\ ~limited =>
       \A i \in Item : Due(i) => highest < mark[i] \/ frozen \/ cancelled

LEMMA StreamFacts ==
  ASSUME Streams, TypeOK
  PROVE  NoOffsets /\ profile.instants
BY DEF Streams, TypeOK, NoOffsets

LEMMA OverlappedFacts ==
  ASSUME NEW w \in Day
  PROVE  Overlapped(w) \in Nat /\ Overlapped(w) <= w
BY IngestAssumption DEF Overlapped, Day, None

LEMMA StreamWalk ==
  ASSUME TypeOK, StreamInv, NEW m \in Modes, NEW again \in BOOLEAN,
         Walk(m, 0, again)
  PROVE  StreamInv'
<1>1. list' = Listing(Since(m)) /\ todo' = list'
  BY WholeListing
<1>2. /\ UNCHANGED <<profile, now, rev, mark, held, refused, passed, watermark, frontier>>
      /\ checkpoint' = 0 /\ pc' = "walk" /\ cancelled' = FALSE
  BY DEF Walk
<1>3. \A i \in Item : (Due(i)' <=> Due(i)) /\ (Reached(i)' <=> Reached(i))
  BY <1>2 DEF Due, Missing, Reached, Overlapped
<1>4. highest' <= now
  BY IngestAssumption DEF Walk, Seed, Modes, StreamInv, None, TypeOK, Day
<1>5. \A s \in todo' : s.mark <= now
  BY <1>1 DEF Listing, Current, StreamInv
<1>6. ASSUME NEW i \in Item, Due(i)
      PROVE  Ahead(i)'
  <2>1. rev[i] > 0 /\ mark[i] \in Nat
    BY <1>6, MarkTypes DEF Due
  <2>2. mark[i] > Since(m)
    BY <1>6, <2>1 DEF StreamInv, Reached, Since, Modes, None, TypeOK, Day
  <2>3. Current(i) \in todo'
    BY <1>1, <2>1, <2>2 DEF Listing
  <2> QED
    BY <1>2, <2>3 DEF Ahead, Current
<1> QED
  BY <1>2, <1>3, <1>4, <1>5, <1>6 DEF StreamInv

LEMMA StreamPublish ==
  ASSUME Streams, TypeOK, StreamInv, NEW i \in Item, Publish(i)
  PROVE  StreamInv'
<1>1. /\ now' = now + 1
      /\ mark' = [mark EXCEPT ![i] = now + 1]
      /\ rev' = [rev EXCEPT ![i] = @ + 1]
      /\ UNCHANGED <<held, refused, passed, watermark, frontier, checkpoint, pc, todo,
                     highest, frozen, cancelled, limited>>
  BY StreamFacts DEF Publish
<1>2. mark'[i] = now + 1 /\ now \in Nat
  BY <1>1 DEF TypeOK, Day
<1>3. \A k \in Item : k # i => /\ mark'[k] = mark[k] /\ rev'[k] = rev[k]
                               /\ Due(k)' <=> Due(k)
                               /\ Reached(k)' <=> Reached(k)
                               /\ Ahead(k)' <=> Ahead(k)
                               /\ After(k)' <=> After(k)
                               /\ Left(k)' <=> Left(k)
  <2> SUFFICES ASSUME NEW k \in Item, k # i
               PROVE  /\ mark'[k] = mark[k] /\ rev'[k] = rev[k]
                      /\ Due(k)' <=> Due(k)
                      /\ Reached(k)' <=> Reached(k)
                      /\ Ahead(k)' <=> Ahead(k)
                      /\ After(k)' <=> After(k)
                      /\ Left(k)' <=> Left(k)
    OBVIOUS
  <2>1. mark'[k] = mark[k] /\ rev'[k] = rev[k]
    BY <1>1 DEF TypeOK
  <2>2. (Due(k)' <=> Due(k)) /\ (Ahead(k)' <=> Ahead(k)) /\ (After(k)' <=> After(k))
    BY <1>1, <2>1 DEF Due, Missing, Ahead, Current, After
  <2>3. (Reached(k)' <=> Reached(k)) /\ (Left(k)' <=> Left(k))
    BY <1>1, <2>1 DEF Reached, Left, Overlapped
  <2> QED
    BY <2>1, <2>2, <2>3
<1>4. /\ watermark \in Nat /\ frontier \in Nat /\ highest \in Nat
      /\ \A s \in todo : s.mark \in Nat
      /\ \A k \in Item : mark[k] \in Nat
  BY DEF TypeOK, Stub, Day
<1>5. After(i)' /\ frontier' < mark'[i] /\ highest' < mark'[i]
  BY <1>1, <1>2, <1>4 DEF After, StreamInv
<1>6. Reached(i)'
  <2>1. Overlapped(watermark) \in Nat /\ Overlapped(watermark) <= watermark
    BY OverlappedFacts DEF TypeOK
  <2>2. watermark < mark'[i]
    BY <1>2, <1>4 DEF StreamInv
  <2>3. Overlapped(watermark)' = Overlapped(watermark)
    BY <1>1 DEF Overlapped
  <2> QED
    BY <1>2, <1>4, <2>1, <2>2, <2>3 DEF Reached
<1>7. /\ watermark' <= now' /\ frontier' <= now' /\ highest' <= now'
      /\ \A s \in todo' : s.mark <= now'
      /\ \A k \in Item : rev'[k] > 0 => 1 <= mark'[k] /\ mark'[k] <= now'
  BY <1>1, <1>2, <1>3, <1>4 DEF StreamInv
<1> QED
  BY <1>1, <1>3, <1>5, <1>6, <1>7 DEF StreamInv

LEMMA StreamStub ==
  ASSUME Streams, TypeOK, StreamInv, NEW s \in todo,
         \/ Dedup(s) \/ Store(s) \/ FoundElsewhere(s) \/ Absent(s) \/ Transient(s)
  PROVE  StreamInv'
<1>1. /\ checkpoint' = 0 /\ pc = "walk" /\ todo' = todo \ {s}
      /\ UNCHANGED <<profile, now, rev, mark, watermark, frontier, pc, cancelled,
                     limited>>
  BY StubOutcome, StreamFacts DEF StreamInv
<1>2. /\ s \in Stub /\ s.item \in Item /\ s.mark \in Nat /\ highest \in Nat
      /\ ~cancelled
  <2>1. s \in Stub /\ s.item \in Item /\ s.mark \in Nat /\ highest \in Nat
    BY DEF TypeOK, Stub, Day
  <2>2. todo # {}
    OBVIOUS
  <2> QED
    BY <1>1, <2>1, <2>2 DEF StreamInv
<1>3. highest' = highest \/ (highest' = s.mark /\ ~frozen)
  BY DEF Dedup, Store, FoundElsewhere, Absent, Transient, Advance, Later
<1>4. ASSUME NEW i \in Item, Due(i)'
      PROVE  Due(i) /\ (s = Current(i) => Left(i)')
  <2>1. CASE Dedup(s)
    BY <1>2, <1>4, <2>1, MarkTypes DEF Dedup, Holds, Due, Missing, Current
  <2>2. CASE Store(s)
    BY <1>2, <1>4, <2>2, MarkTypes DEF Store, Upsert, Due, Missing, Current, TypeOK
  <2>3. CASE FoundElsewhere(s) \/ Absent(s)
    BY <1>2, <1>4, <2>3, MarkTypes
       DEF FoundElsewhere, Absent, Due, Missing, Current, TypeOK
  <2>4. CASE Transient(s)
    <3>1. Missing(i)
      BY <1>2, <1>4, <2>4, MarkTypes DEF Transient, Upsert, Due, Missing, TypeOK
    <3>2. passed[i] # rev[i] /\ (i = s.item => Overlapped(highest) < s.mark)
      <4>1. Overlapped(highest) \in Nat
        BY OverlappedFacts DEF TypeOK
      <4>2. passed'[i] = IF i = s.item /\ s.mark <= Overlapped(highest)
                         THEN rev[i] ELSE passed[i]
        BY <2>4 DEF Transient, Pass
      <4>3. passed'[i] # rev[i]
        BY <1>1, <1>4 DEF Due
      <4> QED
        BY <1>2, <4>1, <4>2, <4>3
    <3>3. frozen' /\ highest' = highest
      BY <2>4 DEF Transient, Freezes
    <3>4. Overlapped(highest)' = Overlapped(highest)
      BY <3>3 DEF Overlapped
    <3>5. s = Current(i) => i = s.item /\ mark'[i] = s.mark
      BY <1>1 DEF Current
    <3> QED
      BY <1>1, <1>2, <3>1, <3>2, <3>3, <3>4, <3>5 DEF Due, Left
  <2> QED
    BY <2>1, <2>2, <2>3, <2>4
<1>5. \A i \in Item : Ahead(i) /\ s # Current(i) => Ahead(i)'
  BY <1>1 DEF Ahead, Current
<1>6. \A i \in Item : After(i) => After(i)'
  BY <1>1, <1>3 DEF After
<1>7. \A i \in Item : Left(i) => Left(i)'
  <2>1. frozen => frozen' /\ highest' = highest
    BY <1>3 DEF Dedup, Store, FoundElsewhere, Absent, Transient, Freezes
  <2> QED
    BY <1>1, <1>2, <2>1 DEF Left, Overlapped
<1>8. highest' <= now
  BY <1>3 DEF StreamInv
<1>9. \A i \in Item : Reached(i)' <=> Reached(i)
  BY <1>1 DEF Reached, Overlapped
<1>10. ASSUME ~limited, NEW i \in Item, Due(i)'
       PROVE  Ahead(i)' \/ After(i)' \/ Left(i)'
  <2>1. Due(i) /\ (Ahead(i) \/ After(i) \/ Left(i))
    BY <1>1, <1>4, <1>10 DEF StreamInv
  <2> QED
    BY <1>4, <1>5, <1>6, <1>7, <1>10, <2>1
<1> QED
  BY <1>1, <1>2, <1>4, <1>8, <1>9, <1>10 DEF StreamInv

\* Cancel leaves the rest of the feed, behind the cursor or ahead of it.
LEMMA StreamCancel ==
  ASSUME TypeOK, StreamInv, Cancel
  PROVE  StreamInv'
<1>1. /\ UNCHANGED <<now, rev, mark, held, refused, checkpoint, watermark, frontier,
                     pc, highest, frozen, limited>>
      /\ cancelled' /\ todo' = {} /\ Pass(todo)
      /\ pc \in {"walk", "extract"}
  BY DEF Cancel
<1>2. \A i \in Item : Reached(i)' <=> Reached(i)
  BY <1>1 DEF Reached, Overlapped
<1>3. Overlapped(highest)' = Overlapped(highest) /\ Overlapped(highest) \in Nat
      /\ Overlapped(highest) <= highest /\ highest \in Nat
  BY <1>1, OverlappedFacts DEF Overlapped, TypeOK, Day
<1>4. ASSUME NEW i \in Item, Due(i)'
      PROVE  Due(i) /\ (Ahead(i) => Left(i)')
  <2>1. passed'[i] = IF \E s \in todo : s.mark <= Overlapped(highest) /\ s.item = i
                     THEN rev[i] ELSE passed[i]
    BY <1>1 DEF Pass
  <2>2. Due(i)
    BY <1>1, <1>4, <2>1 DEF Due, Missing
  <2>3. ASSUME Ahead(i)
        PROVE  Overlapped(highest) < mark[i]
    <3>1. Current(i) \in todo /\ Current(i).item = i /\ Current(i).mark = mark[i]
      BY <2>3 DEF Ahead, Current
    <3>2. ~(mark[i] <= Overlapped(highest))
      BY <1>1, <1>4, <2>1, <3>1 DEF Due
    <3> QED
      BY <1>3, <3>2, MarkTypes
  <2> QED
    BY <1>1, <1>3, <2>2, <2>3 DEF Left
<1>5. \A i \in Item : (After(i) => After(i)') /\ (Left(i) => Left(i)')
  BY <1>1, <1>3 DEF After, Left
<1>6. pc' = "walk" /\ ~limited' =>
        \A i \in Item : Due(i)' => Ahead(i)' \/ After(i)' \/ Left(i)'
  BY <1>1, <1>4, <1>5 DEF StreamInv
<1> QED
  BY <1>1, <1>2, <1>4, <1>6 DEF StreamInv

LEMMA StreamRun ==
  ASSUME Streams, TypeOK, StreamInv,
         \/ RateLimit \/ SetWatermark \/ SetFrontier
         \/ Backlog
         \/ \E i \in ids : Extract(i) \/ Unreadable(i)
         \/ End
         \/ Crash
  PROVE  StreamInv'
<1>1. /\ UNCHANGED <<now, rev, mark, held, refused, passed, checkpoint>>
      /\ todo' \in {todo, {}}
      /\ highest' \in {highest, None}
      /\ pc' = "walk" => limited' /\ todo' = {}
      /\ pc' = "frontier" => SetWatermark
  BY DEF RateLimit, SetWatermark, SetFrontier, Backlog, Extract,
     Unreadable, End, Crash, Forget
<1>2. \A i \in Item : Due(i)' <=> Due(i)
  BY <1>1 DEF Due, Missing
<1>3. highest' <= now /\ \A s \in todo' : s.mark <= now
  BY <1>1 DEF StreamInv, None, TypeOK, Day
<1>4. Clamp(highest) = highest
  BY DEF Clamp, Earlier, StreamInv
<1>5. /\ watermark' <= now
      /\ \A i \in Item : Due(i) => mark[i] > Overlapped(watermark')
  <2>1. CASE SetWatermark /\ Advances
    <3>1. watermark' = highest /\ ~limited /\ pc = "walk" /\ todo = {}
      BY <1>4, <2>1 DEF SetWatermark, Advances
    <3>2. \A i \in Item : Due(i) => After(i) \/ Left(i)
      BY <3>1 DEF StreamInv, Ahead
    <3>3. /\ Overlapped(highest) \in Nat /\ Overlapped(highest) <= highest
          /\ highest \in Nat /\ \A i \in Item : mark[i] \in Nat
      BY OverlappedFacts DEF TypeOK, Day
    <3>4. \A i \in Item : Due(i) => mark[i] > Overlapped(highest)
      BY <3>2, <3>3 DEF After, Left
    <3> QED
      BY <3>1, <3>4 DEF StreamInv
  <2>2. CASE ~(SetWatermark /\ Advances)
    <3>1. watermark' = watermark
      BY <2>2 DEF RateLimit, SetWatermark, SetFrontier, Backlog, Extract,
         Unreadable, End, Crash
    <3> QED
      BY <3>1 DEF StreamInv, Reached
  <2> QED BY <2>1, <2>2
<1>6. /\ frontier' <= now
      /\ \A i \in Item : Due(i) => frontier' < mark[i]
  <2>1. CASE SetFrontier /\ mode # "incremental" /\ Clean
    <3>1. frontier' = highest /\ Flawless /\ pc = "frontier"
      BY <1>4, <2>1 DEF SetFrontier, Clean, Flawless
    <3> QED
      BY <3>1 DEF StreamInv, Flawless
  <2>2. CASE ~(SetFrontier /\ mode # "incremental" /\ Clean)
    <3>1. frontier' = frontier
      BY <2>2 DEF RateLimit, SetWatermark, SetFrontier, Backlog, Extract,
         Unreadable, End, Crash
    <3> QED
      BY <3>1 DEF StreamInv
  <2> QED BY <2>1, <2>2
<1>7. \A i \in Item : Due(i) => Reached(i)' /\ frontier' < mark'[i]
  BY <1>1, <1>5, <1>6 DEF Reached, Overlapped
<1>8. SetWatermark /\ ~limited =>
        \A i \in Item : Due(i) => highest' < mark[i] \/ frozen' \/ cancelled'
  BY DEF SetWatermark, StreamInv, Ahead, After, Left
<1>9. SetWatermark => limited' = limited
  BY DEF SetWatermark
<1> QED
  BY <1>1, <1>2, <1>3, <1>5, <1>6, <1>7, <1>8, <1>9 DEF StreamInv

LEMMA StreamNext ==
  ASSUME Streams, TypeOK, StreamInv, [Next]_vars
  PROVE  StreamInv'
<1>1. CASE UNCHANGED vars
  BY <1>1 DEF vars, StreamInv, Due, Missing, Reached, Ahead, After, Left, Current,
     Overlapped
<1>2. CASE Start
  <2>1. PICK m \in profile.modes : Walk(m, 0, FALSE)
    BY <1>2 DEF Start
  <2>2. m \in Modes
    BY IngestAssumption DEF TypeOK, Profile
  <2> QED
    BY <2>1, <2>2, StreamWalk
<1>3. CASE Resume
  <2>1. mode \in Modes /\ Walk(mode, 0, TRUE)
    BY <1>3 DEF Resume, TypeOK, StreamInv
  <2> QED
    BY <2>1, StreamWalk
<1>4. ~Tick
  BY StreamFacts DEF Tick
<1> QED
  BY <1>1, <1>2, <1>3, <1>4, StreamPublish, StreamStub, StreamCancel, StreamRun
     DEF Next, Step

\* A source stamped with instants, walked in whatever order, with incremental
\* runs and backfills mixed and cancelled, limited, crashed or failing on items,
\* strands no revision but one that a run failed on, or was cancelled before,
\* with its cursor past it already.
THEOREM StreamStrandsNothing == Streams => (Spec => []NothingStranded)
<1> SUFFICES ASSUME Streams PROVE Spec => []NothingStranded
  OBVIOUS
<1>1. Init => StreamInv
  BY DEF Init, StreamInv, Due, Missing, None
<1>2. TypeOK /\ StreamInv /\ [Next]_vars => StreamInv'
  BY StreamNext
<1>3. StreamInv => NothingStranded
  BY DEF StreamInv, Due, NothingStranded
<1> QED
  BY <1>1, <1>2, <1>3, TypeCorrect, PTL DEF Spec

-----------------------------------------------------------------------------
(* Citations of what a run stored.                                         *)

\* What becomes of the documents and of the list in a step that is neither a
\* crash, a cancel, a text that cannot be read nor the end of a cancelled walk.
LEMMA ListedStayListed ==
  ASSUME TypeOK, pc = "idle" => ids = {}, [Next]_vars,
         NEW i \in Item, Unmined(i)', i \notin ids'
  PROVE  \/ Unmined(i) /\ i \notin ids
         \/ Crash \/ Cancel \/ Unreadable(i)
         \/ \E s \in todo : s.item = i /\ Transient(s)
         \/ pc = "backlog" /\ cancelled
<1>1. CASE UNCHANGED vars
  BY <1>1 DEF vars, Unmined
<1>2. CASE (\E k \in Item : Publish(k)) \/ Tick
  <2>1. UNCHANGED <<held, mined, ids>>
    BY <1>2 DEF Publish, Tick
  <2> QED
    BY <2>1 DEF Unmined
<1>3. CASE Start \/ Resume
  <2>1. UNCHANGED <<held, mined>> /\ ids = {}
    BY <1>3 DEF Start, Resume, Walk
  <2> QED
    BY <2>1 DEF Unmined
<1>4. ASSUME NEW s \in todo,
             \/ Dedup(s) \/ Store(s) \/ FoundElsewhere(s) \/ Absent(s)
             \/ Transient(s)
      PROVE  (Unmined(i) /\ i \notin ids) \/ (s.item = i /\ Transient(s))
  <2>1. CASE Store(s)
    <3>1. s.item \in Item /\ i # s.item
      BY <2>1 DEF Store, TypeOK, Stub
    <3>2. held'[i] = held[i] /\ mined'[i] = mined[i]
      BY <2>1, <3>1 DEF Store, Upsert, TypeOK
    <3> QED
      BY <2>1, <3>2 DEF Store, Unmined
  <2>2. CASE Dedup(s)
    BY <2>2 DEF Dedup, Unmined
  <2>3. CASE FoundElsewhere(s) \/ Absent(s)
    BY <2>3 DEF FoundElsewhere, Absent, Unmined
  <2>4. CASE Transient(s) /\ s.item # i
    <3>1. s.item \in Item
      BY DEF TypeOK, Stub
    <3>2. held'[i] = held[i] /\ mined'[i] = mined[i]
      BY <2>4, <3>1 DEF Transient, Upsert, TypeOK
    <3> QED
      BY <2>4, <3>2 DEF Transient, Unmined
  <2> QED
    BY <1>4, <2>1, <2>2, <2>3, <2>4
<1>5. CASE RateLimit \/ SetWatermark \/ SetFrontier
  BY <1>5 DEF RateLimit, SetWatermark, SetFrontier, Unmined
<1>6. CASE Backlog
  <2>1. UNCHANGED <<held, mined>> /\ pc = "backlog"
    BY <1>6 DEF Backlog
  <2>2. cancelled \/ ids \subseteq ids'
    BY <1>6 DEF Backlog, Worklist, TypeOK
  <2> QED
    BY <2>1, <2>2 DEF Unmined
<1>7. ASSUME NEW k \in ids, Extract(k)
      PROVE  Unmined(i) /\ i \notin ids
  <2>1. i # k
    BY <1>7 DEF Extract, Unmined, TypeOK
  <2> QED
    BY <1>7, <2>1 DEF Extract, Unmined, TypeOK
<1>8. ASSUME NEW k \in ids, Unreadable(k), i # k
      PROVE  Unmined(i) /\ i \notin ids
  BY <1>8 DEF Unreadable, Unmined
<1>9. CASE End
  BY <1>9 DEF End, Forget, Unmined
<1> QED
  BY <1>1, <1>2, <1>3, <1>4, <1>5, <1>6, <1>7, <1>8, <1>9 DEF Next, Step

LEMMA IdleListsNothing ==
  ASSUME pc = "idle" => ids = {}, [Next]_vars
  PROVE  (pc = "idle" => ids = {})'
BY DEF vars, Next, Step, Publish, Tick, Start, Resume, Walk, Dedup, Store,
       FoundElsewhere, Absent, Transient, RateLimit, Cancel, SetWatermark,
       SetFrontier, Backlog, Extract, Unreadable, End, Crash, Forget, Head

\* Between the walk that stores a revision and the extraction that mines it, no
\* rate limit, frozen cursor, duplicate or newer revision takes a document off
\* the run's list: a text goes unmined only when the process dies, somebody
\* cancels, the text cannot be read, or storing it raises after the commit.
THEOREM MiningKeepsUp == Spec => MiningNeverSlips
<1> DEFINE Rest == pc = "idle" => ids = {}
<1>1. Init => Rest
  BY DEF Init
<1>2. Rest /\ [Next]_vars => Rest'
  BY IdleListsNothing
<1>3. TypeOK /\ Rest /\ [Next]_vars =>
        [\A i \in Item :
           Unmined(i)' /\ i \notin ids' =>
             \/ Unmined(i) /\ i \notin ids
             \/ Crash \/ Cancel \/ Unreadable(i)
             \/ \E s \in todo : s.item = i /\ Transient(s)
             \/ pc = "backlog" /\ cancelled]_vars
  BY ListedStayListed
<1> HIDE DEF Rest
<1> QED
  BY <1>1, <1>2, <1>3, TypeCorrect, PTL DEF Spec, MiningNeverSlips
=============================================================================
