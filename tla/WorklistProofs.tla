--------------------------- MODULE WorklistProofs ---------------------------
(***************************************************************************)
(* Proofs about Worklist, for any references, drains, limits and faults.    *)
(*                                                                         *)
(* The invariant says in which phase each of a drain's lists is in use, so  *)
(* that a row is in one list, and that a step which empties a list hands on *)
(* what was in it or counts it as lost.                                     *)
(***************************************************************************)
EXTENDS Worklist, TLAPS

\* Each list of a drain, by itself.
Lists ==
  /\ todo \in [Drain -> SUBSET Ref]
  /\ fetched \in [Drain -> SUBSET Ref]
  /\ absent \in [Drain -> SUBSET Ref]
  /\ transient \in [Drain -> SUBSET Ref]
  /\ unmined \in [Drain -> SUBSET Ref]
  /\ unlinked \in [Drain -> SUBSET Ref]

Tables ==
  /\ exists \subseteq Ref /\ held \subseteq Ref
  /\ mined \subseteq held \cup {Corpus}
  /\ pending \subseteq mined \X Ref
  /\ rollup \subseteq Ref /\ miss \subseteq Ref /\ retry \subseteq Ref
  /\ aged \subseteq miss
  /\ pc \in [Drain -> {"idle", "fetch", "mine"}]
  /\ click \in [Drain -> BOOLEAN]
  /\ orphans \subseteq Ref
  /\ clicks \in 0..MaxClicks /\ faults \in 0..MaxFaults

\* A row of a drain is in one list.
Apart(p) ==
  /\ todo[p] \cap (fetched[p] \cup absent[p] \cup transient[p]) = {}
  /\ fetched[p] \cap (absent[p] \cup transient[p]) = {}
  /\ absent[p] \cap transient[p] = {}

\* Which lists are in use in which phase.
Phase(p) ==
  /\ pc[p] # "fetch" => /\ todo[p] = {} /\ fetched[p] = {}
                        /\ absent[p] = {} /\ transient[p] = {}
  /\ pc[p] # "mine" => unmined[p] = {} /\ unlinked[p] = {}

IInv ==
  /\ Lists /\ Tables
  /\ \A p \in Drain : Apart(p) /\ Phase(p)
  /\ UnminedIsExplained

LEMMA Parts == IInv => TypeOK
<1> SUFFICES ASSUME IInv PROVE TypeOK
    OBVIOUS
<1>1. \A l \in {todo, fetched, absent, transient, unmined, unlinked} :
        l \in [Drain -> SUBSET Ref]
  BY DEF IInv, Lists
<1>2. \A p \in Drain :
        /\ todo[p] \cap (fetched[p] \cup absent[p] \cup transient[p]) = {}
        /\ fetched[p] \cap (absent[p] \cup transient[p]) = {}
        /\ absent[p] \cap transient[p] = {}
        /\ pc[p] = "idle" => todo[p] \cup fetched[p] \cup unlinked[p] = {}
  BY DEF IInv, Apart, Phase
<1> QED
  BY <1>1, <1>2 DEF IInv, Tables, TypeOK

LEMMA InitInv == Init => IInv
<1> SUFFICES ASSUME Init PROVE IInv
    OBVIOUS
<1>1. Lists
  BY DEF Init, Lists
<1>2. Tables
  BY WorklistAssumption DEF Init, Tables
<1>3. \A p \in Drain : Apart(p) /\ Phase(p)
  BY DEF Init, Apart, Phase
<1>4. UnminedIsExplained
  BY DEF Init, UnminedIsExplained
<1> QED
  BY <1>1, <1>2, <1>3, <1>4 DEF IInv

LEMMA Bounds == MaxClicks \in Nat /\ MaxFaults \in Nat
BY WorklistAssumption

\* The worklist has only references.
LEMMA GroupsAreRefs == IInv => Groups \subseteq Ref
BY DEF IInv, Tables, Groups, Wanted

\* A drain or a click that begins.
LEMMA BeginInv ==
  ASSUME IInv, NEW p \in Drain, NEW rows \in SUBSET Ref, NEW single \in BOOLEAN,
         Begin(p, rows, single), aged' \subseteq miss, clicks' \in 0..MaxClicks
  PROVE  IInv'
<1>1. Lists'
  BY DEF IInv, Lists, Begin
<1>2. Tables'
  BY DEF IInv, Tables, Begin
<1>3. ASSUME NEW q \in Drain PROVE (Apart(q) /\ Phase(q))'
  BY <1>1 DEF IInv, Lists, Tables, Apart, Phase, Begin
<1>4. UnminedIsExplained'
  BY DEF IInv, UnminedIsExplained, Begin
<1> QED
  BY <1>1, <1>2, <1>3, <1>4 DEF IInv

\* A row that was asked for.
LEMMA FetchInv ==
  ASSUME IInv, NEW p \in Drain, NEW r \in Ref,
         \/ Present(p, r) \/ Deduped(p, r) \/ Stored(p, r) \/ Absent(p, r)
         \/ Transient(p, r)
  PROVE  IInv'
<1>1. Lists'
  BY DEF IInv, Lists, Present, Deduped, Stored, Absent, Transient, Done
<1>2. Tables'
  BY Bounds DEF IInv, Tables, Present, Deduped, Stored, Absent, Transient, HalfStored,
         store, bounds, Fault
<1>3. ASSUME NEW q \in Drain PROVE Apart(q)'
  BY DEF IInv, Lists, Apart, Present, Deduped, Stored, Absent, Transient, Done, Next1
<1>4. ASSUME NEW q \in Drain PROVE Phase(q)'
  BY DEF IInv, Lists, Phase, Present, Deduped, Stored, Absent, Transient, Done, Next1
<1>5. UnminedIsExplained'
  BY DEF IInv, Lists, UnminedIsExplained, Present, Deduped, Stored, Absent, Transient,
     HalfStored, store
<1> QED
  BY <1>1, <1>2, <1>3, <1>4, <1>5 DEF IInv

\* Rows that are given up for this time.
LEMMA GiveUpInv ==
  ASSUME IInv, NEW p \in Drain,
         Cancel(p) \/ \E r \in Ref : RateLimited(p, r)
  PROVE  IInv'
<1>1. Lists'
  BY DEF IInv, Lists, Cancel, RateLimited
<1>2. Tables'
  BY Bounds DEF IInv, Tables, Cancel, RateLimited, HalfStored, store, Fault
<1>3. ASSUME NEW q \in Drain PROVE Apart(q)'
  BY DEF IInv, Lists, Apart, Cancel, RateLimited, Next1
<1>4. ASSUME NEW q \in Drain PROVE Phase(q)'
  BY DEF IInv, Lists, Phase, Cancel, RateLimited, Next1
<1>5. UnminedIsExplained'
  BY DEF IInv, UnminedIsExplained, Cancel, RateLimited, HalfStored, store
<1> QED
  BY <1>1, <1>2, <1>3, <1>4, <1>5 DEF IInv

LEMMA RecordInv ==
  ASSUME IInv, NEW p \in Drain, Record(p)
  PROVE  IInv'
<1>1. Lists'
  BY DEF IInv, Lists, Record, ToMine
<1>2. Tables'
  BY DEF IInv, Lists, Tables, Record, bounds
<1>3. ASSUME NEW q \in Drain PROVE Apart(q)' /\ Phase(q)'
  BY DEF IInv, Lists, Tables, Apart, Phase, Record, ToMine
<1>4. UnminedIsExplained'
  <2> SUFFICES ASSUME NEW d \in held \ mined, d \notin orphans
               PROVE  \E q \in Drain : d \in fetched'[q] \cup unmined'[q]
      BY DEF UnminedIsExplained, Record
  <2>1. PICK q \in Drain : d \in fetched[q] \cup unmined[q]
    BY DEF IInv, UnminedIsExplained
  <2>2. d \in fetched'[q] \cup unmined'[q]
    BY <2>1 DEF IInv, Lists, Phase, Record, ToMine
  <2> QED
    BY <2>2
<1> QED
  BY <1>1, <1>2, <1>3, <1>4 DEF IInv

LEMMA MineInv ==
  ASSUME IInv, NEW p \in Drain, NEW d \in Ref, Mine(p, d)
  PROVE  IInv'
<1>1. Lists'
  BY DEF IInv, Lists, Mine
<1>2. Tables'
  <2>1. Cites[d] \subseteq Ref
    BY WorklistAssumption
  <2> QED
    BY <2>1 DEF IInv, Tables, Mine, bounds
<1>3. ASSUME NEW q \in Drain PROVE Apart(q)' /\ Phase(q)'
  BY DEF IInv, Lists, Apart, Phase, Mine
<1>4. UnminedIsExplained'
  BY DEF IInv, Lists, UnminedIsExplained, Mine
<1> QED
  BY <1>1, <1>2, <1>3, <1>4 DEF IInv

LEMMA EndInv ==
  ASSUME IInv, NEW p \in Drain, End(p) \/ \E d \in Ref : Link(p, d)
  PROVE  IInv'
<1>1. Lists'
  BY DEF IInv, Lists, End, Forget, Link
<1>2. Tables'
  BY DEF IInv, Tables, End, Forget, Link, store, bounds
<1>3. ASSUME NEW q \in Drain PROVE Apart(q)' /\ Phase(q)'
  <2>1. CASE End(p)
    BY <2>1 DEF IInv, Lists, Apart, Phase, End, Forget, store
  <2>2. ASSUME NEW d \in Ref, Link(p, d) PROVE Apart(q)' /\ Phase(q)'
    BY <2>2 DEF IInv, Lists, Apart, Phase, Link
  <2> QED
    BY <2>1, <2>2
<1>4. UnminedIsExplained'
  BY DEF IInv, Lists, Phase, UnminedIsExplained, End, Forget, Link, store
<1> QED
  BY <1>1, <1>2, <1>3, <1>4 DEF IInv

LEMMA CrashInv ==
  ASSUME IInv, NEW p \in Drain, Crash(p)
  PROVE  IInv'
<1>1. Lists'
  BY DEF IInv, Lists, Crash, Forget
<1>2. Tables'
  BY Bounds DEF IInv, Lists, Tables, Crash, Forget, store, Fault
<1>3. ASSUME NEW q \in Drain PROVE Apart(q)' /\ Phase(q)'
  BY DEF IInv, Lists, Apart, Phase, Crash, Forget, store
<1>4. UnminedIsExplained'
  <2> SUFFICES ASSUME NEW d \in held \ mined, d \notin orphans'
               PROVE  \E q \in Drain : d \in fetched'[q] \cup unmined'[q]
      BY DEF UnminedIsExplained, Crash, store
  <2>1. d \notin orphans /\ d \notin fetched[p] \cup unmined[p]
    BY DEF Crash
  <2>2. PICK q \in Drain : d \in fetched[q] \cup unmined[q]
    BY <2>1 DEF IInv, UnminedIsExplained
  <2>3. d \in fetched'[q] \cup unmined'[q]
    BY <2>1, <2>2 DEF IInv, Lists, Crash, Forget
  <2> QED
    BY <2>3
<1> QED
  BY <1>1, <1>2, <1>3, <1>4 DEF IInv

\* What runs beside the drains leaves their lists alone.
LEMMA BesideInv ==
  ASSUME IInv,
         \/ Resolve \/ Rebuild \/ Clear
         \/ \E r \in Ref : RetryExpires(r) \/ MissExpires(r) \/ Publish(r)
  PROVE  IInv'
<1>1. Lists'
  BY DEF IInv, Lists, Resolve, Rebuild, Clear, RetryExpires, MissExpires, Publish, drains
<1>2. Tables'
  BY Bounds DEF IInv, Tables, Resolve, Rebuild, Clear, RetryExpires, MissExpires, Publish,
         Wanted, drains, store, bounds
<1>3. ASSUME NEW q \in Drain PROVE Apart(q)' /\ Phase(q)'
  BY DEF IInv, Apart, Phase, Resolve, Rebuild, Clear, RetryExpires,
         MissExpires, Publish, drains, store
<1>4. UnminedIsExplained'
  BY DEF IInv, UnminedIsExplained, Resolve, Rebuild, Clear, RetryExpires,
         MissExpires, Publish, drains, store
<1> QED
  BY <1>1, <1>2, <1>3, <1>4 DEF IInv

LEMMA NextInv ==
  ASSUME IInv, [Next]_vars
  PROVE  IInv'
<1>1. CASE UNCHANGED vars
  <2>1. Lists' /\ Tables'
    BY <1>1 DEF IInv, Lists, Tables, vars, store, drains, bounds
  <2>2. ASSUME NEW q \in Drain PROVE Apart(q)' /\ Phase(q)'
    BY <1>1 DEF IInv, Apart, Phase, vars, store, drains
  <2>3. UnminedIsExplained'
    BY <1>1 DEF IInv, UnminedIsExplained, vars, store, drains
  <2> QED
    BY <2>1, <2>2, <2>3 DEF IInv
<1>2. ASSUME NEW p \in Drain,
             Start(p) \/ StartCooled(p) \/ \E r \in Ref : Click(p, r)
      PROVE  IInv'
  <2>1. CASE Start(p)
    <3>1. Top(Top(Groups, Scan[p]) \ Cooled, Limit[p]) \in SUBSET Ref
      BY GroupsAreRefs DEF Top
    <3>2. aged' \subseteq miss /\ clicks' \in 0..MaxClicks
      BY <2>1 DEF Start, IInv, Tables
    <3> QED
      BY <2>1, <3>1, <3>2, BeginInv DEF Start
  <2>2. CASE StartCooled(p)
    <3>1. Top(Top(Groups, Scan[p]), Limit[p]) \in SUBSET Ref
      BY GroupsAreRefs DEF Top
    <3>2. aged' \subseteq miss /\ clicks' \in 0..MaxClicks
      BY <2>2, WorklistAssumption DEF StartCooled, IInv, Tables
    <3> QED
      BY <2>2, <3>1, <3>2, BeginInv DEF StartCooled
  <2>3. ASSUME NEW r \in Ref, Click(p, r) PROVE IInv'
    <3>1. aged' \subseteq miss /\ clicks' \in 0..MaxClicks
      BY <2>3, WorklistAssumption DEF Click, IInv, Tables
    <3> QED
      BY <2>3, <3>1, BeginInv DEF Click
  <2> QED
    BY <1>2, <2>1, <2>2, <2>3
<1>3. ASSUME NEW p \in Drain, Work(p) PROVE IInv'
  BY <1>3, FetchInv, MineInv, EndInv, RecordInv DEF Work
<1>4. ASSUME NEW p \in Drain, NEW r \in Ref, Transient(p, r) PROVE IInv'
  BY <1>4, FetchInv
<1>5. ASSUME NEW p \in Drain, Cancel(p) \/ \E r \in Ref : RateLimited(p, r) PROVE IInv'
  BY <1>5, GiveUpInv
<1>6. ASSUME NEW p \in Drain, Crash(p) PROVE IInv'
  BY <1>6, CrashInv
<1> QED
  BY <1>1, <1>2, <1>3, <1>4, <1>5, <1>6, BesideInv DEF Next

LEMMA Invariance == Spec => []IInv
BY InitInv, NextInv, PTL DEF Spec

-----------------------------------------------------------------------------
\* Every variable stays within its type, and a row of a drain is in one of its
\* lists: asked for once, and recorded once (harvest_all_references).
THEOREM TypeCorrect == Spec => []TypeOK
BY Invariance, Parts, PTL

\* However drains fail, overlap, are throttled, cancelled or killed, a document
\* they stored is mined, still in hand, or was lost sight of by a death or by a
\* fetch that went wrong after it had stored.
THEOREM StoredIsMined == Spec => []UnminedIsExplained
<1>1. IInv => UnminedIsExplained
  BY DEF IInv
<1> QED
  BY <1>1, Invariance, PTL

LEMMA LinkStep ==
  ASSUME IInv, [Next]_vars
  PROVE  \A e \in pending \ pending' : e[2] \in held
<1> SUFFICES ASSUME NEW e \in pending, e \notin pending' PROVE e[2] \in held
    OBVIOUS
<1>1. CASE Resolve
  BY <1>1 DEF Resolve, Joins
<1>2. ASSUME NEW p \in Drain, NEW d \in Ref, Link(p, d) PROVE e[2] \in held
  BY <1>2 DEF Link, Joins
<1>3. CASE UNCHANGED pending
  BY <1>3
<1>4. ASSUME NEW p \in Drain, NEW d \in Ref, Mine(p, d) PROVE e[2] \in held
  BY <1>4 DEF Mine
<1> QED
  BY <1>1, <1>2, <1>3, <1>4
     DEF Next, Work, Start, StartCooled, Click, Begin, Present, Deduped, Stored,
         Absent, Transient, RateLimited, Record, End, Cancel, Crash, Rebuild, Clear,
         RetryExpires, MissExpires, Publish, store, vars

\* No edge leaves the worklist but for a document the corpus holds.
THEOREM EdgesLeadToDocuments == Spec => LinkedMeansHeld
<1>1. IInv /\ [Next]_vars => [\A e \in pending \ pending' : e[2] \in held]_vars
  BY LinkStep
<1> QED
  BY <1>1, Invariance, PTL DEF Spec, LinkedMeansHeld
=============================================================================
