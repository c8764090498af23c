--------------------------- MODULE DocumentsProofs ---------------------------
(***************************************************************************)
(* Proofs about Documents, for any texts, citations, workers, corrections   *)
(* and faults.  One invariant for each table derived from the text: it says *)
(* what must be true of the steps under way for the property to be true     *)
(* when they end.                                                           *)
(***************************************************************************)
EXTENDS Documents, TLAPS

\* What a record or a text in hand is.
Holds ==
  /\ \A w \in Worker : /\ pc[w] \in {"fetched", "look", "store"} => got[w] # None
                       /\ pc[w] = "read" => row.payload # None
                       /\ pc[w] \in Mining => text[w] # None

\* Versions grow, so the next one archived is new.
ArchiveInv ==
  /\ row.payload = None => past = {}
  /\ blame \cap {"race", "rewind"} = {} =>
       /\ past \subseteq {row.payload} \cup {v[2] : v \in archive}
       /\ \A v \in archive : v[1] < row.version

\* What a rejection vetoes: every citation of the candidate, or the string only.
Shadow(r) ==
  IF Names[r] = None \/ "moved" \in blame THEN {r} ELSE {f \in Form : Names[f] = Names[r]}

\* A rejected citation is vetoed with all that its rejection is about, in every
\* worker that will write too, and no edge of them was mined.
RejectInv ==
  blame \cap {"late", "twice", "overwritten"} = {} =>
    \A r \in rejected :
      /\ Shadow(r) \subseteq Vetoed
      /\ \A e \in Mined : e.raw \notin SameAs(r)
      /\ \A w \in Worker : pc[w] \in Writing => Shadow(r) \subseteq veto[w]

\* The edges are those of the text.
Match ==
  /\ observed = row.payload
  /\ \A f \in Cites[row.payload] \ Vetoed : \E e \in edges : Key(e.raw) = Key(f)
  /\ \A e \in Mined : e.raw \in Cites[row.payload]
  /\ \A d, e \in Mined : Key(d.raw) = Key(e.raw) => d = e

\* The edges an extraction has cleared are gone at each of its steps.
Swept(w) ==
  /\ pc[w] = "inferred" => \A e \in edges : e.via # "regex"
  /\ pc[w] \in {"version", "cite", "add"} => Mined = {}

\* While no two extractions cross, one that is under way has the text of the
\* document and no vetoes it does not have, and writes alone; and there is one
\* under way unless the edges match.
MinedInv ==
  blame \cap {"overlap"} = {} =>
    /\ \A w \in Worker :
         /\ pc[w] \in Mining => text[w] = row.payload
         /\ pc[w] \in Writing => veto[w] \subseteq Vetoed
         /\ Swept(w)
         /\ pc[w] \in Writing \ {"clear"} => \A q \in Worker \ {w} : pc[q] \notin Writing \ {"clear"}
         /\ pc[w] = "add" => observed = row.payload
    /\ row.payload # None /\ blame \cap {"died", "unmined", "budget"} = {} =>
         Match \/ \E w \in Worker : pc[w] \in Mining \cup {"read"}

IInv == TypeOK /\ Holds /\ ArchiveInv /\ RejectInv /\ MinedInv

USE DEF Row, Edge, Machine, Manual, Event, PayloadOrNone, At, Goto, If, Blame

LEMMA Texts ==
  /\ None \notin Payload /\ None \notin Ref
  /\ \A x \in Payload : Cites[x] \subseteq Form
  /\ \A f \in Form : Names[f] \in Ref \cup {None} /\ Target[f] \subseteq Ref
  /\ MaxStores \in Nat /\ MaxEdits \in Nat /\ MaxFaults \in Nat
  /\ How \subseteq {"pipeline", "refetch", "import"}
BY DocumentsAssumption

LEMMA InitInv == Init => IInv
<1> SUFFICES ASSUME Init PROVE IInv
    OBVIOUS
<1>1. TypeOK
  <2>1. row \in Row /\ seen \in [Worker -> Row]
    BY DEF Init, NoRow
  <2>2. /\ archive \subseteq Nat \X Payload
        /\ edges \subseteq Edge /\ blame \subseteq Event
    BY DEF Init
  <2>3. /\ got \in [Worker -> PayloadOrNone] /\ text \in [Worker -> PayloadOrNone]
    BY DEF Init
  <2>4. /\ veto \in [Worker -> SUBSET Form]
        /\ how \in [Worker -> {"pipeline", "refetch", "import"}]
    BY DEF Init
  <2>5. \A u, v \in archive : u[1] = v[1] => u = v
    BY DEF Init
  <2>6. stores \in 0..MaxStores /\ edits \in 0..MaxEdits /\ faults \in 0..MaxFaults
    BY Texts DEF Init
  <2> QED
    BY <2>1, <2>2, <2>3, <2>4, <2>5, <2>6 DEF Init, TypeOK
<1>2. Holds
  BY DEF Init, Holds, Mining, Writing
<1>3. ArchiveInv
  BY DEF Init, ArchiveInv, NoRow
<1>4. RejectInv
  BY DEF Init, RejectInv
<1>5. MinedInv
  BY DEF Init, MinedInv, NoRow, Mining, Writing, Swept
<1> QED
  BY <1>1, <1>2, <1>3, <1>4, <1>5 DEF IInv

-----------------------------------------------------------------------------
(* Types, and what is in hand.                                             *)

\* What a worker stores.
LEMMA StoreTypes ==
  ASSUME IInv, NEW w \in Worker,
         \/ \E x \in Payload, h \in How : Fetch(w, x, h)
         \/ Dedup(w) \/ Look(w) \/ Store(w)
  PROVE  TypeOK' /\ Holds'
<1>1. CASE \E x \in Payload, h \in How : Fetch(w, x, h)
  BY <1>1, Texts DEF IInv, TypeOK, Holds, Mining, Writing, Fetch, derived
<1>2. CASE Dedup(w)
  <2>1. /\ got' \in [Worker -> PayloadOrNone] /\ seen' \in [Worker -> Row]
        /\ how' \in [Worker -> {"pipeline", "refetch", "import"}]
    <3>1. NoRow \in Row
      BY DEF NoRow
    <3>2. seen' \in [Worker -> Row]
      BY <1>2, <3>1 DEF IInv, TypeOK, Dedup, EndStore
    <3> QED
      BY <1>2, <3>2 DEF IInv, TypeOK, Dedup, EndStore
  <2>2. TypeOK'
    BY <1>2, <2>1 DEF IInv, TypeOK, Dedup, derived, bounds
  <2>3. Holds'
    BY <1>2 DEF IInv, TypeOK, Holds, Mining, Writing, Dedup, EndStore
  <2> QED
    BY <2>2, <2>3
<1>3. CASE Look(w)
  BY <1>3, Texts DEF IInv, TypeOK, Holds, Mining, Writing, Look, derived, bounds
<1>4. CASE Store(w)
  <2>1. got[w] \in Payload /\ seen[w] \in Row
    BY <1>4 DEF IInv, TypeOK, Holds, Store
  <2>2. Changed(w) => seen[w].payload \in Payload /\ seen[w].version \in Nat
    BY <2>1 DEF Changed
  <2>3. /\ archive' \subseteq Nat \X Payload
        /\ \A u, v \in archive' : u[1] = v[1] => u = v
    <3>1. archive' = Archived(w)
      BY <1>4 DEF Store
    <3>2. /\ archive \subseteq Nat \X Payload
          /\ \A u, v \in archive : u[1] = v[1] => u = v
      BY DEF IInv, TypeOK
    <3> QED
      BY <2>2, <3>1, <3>2 DEF Archived
  <2>4. row' \in Row /\ row'.payload # None
    BY <1>4, <2>1, Texts DEF Store, NextVersion
  <2>5. blame' \subseteq Event
    BY <1>4 DEF IInv, TypeOK, Store
  <2>6. /\ edges' \subseteq Edge /\ past' \subseteq Payload
        /\ pc' \in [Worker -> {"idle", "fetched", "look", "store", "read", "mark"}
                                \cup Mining]
    BY <1>4, <2>1 DEF IInv, TypeOK, Store
  <2>7. /\ got' \in [Worker -> PayloadOrNone] /\ seen' \in [Worker -> Row]
        /\ how' \in [Worker -> {"pipeline", "refetch", "import"}]
    BY <1>4 DEF IInv, TypeOK, Store, EndStore, NoRow
  <2>8. TypeOK'
    BY <1>4, <2>3, <2>4, <2>5, <2>6, <2>7 DEF IInv, TypeOK, Store, bounds
  <2>9. Holds'
    BY <1>4, <2>4 DEF IInv, TypeOK, Holds, Mining, Writing, Store, EndStore
  <2> QED
    BY <2>8, <2>9
<1> QED
  BY <1>1, <1>2, <1>3, <1>4

\* What it mines.
LEMMA MiningTypes ==
  ASSUME IInv, NEW w \in Worker,
         \/ Read(w) \/ Rescan(w) \/ OverBudget(w) \/ Veto(w) \/ Mark(w) \/ Crash(w)
  PROVE  TypeOK' /\ Holds'
<1>1. CASE Read(w) \/ Rescan(w)
  <2>1. Begin(w) /\ row.payload \in Payload /\ edits' \in 0..MaxEdits
    BY <1>1, Texts DEF IInv, TypeOK, Holds, Read, Rescan, Edit
  <2>2. TypeOK'
    BY <2>1 DEF IInv, TypeOK, Begin, Mining, derived
  <2>3. Holds'
    BY <2>1, Texts DEF IInv, TypeOK, Holds, Mining, Writing, Begin
  <2> QED
    BY <2>2, <2>3
<1>2. CASE OverBudget(w)
  BY <1>2, Texts DEF IInv, TypeOK, Holds, Mining, Writing, OverBudget, Fault, EndMining
<1>3. CASE Veto(w)
  <2>1. Vetoed \subseteq Form
    BY DEF Vetoed
  <2> QED
    BY <1>3, <2>1 DEF IInv, TypeOK, Holds, Mining, Writing, Veto, derived, bounds
<1>4. CASE Mark(w)
  BY <1>4 DEF IInv, TypeOK, Holds, Mining, Writing, Mark, EndMining, bounds
<1>5. CASE Crash(w)
  BY <1>5, Texts DEF IInv, TypeOK, Holds, Mining, Writing, Crash, Fault, EndStore, EndMining,
     NoRow, derived
<1> QED
  BY <1>1, <1>2, <1>3, <1>4, <1>5

\* What it writes.
WriteStep(w) ==
  \/ Clear(w)
  \/ ClearEdges(w, "regex", "inferred")
  \/ ClearEdges(w, "inferred", "version")
  \/ ClearEdges(w, "version", "cite")
  \/ Cite(w) \/ Add(w)

LEMMA NewEdges ==
  ASSUME NEW w \in Worker, NEW F \in SUBSET Form
  PROVE  /\ EdgesOf(w, F) \subseteq Edge
         /\ \A e \in EdgesOf(w, F) : e.via \in Machine /\ e.raw \in F
         /\ \A f \in F : \E e \in EdgesOf(w, F) : e.raw = f
         /\ \A d, e \in EdgesOf(w, F) : d.raw = e.raw => d = e
<1>1. \A f \in Form : Names[f] \in Ref \cup {None} /\ Method(f) \in Machine
  BY Texts DEF Method
<1>2. ASSUME NEW f \in F
      PROVE  \E e \in EdgesOf(w, F) : e.raw = f
  <2> DEFINE m == [raw |-> f, dst |-> Names[f], via |-> Method(f), by |-> w]
  <2>1. m \in EdgesOf(w, F) /\ m.raw = f
    BY DEF EdgesOf
  <2> HIDE DEF m
  <2> QED
    BY <2>1
<1>3. ASSUME NEW d \in EdgesOf(w, F)
      PROVE  d.via \in Machine /\ d.raw \in F /\ d \in Edge
  BY <1>1 DEF EdgesOf
<1>4. \A d, e \in EdgesOf(w, F) : d.raw = e.raw => d = e
  BY DEF EdgesOf
<1> QED
  BY <1>2, <1>3, <1>4

LEMMA WriteTypes ==
  ASSUME IInv, NEW w \in Worker, WriteStep(w)
  PROVE  TypeOK' /\ Holds'
<1>1. text[w] \in Payload /\ pc[w] \in Writing
  BY DEF IInv, TypeOK, Holds, Mining, Writing, WriteStep, Clear, ClearEdges, Cite, Add, Writes
<1>2. PICK next \in Writing \cup {"mark"} : Writes(w, pc[w], next)
  BY DEF WriteStep, Clear, ClearEdges, Cite, Add, Writes, Writing
<1>3. edges' \subseteq Edge
  <2>1. CASE Add(w)
    BY <2>1, NewEdges DEF IInv, TypeOK, Add
  <2>2. CASE ~Add(w)
    BY <2>2 DEF IInv, TypeOK, WriteStep, Clear, ClearEdges, Cleared, Cite
  <2> QED
    BY <2>1, <2>2
<1>4. observed' \in PayloadOrNone /\ blame' \subseteq Event
  BY <1>1 DEF IInv, TypeOK, WriteStep, Clear, ClearEdges, Cite, Add
<1>5. pc' \in [Worker -> {"idle", "fetched", "look", "store", "read", "mark"} \cup Mining]
  BY <1>2 DEF IInv, TypeOK, Writes, Mining
<1>6. TypeOK'
  BY <1>2, <1>3, <1>4, <1>5 DEF IInv, TypeOK, Writes, bounds
<1>7. Holds'
  BY <1>1, <1>2 DEF IInv, TypeOK, Holds, Writes, Mining, Writing
<1> QED
  BY <1>6, <1>7

\* What the resolver and a person do to an edge: its string stays, and a
\* suppressed one is left alone.
Touches(e, n) ==
  /\ e \in edges /\ e.via # "suppressed"
  /\ n \in Edge /\ n.raw = e.raw
  /\ edges' = (edges \ {e}) \cup {n}
  /\ UNCHANGED <<row, archive, observed, stamped, worker, past, stores, faults>>
  /\ edits' \in 0..MaxEdits /\ blame \subseteq blame' /\ blame' \subseteq Event

Edits(e, n) ==
  \/ /\ n.via = e.via \/ n.via \in Manual
     /\ UNCHANGED <<rejected, blame>>
  \/ /\ n.via = "suppressed" /\ n.dst = e.dst
     /\ rejected' = rejected \cup {e.raw}
     /\ (\E w \in Worker : pc[w] \in Writing) => "late" \in blame'
     /\ (\E d \in Mined \ {e} : Key(d.raw) = Key(e.raw)) => "twice" \in blame'
     /\ e.dst # Names[e.raw] => "moved" \in blame'

LEMMA Corrections ==
  ASSUME IInv, NEW e \in edges,
         \/ \E d \in Ref : Resolve(e, d)
         \/ \E via \in Manual, d \in Ref \cup {None} : Curate(e, via, d)
         \/ Reject(e)
  PROVE  \E n : Touches(e, n) /\ Edits(e, n)
<1>1. e \in Edge /\ blame \subseteq Event /\ edits \in 0..MaxEdits
  BY DEF IInv, TypeOK
<1>2. ASSUME NEW d \in Ref, Resolve(e, d)
      PROVE  \E n : Touches(e, n) /\ Edits(e, n)
  <2> DEFINE n == [e EXCEPT !.dst = d]
  <2>1. n \in Edge /\ n.raw = e.raw /\ n.via = e.via
    BY <1>1
  <2>2. edges' = (edges \ {e}) \cup {n}
    BY <1>2 DEF Resolve
  <2> HIDE DEF n
  <2>3. Touches(e, n) /\ Edits(e, n)
    BY <1>1, <1>2, <2>1, <2>2 DEF Resolve, Touches, Edits, Suppressed, bounds
  <2> QED
    BY <2>3
<1>3. ASSUME NEW via \in Manual, NEW d \in Ref \cup {None}, Curate(e, via, d)
      PROVE  \E n : Touches(e, n) /\ Edits(e, n)
  <2> DEFINE n == [e EXCEPT !.via = via, !.dst = d]
  <2>1. n \in Edge /\ n.raw = e.raw /\ n.via = via
    BY <1>1
  <2>2. edges' = (edges \ {e}) \cup {n}
    BY <1>3 DEF Curate
  <2> HIDE DEF n
  <2>3. edits' \in 0..MaxEdits /\ e.via # "suppressed"
    <3>1. Edit /\ e \notin Suppressed
      BY <1>3 DEF Curate
    <3>2. e.via # "suppressed"
      BY <3>1 DEF Suppressed
    <3>3. edits' \in 0..MaxEdits
      BY <1>1, <3>1, Texts DEF Edit
    <3> QED
      BY <3>2, <3>3
  <2>4. Touches(e, n)
    BY <1>1, <1>3, <2>1, <2>2, <2>3 DEF Curate, Touches
  <2>5. Edits(e, n)
    <3>1. n.via \in Manual /\ UNCHANGED <<rejected, blame>>
      BY <1>3, <2>1 DEF Curate
    <3> QED
      BY <3>1 DEF Edits
  <2> QED
    BY <2>4, <2>5
<1>4. ASSUME Reject(e)
      PROVE  \E n : Touches(e, n) /\ Edits(e, n)
  <2> DEFINE n == [e EXCEPT !.via = "suppressed"]
  <2>1. n \in Edge /\ n.raw = e.raw /\ n.via = "suppressed" /\ n.dst = e.dst
    BY <1>1
  <2>2. edges' = (edges \ {e}) \cup {n}
    BY <1>4 DEF Reject
  <2> HIDE DEF n
  <2>3. Touches(e, n) /\ Edits(e, n)
    BY <1>1, <1>4, <2>1, <2>2, Texts DEF Reject, Edit, Touches, Edits, Suppressed
  <2> QED
    BY <2>3
<1> QED
  BY <1>2, <1>3, <1>4

LEMMA CorrectTypes ==
  ASSUME IInv, NEW e \in edges, NEW n, Touches(e, n), Edits(e, n)
  PROVE  TypeOK' /\ Holds'
<1>1. edges' \subseteq Edge /\ rejected' \subseteq Form
  BY DEF IInv, TypeOK, Touches, Edits
<1> QED
  BY <1>1 DEF IInv, TypeOK, Holds, Touches, worker

LEMMA StutterInv == ASSUME IInv, UNCHANGED vars PROVE IInv'
<1> USE DEF vars, derived, worker, bounds
<1>1. TypeOK' /\ Holds'
  BY DEF IInv, TypeOK, Holds, Mining, Writing
<1>2. Suppressed' = Suppressed /\ Mined' = Mined
  BY DEF Suppressed, Mined
<1>3. Vetoed' = Vetoed
  BY <1>2 DEF Vetoed
<1>4. ArchiveInv' /\ RejectInv'
  BY <1>2, <1>3 DEF IInv, ArchiveInv, RejectInv, Shadow, SameAs
<1>5. Match' = Match /\ \A w \in Worker : Swept(w)' = Swept(w)
  BY <1>2, <1>3 DEF Match, Swept
<1>6. MinedInv'
  BY <1>3, <1>5 DEF IInv, MinedInv, Mining
<1> QED
  BY <1>1, <1>4, <1>6 DEF IInv

\* The steps by what they are for.
LEMMA Steps ==
  ASSUME IInv, Next
  PROVE  \/ \E w \in Worker : Work(w)
         \/ \E e \in edges : \E n : Touches(e, n) /\ Edits(e, n)
BY Corrections DEF Next

LEMMA TypesNext ==
  ASSUME IInv, Next
  PROVE  TypeOK' /\ Holds'
<1>1. ASSUME NEW w \in Worker, Work(w) PROVE TypeOK' /\ Holds'
  BY <1>1, StoreTypes, MiningTypes, WriteTypes DEF Work, WriteStep
<1> QED
  BY <1>1, Steps, CorrectTypes

-----------------------------------------------------------------------------
(* The archive.                                                            *)

LEMMA ArchiveStore ==
  ASSUME IInv, NEW w \in Worker, Store(w)
  PROVE  ArchiveInv'
<1>1. got[w] \in Payload /\ row' = [payload |-> got[w], version |-> NextVersion(w)]
  BY DEF IInv, TypeOK, Holds, Store
<1>2. row'.payload # None /\ row'.payload = got[w] /\ row'.version = NextVersion(w)
  BY <1>1, Texts
<1> SUFFICES ASSUME blame' \cap {"race", "rewind"} = {}
             PROVE  /\ past' \subseteq {row'.payload} \cup {v[2] : v \in archive'}
                    /\ \A v \in archive' : v[1] < row'.version
    BY <1>2 DEF ArchiveInv
<1>3. /\ blame \cap {"race", "rewind"} = {}
      /\ seen[w] = row
      /\ Changed(w) \/ ~(row.version > 1)
  BY DEF Store
<1>4. /\ past \subseteq {row.payload} \cup {v[2] : v \in archive}
      /\ \A v \in archive : v[1] < row.version
      /\ row.payload = None => past = {}
  BY <1>3 DEF IInv, ArchiveInv
<1>5. row.version \in Nat /\ archive \subseteq Nat \X Payload
  BY DEF IInv, TypeOK
<1>6. past' = past \cup {got[w]} /\ archive' = Archived(w)
  BY DEF Store
<1>7. CASE Changed(w)
  <2>1. archive' = archive \cup {<<row.version, row.payload>>}
    BY <1>3, <1>4, <1>5, <1>6, <1>7 DEF Archived
  <2>2. row'.version = row.version + 1
    BY <1>2, <1>3, <1>7 DEF NextVersion
  <2>3. \A v \in archive' : v[1] < row'.version
    BY <1>4, <1>5, <2>1, <2>2
  <2>4. row.payload \in {v[2] : v \in archive'}
    <3>1. <<row.version, row.payload>> \in archive'
      BY <2>1
    <3>2. <<row.version, row.payload>>[2] = row.payload
      OBVIOUS
    <3> QED
      BY <3>1, <3>2, Zenon
  <2> QED
    BY <1>2, <1>4, <1>6, <2>1, <2>3, <2>4
<1>8. CASE ~Changed(w)
  <2>1. archive' = archive /\ row'.version = 1 /\ ~(row.version > 1)
    BY <1>2, <1>3, <1>6, <1>8 DEF Archived, NextVersion
  <2>2. \A v \in archive' : v[1] < row'.version
    BY <1>4, <1>5, <2>1
  <2>3. row.payload = None \/ row.payload = got[w]
    BY <1>3, <1>8 DEF Changed
  <2> QED
    BY <1>2, <1>4, <1>6, <2>1, <2>2, <2>3
<1> QED
  BY <1>7, <1>8

LEMMA ArchiveNext ==
  ASSUME IInv, Next
  PROVE  ArchiveInv'
<1>1. CASE UNCHANGED <<row, archive, past>>
            /\ blame \cap {"race", "rewind"} \subseteq blame'
  BY <1>1 DEF IInv, ArchiveInv
<1>2. ASSUME NEW w \in Worker, Work(w), ~Store(w) PROVE ArchiveInv'
  <2>1. UNCHANGED <<row, archive, past>> /\ blame \cap {"race", "rewind"} \subseteq blame'
    BY <1>2 DEF Work, Fetch, Dedup, Look, Read, Rescan, Begin, OverBudget, Veto, Clear,
       ClearEdges, Cite, Add, Writes, Mark, Crash
  <2> QED
    BY <1>1, <2>1
<1>3. ASSUME NEW e \in edges, NEW n, Touches(e, n) PROVE ArchiveInv'
  BY <1>1, <1>3 DEF Touches
<1> QED
  BY <1>2, <1>3, Steps, ArchiveStore

-----------------------------------------------------------------------------
(* Rejected citations.                                                     *)

\* The events that void a rejection.
Voids == {"late", "twice", "overwritten"}

\* What a rejection is about only shrinks, and is vetoed with it.
LEMMA Shadows ==
  ASSUME NEW r \in Form, "moved" \in blame => "moved" \in blame'
  PROVE  /\ r \in SameAs(r) /\ SameAs(r) \subseteq Shadow(r)
         /\ SameAs(r)' \subseteq SameAs(r) /\ Shadow(r)' \subseteq Shadow(r)
BY DEF SameAs, Shadow, Key

LEMMA VetoesStay ==
  ASSUME Suppressed \subseteq Suppressed'
  PROVE  Vetoed \subseteq Vetoed'
BY DEF Vetoed

LEMMA RejectWork ==
  ASSUME IInv, NEW w \in Worker, Work(w)
  PROVE  RejectInv'
<1> SUFFICES ASSUME blame' \cap Voids = {}, NEW r \in rejected'
             PROVE  /\ Shadow(r)' \subseteq Vetoed'
                    /\ \A e \in Mined' : e.raw \notin SameAs(r)'
                    /\ \A v \in Worker : pc'[v] \in Writing => Shadow(r)' \subseteq veto'[v]
    BY DEF RejectInv, Voids
<1>1. /\ blame \cap Voids = {} /\ r \in rejected /\ r \in Form
      /\ "moved" \in blame => "moved" \in blame'
  BY DEF Voids, Work, Fetch, Dedup, Look, Store, Read, Rescan, Begin, OverBudget, Veto,
     Clear, ClearEdges, Cite, Add, Writes, Mark, Crash, IInv, TypeOK
<1>2. /\ Shadow(r) \subseteq Vetoed
      /\ \A e \in Mined : e.raw \notin SameAs(r)
      /\ \A v \in Worker : pc[v] \in Writing => Shadow(r) \subseteq veto[v]
  BY <1>1 DEF IInv, RejectInv, Voids
<1>3. /\ SameAs(r) \subseteq Shadow(r)
      /\ SameAs(r)' \subseteq SameAs(r) /\ Shadow(r)' \subseteq Shadow(r)
  BY <1>1, Shadows
<1> SUFFICES /\ Shadow(r) \subseteq Vetoed'
             /\ \A e \in Mined' : e.raw \notin SameAs(r)
             /\ \A v \in Worker : pc'[v] \in Writing => Shadow(r) \subseteq veto'[v]
    BY <1>3
<1>4. CASE Store(w)
  <2>1. Suppressed = {} /\ Suppressed \subseteq edges \ Mined
    BY <1>4 DEF Store, Voids, Suppressed, Mined
  <2>2. Shadow(r) = {} /\ r \in Shadow(r)
    BY <1>1, <1>2, <2>1, Shadows DEF Vetoed
  <2> QED
    BY <2>2
<1>5. CASE WriteStep(w)
  <2>1. /\ pc[w] \in Writing /\ veto' = veto
        /\ \A v \in Worker \ {w} : pc'[v] = pc[v]
    BY <1>5 DEF IInv, TypeOK, WriteStep, Clear, ClearEdges, Cite, Add, Writes, Writing
  <2>2. Suppressed \subseteq Suppressed'
    BY <1>5 DEF WriteStep, Clear, ClearEdges, Cleared, Cite, Add, Suppressed
  <2>3. CASE Add(w)
    <3>1. PICK F \in SUBSET Form : /\ F \subseteq Cites[text[w]] \ veto[w]
                                   /\ edges' = edges \cup EdgesOf(w, F)
      BY <2>3 DEF Add, StandsFor
    <3>2. \A e \in EdgesOf(w, F) : e.raw \notin SameAs(r)
      BY <1>2, <1>3, <2>1, <3>1, NewEdges
    <3> QED
      BY <1>2, <2>1, <2>2, <3>1, <3>2, VetoesStay DEF Mined
  <2>4. CASE ~Add(w)
    <3>1. Mined' \subseteq Mined
      BY <1>5, <2>4 DEF WriteStep, Clear, ClearEdges, Cleared, Cite, Mined
    <3> QED
      BY <1>2, <2>1, <2>2, <3>1, VetoesStay
  <2> QED
    BY <2>3, <2>4
<1>6. CASE ~Store(w) /\ ~WriteStep(w)
  <2>1. edges' = edges
    BY <1>6 DEF Work, WriteStep, Fetch, Dedup, Look, Read, Rescan, Begin, OverBudget, Veto,
       Mark, Crash, derived
  <2>2. Suppressed' = Suppressed /\ Mined' = Mined
    BY <2>1 DEF Suppressed, Mined
  <2>3. Vetoed' = Vetoed
    BY <2>2 DEF Vetoed
  <2>4. \A v \in Worker \ {w} : pc'[v] = pc[v] /\ veto'[v] = veto[v]
    BY <1>6 DEF IInv, TypeOK, Work, WriteStep, Fetch, Dedup, Look, Read, Rescan, Begin,
       OverBudget, Veto, Mark, Crash, EndMining
  <2>5. pc'[w] \notin Writing \/ (veto'[w] = Vetoed /\ Veto(w))
    BY <1>6 DEF IInv, TypeOK, Work, WriteStep, Fetch, Dedup, Look, Read, Rescan, Begin,
       OverBudget, Veto, Mark, Crash, Writing
  <2> QED
    BY <1>2, <2>2, <2>3, <2>4, <2>5
<1> QED
  BY <1>4, <1>5, <1>6

LEMMA RejectCorrect ==
  ASSUME IInv, NEW e \in edges, NEW n, Touches(e, n), Edits(e, n)
  PROVE  RejectInv'
<1> SUFFICES ASSUME blame' \cap Voids = {}, NEW r \in rejected'
             PROVE  /\ Shadow(r)' \subseteq Vetoed'
                    /\ \A d \in Mined' : d.raw \notin SameAs(r)'
                    /\ \A v \in Worker : pc'[v] \in Writing => Shadow(r)' \subseteq veto'[v]
    BY DEF RejectInv, Voids
<1>1. /\ blame \cap Voids = {} /\ ("moved" \in blame => "moved" \in blame')
      /\ pc' = pc /\ veto' = veto
  BY DEF Touches, worker
<1>2. Suppressed \subseteq Suppressed' /\ Vetoed \subseteq Vetoed'
  BY VetoesStay DEF Touches, Suppressed
<1>3. CASE r \in rejected
  <2>1. /\ r \in Form
        /\ Shadow(r) \subseteq Vetoed
        /\ \A d \in Mined : d.raw \notin SameAs(r)
        /\ \A v \in Worker : pc[v] \in Writing => Shadow(r) \subseteq veto[v]
    BY <1>1, <1>3 DEF IInv, TypeOK, RejectInv, Voids
  <2>2. SameAs(r)' \subseteq SameAs(r) /\ Shadow(r)' \subseteq Shadow(r)
    BY <1>1, <2>1, Shadows
  <2>3. \A d \in Mined' : \E c \in Mined : d.raw = c.raw
    BY DEF Touches, Edits, Mined
  <2> QED
    BY <1>1, <1>2, <2>1, <2>2, <2>3
<1>4. CASE r \notin rejected
  <2>1. /\ n.via = "suppressed" /\ n.dst = e.dst /\ n.raw = e.raw /\ r = e.raw /\ r \in Form
        /\ \A v \in Worker : pc[v] \notin Writing
        /\ \A d \in Mined \ {e} : Key(d.raw) # Key(e.raw)
        /\ "moved" \notin blame' => e.dst = Names[r]
    BY <1>4 DEF Edits, Touches, Voids
  <2>2. n \in Suppressed'
    BY <2>1 DEF Touches, Suppressed
  <2>3. Shadow(r)' \subseteq Vetoed'
    BY <2>1, <2>2 DEF Shadow, Vetoed
  <2>4. Mined' \subseteq Mined \ {e}
    BY <2>1 DEF Touches, Mined
  <2>5. \A d \in Mined' : d.raw \notin SameAs(r)'
    BY <2>1, <2>4 DEF SameAs
  <2> QED
    BY <1>1, <2>1, <2>3, <2>5
<1> QED
  BY <1>3, <1>4

LEMMA RejectNext ==
  ASSUME IInv, Next
  PROVE  RejectInv'
BY Steps, RejectWork, RejectCorrect

-----------------------------------------------------------------------------
(* Mined citations.                                                        *)

\* The events an extraction repairs.
Unmined == {"died", "unmined", "budget"}

\* What is true of extractions while no two have crossed.
Beyond == Writing \ {"clear"}

Alone ==
  \A w \in Worker :
    /\ pc[w] \in Mining => text[w] = row.payload
    /\ pc[w] \in Writing => veto[w] \subseteq Vetoed
    /\ Swept(w)
    /\ pc[w] \in Beyond => \A q \in Worker \ {w} : pc[q] \notin Beyond
    /\ pc[w] = "add" => observed = row.payload

Current ==
  row.payload # None /\ blame \cap Unmined = {} =>
    Match \/ \E w \in Worker : pc[w] \in Mining \cup {"read"}

LEMMA MinedMeans == MinedInv <=> ("overlap" \notin blame => Alone /\ Current)
BY DEF MinedInv, Alone, Current, Beyond, Unmined

LEMMA MinedMeansNext == MinedInv' <=> ("overlap" \notin blame' => Alone' /\ Current')
BY DEF MinedInv, Alone, Current, Beyond, Unmined

LEMMA MinedStore ==
  ASSUME IInv, NEW w \in Worker, Store(w)
  PROVE  MinedInv'
<1> SUFFICES ASSUME "overlap" \notin blame' PROVE Alone' /\ Current'
    BY MinedMeansNext
<1>1. \A q \in Worker : pc[q] \notin Mining
  BY DEF Store
<1>2. \A q \in Worker : pc'[q] \notin Mining
  BY <1>1 DEF IInv, TypeOK, Store, Mining, Writing
<1>3. Alone'
  BY <1>2 DEF Alone, Mining, Writing, Beyond, Swept
<1>4. ("unmined" \in blame') \/ pc'[w] = "read"
  BY DEF IInv, TypeOK, Store
<1>5. Current'
  BY <1>4 DEF Current, Unmined
<1> QED
  BY <1>3, <1>5

\* Steps before and after the writes.
LEMMA MinedElse ==
  ASSUME IInv, NEW w \in Worker,
         \/ \E x \in Payload, h \in How : Fetch(w, x, h)
         \/ Dedup(w) \/ Look(w) \/ Read(w) \/ Rescan(w) \/ OverBudget(w) \/ Veto(w)
         \/ Mark(w) \/ Crash(w)
  PROVE  MinedInv'
<1> SUFFICES ASSUME "overlap" \notin blame' PROVE Alone' /\ Current'
    BY MinedMeansNext
<1>1. UNCHANGED <<row, edges, observed>> /\ blame \subseteq blame'
  BY DEF Fetch, Dedup, Look, Read, Rescan, Begin, OverBudget, Veto, Mark, Crash, derived
<1>2. Alone /\ Current
  BY <1>1, MinedMeans DEF IInv
<1>3. Suppressed' = Suppressed /\ Mined' = Mined
  BY <1>1 DEF Suppressed, Mined
<1>4. Vetoed' = Vetoed
  BY <1>3 DEF Vetoed
<1>5. Match' = Match
  BY <1>1, <1>3, <1>4 DEF Match
<1>6. \A q \in Worker \ {w} : pc'[q] = pc[q] /\ text'[q] = text[q] /\ veto'[q] = veto[q]
  BY DEF IInv, TypeOK, Fetch, Dedup, Look, Read, Rescan, Begin, OverBudget, Veto, Mark,
     Crash, EndMining
<1>7. /\ pc'[w] \in {"fetched", "look", "store", "idle", "veto", "clear"}
      /\ pc'[w] \in {"veto", "clear"} => text'[w] = row.payload
      /\ pc'[w] = "clear" => veto'[w] = Vetoed
  <2>1. CASE Veto(w)
    BY <1>2, <2>1 DEF IInv, TypeOK, Veto, Alone, Mining
  <2> QED
    BY <2>1 DEF IInv, TypeOK, Fetch, Dedup, Look, Read, Rescan, Begin, OverBudget,
       Mark, Crash
<1>8. Swept(w)' /\ pc'[w] \notin Beyond
  BY <1>7 DEF Swept, Beyond, Writing
<1>9. \A q \in Worker : Swept(q)'
  BY <1>1, <1>2, <1>3, <1>6, <1>8 DEF Alone, Swept
<1>10. Alone'
  BY <1>1, <1>2, <1>4, <1>6, <1>7, <1>8, <1>9 DEF Alone, Mining, Writing, Beyond
<1>11. Current'
  <2>1. pc[w] \in Mining \cup {"read"} => pc'[w] \in Mining \/ "died" \in blame' \/ "budget" \in blame'
    BY DEF IInv, TypeOK, Fetch, Dedup, Look, Read, Rescan, Begin, OverBudget, Veto, Mark,
       Crash, Mining, Writing
  <2> QED
    BY <1>1, <1>2, <1>5, <1>6, <2>1 DEF Current, Unmined
<1> QED
  BY <1>10, <1>11

LEMMA MinedWrite ==
  ASSUME IInv, NEW w \in Worker, WriteStep(w)
  PROVE  MinedInv'
<1> SUFFICES ASSUME "overlap" \notin blame' PROVE Alone' /\ Current'
    BY MinedMeansNext
<1>1. /\ "overlap" \notin blame /\ \A q \in Worker \ {w} : pc[q] \notin Writing
      /\ UNCHANGED <<row, text, veto>>
      /\ pc[w] \in Writing
      /\ \A q \in Worker \ {w} : pc'[q] = pc[q]
  BY DEF IInv, TypeOK, WriteStep, Clear, ClearEdges, Cite, Add, Writes, Writing, Busy
<1>2. Alone
  BY <1>1, MinedMeans DEF IInv
<1>3. text[w] = row.payload /\ veto[w] \subseteq Vetoed /\ Swept(w)
  BY <1>1, <1>2 DEF Alone, Mining
<1>4. Suppressed \subseteq Suppressed'
  BY DEF WriteStep, Clear, ClearEdges, Cleared, Cite, Add, Suppressed
<1>5. Vetoed \subseteq Vetoed'
  BY <1>4, VetoesStay
<1>6. \A q \in Worker \ {w} : Swept(q)' /\ pc'[q] \notin Beyond /\ pc'[q] # "add"
  BY <1>1 DEF Swept, Beyond, Writing
<1>7. SUFFICES /\ Swept(w)'
               /\ pc'[w] = "add" => observed' = row.payload
               /\ Match' \/ pc'[w] \in Mining
  <2>1. Alone'
    BY <1>1, <1>2, <1>3, <1>5, <1>6, <1>7 DEF Alone, Mining, Writing, Beyond
  <2> QED
    BY <1>7, <2>1 DEF Current
<1>8. CASE Clear(w)
  BY <1>8 DEF IInv, TypeOK, Clear, Writes, Swept, Mining, Writing
<1>9. CASE ClearEdges(w, "regex", "inferred")
  <2>1. pc'[w] = "inferred" /\ edges' = {e \in edges : e.via # "regex"}
    BY <1>9 DEF IInv, TypeOK, ClearEdges, Cleared, Writes
  <2> QED
    BY <2>1 DEF Swept, Mining, Writing
<1>10. CASE ClearEdges(w, "inferred", "version")
  <2>1. pc[w] = "inferred" /\ pc'[w] = "version" /\ edges' = {e \in edges : e.via # "inferred"}
    BY <1>10 DEF IInv, TypeOK, ClearEdges, Cleared, Writes
  <2>2. {e \in edges : e.via = "regex"} = {}
    BY <1>3, <2>1 DEF Swept
  <2>3. Mined' = {}
    BY <2>1, <2>2 DEF Mined
  <2> QED
    BY <2>1, <2>3 DEF Swept, Mining, Writing
<1>11. CASE ClearEdges(w, "version", "cite")
  <2>1. pc[w] = "version" /\ pc'[w] = "cite" /\ edges' \subseteq edges
    BY <1>11 DEF IInv, TypeOK, ClearEdges, Cleared, Writes
  <2>2. Mined = {}
    BY <1>3, <2>1 DEF Swept
  <2>3. Mined' = {}
    BY <2>1, <2>2 DEF Mined
  <2> QED
    BY <2>1, <2>3 DEF Swept, Mining, Writing
<1>12. CASE Cite(w)
  <2>1. pc[w] = "cite" /\ pc'[w] = "add" /\ edges' = edges /\ observed' = row.payload
    BY <1>3, <1>12 DEF IInv, TypeOK, Cite, Writes
  <2>2. Mined = {}
    BY <1>3, <2>1 DEF Swept
  <2>3. Mined' = {}
    BY <2>1, <2>2 DEF Mined
  <2> QED
    BY <2>1, <2>3 DEF Swept, Mining, Writing
<1>13. CASE Add(w)
  <2>1. pc[w] = "add" /\ pc'[w] = "mark" /\ observed' = observed
    BY <1>13 DEF IInv, TypeOK, Add, Writes
  <2>2. PICK F \in SUBSET Form : /\ StandsFor(F, Cites[row.payload] \ veto[w])
                                 /\ edges' = edges \cup EdgesOf(w, F)
    BY <1>3, <1>13 DEF Add
  <2>3. Mined = {} /\ observed = row.payload
    BY <1>2, <1>3, <2>1 DEF Swept, Alone
  <2>4. Mined' = EdgesOf(w, F)
    BY <2>2, <2>3, NewEdges DEF Mined
  <2>5. ASSUME NEW f \in Cites[row.payload] \ Vetoed'
        PROVE  \E e \in edges' : Key(e.raw) = Key(f)
    <3>1. PICK g \in F : Key(g) = Key(f)
      BY <1>3, <1>5, <2>2 DEF StandsFor
    <3>2. PICK e \in EdgesOf(w, F) : e.raw = g
      BY NewEdges
    <3> QED
      BY <2>2, <3>1, <3>2
  <2>6. \A e \in Mined' : e.raw \in F
    BY <2>4, NewEdges
  <2>7. \A d, e \in Mined' : Key(d.raw) = Key(e.raw) => d = e
    BY <2>2, <2>4, <2>6, NewEdges DEF StandsFor
  <2>8. Match'
    BY <1>1, <2>1, <2>2, <2>3, <2>5, <2>6, <2>7 DEF Match, StandsFor
  <2> QED
    BY <2>1, <2>8 DEF Swept
<1> QED
  BY <1>8, <1>9, <1>10, <1>11, <1>12, <1>13 DEF WriteStep

LEMMA MinedCorrect ==
  ASSUME IInv, NEW e \in edges, NEW n, Touches(e, n), Edits(e, n)
  PROVE  MinedInv'
<1> SUFFICES ASSUME "overlap" \notin blame' PROVE Alone' /\ Current'
    BY MinedMeansNext
<1>1. /\ edges' = (edges \ {e}) \cup {n} /\ n.raw = e.raw /\ e \notin Suppressed
      /\ UNCHANGED <<row, observed, pc, text, veto>> /\ blame \subseteq blame'
      /\ n.via = e.via \/ n.via \notin Machine
  BY DEF Touches, Edits, worker, Suppressed
<1>2. Alone /\ Current
  BY <1>1, MinedMeans DEF IInv
<1>3. Vetoed \subseteq Vetoed'
  BY <1>1, VetoesStay DEF Suppressed
<1>4. \A d \in edges' : d \in edges \/ (d = n /\ (d.via = e.via \/ d.via \notin Machine))
  BY <1>1
<1>5. \A q \in Worker : Swept(q)'
  BY <1>1, <1>2, <1>4 DEF Alone, Swept, Mined
<1>6. Alone'
  BY <1>1, <1>2, <1>3, <1>5 DEF Alone
<1>7. ASSUME Match PROVE Match'
  <2>1. Mined' \subseteq (Mined \ {e}) \cup {n} /\ (n \in Mined' => e \in Mined)
    BY <1>1 DEF Mined
  <2>2. \A f \in Cites[row.payload] \ Vetoed : \E d \in edges : Key(d.raw) = Key(f)
    BY <1>7 DEF Match
  <2>3. \A f \in Cites[row.payload] \ Vetoed' : \E d \in edges' : Key(d.raw) = Key(f)
    BY <1>1, <1>3, <2>2
  <2>4. \A d \in Mined' : d.raw \in Cites[row.payload]
    BY <1>1, <1>7, <2>1 DEF Match
  <2>5. \A c, d \in Mined' : Key(c.raw) = Key(d.raw) => c = d
    BY <1>1, <1>7, <2>1 DEF Match
  <2> QED
    BY <1>1, <1>7, <2>3, <2>4, <2>5 DEF Match
<1>8. Current'
  BY <1>1, <1>2, <1>7 DEF Current, Unmined
<1> QED
  BY <1>6, <1>8

LEMMA MinedNext ==
  ASSUME IInv, Next
  PROVE  MinedInv'
BY Steps, MinedStore, MinedElse, MinedWrite, MinedCorrect DEF Work, WriteStep

-----------------------------------------------------------------------------
LEMMA Invariance == Spec => []IInv
<1>1. IInv /\ [Next]_vars => IInv'
  BY StutterInv, TypesNext, ArchiveNext, RejectNext, MinedNext DEF IInv
<1> QED
  BY <1>1, InitInv, PTL DEF Spec

\* Every variable stays within its type, and document_versions has one row of a
\* version.
THEOREM TypeCorrect == Spec => []TypeOK
<1>1. IInv => TypeOK
  BY DEF IInv
<1> QED
  BY <1>1, Invariance, PTL

\* upsert_document loses no text a document ever had, for any number of texts
\* and writers, but by the race and the rewind the property names.
THEOREM NoTextLost == Spec => []ArchiveComplete
<1>1. IInv => ArchiveComplete
  BY DEF IInv, ArchiveInv, ArchiveComplete
<1> QED
  BY <1>1, Invariance, PTL

\* A rejection holds against any number of extractions, extractors and
\* corrections, for the candidate and the pinpoint while no rejected edge had
\* been resolved to another id, and for the printed string after that too, but
\* in the three cases the property names (suppressed_targets, _finish_writes).
THEOREM RejectedAreVetoed == Spec => []RejectionHolds
<1>1. IInv => RejectionHolds
  BY DEF IInv, RejectInv, RejectionHolds
<1> QED
  BY <1>1, Invariance, PTL

\* An extraction that nobody crosses leaves the edges and the citations of its
\* document those of its text, one each, and repairs what a death, an importer
\* or the budget left (extract_document, _finish_writes).
THEOREM EdgesAreOfTheText == Spec => []EdgesMatchText
<1>1. IInv => EdgesMatchText
  BY DEF IInv, MinedInv, Match, EdgesMatchText, Quiet, Mining, Writing
<1> QED
  BY <1>1, Invariance, PTL

=============================================================================
