----------------------------- MODULE Documents -----------------------------
(***************************************************************************)
(* One document of the catalogue and what is derived from its text: the     *)
(* archive of its versions, the citations mined from it, and the           *)
(* corrections a person made to them.  Every table is keyed by the          *)
(* stable_id, so one document stands for each.  Harvests, imports and       *)
(* extractions work on it side by side; on Postgres every statement outside *)
(* a transaction commits by itself.                                         *)
(*                                                                         *)
(* A citation is known by the string that was printed.  The grammar may     *)
(* name a candidate for it and finds its pinpoint; the edge of a candidate  *)
(* and a pinpoint stands for all citations of them and keeps the string of  *)
(* the first, and the resolver puts the id of a held document in the place  *)
(* of the candidate.  The edges to dated versions of a law, which are       *)
(* derived from the others, are left out.                                   *)
(*                                                                         *)
(* The code lets some events undo what it promises.  blame remembers which  *)
(* of them happened, so that the properties say what holds without them,    *)
(* and that nothing else is to blame.                                       *)
(***************************************************************************)
EXTENDS Naturals, FiniteSets

CONSTANTS
  Payload,    \* the texts the source has published for it, by hash
  None,
  Form,       \* the citations a text may have, as they are printed
  Cites,      \* those a text has
  Ref,        \* ids of documents
  Names,      \* the candidate of a citation, or None
  Pinpoint,   \* its place in the document cited
  Guessed,    \* the citations that are carried forward from others
  Target,     \* the documents a citation may resolve to
  Worker,     \* processes that store and mine
  How,        \* the ways a record comes in
  MaxStores,  \* bound: records fetched or imported
  MaxEdits,   \* bound: corrections and rescans
  MaxFaults   \* bound: crashes and errors

ASSUME DocumentsAssumption ==
  /\ None \notin Payload \cup Ref
  /\ Cites \in [Payload -> SUBSET Form]
  /\ Names \in [Form -> Ref \cup {None}]
  /\ Guessed \subseteq Form
  /\ Target \in [Form -> SUBSET Ref]
  /\ How \subseteq {"pipeline", "refetch", "import"}
  /\ MaxStores \in Nat /\ MaxEdits \in Nat /\ MaxFaults \in Nat

PayloadOrNone == Payload \cup {None}
Row == [payload : PayloadOrNone, version : Nat]

\* extracted_via, and the two states of an edge a person has seen: manual, also
\* of the type of a dated version, and suppressed.
Machine == {"regex", "inferred"}
Manual == {"manual", "version"}
Edge == [raw : Form, dst : Ref \cup {None},
         via : Machine \cup Manual \cup {"suppressed"}, by : Worker]
Event == {"race", "rewind", "overwritten", "died", "overlap", "unmined", "budget",
          "late", "twice", "moved"}

VARIABLES
  row,        \* payload_hash and version of the documents row
  archive,    \* document_versions: <<version, payload>>
  edges,      \* relations of which it is the source, but those its record ships
  observed,   \* the text its citations rows were mined from
  stamped,    \* last_extracted_at is set
  \* a worker: where it is, its record, the row it read, the text it mines and
  \* the citations it found rejected
  pc, how, got, seen, text, veto,
  \* what the properties remember
  past, rejected, blame,
  stores, edits, faults

derived == <<edges, observed, stamped>>
worker == <<pc, how, got, seen, text, veto>>
bounds == <<stores, edits, faults>>
vars == <<row, archive, derived, worker, past, rejected, blame, bounds>>

NoRow == [payload |-> None, version |-> 0]

Init ==
  /\ row = NoRow
  /\ archive = {}
  /\ edges = {}
  /\ observed = None
  /\ stamped = FALSE
  /\ pc = [w \in Worker |-> "idle"]
  /\ how = [w \in Worker |-> "pipeline"]
  /\ got = [w \in Worker |-> None]
  /\ seen = [w \in Worker |-> NoRow]
  /\ text = [w \in Worker |-> None]
  /\ veto = [w \in Worker |-> {}]
  /\ past = {}
  /\ rejected = {}
  /\ blame = {}
  /\ stores = 0
  /\ edits = 0
  /\ faults = 0

Fault == faults < MaxFaults /\ faults' = faults + 1
Edit == edits < MaxEdits /\ edits' = edits + 1
At(w, l) == pc[w] = l
Goto(w, l) == pc' = [pc EXCEPT ![w] = l]

\* The end of a call, and of its locals.
EndStore(w) == got' = [got EXCEPT ![w] = None] /\ seen' = [seen EXCEPT ![w] = NoRow]
               /\ how' = [how EXCEPT ![w] = "pipeline"]
EndMining(w) == text' = [text EXCEPT ![w] = None] /\ veto' = [veto EXCEPT ![w] = {}]

\* The events of S that hold are to blame.
Blame(S) == blame' = blame \cup S
If(c, event) == IF c THEN {event} ELSE {}

-----------------------------------------------------------------------------
(* Storing a record.                                                       *)

Fetch(w, x, h) ==
  /\ At(w, "idle")
  /\ stores < MaxStores
  /\ stores' = stores + 1
  /\ got' = [got EXCEPT ![w] = x]
  /\ how' = [how EXCEPT ![w] = h]
  /\ Goto(w, "fetched")
  /\ UNCHANGED <<row, archive, derived, seen, text, veto, past,
                 rejected, blame, edits, faults>>

\* payload_hash_seen: the pipeline drops a record it holds, a refetch
\* refreshes the row all the same, and importers do not ask.
Dedup(w) ==
  /\ At(w, "fetched")
  /\ IF how[w] = "pipeline" /\ row.payload = got[w]
     THEN Goto(w, "idle") /\ EndStore(w)
     ELSE Goto(w, "look") /\ UNCHANGED <<how, got, seen>>
  /\ UNCHANGED <<row, archive, derived, text, veto,
                 past, rejected, blame, bounds>>

\* upsert_document reads the row before its transaction ...
Look(w) ==
  /\ At(w, "look")
  /\ seen' = [seen EXCEPT ![w] = row]
  /\ Goto(w, "store")
  /\ UNCHANGED <<row, archive, derived, how, got, text, veto, past,
                 rejected, blame, bounds>>

Changed(w) == seen[w].payload \notin {None, got[w]}

\* _archive_version, ON CONFLICT DO NOTHING.
Archived(w) ==
  IF Changed(w) /\ \A v \in archive : v[1] # seen[w].version
  THEN archive \cup {<<seen[w].version, seen[w].payload>>} ELSE archive

\* A row that did not change gets the version of the record, always 1.
MutantNextVersion(w) == IF Changed(w) THEN seen[w].version ELSE 1
NextVersion(w) == IF Changed(w) THEN seen[w].version + 1 ELSE 1

\* A worker that has read the text, and one that has read the vetoes and not
\* written all its edges.
Writing == {"clear", "regex", "inferred", "version", "cite", "add"}
Mining == {"veto"} \cup Writing

Key(f) == <<Names[f], Pinpoint[f]>>
Suppressed == {e \in edges : e.via = "suppressed"}
Mined == {e \in edges : e.via \in Machine}

\* ... and archives, rewrites the row and drops every edge, in one.  Some
\* importers do not mine what they stored.
Store(w) ==
  /\ At(w, "store")
  /\ archive' = Archived(w)
  /\ row' = [payload |-> got[w], version |-> NextVersion(w)]
  /\ edges' = {}
  /\ past' = past \cup {got[w]}
  /\ \E next \in {"read"} \cup (IF how[w] = "import" THEN {"idle"} ELSE {}) :
       /\ Goto(w, next)
       /\ Blame(If(seen[w] # row, "race")
           \cup If(~Changed(w) /\ row.version > 1, "rewind")
           \cup If(edges \ Mined # {}, "overwritten")
           \cup If(next = "idle", "unmined")
           \cup If(\E q \in Worker : pc[q] \in Mining, "overlap"))
  /\ EndStore(w)
  /\ UNCHANGED <<observed, stamped, text, veto, rejected, bounds>>

-----------------------------------------------------------------------------
(* Mining its text.                                                        *)

\* extract_document reads the row, then the grammars take their time.
Begin(w) ==
  /\ text' = [text EXCEPT ![w] = row.payload]
  /\ Goto(w, "veto")
  /\ UNCHANGED <<row, archive, derived, how, got, seen, veto, past,
                 rejected, blame, stores, faults>>

Read(w) == At(w, "read") /\ Begin(w) /\ UNCHANGED edits

\* A rescan, a job or a click on the document.
Rescan(w) == At(w, "idle") /\ row.payload # None /\ Edit /\ Begin(w)

\* The grammars exceed their budget: the rows of the last run are kept, and
\* the stamp is set.
OverBudget(w) ==
  /\ At(w, "veto")
  /\ Fault
  /\ stamped' = TRUE
  /\ Goto(w, "idle")
  /\ Blame({"budget"})
  /\ EndMining(w)
  /\ UNCHANGED <<row, archive, edges, observed, how, got, seen,
                 past, rejected, stores, edits>>

\* suppressed_targets: what the rejected edges point at and the strings they keep.
MutantVetoed == {}
Vetoed == {f \in Form : \E e \in Suppressed : e.raw = f \/ (e.dst = Names[f] /\ e.dst # None)}

Veto(w) ==
  /\ At(w, "veto")
  /\ veto' = [veto EXCEPT ![w] = Vetoed]
  /\ Goto(w, "clear")
  /\ UNCHANGED <<row, archive, derived, how, got, seen, text, past, rejected, blame, bounds>>

\* One of the writes of an extraction, which may cross another's.
Busy(w) == \E q \in Worker \ {w} : pc[q] \in Writing

Writes(w, l, next) ==
  /\ At(w, l)
  /\ Goto(w, next)
  /\ UNCHANGED <<row, archive, stamped, how, got, seen, text, veto, past, rejected, bounds>>

\* clear_citations
Clear(w) ==
  /\ Writes(w, "clear", "regex")
  /\ observed' = None
  /\ Blame(If(Busy(w), "overlap"))
  /\ UNCHANGED edges

\* clear_relations, of one method and of the other, and clear_relations_of_type,
\* which does not ask who made the edges.
MutantCleared(via) == edges
Cleared(via) == {e \in edges : e.via # via}

ClearEdges(w, via, next) ==
  /\ Writes(w, via, next)
  /\ edges' = Cleared(via)
  /\ Blame(If(Busy(w), "overlap"))
  /\ UNCHANGED observed

\* add_citations
Cite(w) ==
  /\ Writes(w, "cite", "add")
  /\ observed' = text[w]
  /\ Blame(If(Busy(w), "overlap"))
  /\ UNCHANGED edges

\* One citation of S, the first in the text, stands for those of its key.
StandsFor(F, S) ==
  /\ F \subseteq S
  /\ \A f \in S : \E g \in F : Key(g) = Key(f)
  /\ \A f, g \in F : Key(f) = Key(g) => f = g

MutantMethod(f) == IF f \in Guessed THEN "carry_forward" ELSE "regex"
Method(f) == IF f \in Guessed THEN "inferred" ELSE "regex"
EdgesOf(w, F) == {[raw |-> f, dst |-> Names[f], via |-> Method(f), by |-> w] : f \in F}

\* add_relations.  An extraction nobody disturbed repairs what others left.
Add(w) ==
  /\ Writes(w, "add", "mark")
  /\ \E F \in SUBSET Form :
       /\ StandsFor(F, Cites[text[w]] \ veto[w])
       /\ edges' = edges \cup EdgesOf(w, F)
  /\ blame' = IF Busy(w) THEN blame \cup {"overlap"}
              ELSE IF text[w] = row.payload
              THEN blame \ {"died", "unmined", "budget"} ELSE blame
  /\ UNCHANGED observed

\* mark_extracted
Mark(w) ==
  /\ At(w, "mark")
  /\ stamped' = TRUE
  /\ Goto(w, "idle")
  /\ EndMining(w)
  /\ UNCHANGED <<row, archive, edges, observed, how, got, seen,
                 past, rejected, blame, bounds>>

Crash(w) ==
  /\ ~At(w, "idle")
  /\ Fault
  /\ Goto(w, "idle")
  /\ Blame(If(pc[w] \in Mining \cup {"read"}, "died"))
  /\ EndStore(w)
  /\ EndMining(w)
  /\ UNCHANGED <<row, archive, derived, past, rejected, stores, edits>>

\* The resolver finds the document an edge is about, under an id of its own.
Resolve(e, d) ==
  /\ e \in edges \ Suppressed
  /\ e.dst = Names[e.raw]
  /\ d \in Target[e.raw] \ {e.dst}
  /\ edges' = (edges \ {e}) \cup {[e EXCEPT !.dst = d]}
  /\ UNCHANGED <<row, archive, observed, stamped, worker, past, rejected, blame, bounds>>

\* correct_citation: an edge is reclassified or points where a person says.
\* Beside it the next extraction writes its own again.
Curate(e, via, d) ==
  /\ e \in edges \ Suppressed
  /\ d \in Target[e.raw] \cup {e.dst}
  /\ Edit
  /\ edges' = (edges \ {e}) \cup {[e EXCEPT !.via = via, !.dst = d]}
  /\ UNCHANGED <<row, archive, observed, stamped, worker, past, rejected, blame,
                 stores, faults>>

\* suppress_relation.  A worker that has read its vetoes does not see it, another
\* edge of the same key stays, and one that was resolved no longer has its
\* candidate.
Reject(e) ==
  /\ e \in edges \ Suppressed
  /\ Edit
  /\ edges' = (edges \ {e}) \cup {[e EXCEPT !.via = "suppressed"]}
  /\ rejected' = rejected \cup {e.raw}
  /\ Blame(If(\E w \in Worker : pc[w] \in Writing, "late")
      \cup If(\E d \in Mined \ {e} : Key(d.raw) = Key(e.raw), "twice")
      \cup If(e.dst # Names[e.raw], "moved"))
  /\ UNCHANGED <<row, archive, observed, stamped, worker, past, stores, faults>>

-----------------------------------------------------------------------------
Work(w) ==
  \/ \E x \in Payload, h \in How : Fetch(w, x, h)
  \/ Dedup(w) \/ Look(w) \/ Store(w)
  \/ Read(w) \/ Rescan(w) \/ OverBudget(w) \/ Veto(w)
  \/ Clear(w)
  \/ ClearEdges(w, "regex", "inferred")
  \/ ClearEdges(w, "inferred", "version")
  \/ ClearEdges(w, "version", "cite")
  \/ Cite(w) \/ Add(w) \/ Mark(w)
  \/ Crash(w)

Next ==
  \/ \E w \in Worker : Work(w)
  \/ \E e \in edges, d \in Ref : Resolve(e, d)
  \/ \E e \in edges, via \in Manual, d \in Ref \cup {None} : Curate(e, via, d)
  \/ \E e \in edges : Reject(e)

Spec == Init /\ [][Next]_vars

-----------------------------------------------------------------------------
(* Properties.                                                             *)

\* Types, and that document_versions has one row of a version.
TypeOK ==
  /\ row \in Row
  /\ archive \subseteq Nat \X Payload
  /\ \A u, v \in archive : u[1] = v[1] => u = v
  /\ edges \subseteq Edge
  /\ observed \in PayloadOrNone
  /\ stamped \in BOOLEAN
  /\ pc \in [Worker -> {"idle", "fetched", "look", "store", "read", "mark"} \cup Mining]
  /\ how \in [Worker -> {"pipeline", "refetch", "import"}]
  /\ got \in [Worker -> PayloadOrNone]
  /\ seen \in [Worker -> Row]
  /\ text \in [Worker -> PayloadOrNone]
  /\ veto \in [Worker -> SUBSET Form]
  /\ past \subseteq Payload /\ rejected \subseteq Form /\ blame \subseteq Event
  /\ stores \in 0..MaxStores /\ edits \in 0..MaxEdits /\ faults \in 0..MaxFaults

\* No text the document ever had is lost from the archive, but for two writers
\* that read the same row, and for a rewrite of an unchanged row, which starts
\* its versions anew so that the next archived one collides.
ArchiveComplete ==
  \/ past \subseteq {row.payload} \cup {v[2] : v \in archive}
  \/ blame \cap {"race", "rewind"} # {}

Quiet == \A w \in Worker : At(w, "idle")

\* Between extractions the edges and the citations of a document are those of
\* the text it has: every citation is vetoed or has an edge of its candidate and
\* pinpoint, and no two edges that were mined are of the same.  Unless a worker
\* died before it wrote them, an importer or the budget left the text unmined,
\* which a later extraction repairs, or two workers wrote at once.
EdgesMatchText ==
  Quiet /\ row.payload # None
  /\ blame \cap {"died", "unmined", "budget", "overlap"} = {} =>
    /\ observed = row.payload
    /\ \A f \in Cites[row.payload] \ Vetoed : \E e \in edges : Key(e.raw) = Key(f)
    /\ \A e \in Mined : e.raw \in Cites[row.payload]
    /\ \A d, e \in Mined : Key(d.raw) = Key(e.raw) => d = e

\* The citations a rejection is about: all of its candidate and pinpoint, but
\* only the string itself if it had no candidate, or if a rejected edge had
\* been resolved to another id.
SameAs(f) ==
  IF Names[f] = None \/ "moved" \in blame THEN {f} ELSE {g \in Form : Key(g) = Key(f)}

\* A citation a person rejected stays away, however it is printed, however often
\* the document is mined and by however many workers, but for an extraction
\* under way when it was rejected, a second edge of the same, or a document
\* stored again.  After the resolver has moved an edge only its string stays
\* away: suppressed_targets takes the id it finds for the candidate.
RejectionHolds ==
  blame \cap {"late", "twice", "overwritten"} = {} =>
    \A e \in Mined, r \in rejected : e.raw \notin SameAs(r)

\* What correct_citation and suppress_relation promise of it.
RejectedStayAway == \A e \in Mined : e.raw \notin rejected
=============================================================================
