----------------------------- MODULE Resolution -----------------------------
(***************************************************************************)
(* The citation graph and its resolver.  Extraction writes an edge for each *)
(* reference of a document, pending until the document it names is held; a  *)
(* process that stores documents probes for them when it is done, and the   *)
(* scheduler resolves the whole graph again and again.  Every SQL statement *)
(* of the resolver is a step: under READ COMMITTED each sees what the other *)
(* processes have committed by then.                                        *)
(*                                                                         *)
(* A key is a folded string: a stable_id, an ECLI, or a name the citing     *)
(* text uses.  Which rows a text yields, which aliases a document declares  *)
(* and what a surrogate turns out to be are constants.                      *)
(***************************************************************************)
EXTENDS Naturals, FiniteSets

CONSTANTS
  Id,        \* the stable_ids documents are stored under
  Key,       \* every folded string a row or an alias may hold
  None,      \* SQL's NULL
  Ecli,      \* the ECLI of a document, or None
  Cites,     \* the references of a text: [cand, raw, dotted]
  Declares,  \* the aliases a document declares when it is stored
  Base,      \* the id a dated expression is an expression of, or None
  Stamp,     \* the order of the dated expressions
  Twin,      \* the id under which a surrogate's case is better known, or None
  Proc,      \* processes that harvest, import or drain
  Sweepers,  \* those with batches large enough to resolve by ranges
  MaxBatch,  \* bound: documents one process stores before it resolves
  MaxStores, \* bound: documents harvested or absorbed in all
  MaxFaults  \* bound: crashes and cancellations

KeyOrNone == Key \cup {None}
IdOrNone == Id \cup {None}

\* dotted: raw equals the alias only once its abbreviation dots are dropped.
Reference == [cand : KeyOrNone, raw : KeyOrNone, dotted : BOOLEAN]

Row == [src : Id, cand : KeyOrNone, raw : KeyOrNone, dotted : BOOLEAN, dst : IdOrNone]

ASSUME ResolutionAssumption ==
  /\ Id \subseteq Key
  /\ None \notin Key
  /\ Ecli \in [Id -> KeyOrNone]
  /\ Cites \in [Id -> SUBSET Reference]
  /\ Declares \in [Id -> SUBSET Key]
  /\ Base \in [Id -> IdOrNone]
  /\ Stamp \in [Id -> Nat]
  /\ Twin \in [Id -> IdOrNone]
  /\ Sweepers \subseteq Proc
  /\ MaxBatch \in Nat
  /\ MaxStores \in Nat
  /\ MaxFaults \in Nat

\* A surrogate is the report of a case, without an ECLI; what absorbs it is no
\* surrogate.
ASSUME TwinAssumption ==
  \A d \in Id : Twin[d] # None =>
    /\ Twin[d] # d /\ Twin[Twin[d]] = None
    /\ Ecli[d] = None /\ Ecli[Twin[d]] = None
    /\ Base[d] = None

VARIABLES
  \* the catalogue: documents, citation_aliases (and which of its rows carry
  \* VERSION_ALIAS_SOURCE), relations
  held, alias, versioned, rows,
  \* a process: where it is, the documents it has yet to mine and to probe,
  \* the one in hand, the next statement; of a range sweep, the sources whose
  \* rows are still to come and those of the current window
  pc, unmined, ids, cur, stage, scope, window,
  \* the scheduler's whole-graph pass and what its refresh has read
  tick, wanted,
  \* what the properties remember: documents nobody will probe for until the
  \* next whole-graph pass, those the pass under way has yet to cover, and
  \* documents absorbed while a process still meant to probe for them
  lost, covering, raced,
  stores, faults

catalogue == <<held, alias, versioned, rows>>
process == <<pc, unmined, ids, cur, stage, scope, window>>
whole == <<tick, wanted>>
history == <<lost, covering, raced>>
bounds == <<stores, faults>>
vars == <<catalogue, process, whole, history, bounds>>

Init ==
  /\ held = {}
  /\ alias = [k \in Key |-> None]
  /\ versioned = {}
  /\ rows = {}
  /\ pc = [p \in Proc |-> "idle"]
  /\ unmined = [p \in Proc |-> {}]
  /\ ids = [p \in Proc |-> {}]
  /\ cur = [p \in Proc |-> None]
  /\ stage = [p \in Proc |-> 1]
  /\ scope = [p \in Proc |-> {}]
  /\ window = [p \in Proc |-> {}]
  /\ tick = 0
  /\ wanted = {}
  /\ lost = {}
  /\ covering = {}
  /\ raced = {}
  /\ stores = 0
  /\ faults = 0

-----------------------------------------------------------------------------
(* The joins.                                                              *)

\* documents d WHERE d.stable_id = k OR d.ecli = k
Named(k) == {d \in held : d = k \/ (Ecli[d] # None /\ Ecli[d] = k)}

Aliased(k) == IF alias[k] = None THEN {} ELSE Named(alias[k])

\* The documents the n-th pass of the ladder joins a row with.  A name counts
\* only where extraction proposed no candidate.
Ladder(n, r) ==
  CASE n = 1 /\ r.cand # None -> Named(r.cand)
    [] n = 2 /\ r.cand # None -> Aliased(r.cand)
    [] n = 3 /\ r.cand = None /\ r.raw # None /\ ~r.dotted -> Aliased(r.raw)
    [] n = 4 /\ r.cand = None /\ r.raw # None /\ r.dotted -> Aliased(r.raw)
    [] OTHER -> {}

\* The pending rows of `some' with the documents the n-th pass joins them with.
Joined(n, some) == UNION {{r} \X Ladder(n, r) : r \in {r \in some : r.dst = None}}

\* UPDATE relations SET dst_id, resolution_status = 'resolved' of the rows that
\* join; which of several joined documents wins is open.
Resolve(joined) ==
  LET hit == {j[1] : j \in joined}
  IN \E to \in [hit -> Id] :
       /\ \A r \in hit : <<r, to[r]>> \in joined
       /\ rows' = (rows \ hit) \cup {[r EXCEPT !.dst = to[r]] : r \in hit}

RowsOf(S) == {r \in rows : r.src \in S}

-----------------------------------------------------------------------------
(* Storing and mining.                                                     *)

\* put_alias, and who owns the row afterwards.
PutAliases(K, dst, overwrite) ==
  LET put == {k \in K : overwrite \/ alias[k] = None}
  IN /\ alias' = [k \in Key |-> IF k \in put THEN dst ELSE alias[k]]
     /\ versioned' = versioned \ put

MutantFresh(d) == {[src |-> d, cand |-> c.cand, raw |-> c.raw, dotted |-> c.dotted,
                    dst |-> c.cand] : c \in Cites[d]}

\* The edges a text yields: pending, whatever is held.
Fresh(d) == {[src |-> d, cand |-> c.cand, raw |-> c.raw, dotted |-> c.dotted,
              dst |-> None] : c \in Cites[d]}

\* What the aliases of a document lead to.
Leads(d) == IF Ecli[d] # None THEN Ecli[d] ELSE d

\* The documents that a step of a process has given a name, and that it does not
\* mean to probe for yet.
InTransit(p) ==
  CASE pc[p] = "retire" -> {Twin[cur[p]]}
    [] pc[p] = "minted" -> Named(Leads(cur[p]))
    [] OTHER -> {}

\* Between two documents: what was stored waits to be mined and probed for.
Between(p) == IF ids[p] = {} THEN "idle" ELSE "store"

\* find_document_id
Found(k) == IF Named(k) # {} THEN Named(k) ELSE Aliased(k)

\* Pipeline._ingest: a document without an ECLI, one of whose aliases names another
\* held document, is a rendition of that one (whether the two come from different
\* registers is left open): its id becomes an alias, nothing is stored and nobody
\* is to probe.
Rendition(p, d) ==
  /\ pc[p] \in {"idle", "store"}
  /\ stores < MaxStores
  /\ stores' = stores + 1
  /\ Ecli[d] = None
  /\ \E k \in Declares[d] : \E h \in Found(k) \ {d} :
       /\ PutAliases({d}, h, FALSE)
       /\ lost' = lost \cup {h}
  /\ UNCHANGED <<held, rows, process, whole, covering, raced, faults>>

\* Otherwise its aliases are committed before anything is stored: those that lead
\* to an ECLI overwrite, those that lead to a stable_id do not.
Mint(p, d) ==
  /\ pc[p] \in {"idle", "store"}
  /\ d \notin ids[p]
  /\ Cardinality(ids[p]) < MaxBatch
  /\ stores < MaxStores
  /\ stores' = stores + 1
  /\ PutAliases(Declares[d], Leads(d), Ecli[d] # None)
  /\ pc' = [pc EXCEPT ![p] = "minted"]
  /\ cur' = [cur EXCEPT ![p] = d]
  /\ UNCHANGED <<held, rows, unmined, ids, stage, scope, window, whole, history, faults>>

\* payload_hash_seen: a held document has these bytes, this one or another (which
\* do is left open), and nothing is stored.
Dedup(p) ==
  /\ pc[p] = "minted"
  /\ held # {}
  /\ lost' = lost \cup InTransit(p)
  /\ pc' = [pc EXCEPT ![p] = Between(p)]
  /\ cur' = [cur EXCEPT ![p] = None]
  /\ UNCHANGED <<catalogue, unmined, ids, stage, scope, window, whole, covering, raced, bounds>>

\* upsert_document, one transaction: the edges of the document go with its row, and
\* come back when it is mined.
Store(p) ==
  /\ pc[p] = "minted"
  /\ held' = held \cup {cur[p]}
  /\ rows' = rows \ RowsOf({cur[p]})
  /\ scope' = [q \in Proc |-> scope[q] \ {cur[p]}]
  /\ window' = [q \in Proc |-> window[q] \ {cur[p]}]
  /\ ids' = [ids EXCEPT ![p] = @ \cup {cur[p]}]
  /\ unmined' = [unmined EXCEPT ![p] = @ \cup {cur[p]}]
  /\ pc' = [pc EXCEPT ![p] = "store"]
  /\ cur' = [cur EXCEPT ![p] = None]
  /\ UNCHANGED <<alias, versioned, stage, whole, history, bounds>>

\* extract_document reads the document and its text ...
MineRead(p) ==
  /\ pc[p] = "store"
  /\ \E d \in unmined[p] :
       /\ unmined' = [unmined EXCEPT ![p] = @ \ {d}]
       /\ IF d \in held
          THEN /\ pc' = [pc EXCEPT ![p] = "mine"]
               /\ cur' = [cur EXCEPT ![p] = d]
          ELSE UNCHANGED <<pc, cur>>
  /\ UNCHANGED <<catalogue, ids, stage, scope, window, whole, history, bounds>>

\* ... and _finish_writes replaces its edges, all of them pending, with
\* relation_ids past the end of every range sweep under way.
MineWrite(p) ==
  /\ pc[p] = "mine"
  /\ rows' = (rows \ RowsOf({cur[p]})) \cup Fresh(cur[p])
  /\ pc' = [pc EXCEPT ![p] = "store"]
  /\ cur' = [cur EXCEPT ![p] = None]
  /\ scope' = [q \in Proc |-> scope[q] \ {cur[p]}]
  /\ window' = [q \in Proc |-> window[q] \ {cur[p]}]
  /\ UNCHANGED <<held, alias, versioned, unmined, ids, stage, whole, history, bounds>>

-----------------------------------------------------------------------------
(* Absorbing a surrogate.                                                  *)

MutantRekeyed(x, old, new) == x
Rekeyed(x, old, new) == IF x = old THEN new ELSE x

\* rekey_document of a held surrogate, one transaction: a rename, or a merge
\* when the better id is held too.
Absorb(p, old) ==
  LET new == Twin[old]
  IN /\ pc[p] \in {"idle", "store"}
     /\ old \in held
     /\ new # None
     /\ Cardinality(ids[p]) < MaxBatch
     /\ stores < MaxStores
     /\ stores' = stores + 1
     /\ held' = (held \ {old}) \cup {new}
     /\ alias' = [k \in Key |-> Rekeyed(alias[k], old, new)]
     /\ rows' = {[r EXCEPT !.src = Rekeyed(@, old, new), !.cand = Rekeyed(@, old, new),
                           !.dst = Rekeyed(@, old, new)] : r \in rows}
     /\ scope' = [q \in Proc |-> {Rekeyed(s, old, new) : s \in scope[q]}]
     /\ window' = [q \in Proc |-> {Rekeyed(s, old, new) : s \in window[q]}]
     /\ pc' = [pc EXCEPT ![p] = "retire"]
     /\ cur' = [cur EXCEPT ![p] = old]
     /\ raced' = IF \E q \in Proc : old \in ids[q] THEN raced \cup {old} ELSE raced
     /\ UNCHANGED <<versioned, unmined, ids, stage, whole, lost, covering, faults>>

\* "the retired id stays resolvable": a statement of its own.
Retire(p) ==
  /\ pc[p] = "retire"
  /\ PutAliases({cur[p]}, Twin[cur[p]], TRUE)
  /\ ids' = [ids EXCEPT ![p] = @ \cup {Twin[cur[p]]}]
  /\ pc' = [pc EXCEPT ![p] = "store"]
  /\ cur' = [cur EXCEPT ![p] = None]
  /\ UNCHANGED <<held, rows, unmined, stage, scope, window, whole, history, bounds>>

-----------------------------------------------------------------------------
(* Resolving what was stored, document by document.                        *)

Mined(p) == pc[p] = "store" /\ unmined[p] = {}

\* get_document: a drain (run_for_documents) passes over a document that is
\* gone, a harvest probes for it all the same.
Probe(p) ==
  /\ Mined(p)
  /\ p \notin Sweepers
  /\ \E d \in ids[p] :
       \/ /\ pc' = [pc EXCEPT ![p] = "from"]
          /\ cur' = [cur EXCEPT ![p] = d]
          /\ UNCHANGED ids
       \/ /\ d \notin held
          /\ ids' = [ids EXCEPT ![p] = @ \ {d}]
          /\ pc' = [pc EXCEPT ![p] = IF ids[p] = {d} THEN "idle" ELSE "store"]
          /\ UNCHANGED cur
  /\ UNCHANGED <<catalogue, unmined, stage, scope, window, whole, history, bounds>>

\* resolve_pending_from: the ladder for the rows of the document.
From(p) ==
  /\ pc[p] = "from"
  /\ Resolve(Joined(stage[p], RowsOf({cur[p]})))
  /\ IF stage[p] < 3
     THEN /\ stage' = [stage EXCEPT ![p] = @ + 1]
          /\ UNCHANGED pc
     ELSE /\ stage' = [stage EXCEPT ![p] = 1]
          /\ pc' = [pc EXCEPT ![p] = "for"]
  /\ UNCHANGED <<held, alias, versioned, unmined, ids, cur, scope, window, whole,
                 history, bounds>>

\* The rows resolve_pending_for points at document d: it joins no document,
\* and a name is enough whatever the row's candidate.
MutantKeys(d) == {d}
Keys(d) == {d} \cup ({Ecli[d]} \ {None})

PointsAt(n, r, d) ==
  CASE n = 1 -> r.cand \in Keys(d)
    [] n = 2 -> r.cand # None /\ alias[r.cand] \in Keys(d)
    [] n = 3 -> r.raw # None /\ ~r.dotted /\ alias[r.raw] \in Keys(d)

For(p) ==
  /\ pc[p] = "for"
  /\ Resolve({r \in rows : r.dst = None /\ PointsAt(stage[p], r, cur[p])} \X {cur[p]})
  /\ IF stage[p] < 3
     THEN /\ stage' = [stage EXCEPT ![p] = @ + 1]
          /\ UNCHANGED <<pc, cur, ids>>
     ELSE /\ stage' = [stage EXCEPT ![p] = 1]
          /\ ids' = [ids EXCEPT ![p] = @ \ {cur[p]}]
          /\ cur' = [cur EXCEPT ![p] = None]
          /\ pc' = [pc EXCEPT ![p] = IF ids[p] = {cur[p]} THEN "idle" ELSE "store"]
  /\ UNCHANGED <<held, alias, versioned, unmined, scope, window, whole, history, bounds>>

-----------------------------------------------------------------------------
(* Resolving in relation-id ranges: run_batched, after a large batch.      *)

Sources == {r.src : r \in rows}

\* max_relation_id: the sweep covers the rows there are.
SweepStart(p) ==
  /\ Mined(p)
  /\ p \in Sweepers
  /\ ids[p] # {}
  /\ pc' = [pc EXCEPT ![p] = "sweep"]
  /\ scope' = [scope EXCEPT ![p] = Sources]
  /\ UNCHANGED <<catalogue, unmined, ids, cur, stage, window, whole, history, bounds>>

\* pending_relation_batch: the next window, or none is left.
SweepWindow(p) ==
  /\ pc[p] = "sweep"
  /\ IF scope[p] # {}
     THEN /\ \E W \in (SUBSET scope[p]) \ {{}} :
               /\ window' = [window EXCEPT ![p] = W]
               /\ scope' = [scope EXCEPT ![p] = @ \ W]
          /\ pc' = [pc EXCEPT ![p] = "range"]
          /\ UNCHANGED ids
     ELSE /\ pc' = [pc EXCEPT ![p] = "idle"]
          /\ ids' = [ids EXCEPT ![p] = {}]
          /\ UNCHANGED <<scope, window>>
  /\ UNCHANGED <<catalogue, unmined, cur, stage, whole, history, bounds>>

\* resolve_pending_range: four passes over the window.
SweepRange(p) ==
  /\ pc[p] = "range"
  /\ Resolve(Joined(stage[p], RowsOf(window[p])))
  /\ IF stage[p] < 4
     THEN /\ stage' = [stage EXCEPT ![p] = @ + 1]
          /\ UNCHANGED <<pc, window>>
     ELSE /\ stage' = [stage EXCEPT ![p] = 1]
          /\ pc' = [pc EXCEPT ![p] = "sweep"]
          /\ window' = [window EXCEPT ![p] = {}]
  /\ UNCHANGED <<held, alias, versioned, unmined, ids, cur, scope, whole, history, bounds>>

\* The process dies, or its job is cancelled before it has resolved.
Stop(p) ==
  /\ pc[p] # "idle"
  /\ faults < MaxFaults
  /\ faults' = faults + 1
  /\ lost' = lost \cup ids[p] \cup InTransit(p)
  /\ pc' = [pc EXCEPT ![p] = "idle"]
  /\ unmined' = [unmined EXCEPT ![p] = {}]
  /\ ids' = [ids EXCEPT ![p] = {}]
  /\ cur' = [cur EXCEPT ![p] = None]
  /\ stage' = [stage EXCEPT ![p] = 1]
  /\ scope' = [scope EXCEPT ![p] = {}]
  /\ window' = [window EXCEPT ![p] = {}]
  /\ UNCHANGED <<catalogue, whole, covering, raced, stores>>

-----------------------------------------------------------------------------
(* The scheduler's whole-graph pass.                                       *)

\* The newest dated expression held of a base.
Newest(b) == {s \in held : /\ Base[s] = b
                           /\ \A t \in held : Base[t] = b => Stamp[t] <= Stamp[s]}

\* refresh_version_aliases reads: the bases that are not held and whose alias
\* is free or its own.
TickRead ==
  /\ tick = 0
  /\ wanted' = {w \in Id \X held : /\ w[1] \notin held
                                   /\ w[2] \in Newest(w[1])
                                   /\ alias[w[1]] = None \/ w[1] \in versioned}
  /\ tick' = 1
  /\ covering' = lost
  /\ lost' = {}
  /\ UNCHANGED <<catalogue, process, raced, bounds>>

\* ... and writes, base by base: the alias, and every edge of the base.
TickWrite ==
  /\ tick = 1
  /\ \E w \in wanted :
       /\ alias' = [alias EXCEPT ![w[1]] = w[2]]
       /\ versioned' = versioned \cup {w[1]}
       /\ rows' = {IF r.cand = w[1] THEN [r EXCEPT !.dst = w[2]] ELSE r : r \in rows}
       /\ wanted' = wanted \ {w}
       /\ covering' = covering \cup {w[2]}
  /\ UNCHANGED <<held, process, tick, lost, raced, bounds>>

TickRefreshed ==
  /\ tick = 1
  /\ wanted = {}
  /\ tick' = 2
  /\ UNCHANGED <<catalogue, process, wanted, history, bounds>>

\* Three passes of the ladder and the one on de-dotted names.
LastPass == 5

\* resolve_pending: the four passes, over every row.
TickPass ==
  /\ tick > 1
  /\ Resolve(Joined(tick - 1, rows))
  /\ IF tick < LastPass
     THEN /\ tick' = tick + 1
          /\ UNCHANGED covering
     ELSE /\ tick' = 0
          /\ covering' = {}
  /\ UNCHANGED <<held, alias, versioned, process, wanted, lost, raced, bounds>>

\* The scheduler dies in the middle of a pass.
TickStop ==
  /\ tick # 0
  /\ faults < MaxFaults
  /\ faults' = faults + 1
  /\ tick' = 0
  /\ wanted' = {}
  /\ lost' = lost \cup covering
  /\ covering' = {}
  /\ UNCHANGED <<catalogue, process, raced, stores>>

Tick == TickRead \/ TickWrite \/ TickRefreshed \/ TickPass

Next ==
  \/ \E p \in Proc :
       \/ \E d \in Id : Rendition(p, d) \/ Mint(p, d) \/ Absorb(p, d)
       \/ Dedup(p) \/ Store(p)
       \/ MineRead(p) \/ MineWrite(p) \/ Retire(p)
       \/ Probe(p) \/ From(p) \/ For(p)
       \/ SweepStart(p) \/ SweepWindow(p) \/ SweepRange(p)
       \/ Stop(p)
  \/ Tick
  \/ TickStop

Spec == Init /\ [][Next]_vars

-----------------------------------------------------------------------------
(* Properties.                                                             *)

Stages == {"idle", "minted", "store", "mine", "retire", "from", "for", "sweep", "range"}

\* The state keeps its shape, and a process holds a document only while a
\* step of its own is about that document.
TypeOK ==
  /\ held \subseteq Id
  /\ alias \in [Key -> KeyOrNone]
  /\ versioned \subseteq Key
  /\ rows \subseteq Row
  /\ pc \in [Proc -> Stages]
  /\ unmined \in [Proc -> SUBSET Id]
  /\ ids \in [Proc -> SUBSET Id]
  /\ cur \in [Proc -> IdOrNone]
  /\ stage \in [Proc -> 1 .. 4]
  /\ scope \in [Proc -> SUBSET Id]
  /\ window \in [Proc -> SUBSET Id]
  /\ tick \in 0 .. 5
  /\ wanted \subseteq Id \X Id
  /\ lost \subseteq Id /\ covering \subseteq Id /\ raced \subseteq Id
  /\ stores \in 0 .. MaxStores
  /\ faults \in 0 .. MaxFaults
  /\ \A p \in Proc : cur[p] # None <=> pc[p] \in {"minted", "mine", "retire", "from", "for"}

Targets(r) == UNION {Ladder(n, r) : n \in 1 .. 3}

\* Documents somebody will yet probe for: a process, or the whole-graph pass.
Owed == (UNION {ids[p] \cup InTransit(p) : p \in Proc}) \cup lost \cup covering

\* No edge is stranded between two harvests: while an edge of a held document
\* is pending and documents it names are held, it or one of them is still to be
\* probed for (run_for_documents: "Exactly two edge populations can have become
\* resolvable").
NoneStranded ==
  \A r \in rows : r.dst = None /\ r.src \in held /\ Targets(r) # {} =>
    ({r.src} \cup Targets(r)) \cap Owed # {}

\* "a *resolved* edge points at a real document" (find_document_id), and comes
\* from one: what dangles was absorbed while a process that had stored it
\* still meant to mine it or to probe for it.
DanglesOnlyAfterRace ==
  \A r \in rows : {r.src, r.dst} \ {None} \subseteq held \cup raced

\* An edge becomes live by what its text states: where extraction proposed a
\* candidate, a name in the text does not send the edge elsewhere ("A
\* candidate the corpus does not hold stays PENDING", _RESOLVE_PASSES).
CandidateHonoured ==
  [][\A r \in rows' : r.dst # None /\ r.cand # None /\ [r EXCEPT !.dst = None] \in rows =>
       r.dst \in (Named(r.cand) \cup Aliased(r.cand))']_vars
=============================================================================
