-------------------------- MODULE ResolutionProofs --------------------------
(***************************************************************************)
(* Proofs about Resolution, for any documents, keys, processes and faults.  *)
(*                                                                         *)
(* That edges lead from and to documents is not inductive: the passes of a  *)
(* process write the id it has in hand, the scheduler the ids it read.  The *)
(* invariant says that the first are held or were absorbed under its hands, *)
(* and that the second are expressions nobody absorbs.                      *)
(*                                                                         *)
(* That no edge is stranded needs more: which join of which pass is still   *)
(* ahead of whom.  That invariant comes last, and rests on the first.       *)
(***************************************************************************)
EXTENDS Resolution, TLAPS

\* What a process has in hand it has stored, or absorbed a surrogate into; only
\* the document whose aliases it has minted may be in nobody's hands yet.
InHand(p) ==
  /\ unmined[p] \subseteq ids[p]
  /\ ids[p] \subseteq held \cup raced
  /\ pc[p] \in {"mine", "from", "for"} => cur[p] \in ids[p]
  /\ pc[p] \in {"idle", "from", "for", "sweep", "range"} => unmined[p] = {}
  /\ pc[p] = "retire" => Twin[cur[p]] \in held

\* What the refresh will point edges at is held and stays so.
Lasting == \A w \in wanted : w[2] \in held /\ Twin[w[2]] = None

Graph == \A r \in rows : {r.src, r.dst} \ {None} \subseteq held \cup raced

IInv == TypeOK /\ (\A p \in Proc : InHand(p)) /\ Lasting /\ Graph

LEMMA Constants ==
  /\ Id \subseteq Key /\ None \notin Key /\ None \notin Id
  /\ MaxStores \in Nat /\ MaxFaults \in Nat
  /\ \A d \in Id : /\ Ecli[d] \in KeyOrNone /\ Declares[d] \subseteq Key
                   /\ Cites[d] \subseteq Reference
                   /\ Base[d] \in IdOrNone
                   /\ Twin[d] \in IdOrNone
                   /\ Twin[d] # None => /\ Twin[d] \in Id /\ Twin[Twin[d]] = None
                                        /\ Base[d] = None
BY ResolutionAssumption, TwinAssumption DEF KeyOrNone, IdOrNone

LEMMA InitInv == Init => IInv
BY Constants DEF Init, IInv, TypeOK, InHand, Lasting, Graph, Stages, KeyOrNone, IdOrNone

-----------------------------------------------------------------------------
(* Resolving.                                                              *)

\* A pass changes nothing but dst, and that to a document it joined.
LEMMA Resolves ==
  ASSUME rows \subseteq Row, NEW D, D \subseteq Id,
         NEW joined, joined \subseteq rows \X D, Resolve(joined)
  PROVE  /\ rows' \subseteq Row
         /\ \A r \in rows' : \E q \in rows : r.src = q.src /\ (r.dst = q.dst \/ r.dst \in D)
<1> DEFINE hit == {j[1] : j \in joined}
<1>1. PICK to \in [hit -> Id] :
        /\ \A r \in hit : <<r, to[r]>> \in joined
        /\ rows' = (rows \ hit) \cup {[r EXCEPT !.dst = to[r]] : r \in hit}
  BY DEF Resolve
<1>2. \A r \in hit : r \in rows /\ r \in Row /\ to[r] \in D /\ to[r] \in Id
  BY <1>1
<1>3. \A r \in hit : /\ [r EXCEPT !.dst = to[r]] \in Row
                     /\ [r EXCEPT !.dst = to[r]].src = r.src
                     /\ [r EXCEPT !.dst = to[r]].dst = to[r]
  BY <1>2 DEF Row, IdOrNone
<1> HIDE DEF hit
<1>4. rows' \subseteq Row
  BY <1>1, <1>3
<1>5. ASSUME NEW r \in rows'
      PROVE  \E q \in rows : r.src = q.src /\ (r.dst = q.dst \/ r.dst \in D)
  <2>1. CASE r \in rows
    BY <2>1
  <2>2. CASE \E q \in hit : r = [q EXCEPT !.dst = to[q]]
    BY <1>2, <1>3, <2>2
  <2> QED
    BY <1>1, <2>1, <2>2
<1> QED
  BY <1>4, <1>5

LEMMA Passes ==
  ASSUME rows \subseteq Row, Graph, held' = held, raced' = raced,
         NEW D, D \subseteq Id, D \subseteq held \cup raced,
         NEW joined, joined \subseteq rows \X D, Resolve(joined)
  PROVE  rows' \subseteq Row /\ Graph'
<1>1. /\ rows' \subseteq Row
      /\ \A r \in rows' : \E q \in rows : r.src = q.src /\ (r.dst = q.dst \/ r.dst \in D)
  BY Resolves
<1>2. ASSUME NEW r \in rows' PROVE {r.src, r.dst} \ {None} \subseteq held \cup raced
  <2>1. PICK q \in rows : r.src = q.src /\ (r.dst = q.dst \/ r.dst \in D)
    BY <1>1
  <2> QED
    BY <2>1 DEF Graph
<1> QED
  BY <1>1, <1>2 DEF Graph

LEMMA JoinsHeld ==
  ASSUME NEW n, NEW some, some \subseteq rows
  PROVE  Joined(n, some) \subseteq rows \X held
<1>1. \A r \in rows : Ladder(n, r) \subseteq held
  BY DEF Ladder, Named, Aliased
<1> QED
  BY <1>1 DEF Joined

\* A ladder pass over some rows.
LEMMA LadderPass ==
  ASSUME TypeOK, Graph, held' = held, raced' = raced,
         NEW n, NEW some, some \subseteq rows, Resolve(Joined(n, some))
  PROVE  rows' \subseteq Row /\ Graph'
<1>1. Joined(n, some) \subseteq rows \X held
  BY JoinsHeld
<1> QED
  BY <1>1, Passes DEF TypeOK

-----------------------------------------------------------------------------
(* Storing and mining.                                                     *)

LEMMA AliasTypes ==
  ASSUME alias \in [Key -> KeyOrNone], versioned \subseteq Key,
         NEW K, NEW dst \in Key, NEW overwrite, PutAliases(K, dst, overwrite)
  PROVE  alias' \in [Key -> KeyOrNone] /\ versioned' \subseteq Key
BY DEF PutAliases, KeyOrNone

LEMMA RenditionInv ==
  ASSUME IInv, NEW p \in Proc, NEW d \in Id, Rendition(p, d)
  PROVE  IInv'
<1> USE Constants
<1>1. PICK k \in Declares[d] : \E h \in Found(k) \ {d} :
        PutAliases({d}, h, FALSE) /\ lost' = lost \cup {h}
  BY DEF Rendition
<1>2. PICK h \in Found(k) : PutAliases({d}, h, FALSE) /\ lost' = lost \cup {h}
  BY <1>1
<1>3. h \in held /\ h \in Id
  BY DEF Found, Named, Aliased, IInv, TypeOK
<1>4. alias' \in [Key -> KeyOrNone] /\ versioned' \subseteq Key
  BY <1>2, <1>3, AliasTypes DEF IInv, TypeOK
<1>5. TypeOK'
  BY <1>2, <1>3, <1>4 DEF Rendition, IInv, TypeOK, process, whole
<1>6. (\A q \in Proc : InHand(q)') /\ Lasting' /\ Graph'
  BY DEF Rendition, IInv, InHand, Lasting, Graph, process, whole
<1> QED
  BY <1>5, <1>6 DEF IInv

LEMMA MintInv ==
  ASSUME IInv, NEW p \in Proc, NEW d \in Id, Mint(p, d)
  PROVE  IInv'
<1> USE Constants
<1>1. Leads(d) \in Key
  BY DEF Leads, KeyOrNone
<1>2. alias' \in [Key -> KeyOrNone] /\ versioned' \subseteq Key
  BY <1>1, AliasTypes DEF Mint, IInv, TypeOK
<1>3. TypeOK'
  BY <1>2 DEF Mint, IInv, TypeOK, whole, history, Stages, IdOrNone
<1>4. \A q \in Proc : InHand(q)'
  BY DEF Mint, IInv, TypeOK, InHand, whole, history
<1>5. Lasting' /\ Graph'
  BY DEF Mint, IInv, Lasting, Graph, whole, history
<1> QED
  BY <1>3, <1>4, <1>5 DEF IInv

\* What a process has in transit is in the catalogue.
LEMMA TransitHeld ==
  ASSUME IInv, NEW p \in Proc
  PROVE  InTransit(p) \subseteq held /\ held \subseteq Id
BY DEF IInv, TypeOK, InHand, InTransit, Named

LEMMA DedupInv ==
  ASSUME IInv, NEW p \in Proc, Dedup(p)
  PROVE  IInv'
<1> USE Constants
<1>1. lost' \subseteq Id
  BY TransitHeld DEF Dedup, IInv, TypeOK
<1>2. Between(p) \in {"idle", "store"}
  BY DEF Between
<1>3. TypeOK'
  BY <1>1, <1>2 DEF Dedup, IInv, TypeOK, catalogue, whole, bounds, Stages, IdOrNone
<1>4. pc[p] = "minted" /\ (Between(p) = "idle" => ids[p] = {})
  BY DEF Dedup, Between
<1>5. \A q \in Proc : InHand(q)'
  BY <1>2, <1>4 DEF Dedup, IInv, TypeOK, InHand, catalogue, whole
<1>6. Lasting' /\ Graph'
  BY DEF Dedup, IInv, Lasting, Graph, catalogue, whole
<1> QED
  BY <1>3, <1>5, <1>6 DEF IInv

LEMMA StoreInv ==
  ASSUME IInv, NEW p \in Proc, Store(p)
  PROVE  IInv'
<1> USE Constants
<1>1. cur[p] \in Id /\ pc[p] = "minted"
  BY DEF Store, IInv, TypeOK, IdOrNone
<1>2. TypeOK'
  BY <1>1 DEF Store, IInv, TypeOK, whole, history, bounds, Stages, IdOrNone
<1>3. \A q \in Proc : InHand(q)'
  BY <1>1 DEF Store, IInv, TypeOK, InHand, whole, history
<1>4. Lasting' /\ Graph'
  BY DEF Store, IInv, Lasting, Graph, whole, history
<1> QED
  BY <1>2, <1>3, <1>4 DEF IInv

LEMMA MineReadInv ==
  ASSUME IInv, NEW p \in Proc, MineRead(p)
  PROVE  IInv'
<1> USE Constants
<1>1. PICK d \in unmined[p] :
        /\ unmined' = [unmined EXCEPT ![p] = @ \ {d}]
        /\ IF d \in held
           THEN /\ pc' = [pc EXCEPT ![p] = "mine"]
                /\ cur' = [cur EXCEPT ![p] = d]
           ELSE UNCHANGED <<pc, cur>>
  BY DEF MineRead
<1>2. d \in Id /\ d \in ids[p]
  BY DEF IInv, TypeOK, InHand
<1>3. TypeOK'
  BY <1>1, <1>2
     DEF MineRead, IInv, TypeOK, catalogue, whole, history, bounds, Stages, IdOrNone
<1>4. \A q \in Proc : InHand(q)'
  BY <1>1, <1>2 DEF MineRead, IInv, TypeOK, InHand, catalogue, whole, history
<1>5. Lasting' /\ Graph'
  BY DEF MineRead, IInv, Lasting, Graph, catalogue, whole, history
<1> QED
  BY <1>3, <1>4, <1>5 DEF IInv

LEMMA MineWriteInv ==
  ASSUME IInv, NEW p \in Proc, MineWrite(p)
  PROVE  IInv'
<1> USE Constants
<1>1. cur[p] \in ids[p] /\ cur[p] \in Id
  BY DEF MineWrite, IInv, TypeOK, InHand
<1>2. Fresh(cur[p]) \subseteq Row /\ \A r \in Fresh(cur[p]) : r.src = cur[p] /\ r.dst = None
  BY <1>1 DEF Fresh, Row, Reference, IdOrNone
<1>3. rows' \subseteq Row
  BY <1>2 DEF MineWrite, IInv, TypeOK
<1>4. TypeOK'
  BY <1>3 DEF MineWrite, IInv, TypeOK, whole, history, bounds, Stages, IdOrNone
<1>5. \A q \in Proc : InHand(q)'
  BY DEF MineWrite, IInv, TypeOK, InHand, whole, history
<1>6. Graph'
  BY <1>1, <1>2 DEF MineWrite, IInv, Graph, InHand, history
<1>7. Lasting'
  BY DEF MineWrite, IInv, Lasting, whole
<1> QED
  BY <1>4, <1>5, <1>6, <1>7 DEF IInv

-----------------------------------------------------------------------------
(* Absorbing.                                                              *)

\* What is absorbed is in nobody's hands, or raced; a twin is never absorbed.
LEMMA AbsorbInv ==
  ASSUME IInv, NEW p \in Proc, NEW old \in Id, Absorb(p, old)
  PROVE  IInv'
<1> DEFINE new == Twin[old]
<1>1. /\ new \in Id /\ Twin[new] = None /\ Base[old] = None /\ new # None /\ old # new
      /\ Twin[old] # None
  BY Constants, TwinAssumption DEF Absorb
<1>2. \A x \in KeyOrNone : Rekeyed(x, old, new) \in KeyOrNone
  BY <1>1, Constants DEF Rekeyed, KeyOrNone
<1>3. \A x \in IdOrNone : Rekeyed(x, old, new) \in IdOrNone
  BY <1>1 DEF Rekeyed, IdOrNone
<1>4. \A x \in Id : Rekeyed(x, old, new) \in Id
  BY <1>1 DEF Rekeyed
<1>5. rows' = {[r EXCEPT !.src = Rekeyed(@, old, new), !.cand = Rekeyed(@, old, new),
                         !.dst = Rekeyed(@, old, new)] : r \in rows}
  BY DEF Absorb
<1>6. held' = (held \ {old}) \cup {new} /\ raced \subseteq raced'
  BY DEF Absorb
<1>7. \A q \in Proc : old \in ids[q] => old \in raced'
  BY DEF Absorb
<1>8. held \subseteq Id /\ raced \subseteq Id /\ rows \subseteq Row
  BY DEF IInv, TypeOK
<1> HIDE DEF new
<1>9. \A r \in rows :
        LET s == [r EXCEPT !.src = Rekeyed(@, old, new), !.cand = Rekeyed(@, old, new),
                           !.dst = Rekeyed(@, old, new)]
        IN s \in Row /\ s.src = Rekeyed(r.src, old, new) /\ s.dst = Rekeyed(r.dst, old, new)
  BY <1>2, <1>3, <1>4, <1>8 DEF Row
<1>10. rows' \subseteq Row
  BY <1>5, <1>9
<1>11. \A x \in (held \cup raced) \cup {None} :
         Rekeyed(x, old, new) \in held' \cup raced' \cup {None}
  BY <1>6, <1>8 DEF Rekeyed
<1>12. Graph'
  <2> SUFFICES ASSUME NEW s \in rows' PROVE {s.src, s.dst} \ {None} \subseteq held' \cup raced'
    BY DEF Graph
  <2>1. PICK r \in rows : s.src = Rekeyed(r.src, old, new) /\ s.dst = Rekeyed(r.dst, old, new)
    BY <1>5, <1>9
  <2>2. {r.src, r.dst} \subseteq (held \cup raced) \cup {None}
    BY DEF IInv, Graph
  <2> QED
    BY <2>1, <2>2, <1>11
<1>13. alias' \in [Key -> KeyOrNone]
  BY <1>2 DEF Absorb, IInv, TypeOK, new
<1>14. /\ scope' \in [Proc -> SUBSET Id]
       /\ window' \in [Proc -> SUBSET Id]
  <2>1. \A S \in SUBSET Id : {Rekeyed(x, old, new) : x \in S} \in SUBSET Id
    BY <1>4
  <2>2. /\ scope' = [q \in Proc |-> {Rekeyed(x, old, new) : x \in scope[q]}]
        /\ window' = [q \in Proc |-> {Rekeyed(x, old, new) : x \in window[q]}]
    BY DEF Absorb, new
  <2>3. \A q \in Proc : scope[q] \in SUBSET Id /\ window[q] \in SUBSET Id
    BY DEF IInv, TypeOK
  <2>4. \A q \in Proc : /\ {Rekeyed(x, old, new) : x \in scope[q]} \in SUBSET Id
                       /\ {Rekeyed(x, old, new) : x \in window[q]} \in SUBSET Id
    BY <2>1, <2>3, Zenon
  <2> QED
    BY <2>2, <2>4
<1>15. raced' \subseteq Id
  BY <1>8 DEF Absorb
<1>16. TypeOK'
  <2>1. /\ pc' \in [Proc -> Stages] /\ cur' \in [Proc -> IdOrNone]
        /\ \A q \in Proc : cur'[q] # None <=> pc'[q] \in {"minted", "mine", "retire", "from", "for"}
    BY Constants DEF Absorb, IInv, TypeOK, Stages, IdOrNone
  <2>2. held' \subseteq Id
    BY <1>1, <1>6, <1>8
  <2>3. /\ versioned' \subseteq Key /\ unmined' \in [Proc -> SUBSET Id]
        /\ ids' \in [Proc -> SUBSET Id] /\ stage' \in [Proc -> 1 .. 4]
        /\ tick' \in 0 .. 5 /\ wanted' \subseteq Id \X Id
        /\ lost' \subseteq Id /\ covering' \subseteq Id
    BY DEF Absorb, IInv, TypeOK, whole
  <2>4. MaxStores \in Nat /\ MaxFaults \in Nat
    BY Constants
  <2>5. stores < MaxStores /\ stores' = stores + 1 /\ faults' = faults
    BY DEF Absorb
  <2>6. stores \in 0 .. MaxStores /\ faults \in 0 .. MaxFaults
    BY DEF IInv, TypeOK
  <2>7. stores' \in 0 .. MaxStores /\ faults' \in 0 .. MaxFaults
    BY <2>4, <2>5, <2>6
  <2> QED
    BY <1>10, <1>13, <1>14, <1>15, <2>1, <2>2, <2>3, <2>7 DEF TypeOK
<1>17. \A q \in Proc : InHand(q)'
  <2> SUFFICES ASSUME NEW q \in Proc PROVE InHand(q)'
    OBVIOUS
  <2>1. unmined' = unmined /\ ids' = ids
    BY DEF Absorb
  <2>2. ids[q] \subseteq held' \cup raced'
    BY <1>6, <1>7 DEF IInv, InHand
  <2>3. CASE q = p
    BY <1>6, <2>1, <2>2, <2>3 DEF Absorb, IInv, TypeOK, InHand, new
  <2>4. CASE q # p
    <3>1. pc'[q] = pc[q] /\ cur'[q] = cur[q]
      BY <2>4 DEF Absorb, IInv, TypeOK
    <3>2. pc[q] = "retire" => Twin[cur[q]] # old
      BY <1>1, Constants DEF IInv, TypeOK, IdOrNone
    <3> QED
      BY <1>6, <2>1, <2>2, <3>1, <3>2 DEF IInv, InHand
  <2> QED
    BY <2>3, <2>4
<1>18. Lasting'
  BY <1>1, <1>6 DEF Absorb, whole, IInv, Lasting
<1> QED
  BY <1>12, <1>16, <1>17, <1>18 DEF IInv

LEMMA RetireInv ==
  ASSUME IInv, NEW p \in Proc, Retire(p)
  PROVE  IInv'
<1> USE Constants
<1>1. Twin[cur[p]] \in held /\ Twin[cur[p]] \in Id
  BY DEF Retire, IInv, TypeOK, InHand
<1>2. alias' \in [Key -> KeyOrNone] /\ versioned' \subseteq Key
  BY <1>1, AliasTypes DEF Retire, IInv, TypeOK
<1>3. TypeOK'
  BY <1>1, <1>2 DEF Retire, IInv, TypeOK, whole, history, bounds, Stages, IdOrNone
<1>4. \A q \in Proc : InHand(q)'
  BY <1>1 DEF Retire, IInv, TypeOK, InHand, whole, history
<1>5. Lasting' /\ Graph'
  BY DEF Retire, IInv, Lasting, Graph, whole, history
<1> QED
  BY <1>3, <1>4, <1>5 DEF IInv

-----------------------------------------------------------------------------
(* Resolving by document and by ranges.                                    *)

LEMMA ProbeInv ==
  ASSUME IInv, NEW p \in Proc, Probe(p)
  PROVE  IInv'
<1> USE Constants
<1>1. PICK d \in ids[p] :
        \/ /\ pc' = [pc EXCEPT ![p] = "from"]
           /\ cur' = [cur EXCEPT ![p] = d]
           /\ UNCHANGED ids
        \/ /\ d \notin held
           /\ ids' = [ids EXCEPT ![p] = @ \ {d}]
           /\ pc' = [pc EXCEPT ![p] = IF ids[p] = {d} THEN "idle" ELSE "store"]
           /\ UNCHANGED cur
  BY DEF Probe
<1>2. d \in Id /\ pc[p] = "store" /\ unmined[p] = {}
  BY DEF Probe, Mined, IInv, TypeOK
<1>3. TypeOK'
  BY <1>1, <1>2 DEF Probe, IInv, TypeOK, catalogue, whole, history, bounds, Stages, IdOrNone
<1>4. \A q \in Proc : InHand(q)'
  BY <1>1, <1>2 DEF Probe, IInv, TypeOK, InHand, catalogue, history
<1>5. Lasting' /\ Graph'
  BY DEF Probe, IInv, Lasting, Graph, catalogue, whole, history
<1> QED
  BY <1>3, <1>4, <1>5 DEF IInv

LEMMA FromInv ==
  ASSUME IInv, NEW p \in Proc, From(p)
  PROVE  IInv'
<1> USE Constants
<1>1. rows' \subseteq Row /\ Graph'
  BY LadderPass DEF From, IInv, history, RowsOf
<1>2. TypeOK'
  BY <1>1 DEF From, IInv, TypeOK, whole, history, bounds, Stages, IdOrNone
<1>3. (\A q \in Proc : InHand(q)') /\ Lasting'
  BY DEF From, IInv, TypeOK, InHand, Lasting, whole, history
<1> QED
  BY <1>1, <1>2, <1>3 DEF IInv

LEMMA ForInv ==
  ASSUME IInv, NEW p \in Proc, For(p)
  PROVE  IInv'
<1> USE Constants
<1>1. cur[p] \in ids[p] /\ cur[p] \in Id /\ {cur[p]} \subseteq held \cup raced
  BY DEF For, IInv, TypeOK, InHand
<1>2. rows' \subseteq Row /\ Graph'
  BY <1>1, Passes DEF For, IInv, TypeOK, history
<1>3. TypeOK'
  BY <1>2 DEF For, IInv, TypeOK, whole, history, bounds, Stages, IdOrNone
<1>4. (\A q \in Proc : InHand(q)') /\ Lasting'
  BY <1>1 DEF For, IInv, TypeOK, InHand, Lasting, whole, history
<1> QED
  BY <1>2, <1>3, <1>4 DEF IInv

LEMMA SweepInv ==
  ASSUME IInv, NEW p \in Proc, SweepStart(p) \/ SweepWindow(p)
  PROVE  IInv'
<1> USE Constants
<1>1. Sources \subseteq Id
  BY DEF Sources, IInv, TypeOK, Row
<1>2. TypeOK'
  BY <1>1 DEF SweepStart, SweepWindow, Mined, IInv, TypeOK, catalogue, whole, history,
              bounds, Stages, IdOrNone
<1>3. \A q \in Proc : InHand(q)'
  BY DEF SweepStart, SweepWindow, Mined, IInv, TypeOK, InHand, catalogue, history
<1>4. Lasting' /\ Graph'
  BY DEF SweepStart, SweepWindow, IInv, Lasting, Graph, catalogue, whole, history
<1> QED
  BY <1>2, <1>3, <1>4 DEF IInv

LEMMA SweepRangeInv ==
  ASSUME IInv, NEW p \in Proc, SweepRange(p)
  PROVE  IInv'
<1> USE Constants
<1>1. rows' \subseteq Row /\ Graph'
  BY LadderPass DEF SweepRange, IInv, history, RowsOf
<1>2. TypeOK'
  BY <1>1 DEF SweepRange, IInv, TypeOK, whole, history, bounds, Stages, IdOrNone
<1>3. (\A q \in Proc : InHand(q)') /\ Lasting'
  BY DEF SweepRange, IInv, TypeOK, InHand, Lasting, whole, history
<1> QED
  BY <1>1, <1>2, <1>3 DEF IInv

LEMMA StopInv ==
  ASSUME IInv, NEW p \in Proc, Stop(p)
  PROVE  IInv'
<1> USE Constants
<1>2. lost' \subseteq Id
  BY TransitHeld DEF Stop, IInv, TypeOK
<1>3. TypeOK'
  BY <1>2 DEF Stop, IInv, TypeOK, catalogue, whole, bounds, Stages, IdOrNone
<1>4. (\A q \in Proc : InHand(q)') /\ Lasting' /\ Graph'
  BY DEF Stop, IInv, TypeOK, InHand, Lasting, Graph, catalogue, whole
<1> QED
  BY <1>3, <1>4 DEF IInv

-----------------------------------------------------------------------------
(* The whole-graph pass.                                                   *)

LEMMA TickReadInv ==
  ASSUME IInv, TickRead
  PROVE  IInv'
<1> USE Constants
<1>1. held \subseteq Id
  BY DEF IInv, TypeOK
<1>2. \A w \in wanted' : w[1] \in Id /\ w[2] \in held /\ Base[w[2]] = w[1] /\ w \in Id \X held
  BY DEF TickRead, Newest
<1>3. \A w \in wanted' : w[2] \in held /\ Twin[w[2]] = None
  BY <1>1, <1>2
<1>4. wanted' \subseteq Id \X Id
  BY <1>1, <1>2
<1>5. TypeOK'
  BY <1>4 DEF TickRead, IInv, TypeOK, catalogue, process, bounds
<1>6. (\A q \in Proc : InHand(q)') /\ Lasting' /\ Graph'
  BY <1>3 DEF TickRead, IInv, InHand, Lasting, Graph, catalogue, process
<1> QED
  BY <1>5, <1>6 DEF IInv

LEMMA TickWriteInv ==
  ASSUME IInv, TickWrite
  PROVE  IInv'
<1> USE Constants
<1>1. PICK w \in wanted :
        /\ alias' = [alias EXCEPT ![w[1]] = w[2]]
        /\ versioned' = versioned \cup {w[1]}
        /\ rows' = {IF r.cand = w[1] THEN [r EXCEPT !.dst = w[2]] ELSE r : r \in rows}
        /\ wanted' = wanted \ {w}
        /\ covering' = covering \cup {w[2]}
  BY DEF TickWrite
<1>2. w[1] \in Id /\ w[2] \in Id /\ w[2] \in held /\ rows \subseteq Row
  BY DEF IInv, TypeOK, Lasting
<1>3. \A r \in rows : /\ [r EXCEPT !.dst = w[2]] \in Row
                      /\ [r EXCEPT !.dst = w[2]].src = r.src
                      /\ [r EXCEPT !.dst = w[2]].dst = w[2]
  BY <1>2 DEF Row, IdOrNone
<1>4. rows' \subseteq Row
  BY <1>1, <1>2, <1>3
<1>5. Graph'
  <2> SUFFICES ASSUME NEW s \in rows' PROVE {s.src, s.dst} \ {None} \subseteq held \cup raced
    BY DEF Graph, TickWrite
  <2>1. PICK r \in rows : s = IF r.cand = w[1] THEN [r EXCEPT !.dst = w[2]] ELSE r
    BY <1>1
  <2>2. {r.src, r.dst} \ {None} \subseteq held \cup raced
    BY DEF IInv, Graph
  <2> QED
    BY <1>2, <1>3, <2>1, <2>2
<1>6. TypeOK'
  BY <1>1, <1>2, <1>4 DEF TickWrite, IInv, TypeOK, process, bounds, KeyOrNone
<1>7. (\A q \in Proc : InHand(q)') /\ Lasting'
  BY <1>1 DEF TickWrite, IInv, InHand, Lasting, process
<1> QED
  BY <1>5, <1>6, <1>7 DEF IInv

LEMMA TickPassInv ==
  ASSUME IInv, TickPass
  PROVE  IInv'
<1>1. rows' \subseteq Row /\ Graph'
  BY LadderPass DEF TickPass, IInv
<1>2. TypeOK'
  BY <1>1 DEF TickPass, LastPass, IInv, TypeOK, process, bounds
<1>3. (\A q \in Proc : InHand(q)') /\ Lasting'
  BY DEF TickPass, IInv, InHand, Lasting, process
<1> QED
  BY <1>1, <1>2, <1>3 DEF IInv

LEMMA TickRestInv ==
  ASSUME IInv, TickRefreshed \/ TickStop
  PROVE  IInv'
<1>1. TypeOK'
  BY Constants
     DEF TickRefreshed, TickStop, IInv, TypeOK, catalogue, process, history, bounds
<1>2. (\A q \in Proc : InHand(q)') /\ Lasting' /\ Graph'
  BY DEF TickRefreshed, TickStop, IInv, InHand, Lasting, Graph, catalogue, process, history
<1> QED
  BY <1>1, <1>2 DEF IInv

-----------------------------------------------------------------------------
LEMMA NextInv == IInv /\ [Next]_vars => IInv'
<1> SUFFICES ASSUME IInv, [Next]_vars PROVE IInv'
    OBVIOUS
<1>1. CASE UNCHANGED vars
  BY <1>1 DEF vars, catalogue, process, whole, history, bounds, IInv, TypeOK, InHand,
              Lasting, Graph
<1>2. ASSUME NEW p \in Proc, NEW d \in Id, Rendition(p, d) \/ Mint(p, d) \/ Absorb(p, d)
      PROVE  IInv'
  BY <1>2, RenditionInv, MintInv, AbsorbInv
<1>3. ASSUME NEW p \in Proc,
             \/ Dedup(p) \/ Store(p)
             \/ MineRead(p) \/ MineWrite(p) \/ Retire(p)
             \/ Probe(p) \/ From(p) \/ For(p)
             \/ SweepStart(p) \/ SweepWindow(p) \/ SweepRange(p)
             \/ Stop(p)
      PROVE  IInv'
  BY <1>3, DedupInv, StoreInv, MineReadInv, MineWriteInv, RetireInv, ProbeInv, FromInv, ForInv, SweepInv,
     SweepRangeInv, StopInv
<1>4. CASE Tick
  BY <1>4, TickReadInv, TickWriteInv, TickRestInv, TickPassInv DEF Tick
<1>5. CASE TickStop
  BY <1>5, TickRestInv
<1> QED
  BY <1>1, <1>2, <1>3, <1>4, <1>5 DEF Next

LEMMA Invariance == Spec => []IInv
BY InitInv, NextInv, PTL DEF Spec

-----------------------------------------------------------------------------
\* Every variable stays within its type, and a process has a document in hand
\* only while it mines, retires or probes for it.
THEOREM TypeCorrect == Spec => []TypeOK
<1>1. IInv => TypeOK
  BY DEF IInv
<1> QED
  BY <1>1, Invariance, PTL

\* In whatever order documents are stored, absorbed and mined, and whoever
\* resolves, an edge leads from and to documents the catalogue holds, or that
\* were absorbed while a process still had them in hand (rekey_document).
THEOREM EdgesDangleOnlyAfterRace == Spec => []DanglesOnlyAfterRace
<1>1. IInv => DanglesOnlyAfterRace
  BY DEF IInv, Graph, DanglesOnlyAfterRace
<1> QED
  BY <1>1, Invariance, PTL

-----------------------------------------------------------------------------
(* No edge is stranded.  Which joins a pending row still waits for is a fact*)
(* about one row, one document and one pass of the ladder: Due names who has*)
(* yet to make it, and a step either makes it or leaves it to somebody.     *)

\* Where the locals of a process are at rest.
AtRest(p) ==
  /\ pc[p] \in {"from", "for"} => stage[p] <= 3
  /\ pc[p] \notin {"from", "for", "range"} => stage[p] = 1
  /\ pc[p] # "range" => window[p] = {}
  /\ pc[p] \notin {"sweep", "range"} => scope[p] = {}
  /\ pc[p] = "idle" => ids[p] = {}

\* Surrogates absorbed whose better id is not among the ids yet.
Retiring == {Twin[cur[p]] : p \in {q \in Proc : pc[q] = "retire"}}

\* Process p has yet to probe for x, or to begin its sweep.
Waits(p, x) ==
  /\ x \in ids[p]
  /\ \/ pc[p] \in {"store", "minted", "mine", "retire"}
     \/ pc[p] \in {"from", "for"} /\ cur[p] # x

\* Process p is probing, and has yet to join row r with document d by the n-th
\* pass.
Joins(p, r, n, d) ==
  \/ pc[p] = "from" /\ (cur[p] = d \/ (cur[p] = r.src /\ stage[p] <= n))
  \/ pc[p] = "for" /\ cur[p] = d /\ stage[p] <= n

\* Process p is sweeping, and has yet to reach row r by the n-th pass.
Sweeps(p, r, n) ==
  \/ r.src \in scope[p]
  \/ r.src \in window[p] /\ stage[p] <= n

\* Process p has yet to join row r with document d by the n-th pass.
Takes(p, r, n, d) ==
  \/ Waits(p, r.src) \/ Waits(p, d)
  \/ Joins(p, r, n, d)
  \/ {r.src, d} \cap ids[p] # {} /\ Sweeps(p, r, n)

\* The key by which the n-th pass looks for what row r names.
Goes(n, r) ==
  CASE n = 1 -> r.cand
    [] n = 2 -> alias[r.cand]
    [] n = 3 -> alias[r.raw]

\* Process p is about to store what that key leads to.
Mints(p, n, r) == pc[p] = "minted" /\ Goes(n, r) = Leads(cur[p])

\* Somebody has.
Due(r, n, d) ==
  \/ {r.src, d} \cap (lost \cup Retiring) # {}
  \/ {r.src, d} \cap covering # {} /\ tick <= n + 1
  \/ \E p \in Proc : Mints(p, n, r) \/ Takes(p, r, n, d)

\* A pending row of a held document.
Pending(r) == r.dst = None /\ r.src \in held

\* Each pass that would join a pending row with something, somebody has yet to make,
\* or the first pass of the ladder is to settle the row.  (Some pass to come would do
\* for the property, but a minted alias may take away what that pass would have
\* joined.)
Covered ==
  \A r \in rows : Pending(r) =>
    \A n \in 1 .. 3 : Ladder(n, r) # {} =>
      \E m \in {1, n} : \E d \in Ladder(m, r) : Due(r, m, d)

CInv == (\A p \in Proc : AtRest(p)) /\ (tick = 0 => covering = {}) /\ Covered

\* A step of process p.
StepOf(p) ==
  \A q \in Proc \ {p} :
    /\ pc'[q] = pc[q] /\ ids'[q] = ids[q] /\ cur'[q] = cur[q]
    /\ stage'[q] = stage[q] /\ scope'[q] = scope[q] /\ window'[q] = window[q]

LEMMA CInit == Init => CInv
BY DEF Init, CInv, AtRest, Covered

\* What the n-th pass joins goes by its key.
LEMMA LadderNamed ==
  ASSUME NEW n \in 1 .. 3, NEW r
  PROVE  Ladder(n, r) \in {{}, Named(Goes(n, r))}
<1>1. CASE n = 1
  BY <1>1 DEF Ladder, Goes
<1>2. CASE n = 2
  BY <1>2 DEF Ladder, Goes, Aliased
<1>3. CASE n = 3
  BY <1>3 DEF Ladder, Goes, Aliased
<1> QED
  BY <1>1, <1>2, <1>3

LEMMA Owes ==
  ASSUME IInv, CInv
  PROVE  NoneStranded
<1> SUFFICES ASSUME NEW r \in rows, Pending(r), Targets(r) # {}
             PROVE  ({r.src} \cup Targets(r)) \cap Owed # {}
  BY DEF NoneStranded, Pending
<1>0. PICK m \in 1 .. 3 : Ladder(m, r) # {}
  BY DEF Targets
<1>1. PICK n \in {1, m} : \E d \in Ladder(n, r) : Due(r, n, d)
  BY <1>0 DEF CInv, Covered
<1>2. PICK d \in Ladder(n, r) : Due(r, n, d)
  BY <1>1
<1>3. d \in Targets(r)
  BY DEF Targets
<1>4. ASSUME NEW p \in Proc, Joins(p, r, n, d)
      PROVE  {r.src, d} \cap ids[p] # {}
  BY <1>4 DEF Joins, IInv, InHand
<1>5. {r.src, d} \cap Owed # {}
  <2>1. CASE {r.src, d} \cap lost # {}
    BY <2>1 DEF Owed
  <2>2. CASE {r.src, d} \cap covering # {}
    BY <2>2 DEF Owed
  <2>3. CASE \E p \in Proc : {r.src, d} \cap ids[p] # {}
    BY <2>3 DEF Owed
  <2>4. CASE {r.src, d} \cap Retiring # {}
    <3>1. PICK p \in Proc : pc[p] = "retire" /\ Twin[cur[p]] \in {r.src, d}
      BY <2>4 DEF Retiring
    <3>2. Twin[cur[p]] \in InTransit(p)
      BY <3>1 DEF InTransit
    <3> QED
      BY <3>1, <3>2 DEF Owed
  <2>5. ASSUME NEW p \in Proc, Mints(p, n, r)
        PROVE  d \in Owed
    <3>1. d \in Named(Leads(cur[p]))
      BY <2>5, LadderNamed DEF Mints
    <3>2. d \in InTransit(p)
      BY <2>5, <3>1 DEF Mints, InTransit
    <3> QED
      BY <3>2 DEF Owed
  <2> QED
    BY <1>2, <1>4, <2>1, <2>2, <2>3, <2>4, <2>5 DEF Due, Takes, Waits
<1> QED
  BY <1>3, <1>5

\* What a pass joins is pending no longer.
LEMMA Settles ==
  ASSUME rows \subseteq Row, NEW joined, joined \subseteq rows \X Id, Resolve(joined)
  PROVE  \A r \in rows' : r.dst = None => r \in rows /\ \A d : <<r, d>> \notin joined
<1> DEFINE hit == {j[1] : j \in joined}
<1>1. PICK to \in [hit -> Id] :
        /\ \A r \in hit : <<r, to[r]>> \in joined
        /\ rows' = (rows \ hit) \cup {[r EXCEPT !.dst = to[r]] : r \in hit}
  BY DEF Resolve
<1>2. \A r \in hit : r \in Row /\ to[r] \in Id
  BY <1>1
<1>3. \A r \in hit : [r EXCEPT !.dst = to[r]].dst = to[r]
  BY <1>2 DEF Row
<1>4. \A d : \A r : <<r, d>> \in joined => r \in hit
  OBVIOUS
<1> HIDE DEF hit
<1> SUFFICES ASSUME NEW r \in rows', r.dst = None
             PROVE  r \in rows /\ \A d : <<r, d>> \notin joined
  OBVIOUS
<1>5. r \notin {[q EXCEPT !.dst = to[q]] : q \in hit}
  <2> SUFFICES ASSUME NEW q \in hit, r = [q EXCEPT !.dst = to[q]]
               PROVE  FALSE
    OBVIOUS
  <2>1. r.dst = to[q] /\ to[q] \in Id
    BY <1>2, <1>3
  <2> QED
    BY <2>1, Constants
<1>6. r \in rows \ hit
  BY <1>1, <1>5
<1> QED
  BY <1>4, <1>6

\* A pass of the ladder over some rows leaves none of them pending that it joins.
LEMMA PassSettles ==
  ASSUME TypeOK, NEW n, NEW some \in SUBSET rows, Resolve(Joined(n, some))
  PROVE  /\ \A r \in rows' : r.dst = None => r \in rows
         /\ \A r \in rows' : r.dst = None /\ r \in some => Ladder(n, r) = {}
<1>1. Joined(n, some) \subseteq rows \X Id /\ rows \subseteq Row
  BY JoinsHeld DEF TypeOK
<1>2. \A r \in rows' : r.dst = None => r \in rows /\ \A d : <<r, d>> \notin Joined(n, some)
  BY <1>1, Settles
<1>3. \A r \in some : r.dst = None => \A d \in Ladder(n, r) : <<r, d>> \in Joined(n, some)
  BY DEF Joined
<1> QED
  BY <1>2, <1>3

LEMMA LadderHeld ==
  ASSUME NEW n, NEW r
  PROVE  Ladder(n, r) \subseteq held
BY DEF Ladder, Named, Aliased

\* resolve_pending_for finds what the ladder finds.
LEMMA LadderPoints ==
  ASSUME NEW n \in 1 .. 3, NEW r, NEW d \in Ladder(n, r)
  PROVE  PointsAt(n, r, d)
<1>1. \A k : d \in Named(k) => k \in Keys(d)
  BY DEF Named, Keys
<1>2. \A k : d \in Aliased(k) => alias[k] \in Keys(d)
  BY <1>1 DEF Aliased
<1>3. CASE n = 1
  BY <1>1, <1>3 DEF Ladder, PointsAt
<1>4. CASE n = 2
  BY <1>2, <1>4 DEF Ladder, PointsAt
<1>5. CASE n = 3
  BY <1>2, <1>5 DEF Ladder, PointsAt
<1> QED
  BY <1>3, <1>4, <1>5

\* It is enough that each pass is newly due, or joins what it joined and is as due
\* as it was.
LEMMA Recovers ==
  ASSUME Covered, held \subseteq held',
         \A r \in rows' : Pending(r)' => \A n \in 1 .. 3 : Ladder(n, r)' # {} =>
           \/ \E d \in Ladder(n, r)' : Due(r, n, d)'
           \/ /\ r \in rows /\ Pending(r)
              /\ Ladder(n, r)' = Ladder(n, r)
              /\ \A d \in Ladder(n, r) : Due(r, n, d) => Due(r, n, d)'
  PROVE  Covered'
<1> SUFFICES ASSUME NEW r \in rows', Pending(r)', NEW n \in 1 .. 3, Ladder(n, r)' # {}
             PROVE  \E m \in {1, n} : \E d \in Ladder(m, r)' : Due(r, m, d)'
  BY DEF Covered
<1>1. CASE \E d \in Ladder(n, r)' : Due(r, n, d)'
  BY <1>1
<1>2. CASE /\ r \in rows /\ Pending(r)
           /\ Ladder(n, r)' = Ladder(n, r)
           /\ \A d \in Ladder(n, r) : Due(r, n, d) => Due(r, n, d)'
  <2>1. PICK m \in {1, n} : \E d \in Ladder(m, r) : Due(r, m, d)
    BY <1>2 DEF Covered
  <2>2. CASE m = n
    BY <1>2, <2>1, <2>2
  <2>3. CASE m = 1
    <3>1. Ladder(1, r) \subseteq Ladder(1, r)'
      BY DEF Ladder, Named
    <3>2. Ladder(1, r)' # {}
      BY <2>1, <2>3, <3>1
    <3>3. \/ \E d \in Ladder(1, r)' : Due(r, 1, d)'
          \/ /\ Ladder(1, r)' = Ladder(1, r)
             /\ \A d \in Ladder(1, r) : Due(r, 1, d) => Due(r, 1, d)'
      BY <3>2
    <3> QED
      BY <2>1, <2>3, <3>3
  <2> QED
    BY <2>1, <2>2, <2>3
<1> QED
  BY <1>1, <1>2

\* The ladder reads held and alias only.
LEMMA SameLadder ==
  ASSUME held' = held, alias' = alias, NEW r, NEW n
  PROVE  /\ Ladder(n, r)' = Ladder(n, r)
         /\ Goes(n, r)' = Goes(n, r)
         /\ Pending(r)' <=> Pending(r)
BY DEF Ladder, Named, Aliased, Goes, Pending

\* A step that stores nothing and gives no name to anything keeps the rows
\* covered if it leaves each due join due, or makes it.
LEMMA StaysCovered ==
  ASSUME Covered, held' = held, alias' = alias,
         \A r \in rows' : r.dst = None => r \in rows,
         \A r \in rows' : r.dst = None /\ r.src \in held =>
           \A n \in 1 .. 3 : \A d \in Ladder(n, r) : Due(r, n, d) => Due(r, n, d)'
  PROVE  Covered'
<1>1. ASSUME NEW r \in rows', Pending(r)', NEW n \in 1 .. 3
      PROVE  /\ r \in rows /\ Pending(r)
             /\ Ladder(n, r)' = Ladder(n, r)
             /\ \A d \in Ladder(n, r) : Due(r, n, d) => Due(r, n, d)'
  BY <1>1, SameLadder DEF Pending
<1> QED
  BY <1>1, Recovers

\* What the others have yet to do does not depend on a step of process p.
LEMMA OthersDue ==
  ASSUME NEW p \in Proc, StepOf(p), NEW q \in Proc \ {p}
  PROVE  /\ AtRest(q) => AtRest(q)'
         /\ \A r, n, d : Takes(q, r, n, d) => Takes(q, r, n, d)'
         /\ \A r, n : Mints(q, n, r) /\ Goes(n, r)' = Goes(n, r) => Mints(q, n, r)'
BY DEF StepOf, AtRest, Takes, Waits, Joins, Sweeps, Mints

LEMMA StaysDue ==
  ASSUME NEW p \in Proc, StepOf(p), lost \subseteq lost', tick' = tick, covering' = covering,
         pc[p] = "retire" => Twin[cur[p]] \in lost',
         NEW r, NEW n, NEW d, Goes(n, r)' = Goes(n, r), Due(r, n, d),
         Mints(p, n, r) \/ Takes(p, r, n, d) => Due(r, n, d)'
  PROVE  Due(r, n, d)'
<1>1. lost \cup Retiring \subseteq lost' \cup Retiring'
  BY DEF Retiring, StepOf
<1>2. CASE {r.src, d} \cap (lost \cup Retiring) # {}
  BY <1>1, <1>2 DEF Due
<1>3. CASE {r.src, d} \cap covering # {} /\ tick <= n + 1
  BY <1>3 DEF Due
<1>4. ASSUME NEW q \in Proc \ {p}, Mints(q, n, r) \/ Takes(q, r, n, d)
      PROVE  Due(r, n, d)'
  <2>1. Mints(q, n, r)' \/ Takes(q, r, n, d)'
    BY <1>4, OthersDue
  <2> QED
    BY <2>1 DEF Due
<1> QED
  BY <1>2, <1>3, <1>4 DEF Due

LEMMA StepDue ==
  ASSUME NEW p \in Proc, StepOf(p), UNCHANGED <<held, alias, lost, tick, covering>>,
         pc[p] \notin {"minted", "retire"},
         NEW r, NEW n, NEW d, Due(r, n, d), Takes(p, r, n, d) => Takes(p, r, n, d)'
  PROVE  Due(r, n, d)'
<1>1. Goes(n, r)' = Goes(n, r) /\ ~Mints(p, n, r)
  BY SameLadder DEF Mints
<1>2. Takes(p, r, n, d) => Due(r, n, d)'
  BY DEF Due
<1> QED
  BY <1>1, <1>2, StaysDue

-----------------------------------------------------------------------------
(* The steps that store nothing.                                           *)

LEMMA MineReadDue ==
  ASSUME IInv, CInv, NEW p \in Proc, MineRead(p)
  PROVE  CInv'
<1>1. /\ pc[p] = "store" /\ pc'[p] \in {"store", "mine"}
      /\ UNCHANGED <<held, alias, rows, ids, stage, scope, window, tick, lost, covering>>
  BY DEF MineRead, IInv, TypeOK, catalogue, whole, history
<1>2. StepOf(p)
  BY DEF MineRead, IInv, TypeOK, StepOf
<1>3. \A q \in Proc : AtRest(q)'
  BY <1>1, <1>2, OthersDue DEF CInv, AtRest
<1>4. ASSUME NEW r, NEW n, NEW d, Due(r, n, d)
      PROVE  Due(r, n, d)'
  <2>1. Takes(p, r, n, d) => Takes(p, r, n, d)'
    BY <1>1 DEF CInv, AtRest, Takes, Waits, Joins, Sweeps
  <2> QED
    BY <1>1, <1>2, <1>4, <2>1, StepDue
<1>5. Covered'
  BY <1>1, <1>4, StaysCovered DEF CInv
<1> QED
  BY <1>1, <1>3, <1>5 DEF CInv

LEMMA ProbeDue ==
  ASSUME IInv, CInv, NEW p \in Proc, Probe(p)
  PROVE  CInv'
<1>1. /\ pc[p] = "store" /\ stage[p] = 1
      /\ UNCHANGED <<held, alias, rows, stage, scope, window, tick, lost, covering>>
  BY DEF Probe, Mined, catalogue, whole, history, CInv, AtRest
<1>2. PICK x \in ids[p] :
        \/ pc'[p] = "from" /\ cur'[p] = x /\ ids' = ids
        \/ /\ x \notin held
           /\ ids'[p] = ids[p] \ {x}
           /\ pc'[p] = IF ids[p] = {x} THEN "idle" ELSE "store"
  BY DEF Probe, IInv, TypeOK
<1>3. StepOf(p)
  BY DEF Probe, IInv, TypeOK, StepOf
<1>4. \A q \in Proc : AtRest(q)'
  BY <1>1, <1>2, <1>3, OthersDue DEF CInv, AtRest
<1>5. ASSUME NEW r, NEW n \in 1 .. 3, NEW d \in held, r.src \in held, Due(r, n, d)
      PROVE  Due(r, n, d)'
  <2>1. Takes(p, r, n, d) => Takes(p, r, n, d)'
    BY <1>1, <1>2, <1>5 DEF CInv, AtRest, Takes, Waits, Joins, Sweeps
  <2> QED
    BY <1>1, <1>3, <1>5, <2>1, StepDue
<1>6. \A r \in rows : \A n : Ladder(n, r) \subseteq held
  BY LadderHeld
<1>7. Covered'
  BY <1>1, <1>5, <1>6, StaysCovered DEF CInv
<1> QED
  BY <1>1, <1>4, <1>7 DEF CInv

LEMMA FromDue ==
  ASSUME IInv, CInv, NEW p \in Proc, From(p)
  PROVE  CInv'
<1>1. /\ pc[p] = "from" /\ stage[p] \in 1 .. 3
      /\ UNCHANGED <<held, alias, ids, cur, scope, window, tick, lost, covering>>
      /\ IF stage[p] < 3 THEN pc'[p] = "from" /\ stage'[p] = stage[p] + 1
                         ELSE pc'[p] = "for" /\ stage'[p] = 1
  BY DEF From, whole, history, CInv, AtRest, IInv, TypeOK
<1>2. StepOf(p)
  BY DEF From, IInv, TypeOK, StepOf
<1>3. \A q \in Proc : AtRest(q)'
  BY <1>1, <1>2, OthersDue DEF CInv, AtRest
<1>4. /\ \A r \in rows' : r.dst = None => r \in rows
      /\ \A r \in rows' : r.dst = None /\ r.src = cur[p] => Ladder(stage[p], r) = {}
  BY PassSettles DEF From, RowsOf, IInv, TypeOK
<1>5. ASSUME NEW r \in rows', r.dst = None, NEW n \in 1 .. 3, NEW d \in Ladder(n, r), Due(r, n, d)
      PROVE  Due(r, n, d)'
  <2>1. cur[p] = r.src => n # stage[p]
    BY <1>4, <1>5
  <2>2. Takes(p, r, n, d) => Takes(p, r, n, d)'
    BY <1>1, <2>1 DEF CInv, AtRest, Takes, Waits, Joins, Sweeps
  <2> QED
    BY <1>1, <1>2, <1>5, <2>2, StepDue
<1>6. Covered'
  BY <1>1, <1>4, <1>5, StaysCovered DEF CInv
<1> QED
  BY <1>1, <1>3, <1>6 DEF CInv

LEMMA ForDue ==
  ASSUME IInv, CInv, NEW p \in Proc, For(p)
  PROVE  CInv'
<1>1. /\ pc[p] = "for" /\ stage[p] \in 1 .. 3 /\ cur[p] \in Id
      /\ UNCHANGED <<held, alias, scope, window, tick, lost, covering>>
      /\ IF stage[p] < 3
         THEN UNCHANGED <<pc, cur, ids>> /\ stage'[p] = stage[p] + 1
         ELSE /\ stage'[p] = 1
              /\ ids'[p] = ids[p] \ {cur[p]}
              /\ pc'[p] = IF ids[p] = {cur[p]} THEN "idle" ELSE "store"
  BY DEF For, whole, history, CInv, AtRest, IInv, TypeOK, IdOrNone
<1>2. StepOf(p)
  BY DEF For, IInv, TypeOK, StepOf
<1>3. \A q \in Proc : AtRest(q)'
  BY <1>1, <1>2, OthersDue DEF CInv, AtRest, IInv, InHand
<1>4. /\ \A r \in rows' : r.dst = None => r \in rows
      /\ \A r \in rows' : r.dst = None => ~PointsAt(stage[p], r, cur[p])
  <2> DEFINE joined == {r \in rows : r.dst = None /\ PointsAt(stage[p], r, cur[p])} \X {cur[p]}
  <2>1. Resolve(joined) /\ joined \subseteq rows \X Id /\ rows \subseteq Row
    BY <1>1 DEF For, IInv, TypeOK
  <2>2. \A r \in rows : r.dst = None /\ PointsAt(stage[p], r, cur[p]) => <<r, cur[p]>> \in joined
    OBVIOUS
  <2> HIDE DEF joined
  <2>3. \A r \in rows' : r.dst = None => r \in rows /\ \A d : <<r, d>> \notin joined
    BY <2>1, Settles
  <2> QED
    BY <2>2, <2>3
<1>5. ASSUME NEW r \in rows', r.dst = None, NEW n \in 1 .. 3, NEW d \in Ladder(n, r), Due(r, n, d)
      PROVE  Due(r, n, d)'
  <2>1. cur[p] = d => n # stage[p]
    BY <1>4, <1>5, LadderPoints
  <2>2. Takes(p, r, n, d) => Takes(p, r, n, d)'
    BY <1>1, <2>1 DEF CInv, AtRest, Takes, Waits, Joins, Sweeps
  <2> QED
    BY <1>1, <1>2, <1>5, <2>2, StepDue
<1>6. Covered'
  BY <1>1, <1>4, <1>5, StaysCovered DEF CInv
<1> QED
  BY <1>1, <1>3, <1>6 DEF CInv

LEMMA SweepStartDue ==
  ASSUME IInv, CInv, NEW p \in Proc, SweepStart(p)
  PROVE  CInv'
<1>1. /\ pc[p] = "store" /\ pc'[p] = "sweep" /\ scope'[p] = Sources
      /\ UNCHANGED <<held, alias, rows, ids, stage, window, tick, lost, covering>>
  BY DEF SweepStart, Mined, IInv, TypeOK, catalogue, whole, history
<1>2. StepOf(p)
  BY DEF SweepStart, IInv, TypeOK, StepOf
<1>3. \A q \in Proc : AtRest(q)'
  BY <1>1, <1>2, OthersDue DEF CInv, AtRest
<1>4. ASSUME NEW r \in rows, NEW n, NEW d, Due(r, n, d)
      PROVE  Due(r, n, d)'
  <2>1. r.src \in scope'[p]
    BY <1>1 DEF Sources
  <2>2. Takes(p, r, n, d) => Takes(p, r, n, d)'
    BY <1>1, <2>1 DEF CInv, AtRest, Takes, Waits, Joins, Sweeps
  <2> QED
    BY <1>1, <1>2, <1>4, <2>2, StepDue
<1>5. Covered'
  BY <1>1, <1>4, StaysCovered DEF CInv
<1> QED
  BY <1>1, <1>3, <1>5 DEF CInv

LEMMA SweepWindowDue ==
  ASSUME IInv, CInv, NEW p \in Proc, SweepWindow(p)
  PROVE  CInv'
<1>1. /\ pc[p] = "sweep" /\ window[p] = {} /\ stage[p] = 1
      /\ UNCHANGED <<held, alias, rows, stage, tick, lost, covering>>
  BY DEF SweepWindow, catalogue, whole, history, CInv, AtRest
<1>2. \/ /\ pc'[p] = "range" /\ ids' = ids
         /\ window'[p] \subseteq scope[p] /\ scope'[p] = scope[p] \ window'[p]
      \/ /\ scope[p] = {} /\ scope' = scope /\ window' = window
         /\ pc'[p] = "idle" /\ ids'[p] = {}
  BY DEF SweepWindow, IInv, TypeOK
<1>3. StepOf(p)
  BY DEF SweepWindow, IInv, TypeOK, StepOf
<1>4. \A q \in Proc : AtRest(q)'
  BY <1>1, <1>2, <1>3, OthersDue DEF CInv, AtRest
<1>5. ASSUME NEW r, NEW n \in 1 .. 3, NEW d, Due(r, n, d)
      PROVE  Due(r, n, d)'
  <2>1. Takes(p, r, n, d) => Takes(p, r, n, d)'
    BY <1>1, <1>2 DEF Takes, Waits, Joins, Sweeps
  <2> QED
    BY <1>1, <1>3, <1>5, <2>1, StepDue
<1>6. Covered'
  BY <1>1, <1>5, StaysCovered DEF CInv
<1> QED
  BY <1>1, <1>4, <1>6 DEF CInv

LEMMA SweepRangeDue ==
  ASSUME IInv, CInv, NEW p \in Proc, SweepRange(p)
  PROVE  CInv'
<1>1. /\ pc[p] = "range" /\ stage[p] \in 1 .. 4
      /\ UNCHANGED <<held, alias, ids, cur, scope, tick, lost, covering>>
      /\ IF stage[p] < 4
         THEN pc' = pc /\ window' = window /\ stage'[p] = stage[p] + 1
         ELSE pc'[p] = "sweep" /\ window'[p] = {} /\ stage'[p] = 1
  BY DEF SweepRange, whole, history, IInv, TypeOK
<1>2. StepOf(p)
  BY DEF SweepRange, IInv, TypeOK, StepOf
<1>3. \A q \in Proc : AtRest(q)'
  BY <1>1, <1>2, OthersDue DEF CInv, AtRest
<1>4. /\ \A r \in rows' : r.dst = None => r \in rows
      /\ \A r \in rows' : r.dst = None /\ r.src \in window[p] => Ladder(stage[p], r) = {}
  BY PassSettles DEF SweepRange, RowsOf, IInv, TypeOK
<1>5. ASSUME NEW r \in rows', r.dst = None, NEW n \in 1 .. 3, NEW d \in Ladder(n, r), Due(r, n, d)
      PROVE  Due(r, n, d)'
  <2>1. r.src \in window[p] => n # stage[p]
    BY <1>4, <1>5
  <2>2. Takes(p, r, n, d) => Takes(p, r, n, d)'
    BY <1>1, <2>1 DEF Takes, Waits, Joins, Sweeps
  <2> QED
    BY <1>1, <1>2, <1>5, <2>2, StepDue
<1>6. Covered'
  BY <1>1, <1>4, <1>5, StaysCovered DEF CInv
<1> QED
  BY <1>1, <1>3, <1>6 DEF CInv

\* What a pass joins by the key a process has minted is in transit.
LEMMA TransitDue ==
  ASSUME NEW p \in Proc, InTransit(p) \subseteq lost',
         NEW r, NEW n \in 1 .. 3, NEW d \in Ladder(n, r), Mints(p, n, r)
  PROVE  Due(r, n, d)'
<1>1. d \in InTransit(p)
  BY LadderNamed DEF Mints, InTransit
<1> QED
  BY <1>1 DEF Due

\* What a process that stops had yet to probe for is left to the next
\* whole-graph pass.
LEMMA StopDue ==
  ASSUME IInv, CInv, NEW p \in Proc, Stop(p)
  PROVE  CInv'
<1>1. /\ pc'[p] = "idle" /\ stage'[p] = 1
      /\ ids'[p] = {} /\ scope'[p] = {} /\ window'[p] = {}
      /\ UNCHANGED <<held, alias, rows, tick, covering>>
      /\ lost \cup ids[p] \cup InTransit(p) \subseteq lost'
      /\ pc[p] = "retire" => Twin[cur[p]] \in lost'
  BY DEF Stop, IInv, TypeOK, catalogue, whole, InTransit
<1>2. StepOf(p)
  BY DEF Stop, IInv, TypeOK, StepOf
<1>3. \A q \in Proc : AtRest(q)'
  BY <1>1, <1>2, OthersDue DEF CInv, AtRest
<1>4. ASSUME NEW r, NEW n \in 1 .. 3, NEW d \in Ladder(n, r), Due(r, n, d)
      PROVE  Due(r, n, d)'
  <2>1. Takes(p, r, n, d) => {r.src, d} \cap ids[p] # {}
    BY DEF Takes, Waits, Joins, IInv, InHand
  <2>2. Takes(p, r, n, d) => Due(r, n, d)'
    BY <1>1, <2>1 DEF Due
  <2>3. Mints(p, n, r) => Due(r, n, d)'
    BY <1>1, TransitDue
  <2>4. Goes(n, r)' = Goes(n, r)
    BY <1>1, SameLadder
  <2> QED
    BY <1>1, <1>2, <1>4, <2>2, <2>3, <2>4, StaysDue
<1>5. Covered'
  BY <1>1, <1>4, StaysCovered DEF CInv
<1> QED
  BY <1>1, <1>3, <1>5 DEF CInv

\* So is what it has minted names for, when there is nothing to store.
LEMMA DedupDue ==
  ASSUME IInv, CInv, NEW p \in Proc, Dedup(p)
  PROVE  CInv'
<1>1. /\ pc[p] = "minted" /\ pc'[p] = (IF ids[p] = {} THEN "idle" ELSE "store")
      /\ UNCHANGED <<held, alias, rows, ids, stage, scope, window, tick, covering>>
      /\ lost \cup InTransit(p) \subseteq lost'
  BY DEF Dedup, Between, IInv, TypeOK, catalogue, whole
<1>2. StepOf(p)
  BY DEF Dedup, IInv, TypeOK, StepOf
<1>3. \A q \in Proc : AtRest(q)'
  BY <1>1, <1>2, OthersDue DEF CInv, AtRest
<1>4. ASSUME NEW r, NEW n \in 1 .. 3, NEW d \in Ladder(n, r), Due(r, n, d)
      PROVE  Due(r, n, d)'
  <2>1. Takes(p, r, n, d) => Takes(p, r, n, d)'
    BY <1>1 DEF CInv, AtRest, Takes, Waits, Joins, Sweeps
  <2>2. Takes(p, r, n, d) => Due(r, n, d)'
    BY <2>1 DEF Due
  <2>3. Mints(p, n, r) => Due(r, n, d)'
    BY <1>1, TransitDue
  <2>4. Goes(n, r)' = Goes(n, r)
    BY <1>1, SameLadder
  <2> QED
    BY <1>1, <1>2, <1>4, <2>2, <2>3, <2>4, StaysDue
<1>5. Covered'
  BY <1>1, <1>4, StaysCovered DEF CInv
<1> QED
  BY <1>1, <1>3, <1>5 DEF CInv

-----------------------------------------------------------------------------
(* The whole-graph pass.                                                   *)

\* A step of the scheduler leaves the processes alone.
LEMMA ProcessesDue ==
  ASSUME UNCHANGED process, \A p \in Proc : AtRest(p)
  PROVE  /\ \A p \in Proc : AtRest(p)'
         /\ Retiring' = Retiring
         /\ \A p \in Proc : \A r, n, d : Takes(p, r, n, d) => Takes(p, r, n, d)'
         /\ \A p \in Proc : \A r, n :
              Mints(p, n, r) /\ Goes(n, r)' = Goes(n, r) => Mints(p, n, r)'
BY DEF process, AtRest, Retiring, Takes, Waits, Joins, Sweeps, Mints

LEMMA TickReadDue ==
  ASSUME IInv, CInv, TickRead
  PROVE  CInv'
<1>1. /\ tick = 0 /\ tick' = 1 /\ covering = {} /\ covering' = lost
      /\ UNCHANGED <<held, alias, rows, process>>
  BY DEF TickRead, CInv, catalogue
<1>2. ASSUME NEW r, NEW n \in 1 .. 3, NEW d, Due(r, n, d)
      PROVE  Due(r, n, d)'
  BY <1>1, <1>2, SameLadder, ProcessesDue DEF Due, CInv
<1>3. Covered'
  BY <1>1, <1>2, StaysCovered DEF CInv
<1> QED
  BY <1>1, <1>3, ProcessesDue DEF CInv

LEMMA TickRefreshedDue ==
  ASSUME IInv, CInv, TickRefreshed
  PROVE  CInv'
<1>1. /\ tick = 1 /\ tick' = 2
      /\ UNCHANGED <<held, alias, rows, process, lost, covering>>
  BY DEF TickRefreshed, catalogue, history
<1>2. ASSUME NEW r, NEW n \in 1 .. 3, NEW d, Due(r, n, d)
      PROVE  Due(r, n, d)'
  BY <1>1, <1>2, SameLadder, ProcessesDue DEF Due, CInv
<1>3. Covered'
  BY <1>1, <1>2, StaysCovered DEF CInv
<1> QED
  BY <1>1, <1>3, ProcessesDue DEF CInv

LEMMA TickPassDue ==
  ASSUME IInv, CInv, TickPass
  PROVE  CInv'
<1>1. /\ tick \in 2 .. 5
      /\ UNCHANGED <<held, alias, process, lost>>
      /\ IF tick < 5 THEN tick' = tick + 1 /\ covering' = covering
                     ELSE tick' = 0 /\ covering' = {}
  BY DEF TickPass, LastPass, IInv, TypeOK
<1>2. /\ \A r \in rows' : r.dst = None => r \in rows
      /\ \A r \in rows' : r.dst = None => Ladder(tick - 1, r) = {}
  BY PassSettles DEF TickPass, IInv
<1>3. ASSUME NEW r \in rows', r.dst = None, NEW n \in 1 .. 3, NEW d \in Ladder(n, r), Due(r, n, d)
      PROVE  Due(r, n, d)'
  <2>1. n # tick - 1
    BY <1>2, <1>3
  <2>2. tick <= n + 1 => tick < 5 /\ tick + 1 <= n + 1
    BY <1>1, <2>1
  <2> QED
    BY <1>1, <1>3, <2>2, SameLadder, ProcessesDue DEF Due, CInv
<1>4. Covered'
  BY <1>1, <1>2, <1>3, StaysCovered DEF CInv
<1> QED
  BY <1>1, <1>4, ProcessesDue DEF CInv

LEMMA TickStopDue ==
  ASSUME IInv, CInv, TickStop
  PROVE  CInv'
<1>1. /\ tick' = 0 /\ covering' = {} /\ lost' = lost \cup covering
      /\ UNCHANGED <<held, alias, rows, process>>
  BY DEF TickStop, catalogue
<1>2. ASSUME NEW r, NEW n \in 1 .. 3, NEW d, Due(r, n, d)
      PROVE  Due(r, n, d)'
  BY <1>1, <1>2, SameLadder, ProcessesDue DEF Due, CInv
<1>3. Covered'
  BY <1>1, <1>2, StaysCovered DEF CInv
<1> QED
  BY <1>1, <1>3, ProcessesDue DEF CInv

-----------------------------------------------------------------------------
(* The steps that store a document, or give one a name.                    *)

\* A pass that a new document x, or a new name for it, does not touch joins what it
\* joined, by the same key.
LEMMA Redirects ==
  ASSUME IInv, NEW x \in Id, held' = held \cup {x},
         \A k \in Key : alias'[k] # alias[k] => x \in Aliased(k)',
         NEW r \in Row, NEW n \in 1 .. 3
  PROVE  \/ x \in Ladder(n, r)' \/ Ladder(n, r)' = {}
         \/ Ladder(n, r)' = Ladder(n, r) /\ Goes(n, r)' = Goes(n, r)
<1>1. \A k : x \in Named(k)' \/ Named(k)' = Named(k)
  BY DEF Named
<1>2. \A k \in Key : x \in Aliased(k)' \/ (Aliased(k)' = Aliased(k) /\ alias'[k] = alias[k])
  BY <1>1 DEF Aliased
<1>3. r.cand \in Key \cup {None} /\ r.raw \in Key \cup {None}
  BY DEF Row, KeyOrNone
<1>4. CASE n = 1
  BY <1>1, <1>4 DEF Ladder, Goes
<1>5. CASE n = 2
  BY <1>2, <1>3, <1>5 DEF Ladder, Goes
<1>6. CASE n = 3
  BY <1>2, <1>3, <1>6 DEF Ladder, Goes
<1> QED
  BY <1>4, <1>5, <1>6

\* So it is enough that whatever joins x is due, and that what was due by the same
\* key still is.
LEMMA StaysCoveredBy ==
  ASSUME IInv, Covered, NEW x \in Id, held' = held \cup {x},
         \A k \in Key : alias'[k] # alias[k] => x \in Aliased(k)',
         \A r \in rows' : r.dst = None => r \in rows,
         \A r \in rows' : r.src = x => r.src \in held,
         \A r \in rows' : \A n \in 1 .. 3 : \A d : x \in {r.src, d} => Due(r, n, d)',
         \A r \in rows' : \A n \in 1 .. 3 : \A d :
           Due(r, n, d) /\ Goes(n, r)' = Goes(n, r) => Due(r, n, d)'
  PROVE  Covered'
<1> SUFFICES ASSUME NEW r \in rows', Pending(r)', NEW n \in 1 .. 3, Ladder(n, r)' # {}
             PROVE  \/ \E d \in Ladder(n, r)' : Due(r, n, d)'
                    \/ /\ r \in rows /\ Pending(r)
                       /\ Ladder(n, r)' = Ladder(n, r)
                       /\ \A d \in Ladder(n, r) : Due(r, n, d) => Due(r, n, d)'
  BY Recovers
<1>1. r.dst = None /\ r \in rows /\ r \in Row /\ r.src \in held
  BY DEF Pending, IInv, TypeOK
<1>2. CASE x \in Ladder(n, r)'
  BY <1>2
<1>3. CASE Ladder(n, r)' = Ladder(n, r) /\ Goes(n, r)' = Goes(n, r)
  BY <1>1, <1>3 DEF Pending
<1> QED
  BY <1>1, <1>2, <1>3, Redirects

\* The passes that go by a minted key wait for the process that has minted it; the
\* others join what they joined.
LEMMA MintDue ==
  ASSUME IInv, CInv, NEW p \in Proc, NEW x \in Id, Mint(p, x)
  PROVE  CInv'
<1>1. /\ pc[p] \in {"idle", "store"} /\ pc'[p] = "minted" /\ cur'[p] = x
      /\ UNCHANGED <<held, rows, ids, stage, scope, window, tick, lost, covering>>
  BY DEF Mint, IInv, TypeOK, whole, history
<1>2. StepOf(p)
  BY DEF Mint, IInv, TypeOK, StepOf
<1>3. \A q \in Proc : AtRest(q)'
  BY <1>1, <1>2, OthersDue DEF CInv, AtRest
<1>4. \A k \in Key : alias'[k] # alias[k] => alias'[k] = Leads(x)
  BY DEF Mint, PutAliases
<1>5. ASSUME NEW r \in rows, NEW n \in 1 .. 3
      PROVE  \/ Goes(n, r)' = Leads(x) \/ Ladder(n, r)' = {}
             \/ Goes(n, r)' = Goes(n, r) /\ Ladder(n, r)' = Ladder(n, r)
  <2>1. r.cand \in Key \cup {None} /\ r.raw \in Key \cup {None}
    BY DEF IInv, TypeOK, Row, KeyOrNone
  <2>2. \A k : Named(k)' = Named(k)
    BY <1>1 DEF Named
  <2>3. \A k \in Key : alias'[k] = alias[k] => Aliased(k)' = Aliased(k)
    BY <2>2 DEF Aliased
  <2>4. CASE n = 1
    BY <2>2, <2>4 DEF Ladder, Goes
  <2>5. CASE n = 2
    BY <1>4, <2>1, <2>3, <2>5 DEF Ladder, Goes
  <2>6. CASE n = 3
    BY <1>4, <2>1, <2>3, <2>6 DEF Ladder, Goes
  <2> QED
    BY <2>4, <2>5, <2>6
<1>6. ASSUME NEW r, NEW n, NEW d, Goes(n, r)' = Leads(x)
      PROVE  Due(r, n, d)'
  <2>1. Mints(p, n, r)'
    BY <1>1, <1>6 DEF Mints, Leads
  <2> QED
    BY <2>1 DEF Due
<1>7. ASSUME NEW r, NEW n, NEW d, Due(r, n, d), Goes(n, r)' = Goes(n, r)
      PROVE  Due(r, n, d)'
  <2>1. Takes(p, r, n, d) => Takes(p, r, n, d)'
    BY <1>1 DEF CInv, AtRest, Takes, Waits, Joins, Sweeps
  <2>2. Mints(p, n, r) \/ Takes(p, r, n, d) => Due(r, n, d)'
    BY <1>1, <2>1 DEF Mints, Due
  <2> QED
    BY <1>1, <1>2, <1>7, <2>2, StaysDue
<1>8. Covered'
  <2> SUFFICES ASSUME NEW r \in rows', Pending(r)', NEW n \in 1 .. 3, Ladder(n, r)' # {}
               PROVE  \/ \E d \in Ladder(n, r)' : Due(r, n, d)'
                      \/ /\ r \in rows /\ Pending(r)
                         /\ Ladder(n, r)' = Ladder(n, r)
                         /\ \A d \in Ladder(n, r) : Due(r, n, d) => Due(r, n, d)'
    BY <1>1, Recovers DEF CInv
  <2>1. r \in rows /\ Pending(r)
    BY <1>1 DEF Pending
  <2> QED
    BY <1>5, <1>6, <1>7, <2>1
<1> QED
  BY <1>1, <1>3, <1>8 DEF CInv

\* What goes by the key of the stored document joins it, and it is to be probed for.
LEMMA StoreDue ==
  ASSUME IInv, CInv, NEW p \in Proc, Store(p)
  PROVE  CInv'
<1>0. PICK x \in Id : x = cur[p]
  BY DEF Store, IInv, TypeOK, IdOrNone
<1>1. /\ pc[p] = "minted" /\ pc'[p] = "store" /\ ids'[p] = ids[p] \cup {x}
      /\ held' = held \cup {x}
      /\ rows' = rows \ RowsOf({x})
      /\ scope' = [q \in Proc |-> scope[q] \ {x}]
      /\ window' = [q \in Proc |-> window[q] \ {x}]
      /\ UNCHANGED <<alias, stage, tick, lost, covering>>
      /\ \A q \in Proc \ {p} : pc'[q] = pc[q] /\ cur'[q] = cur[q] /\ ids'[q] = ids[q]
  BY <1>0 DEF Store, IInv, TypeOK, whole, history
<1>2. \A q \in Proc : AtRest(q)'
  BY <1>1 DEF CInv, AtRest
<1>3. \A n : \A r : Mints(p, n, r) <=> Goes(n, r) = Leads(x)
  BY <1>0, <1>1 DEF Mints
<1>4. Retiring \subseteq Retiring'
  BY <1>1 DEF Retiring
<1>5. ASSUME NEW r, NEW n, NEW d, x \in {r.src, d}
      PROVE  Due(r, n, d)'
  BY <1>1, <1>5 DEF Due, Takes, Waits
<1>6. \A n, r : Goes(n, r)' = Goes(n, r)
  BY <1>1 DEF Goes
<1>7. ASSUME NEW r, NEW n, NEW d, r.src # x, Due(r, n, d), ~Mints(p, n, r)
      PROVE  Due(r, n, d)'
  <2>1. ASSUME NEW q \in Proc, Takes(q, r, n, d)
        PROVE  Takes(q, r, n, d)'
    BY <1>1, <1>7, <2>1 DEF CInv, AtRest, Takes, Waits, Joins, Sweeps
  <2>2. ASSUME NEW q \in Proc, Mints(q, n, r)
        PROVE  Mints(q, n, r)'
    BY <1>1, <1>6, <1>7, <2>2 DEF Mints
  <2> QED
    BY <1>1, <1>4, <1>7, <2>1, <2>2 DEF Due
<1>8. Covered'
  <2> SUFFICES ASSUME NEW r \in rows', Pending(r)', NEW n \in 1 .. 3, Ladder(n, r)' # {}
               PROVE  \/ \E d \in Ladder(n, r)' : Due(r, n, d)'
                      \/ /\ r \in rows /\ Pending(r)
                         /\ Ladder(n, r)' = Ladder(n, r)
                         /\ \A d \in Ladder(n, r) : Due(r, n, d) => Due(r, n, d)'
    BY <1>1, Recovers DEF CInv
  <2>1. r \in rows /\ r \in Row /\ r.src # x /\ Pending(r)
    BY <1>1 DEF Pending, RowsOf, IInv, TypeOK
  <2>2. CASE x \in Ladder(n, r)'
    BY <1>5, <2>2
  <2>3. CASE x \notin Ladder(n, r)'
    <3>1. \A k : x \in Named(k)' \/ Named(k)' = Named(k)
      BY <1>1 DEF Named
    <3>2. Ladder(n, r)' = Named(Goes(n, r))'
      BY LadderNamed DEF Ladder, Goes, Aliased
    <3>3. x \in Named(Leads(x))'
      BY <1>1, Constants DEF Named, Leads
    <3>4. ~Mints(p, n, r)
      BY <1>3, <1>6, <2>3, <3>2, <3>3
    <3>5. Ladder(n, r)' = Ladder(n, r)
      BY <1>1, <2>1, <2>3, Redirects
    <3> QED
      BY <1>7, <2>1, <3>4, <3>5
  <2> QED
    BY <2>2, <2>3
<1> QED
  BY <1>1, <1>2, <1>8 DEF CInv

\* The document a rendition is one of is left to the next whole-graph pass.
LEMMA RenditionDue ==
  ASSUME IInv, CInv, NEW p \in Proc, NEW d \in Id, Rendition(p, d)
  PROVE  CInv'
<1>1. PICK k \in Declares[d] : \E h \in Found(k) \ {d} :
        PutAliases({d}, h, FALSE) /\ lost' = lost \cup {h}
  BY DEF Rendition
<1>2. PICK x \in Found(k) : PutAliases({d}, x, FALSE) /\ lost' = lost \cup {x}
  BY <1>1
<1>3. x \in held /\ x \in Id
  BY DEF Found, Named, Aliased, IInv, TypeOK
<1>4. UNCHANGED <<held, rows, process, tick, covering>>
  BY DEF Rendition, whole
<1>5. \A y \in Key : alias'[y] # alias[y] => x \in Aliased(y)'
  <2>1. \A y \in Key : alias'[y] # alias[y] => alias'[y] = x
    BY <1>2 DEF PutAliases
  <2> QED
    BY <1>3, <1>4, <2>1, Constants DEF Aliased, Named
<1>6. ASSUME NEW r, NEW n, NEW e, x \in {r.src, e}
      PROVE  Due(r, n, e)'
  BY <1>2, <1>6 DEF Due
<1>7. ASSUME NEW r, NEW n, NEW e, Due(r, n, e), Goes(n, r)' = Goes(n, r)
      PROVE  Due(r, n, e)'
  BY <1>2, <1>4, <1>7, ProcessesDue DEF Due, CInv
<1>8. held' = held \cup {x}
  BY <1>3, <1>4
<1>9. Covered'
  BY <1>3, <1>4, <1>5, <1>6, <1>7, <1>8, StaysCoveredBy DEF CInv
<1> QED
  BY <1>4, <1>9, ProcessesDue DEF CInv

LEMMA RetireDue ==
  ASSUME IInv, CInv, NEW p \in Proc, Retire(p)
  PROVE  CInv'
<1> DEFINE x == Twin[cur[p]]
<1>1. /\ pc[p] = "retire" /\ pc'[p] = "store" /\ ids'[p] = ids[p] \cup {x}
      /\ x \in Id /\ x \in held
      /\ UNCHANGED <<held, rows, stage, scope, window, tick, lost, covering>>
  BY DEF Retire, IInv, TypeOK, InHand, whole, history
<1>2. StepOf(p)
  BY DEF Retire, IInv, TypeOK, StepOf
<1>3. \A q \in Proc : AtRest(q)'
  BY <1>1, <1>2, OthersDue DEF CInv, AtRest
<1>4. \A k \in Key : alias'[k] # alias[k] => x \in Aliased(k)'
  <2>1. \A k \in Key : alias'[k] # alias[k] => alias'[k] = x
    BY DEF Retire, PutAliases
  <2> QED
    BY <1>1, <2>1, Constants DEF Aliased, Named
<1> HIDE DEF x
<1>5. ASSUME NEW r, NEW n, NEW d, x \in {r.src, d}
      PROVE  Due(r, n, d)'
  BY <1>1, <1>5 DEF Due, Takes, Waits
<1>6. Retiring \subseteq Retiring' \cup {x}
  BY <1>2 DEF Retiring, StepOf, x
<1>7. ASSUME NEW r, NEW n, NEW d, Due(r, n, d), Goes(n, r)' = Goes(n, r)
      PROVE  Due(r, n, d)'
  <2>1. Takes(p, r, n, d) => Takes(p, r, n, d)'
    BY <1>1 DEF CInv, AtRest, Takes, Waits, Joins, Sweeps
  <2>2. \A q \in Proc : Mints(q, n, r) \/ Takes(q, r, n, d) =>
                         Mints(q, n, r)' \/ Takes(q, r, n, d)'
    BY <1>1, <1>2, <1>7, <2>1, OthersDue DEF Mints
  <2> QED
    BY <1>1, <1>5, <1>6, <1>7, <2>2 DEF Due
<1>8. held' = held \cup {x}
  BY <1>1
<1>9. Covered'
  BY <1>1, <1>4, <1>5, <1>7, <1>8, StaysCoveredBy DEF CInv
<1> QED
  BY <1>1, <1>3, <1>9 DEF CInv

LEMMA TickWriteDue ==
  ASSUME IInv, CInv, TickWrite
  PROVE  CInv'
<1>1. PICK w \in wanted :
        /\ alias' = [alias EXCEPT ![w[1]] = w[2]]
        /\ rows' = {IF r.cand = w[1] THEN [r EXCEPT !.dst = w[2]] ELSE r : r \in rows}
        /\ covering' = covering \cup {w[2]}
  BY DEF TickWrite
<1> DEFINE x == w[2]
<1>2. /\ tick = 1 /\ UNCHANGED <<held, process, tick, lost>>
      /\ x \in held /\ x \in Id /\ w[1] \in Key
  BY Constants DEF TickWrite, IInv, TypeOK, Lasting
<1>3. \A k \in Key : alias'[k] # alias[k] => x \in Aliased(k)'
  <2>1. \A k \in Key : alias'[k] # alias[k] => alias'[k] = x
    BY <1>1 DEF IInv, TypeOK
  <2> QED
    BY <1>2, <2>1, Constants DEF Aliased, Named
<1>4. \A r \in rows' : r.dst = None => r \in rows
  <2>1. \A r \in rows : [r EXCEPT !.dst = x].dst = x
    BY DEF IInv, TypeOK, Row
  <2> QED
    BY <1>1, <1>2, <2>1, Constants
<1>5. x \in covering' /\ covering \subseteq covering'
  BY <1>1
<1> HIDE DEF x
<1>6. ASSUME NEW r, NEW n \in 1 .. 3, NEW d, x \in {r.src, d}
      PROVE  Due(r, n, d)'
  BY <1>2, <1>5, <1>6 DEF Due
<1>7. ASSUME NEW r, NEW n, NEW d, Due(r, n, d), Goes(n, r)' = Goes(n, r)
      PROVE  Due(r, n, d)'
  BY <1>2, <1>5, <1>7, ProcessesDue DEF Due, CInv
<1>8. held' = held \cup {x}
  BY <1>2
<1>9. Covered'
  BY <1>2, <1>3, <1>4, <1>6, <1>7, <1>8, StaysCoveredBy DEF CInv
<1> QED
  BY <1>2, <1>9, ProcessesDue DEF CInv

\* The edges of the document just mined wait for the probe that is to come;
\* those of other documents keep what they had.
LEMMA MineWriteDue ==
  ASSUME IInv, CInv, NEW p \in Proc, MineWrite(p)
  PROVE  CInv'
<1> DEFINE x == cur[p]
<1>1. /\ pc[p] = "mine" /\ pc'[p] = "store" /\ x \in ids[p]
      /\ UNCHANGED <<held, alias, ids, stage, tick, lost, covering>>
      /\ rows' = (rows \ RowsOf({x})) \cup Fresh(x)
      /\ scope' = [q \in Proc |-> scope[q] \ {x}]
      /\ window' = [q \in Proc |-> window[q] \ {x}]
      /\ \A q \in Proc \ {p} : pc'[q] = pc[q] /\ cur'[q] = cur[q]
  BY DEF MineWrite, IInv, TypeOK, InHand, whole, history
<1>2. \A q \in Proc : AtRest(q)'
  BY <1>1 DEF CInv, AtRest
<1> HIDE DEF x
<1>3. \A r \in rows' : r.src = x \/ r \in rows
  BY <1>1 DEF Fresh
<1>4. ASSUME NEW r, NEW n, NEW d, r.src = x
      PROVE  Due(r, n, d)'
  BY <1>1, <1>4 DEF Due, Takes, Waits
<1>5. Retiring = Retiring'
  BY <1>1 DEF Retiring
<1>6. ASSUME NEW r, NEW n, NEW d, r.src # x, Due(r, n, d)
      PROVE  Due(r, n, d)'
  <2>1. ASSUME NEW q \in Proc, Takes(q, r, n, d)
        PROVE  Takes(q, r, n, d)'
    BY <1>1, <1>6, <2>1 DEF CInv, AtRest, Takes, Waits, Joins, Sweeps
  <2>2. ASSUME NEW q \in Proc, Mints(q, n, r)
        PROVE  Mints(q, n, r)'
    BY <1>1, <1>6, <2>2 DEF Mints, Goes
  <2> QED
    BY <1>1, <1>5, <1>6, <2>1, <2>2 DEF Due
<1>7. Covered'
  <2> SUFFICES ASSUME NEW r \in rows', Pending(r)', NEW n \in 1 .. 3, Ladder(n, r)' # {}
               PROVE  \/ \E d \in Ladder(n, r)' : Due(r, n, d)'
                      \/ /\ r \in rows /\ Pending(r)
                         /\ Ladder(n, r)' = Ladder(n, r)
                         /\ \A d \in Ladder(n, r) : Due(r, n, d) => Due(r, n, d)'
    BY <1>1, Recovers DEF CInv
  <2>1. Pending(r) /\ Ladder(n, r)' = Ladder(n, r)
    BY <1>1, SameLadder
  <2>2. CASE r.src = x
    BY <1>4, <2>2
  <2>3. CASE r.src # x
    BY <1>3, <1>6, <2>1, <2>3
  <2> QED
    BY <2>2, <2>3
<1> QED
  BY <1>1, <1>2, <1>7 DEF CInv

\* Rekeying gives a row the better id as its source or among the documents it
\* joins, and that one is due; or it leaves the row's joins as they were.
LEMMA AbsorbDue ==
  ASSUME IInv, CInv, NEW p \in Proc, NEW old \in Id, Absorb(p, old)
  PROVE  CInv'
<1> DEFINE x == Twin[old]
           Re(r) == [r EXCEPT !.src = Rekeyed(@, old, x), !.cand = Rekeyed(@, old, x),
                              !.dst = Rekeyed(@, old, x)]
<1>1. /\ pc[p] \in {"idle", "store"} /\ pc'[p] = "retire" /\ Twin[cur'[p]] = x
      /\ UNCHANGED <<ids, stage, tick, lost, covering>>
      /\ held' = (held \ {old}) \cup {x}
      /\ alias' = [k \in Key |-> Rekeyed(alias[k], old, x)]
      /\ rows' = {Re(r) : r \in rows}
      /\ scope' = [q \in Proc |-> {Rekeyed(s, old, x) : s \in scope[q]}]
      /\ window' = [q \in Proc |-> {Rekeyed(s, old, x) : s \in window[q]}]
      /\ \A q \in Proc \ {p} : pc'[q] = pc[q] /\ cur'[q] = cur[q]
  BY DEF Absorb, IInv, TypeOK, whole
<1>2. x \in Id /\ x # old /\ x # None /\ old # None /\ Ecli[old] = None /\ Ecli[x] = None
  BY Constants, TwinAssumption DEF Absorb
<1> HIDE DEF x
<1>3. \A q \in Proc : AtRest(q)'
  BY <1>1 DEF CInv, AtRest
<1>4. x \in Retiring'
  BY <1>1 DEF Retiring
<1>5. ASSUME NEW r, NEW n, NEW d, x \in {r.src, d}
      PROVE  Due(r, n, d)'
  BY <1>4, <1>5 DEF Due
<1>6. Retiring \subseteq Retiring'
  BY <1>1 DEF Retiring
<1>7. \A k : k # old => x \in Named(k)' \/ Named(k)' = Named(k)
  BY <1>1, <1>2 DEF Named
<1>8. \A k \in Key : x \in Aliased(k)' \/ (Aliased(k)' = Aliased(k) /\ alias'[k] = alias[k])
  <2> SUFFICES ASSUME NEW k \in Key, x \notin Aliased(k)'
               PROVE  Aliased(k)' = Aliased(k) /\ alias'[k] = alias[k]
    OBVIOUS
  <2>1. alias'[k] = Rekeyed(alias[k], old, x) /\ x \in Named(x)'
    BY <1>1 DEF Named
  <2>2. alias[k] # old
    BY <1>2, <2>1 DEF Aliased, Rekeyed
  <2> QED
    BY <1>7, <2>1, <2>2 DEF Aliased, Rekeyed
<1>9. Covered'
  <2> SUFFICES ASSUME NEW s \in rows', Pending(s)', NEW n \in 1 .. 3, Ladder(n, s)' # {}
               PROVE  \E m \in {1, n} : \E d \in Ladder(m, s)' : Due(s, m, d)'
    BY DEF Covered
  <2>1. PICK r \in rows : s = Re(r)
    BY <1>1
  <2>2. /\ r \in Row
        /\ s.src = Rekeyed(r.src, old, x) /\ s.cand = Rekeyed(r.cand, old, x)
        /\ s.dst = Rekeyed(r.dst, old, x) /\ s.raw = r.raw /\ s.dotted = r.dotted
    BY <2>1 DEF IInv, TypeOK, Row
  <2>3. r.cand \in Key \cup {None} /\ r.raw \in Key \cup {None}
    BY <2>2 DEF Row, KeyOrNone
  <2>4. CASE s.src = x
    BY <1>5, <2>4
  <2>5. CASE \E m \in {1, n} : x \in Ladder(m, s)'
    BY <1>5, <2>5
  <2>6. CASE s.src # x /\ \A m \in {1, n} : x \notin Ladder(m, s)'
    <3>1. r.src # old /\ s.src = r.src
      BY <2>2, <2>6 DEF Rekeyed
    <3>2. Pending(r)
      BY <1>1, <1>2, <2>2, <2>6, <3>1 DEF Pending, Rekeyed
    <3>3. s.cand = r.cand /\ r.cand # old
      <4>1. x \in Named(x)'
        BY <1>1 DEF Named
      <4> QED
        BY <1>2, <2>2, <2>6, <4>1 DEF Ladder, Rekeyed
    <3>4. ASSUME NEW m \in {1, n}
          PROVE  Ladder(m, s)' = Ladder(m, r) /\ (Ladder(m, r) # {} => Goes(m, s)' = Goes(m, r))
      <4>1. CASE m = 1
        BY <1>7, <2>2, <2>6, <3>3, <4>1 DEF Ladder, Goes
      <4>2. CASE m = 2
        BY <1>8, <2>2, <2>3, <2>6, <3>3, <4>2 DEF Ladder, Goes
      <4>3. CASE m = 3
        BY <1>8, <2>2, <2>3, <2>6, <3>3, <4>3 DEF Ladder, Goes
      <4> QED
        BY <4>1, <4>2, <4>3
    <3>5. PICK m \in {1, n} : \E d \in Ladder(m, r) : Due(r, m, d)
      BY <3>2, <3>4 DEF CInv, Covered
    <3>6. PICK d \in Ladder(m, r) : Due(r, m, d)
      BY <3>5
    <3>7. Due(s, m, d)'
      <4>1. ASSUME NEW q \in Proc, Waits(q, r.src) \/ Waits(q, d) \/ Joins(q, r, m, d)
            PROVE  Takes(q, s, m, d)'
        BY <1>1, <3>1, <4>1 DEF CInv, AtRest, Takes, Waits, Joins
      <4>2. ASSUME NEW q \in Proc, Sweeps(q, r, m)
            PROVE  Sweeps(q, s, m)'
        <5>1. /\ r.src \in scope[q] => r.src \in scope'[q]
              /\ r.src \in window[q] => r.src \in window'[q]
          BY <1>1, <3>1 DEF Rekeyed
        <5> QED
          BY <1>1, <3>1, <4>2, <5>1 DEF Sweeps
      <4>3. ASSUME NEW q \in Proc, Takes(q, r, m, d)
            PROVE  Takes(q, s, m, d)'
        BY <1>1, <3>1, <4>1, <4>2, <4>3 DEF Takes
      <4>4. ASSUME NEW q \in Proc, Mints(q, m, r)
            PROVE  Mints(q, m, s)'
        BY <1>1, <3>4, <3>6, <4>4 DEF Mints, Leads
      <4> QED
        BY <1>1, <1>6, <3>1, <3>6, <4>3, <4>4 DEF Due
    <3> QED
      BY <3>4, <3>6, <3>7
  <2> QED
    BY <2>4, <2>5, <2>6
<1> QED
  BY <1>1, <1>3, <1>9 DEF CInv

-----------------------------------------------------------------------------
LEMMA CNext == IInv /\ CInv /\ [Next]_vars => CInv'
<1> SUFFICES ASSUME IInv, CInv, [Next]_vars PROVE CInv'
    OBVIOUS
<1>1. CASE UNCHANGED vars
  <2>1. UNCHANGED <<held, alias, rows, process, tick, lost, covering>>
    BY <1>1 DEF vars, catalogue, process, whole, history
  <2>2. \A r, n, d : Due(r, n, d) => Due(r, n, d)'
    BY <2>1, SameLadder, ProcessesDue DEF Due, CInv
  <2>3. Covered'
    BY <2>1, <2>2, StaysCovered DEF CInv
  <2> QED
    BY <2>1, <2>3, ProcessesDue DEF CInv
<1>2. ASSUME NEW p \in Proc, NEW d \in Id, Rendition(p, d) \/ Mint(p, d) \/ Absorb(p, d)
      PROVE  CInv'
  BY <1>2, RenditionDue, MintDue, AbsorbDue
<1>3. ASSUME NEW p \in Proc,
             \/ Dedup(p) \/ Store(p)
             \/ MineRead(p) \/ MineWrite(p) \/ Retire(p)
             \/ Probe(p) \/ From(p) \/ For(p)
             \/ SweepStart(p) \/ SweepWindow(p) \/ SweepRange(p)
             \/ Stop(p)
      PROVE  CInv'
  BY <1>3, DedupDue, StoreDue, MineReadDue, MineWriteDue, RetireDue, ProbeDue, FromDue, ForDue, SweepStartDue,
     SweepWindowDue, SweepRangeDue, StopDue
<1>4. CASE Tick
  BY <1>4, TickReadDue, TickWriteDue, TickRefreshedDue, TickPassDue DEF Tick
<1>5. CASE TickStop
  BY <1>5, TickStopDue
<1> QED
  BY <1>1, <1>2, <1>3, <1>4, <1>5 DEF Next

\* However storing, absorbing, mining, probing, sweeping and the whole-graph
\* pass interleave, and wherever a process dies: while an edge of a held document
\* is pending and a document it names is held, it or one of them is still to be
\* probed for (run_for_documents).
THEOREM NothingStranded == Spec => []NoneStranded
<1>1. Init => IInv /\ CInv
  BY InitInv, CInit
<1>2. IInv /\ CInv /\ [Next]_vars => (IInv /\ CInv)'
  BY NextInv, CNext
<1>3. IInv /\ CInv => NoneStranded
  BY Owes
<1> QED
  BY <1>1, <1>2, <1>3, PTL DEF Spec
=============================================================================
