--------------------------- MODULE RequestsProofs ---------------------------
(***************************************************************************)
(* Proofs about Requests, for any callers, clients, windows, interval and   *)
(* retries.  The quota: what a window counts and the callers that have      *)
(* passed the check are together less than the limit and one per caller.    *)
(* The pace: the slots a client has given out are an interval apart, so the *)
(* requests it has sent and those that may be sent by a time fit below it.  *)
(* The retries: a charge buys its caller max_retries + 1 turns, which are   *)
(* counted as a set of pairs, and each request uses one up.                 *)
(* The advice: of the rows a window counts, the k-th oldest is the least    *)
(* time by which k were charged, so that the wait it gives is exact.        *)
(***************************************************************************)
EXTENDS Requests, FiniteSetTheorems, TLAPS

\* Callers between the check of the windows and the charge.
Passed == {c \in Caller : pc[c] = "charge"}

\* What the quota rests on: the ledger forgot only what no window counts.
QuotaInv ==
  /\ IsFiniteSet(charged)
  /\ \A r \in charged \ ledger : \A w \in Window : r.at < now - w.seconds
  /\ \A w \in Window :
       Cardinality(Counted(charged, w, now)) + Cardinality(Passed)
         < w.limit + Cardinality(Caller)

\* Callers of a client that wait for a slot, and those whose slot is due by t.
Waiting(k) == {c \in Caller : pc[c] = "wait" /\ ClientOf[c] = k}
Due(k, t) == {c \in Waiting(k) : wake[c] <= t}

\* Sent or to be sent, times the interval.
Used(k, S) == (sent[k] + Cardinality(S)) * Interval

PaceInv ==
  /\ \A c \in Caller : pc[c] = "wait" => wake[c] + Interval <= slot[ClientOf[c]]
  /\ \A c, d \in Caller :
       pc[c] = "wait" /\ pc[d] = "wait" /\ ClientOf[c] = ClientOf[d] /\ c # d =>
         wake[c] >= wake[d] + Interval \/ wake[d] >= wake[c] + Interval
  /\ \A k \in Client : Used(k, Waiting(k)) <= slot[k]
  /\ \A k \in Client, t \in Nat : t >= now => Used(k, Due(k, t)) <= t + Interval

LEMMA Constants ==
  /\ IsFiniteSet(Caller) /\ Cardinality(Caller) \in Nat
  /\ ClientOf \in [Caller -> Client]
  /\ \A w \in Window : w.seconds \in Nat /\ w.limit \in Nat \ {0}
  /\ Interval \in Nat /\ MaxRetries \in Nat /\ MaxTime \in Nat /\ MaxResets \in Nat
BY RequestsAssumption, FS_CardinalityType

\* A part of a finite set is finite, and no larger.
LEMMA Smaller ==
  ASSUME NEW T, IsFiniteSet(T), NEW S \in SUBSET T
  PROVE  /\ IsFiniteSet(S) /\ Cardinality(S) \in Nat /\ Cardinality(T) \in Nat
         /\ Cardinality(S) <= Cardinality(T)
BY FS_Subset, FS_CardinalityType

LEMMA Callers ==
  ASSUME NEW S \in SUBSET Caller
  PROVE  IsFiniteSet(S) /\ Cardinality(S) \in Nat /\ Cardinality(S) <= Cardinality(Caller)
BY Constants, Smaller

LEMMA Times ==
  ASSUME NEW a \in Nat, NEW b \in Nat, NEW i \in Nat
  PROVE  /\ a * i \in Nat
         /\ (a + 1) * i = a * i + i
         /\ a <= b => a * i <= b * i
<1>1. a * i \in Nat /\ (a + 1) * i = a * i + i
  OBVIOUS
<1>2. ASSUME a <= b PROVE a * i <= b * i
  <2>1. b = a + (b - a) /\ b - a \in Nat
    BY <1>2
  <2>2. (a + (b - a)) * i = a * i + (b - a) * i /\ (b - a) * i >= 0
    BY <2>1
  <2> QED
    BY <2>1, <2>2
<1> QED
  BY <1>1, <1>2

-----------------------------------------------------------------------------
(* Types.                                                                  *)

LEMMA TypeInit == Init => TypeOK
BY Constants DEF Init, TypeOK, Charge

LEMMA TypeNext ==
  ASSUME TypeOK, [Next]_vars
  PROVE  TypeOK'
<1>1. CASE UNCHANGED vars
  BY <1>1 DEF TypeOK, vars
<1>2. ASSUME NEW c \in Caller, Check(c) PROVE TypeOK'
  BY <1>2 DEF TypeOK, Check
<1>3. ASSUME NEW c \in Caller, Spend(c) PROVE TypeOK'
  <2> DEFINE row == [id |-> charges, at |-> now]
  <2>1. row \in Charge /\ row.id < charges + 1 /\ row.at <= now /\ charges \in Nat
    BY DEF TypeOK, Charge
  <2>2. /\ charges' = charges + 1 /\ UNCHANGED <<now, slot, wake, sent, resets>>
        /\ ledger' = Pruned(ledger, now) \cup {row} /\ charged' = charged \cup {row}
        /\ pc' = [pc EXCEPT ![c] = "pace"] /\ attempt' = [attempt EXCEPT ![c] = 0]
    BY <1>3 DEF Spend
  <2> HIDE DEF row
  <2>3. charged' \subseteq Charge /\ ledger' \subseteq charged'
    BY <2>1, <2>2 DEF TypeOK, Pruned
  <2>4. \A r \in charged' : r.id < charges' /\ r.at <= now'
    BY <2>1, <2>2 DEF TypeOK, Charge
  <2>5. /\ pc' \in [Caller -> {"idle", "charge", "pace", "wait", "answer"}]
        /\ \A d \in Caller : pc'[d] = "wait" => wake'[d] <= slot'[ClientOf[d]]
        /\ attempt' \in [Caller -> 0..MaxRetries]
    BY <2>2, Constants DEF TypeOK
  <2> QED
    BY <2>1, <2>2, <2>3, <2>4, <2>5 DEF TypeOK
<1>4. ASSUME NEW c \in Caller, Pace(c) PROVE TypeOK'
  <2>1. ClientOf[c] \in Client /\ slot[ClientOf[c]] \in Nat /\ now \in Nat
    BY Constants DEF TypeOK
  <2> DEFINE start == Later(slot[ClientOf[c]], now)
  <2>2. start \in Nat /\ start >= slot[ClientOf[c]]
    BY <2>1 DEF Later
  <2>3. /\ wake' = [wake EXCEPT ![c] = start]
        /\ slot' = [slot EXCEPT ![ClientOf[c]] = start + Interval]
    BY <1>4 DEF Pace, NextSlot
  <2> HIDE DEF start
  <2>4. slot' \in [Client -> Nat] /\ wake' \in [Caller -> Nat]
    BY <2>1, <2>2, <2>3, Constants DEF TypeOK
  <2>5. \A k \in Client : slot'[k] >= slot[k]
    BY <2>1, <2>2, <2>3, Constants DEF TypeOK
  <2>6. ASSUME NEW d \in Caller, pc'[d] = "wait" PROVE wake'[d] <= slot'[ClientOf[d]]
    <3>1. CASE d = c
      BY <2>1, <2>2, <2>3, <3>1, Constants DEF TypeOK
    <3>2. CASE d # c
      <4>1. pc[d] = "wait" /\ wake'[d] = wake[d] /\ ClientOf[d] \in Client
        BY <1>4, <2>3, <2>6, <3>2, Constants DEF TypeOK, Pace
      <4> QED
        BY <2>4, <2>5, <4>1 DEF TypeOK
    <3> QED
      BY <3>1, <3>2
  <2> QED
    BY <1>4, <2>4, <2>6 DEF TypeOK, Pace
<1>5. ASSUME NEW c \in Caller, Send(c) PROVE TypeOK'
  <2>1. ClientOf[c] \in Client /\ sent[ClientOf[c]] + 1 \in Nat
    BY Constants DEF TypeOK
  <2>2. sent' \in [Client -> Nat]
    BY <1>5, <2>1 DEF TypeOK, Send
  <2> QED
    BY <1>5, <2>2 DEF TypeOK, Send
<1>6. ASSUME NEW c \in Caller, Answer(c) \/ Crash(c) PROVE TypeOK'
  BY <1>6, Constants DEF TypeOK, Answer, Crash, End
<1>7. ASSUME NEW c \in Caller, Retry(c) PROVE TypeOK'
  BY <1>7, Constants DEF TypeOK, Retry, MayRetry
<1>8. CASE Reset
  BY <1>8, Constants DEF TypeOK, Reset
<1>9. CASE Tick
  BY <1>9, Constants DEF TypeOK, Tick, Charge
<1> QED
  BY <1>1, <1>2, <1>3, <1>4, <1>5, <1>6, <1>7, <1>8, <1>9 DEF Next

-----------------------------------------------------------------------------
(* The quota.                                                              *)

LEMMA CountedFinite ==
  ASSUME NEW S, IsFiniteSet(S), NEW w, NEW t
  PROVE  IsFiniteSet(Counted(S, w, t)) /\ Cardinality(Counted(S, w, t)) \in Nat
<1>1. Counted(S, w, t) \in SUBSET S
  BY DEF Counted
<1> QED
  BY <1>1, Smaller

LEMMA QuotaInit == Init => QuotaInv
<1> SUFFICES ASSUME Init PROVE QuotaInv
    OBVIOUS
<1>1. charged = {} /\ Passed = {} /\ \A w \in Window : Counted(charged, w, now) = {}
  BY DEF Init, Passed, Counted
<1>2. ledger = {}
  BY DEF Init
<1> QED
  BY <1>1, <1>2, FS_EmptySet, Constants DEF QuotaInv

\* Steps that add no charge and let nobody pass.
LEMMA QuotaFewer ==
  ASSUME TypeOK, QuotaInv, TypeOK',
         Passed' \subseteq Passed, UNCHANGED <<charged, ledger>>, now' >= now
  PROVE  QuotaInv'
<1>1. now \in Int /\ now' \in Int /\ \A r \in charged : r.at \in Nat
  BY DEF TypeOK, Charge
<1>2. \A w \in Window : Counted(charged, w, now') \in SUBSET Counted(charged, w, now)
  BY <1>1, Constants DEF Counted
<1>3. \A r \in charged' \ ledger' : \A w \in Window : r.at < now' - w.seconds
  BY <1>1, Constants DEF QuotaInv
<1>4. ASSUME NEW w \in Window
      PROVE  Cardinality(Counted(charged', w, now')) + Cardinality(Passed')
               < w.limit + Cardinality(Caller)
  <2>1. Passed \subseteq Caller
    BY DEF Passed
  <2>2. /\ Cardinality(Passed') <= Cardinality(Passed)
        /\ Cardinality(Passed') \in Nat /\ Cardinality(Passed) \in Nat
    BY <2>1, Callers, Smaller
  <2>3. /\ Cardinality(Counted(charged, w, now')) <= Cardinality(Counted(charged, w, now))
        /\ Cardinality(Counted(charged, w, now')) \in Nat
        /\ Cardinality(Counted(charged, w, now)) \in Nat
    BY <1>2, CountedFinite, Smaller DEF QuotaInv
  <2> QED
    BY <2>2, <2>3, Constants DEF QuotaInv
<1> QED
  BY <1>3, <1>4 DEF QuotaInv

LEMMA QuotaCheck ==
  ASSUME TypeOK, QuotaInv, NEW c \in Caller, Check(c)
  PROVE  QuotaInv'
<1>1. now \in Int /\ \A r \in charged : r.at \in Nat
  BY DEF TypeOK, Charge
<1>2. ASSUME NEW w \in Window
      PROVE  Cardinality(Counted(charged, w, now)) + Cardinality(Passed')
               < w.limit + Cardinality(Caller)
  <2>1. Counted(charged, w, now) = Counted(ledger, w, now)
    BY <1>1, Constants DEF QuotaInv, Counted, TypeOK
  <2>2. Cardinality(Counted(ledger, w, now)) + 1 <= w.limit
    BY DEF Check, Fits
  <2>3. Cardinality(Passed') \in Nat /\ Cardinality(Passed') <= Cardinality(Caller)
    <3>1. Passed' \in SUBSET Caller
      BY DEF Passed
    <3> QED
      BY <3>1, Callers
  <2>4. Cardinality(Counted(charged, w, now)) \in Nat
    BY CountedFinite DEF QuotaInv
  <2> QED
    BY <2>1, <2>2, <2>3, <2>4, Constants
<1> QED
  BY <1>2 DEF QuotaInv, Check

LEMMA QuotaSpend ==
  ASSUME TypeOK, QuotaInv, NEW c \in Caller, Spend(c)
  PROVE  QuotaInv'
<1> DEFINE row == [id |-> charges, at |-> now]
<1>1. /\ charged' = charged \cup {row} /\ ledger' = Pruned(ledger, now) \cup {row}
      /\ UNCHANGED now
  BY DEF Spend
<1>2. now \in Nat /\ \A r \in charged : r.at \in Nat
  BY DEF TypeOK, Charge
<1> HIDE DEF row
<1>3. IsFiniteSet(charged')
  BY <1>1, FS_AddElement DEF QuotaInv
<1>4. ASSUME NEW r \in charged' \ ledger', NEW w \in Window PROVE r.at < now' - w.seconds
  <2>1. r \in charged /\ r \notin Pruned(ledger, now)
    BY <1>1, <1>4
  <2>2. CASE r \notin ledger
    BY <1>1, <2>1, <2>2 DEF QuotaInv
  <2>3. CASE r \in ledger
    BY <1>1, <1>2, <2>1, <2>3, Constants DEF Pruned
  <2> QED
    BY <2>2, <2>3
<1>5. ASSUME NEW w \in Window
      PROVE  Cardinality(Counted(charged', w, now)) + Cardinality(Passed')
               < w.limit + Cardinality(Caller)
  <2>1. Counted(charged', w, now) \in SUBSET (Counted(charged, w, now) \cup {row})
    BY <1>1 DEF Counted
  <2>2. /\ IsFiniteSet(Counted(charged, w, now))
        /\ Cardinality(Counted(charged, w, now)) \in Nat
    BY CountedFinite DEF QuotaInv
  <2>3. /\ IsFiniteSet(Counted(charged, w, now) \cup {row})
        /\ Cardinality(Counted(charged, w, now) \cup {row})
             <= Cardinality(Counted(charged, w, now)) + 1
    BY <2>2, FS_AddElement
  <2>4. /\ Cardinality(Counted(charged', w, now)) <= Cardinality(Counted(charged, w, now)) + 1
        /\ Cardinality(Counted(charged', w, now)) \in Nat
    BY <2>1, <2>2, <2>3, Smaller
  <2>5. Cardinality(Passed') = Cardinality(Passed) - 1 /\ Cardinality(Passed) \in Nat
    <3>1. Passed \in SUBSET Caller /\ c \in Passed /\ Passed' = Passed \ {c}
      BY DEF Spend, Passed, TypeOK
    <3> QED
      BY <3>1, Callers, FS_RemoveElement
  <2> QED
    BY <2>2, <2>4, <2>5, Constants DEF QuotaInv
<1> QED
  BY <1>1, <1>3, <1>4, <1>5 DEF QuotaInv

LEMMA QuotaReset ==
  ASSUME TypeOK, QuotaInv, Reset
  PROVE  QuotaInv'
<1>1. charged' = {} /\ ledger' = {} /\ \A w \in Window : Counted(charged', w, now') = {}
  BY DEF Reset, Counted
<1>2. Passed' \in SUBSET Caller
  BY DEF Passed
<1>3. Cardinality(Passed') \in Nat /\ Cardinality(Passed') <= Cardinality(Caller)
  BY <1>2, Callers
<1>4. ASSUME NEW w \in Window
      PROVE  Cardinality(Counted(charged', w, now')) + Cardinality(Passed')
               < w.limit + Cardinality(Caller)
  <2>1. Cardinality(Counted(charged', w, now')) = 0
    BY <1>1, FS_EmptySet
  <2>2. w.limit \in Nat \ {0}
    BY Constants
  <2> QED
    BY <1>3, <2>1, <2>2, Constants
<1>5. IsFiniteSet(charged') /\ charged' \ ledger' = {}
  BY <1>1, FS_EmptySet
<1> QED
  BY <1>4, <1>5 DEF QuotaInv

LEMMA QuotaNext ==
  ASSUME TypeOK, TypeOK', QuotaInv, [Next]_vars
  PROVE  QuotaInv'
<1>1. now \in Int
  BY DEF TypeOK
<1>2. CASE UNCHANGED vars
  BY <1>1, <1>2, QuotaFewer DEF vars, Passed
<1>3. ASSUME NEW c \in Caller,
             Pace(c) \/ Send(c) \/ Answer(c) \/ Retry(c) \/ Crash(c)
      PROVE  QuotaInv'
  BY <1>1, <1>3, QuotaFewer
     DEF TypeOK, Pace, Send, Answer, Retry, Crash, End, Passed
<1>4. CASE Tick
  BY <1>1, <1>4, QuotaFewer DEF Tick, Passed
<1> QED
  BY <1>2, <1>3, <1>4, QuotaCheck, QuotaSpend, QuotaReset DEF Next

-----------------------------------------------------------------------------
(* The pace.                                                               *)

LEMMA UsedGrows ==
  ASSUME TypeOK, NEW k \in Client, NEW T \in SUBSET Caller, NEW S \in SUBSET T
  PROVE  /\ Used(k, S) \in Nat /\ Used(k, T) \in Nat
         /\ Used(k, S) <= Used(k, T)
<1>1. /\ Cardinality(S) \in Nat /\ Cardinality(T) \in Nat
      /\ Cardinality(S) <= Cardinality(T)
  BY Callers, Smaller
<1>2. sent[k] \in Nat /\ Interval \in Nat
  BY Constants DEF TypeOK
<1> DEFINE low == sent[k] + Cardinality(S)
           high == sent[k] + Cardinality(T)
<1>3. low \in Nat /\ high \in Nat /\ low <= high
  BY <1>1, <1>2
<1> HIDE DEF low, high
<1>4. low * Interval \in Nat /\ high * Interval \in Nat
  BY <1>2, <1>3, Times
<1>5. low * Interval <= high * Interval
  BY <1>2, <1>3, Times
<1> QED
  BY <1>4, <1>5 DEF Used, low, high

LEMMA PaceInit == Init => PaceInv
<1> SUFFICES ASSUME Init PROVE PaceInv
    OBVIOUS
<1>1. \A k \in Client : Waiting(k) = {} /\ \A t \in Nat : Due(k, t) = {}
  BY DEF Init, Waiting, Due
<1>2. \A k \in Client : Used(k, {}) = 0
  BY FS_EmptySet, Constants DEF Init, Used
<1>3. \A c \in Caller : pc[c] # "wait"
  BY DEF Init
<1>4. \A k \in Client : slot[k] = 0
  BY DEF Init
<1>5. \A k \in Client : Used(k, Waiting(k)) = 0
  BY <1>1, <1>2
<1>6. \A k \in Client, t \in Nat : Used(k, Due(k, t)) = 0
  BY <1>1, <1>2
<1>7. \A t \in Nat : 0 <= t + Interval
  BY Constants
<1> QED
  BY <1>3, <1>4, <1>5, <1>6, <1>7 DEF PaceInv

\* Steps that give out no slot and send nothing.
LEMMA PaceFewer ==
  ASSUME TypeOK, TypeOK', PaceInv, UNCHANGED <<slot, sent>>, now' >= now,
         \A c \in Caller : pc'[c] = "wait" => pc[c] = "wait" /\ wake'[c] = wake[c]
  PROVE  PaceInv'
<1>1. /\ \A c \in Caller : pc'[c] = "wait" => wake'[c] + Interval <= slot'[ClientOf[c]]
      /\ \A c, d \in Caller :
           pc'[c] = "wait" /\ pc'[d] = "wait" /\ ClientOf[c] = ClientOf[d] /\ c # d =>
             wake'[c] >= wake'[d] + Interval \/ wake'[d] >= wake'[c] + Interval
  BY DEF PaceInv
<1>2. ASSUME NEW k \in Client PROVE Used(k, Waiting(k))' <= slot'[k]
  <2>1. Waiting(k)' \in SUBSET Waiting(k) /\ Waiting(k) \in SUBSET Caller
    BY DEF Waiting
  <2>2. /\ Used(k, Waiting(k)') <= Used(k, Waiting(k))
        /\ Used(k, Waiting(k)') \in Nat /\ Used(k, Waiting(k)) \in Nat
    BY <2>1, UsedGrows
  <2>3. Used(k, Waiting(k))' = Used(k, Waiting(k)')
    BY DEF Used
  <2> QED
    BY <2>2, <2>3 DEF PaceInv, TypeOK
<1>3. ASSUME NEW k \in Client, NEW t \in Nat, t >= now'
      PROVE  Used(k, Due(k, t))' <= t + Interval
  <2>1. Due(k, t)' \in SUBSET Due(k, t) /\ Due(k, t) \in SUBSET Caller
    BY DEF Waiting, Due
  <2>2. /\ Used(k, Due(k, t)') <= Used(k, Due(k, t))
        /\ Used(k, Due(k, t)') \in Nat /\ Used(k, Due(k, t)) \in Nat
    BY <2>1, UsedGrows
  <2>3. Used(k, Due(k, t))' = Used(k, Due(k, t)')
    BY DEF Used
  <2>4. t >= now
    BY <1>3 DEF TypeOK
  <2>5. Used(k, Due(k, t)) <= t + Interval
    BY <2>4 DEF PaceInv
  <2> QED
    BY <2>2, <2>3, <2>5, Constants
<1> QED
  BY <1>1, <1>2, <1>3 DEF PaceInv

\* One more waits: its slot is behind those given out, and none of theirs is
\* after it.
LEMMA PacePace ==
  ASSUME TypeOK, TypeOK', PaceInv, NEW c \in Caller, Pace(c)
  PROVE  PaceInv'
<1> DEFINE own == ClientOf[c]
           start == Later(slot[own], now)
<1>1. own \in Client /\ slot[own] \in Nat /\ now \in Nat /\ Interval \in Nat
  BY Constants DEF TypeOK
<1>2. start \in Nat /\ start >= slot[own] /\ start >= now
  BY <1>1 DEF Later
<1>3. /\ wake' = [wake EXCEPT ![c] = start]
      /\ slot' = [slot EXCEPT ![own] = start + Interval]
      /\ pc' = [pc EXCEPT ![c] = "wait"] /\ pc[c] = "pace"
      /\ UNCHANGED <<now, sent>>
  BY DEF Pace, NextSlot
<1> HIDE DEF start
<1>4. wake'[c] = start /\ slot'[own] = start + Interval /\ pc'[c] = "wait"
  BY <1>1, <1>3 DEF TypeOK
<1>5. \A d \in Caller \ {c} : wake'[d] = wake[d] /\ pc'[d] = pc[d] /\ wake[d] \in Nat
  BY <1>3 DEF TypeOK
<1>6. \A k \in Client \ {own} : slot'[k] = slot[k]
  BY <1>3 DEF TypeOK
<1>7. ASSUME NEW d \in Caller, pc'[d] = "wait"
      PROVE  wake'[d] + Interval <= slot'[ClientOf[d]]
  <2>1. CASE d = c
    BY <1>1, <1>2, <1>4, <2>1
  <2>2. CASE d # c
    <3>1. wake'[d] = wake[d] /\ wake[d] \in Nat /\ wake[d] + Interval <= slot[ClientOf[d]]
      BY <1>5, <1>7, <2>2 DEF PaceInv
    <3>2. ClientOf[d] \in Client
      BY Constants
    <3>3. CASE ClientOf[d] = own
      BY <1>1, <1>2, <1>4, <3>1, <3>3
    <3>4. CASE ClientOf[d] # own
      BY <1>6, <3>1, <3>2, <3>4
    <3> QED
      BY <3>3, <3>4
  <2> QED
    BY <2>1, <2>2
<1>8. \A d \in Caller \ {c} :
        pc'[d] = "wait" /\ ClientOf[d] = own => wake'[c] >= wake'[d] + Interval
  <2> SUFFICES ASSUME NEW d \in Caller \ {c}, pc'[d] = "wait", ClientOf[d] = own
               PROVE  wake'[c] >= wake'[d] + Interval
      OBVIOUS
  <2>1. wake'[d] = wake[d] /\ wake[d] \in Nat /\ wake[d] + Interval <= slot[own]
    BY <1>5 DEF PaceInv
  <2> QED
    BY <1>1, <1>2, <1>4, <2>1
<1>9. ASSUME NEW d \in Caller, NEW e \in Caller,
             pc'[d] = "wait", pc'[e] = "wait", ClientOf[d] = ClientOf[e], d # e
      PROVE  wake'[d] >= wake'[e] + Interval \/ wake'[e] >= wake'[d] + Interval
  <2>1. CASE d = c
    BY <1>8, <1>9, <2>1
  <2>2. CASE e = c
    BY <1>8, <1>9, <2>2
  <2>3. CASE d # c /\ e # c
    BY <1>5, <1>9, <2>3 DEF PaceInv
  <2> QED
    BY <2>1, <2>2, <2>3
<1>10. \A k \in Client \ {own} :
         Waiting(k)' = Waiting(k) /\ \A t \in Nat : Due(k, t)' = Due(k, t)
  BY <1>5 DEF Waiting, Due
<1>11. Waiting(own)' = Waiting(own) \cup {c} /\ c \notin Waiting(own)
  BY <1>3, <1>4, <1>5 DEF Waiting
<1>12. /\ Used(own, Waiting(own))' <= start + Interval
       /\ Used(own, Waiting(own)') = Used(own, Waiting(own))'
  <2>1. Waiting(own) \in SUBSET Caller
    BY DEF Waiting
  <2>2. IsFiniteSet(Waiting(own)) /\ Cardinality(Waiting(own)) \in Nat
    BY <2>1, Callers
  <2>3. Cardinality(Waiting(own)') = Cardinality(Waiting(own)) + 1
    BY <1>11, <2>2, FS_AddElement
  <2> DEFINE n == sent[own] + Cardinality(Waiting(own))
  <2>4. n \in Nat /\ sent[own] \in Nat
    BY <1>1, <2>2 DEF TypeOK
  <2>5. (n + 1) * Interval = n * Interval + Interval /\ n * Interval \in Nat
    <3> HIDE DEF n
    <3> QED
      BY <1>1, <2>4, Times
  <2>6. n * Interval <= slot[own]
    BY <1>1 DEF PaceInv, Used
  <2>7. sent'[own] + Cardinality(Waiting(own)') = n + 1
    BY <1>3, <2>2, <2>3, <2>4
  <2>8. Used(own, Waiting(own))' = (n + 1) * Interval
    BY <2>7 DEF Used
  <2>9. Used(own, Waiting(own)') = Used(own, Waiting(own))'
    BY <1>3 DEF Used
  <2> HIDE DEF n
  <2> QED
    BY <1>1, <1>2, <2>4, <2>5, <2>6, <2>8, <2>9
<1>13. ASSUME NEW k \in Client PROVE Used(k, Waiting(k))' <= slot'[k]
  <2>1. CASE k = own
    BY <1>4, <1>12, <2>1
  <2>2. CASE k # own
    <3>1. Used(k, Waiting(k))' = Used(k, Waiting(k)) /\ slot'[k] = slot[k]
      BY <1>3, <1>6, <1>10, <2>2 DEF Used
    <3> QED
      BY <3>1 DEF PaceInv
  <2> QED
    BY <2>1, <2>2
<1>14. ASSUME NEW k \in Client, NEW t \in Nat, t >= now'
       PROVE  Used(k, Due(k, t))' <= t + Interval
  <2>0. t >= now
    BY <1>3, <1>14
  <2>1. CASE k # own
    <3>1. Used(k, Due(k, t))' = Used(k, Due(k, t))
      BY <1>3, <1>10, <2>1 DEF Used
    <3> QED
      BY <2>0, <3>1 DEF PaceInv
  <2>2. CASE k = own /\ t < start
    <3>1. Due(k, t)' = Due(k, t)
      BY <1>2, <1>3, <1>4, <1>5, <2>2 DEF Due, Waiting
    <3>2. Used(k, Due(k, t))' = Used(k, Due(k, t))
      BY <1>3, <3>1 DEF Used
    <3> QED
      BY <2>0, <3>2 DEF PaceInv
  <2>3. CASE k = own /\ t >= start
    <3>1. Due(own, t)' \in SUBSET Waiting(own)' /\ Waiting(own)' \in SUBSET Caller
      BY DEF Due, Waiting
    <3>2. /\ Used(own, Due(own, t)') <= Used(own, Waiting(own)')
          /\ Used(own, Due(own, t)') \in Nat /\ Used(own, Waiting(own)') \in Nat
      BY <1>1, <3>1, UsedGrows
    <3>3. Used(own, Due(own, t))' = Used(own, Due(own, t)')
      BY <1>3 DEF Used
    <3> QED
      BY <1>1, <1>2, <1>12, <2>3, <3>2, <3>3
  <2> QED
    BY <1>1, <1>2, <2>1, <2>2, <2>3
<1> QED
  BY <1>7, <1>9, <1>13, <1>14 DEF PaceInv

\* One of those that waited is sent: it was due, by any time from now on.
LEMMA PaceSend ==
  ASSUME TypeOK, TypeOK', PaceInv, NEW c \in Caller, Send(c)
  PROVE  PaceInv'
<1> DEFINE own == ClientOf[c]
<1>1. own \in Client /\ sent[own] \in Nat /\ now \in Nat /\ wake[c] \in Nat
  BY Constants DEF TypeOK
<1>2. /\ sent' = [sent EXCEPT ![own] = @ + 1] /\ pc' = [pc EXCEPT ![c] = "answer"]
      /\ pc[c] = "wait" /\ now >= wake[c] /\ UNCHANGED <<now, slot, wake>>
  BY DEF Send
<1>3. /\ sent'[own] = sent[own] + 1 /\ pc'[c] = "answer"
      /\ \A k \in Client \ {own} : sent'[k] = sent[k]
      /\ \A d \in Caller \ {c} : pc'[d] = pc[d]
  BY <1>1, <1>2 DEF TypeOK
<1>4. /\ \A d \in Caller : pc'[d] = "wait" => wake'[d] + Interval <= slot'[ClientOf[d]]
      /\ \A d, e \in Caller :
           pc'[d] = "wait" /\ pc'[e] = "wait" /\ ClientOf[d] = ClientOf[e] /\ d # e =>
             wake'[d] >= wake'[e] + Interval \/ wake'[e] >= wake'[d] + Interval
  BY <1>2, <1>3 DEF PaceInv
<1>5. ASSUME NEW k \in Client \ {own}
      PROVE  Waiting(k)' = Waiting(k) /\ \A t \in Nat : Due(k, t)' = Due(k, t)
  BY <1>2, <1>3 DEF Waiting, Due
\* What was waiting is now sent: together they are as many.
<1>6. ASSUME NEW S \in SUBSET Caller, c \in S
      PROVE  Used(own, S) = (sent'[own] + Cardinality(S \ {c})) * Interval
  <2>1. /\ IsFiniteSet(S) /\ Cardinality(S) \in Nat
        /\ Cardinality(S \ {c}) = Cardinality(S) - 1
    BY <1>6, Callers, FS_RemoveElement
  <2>2. sent'[own] + Cardinality(S \ {c}) = sent[own] + Cardinality(S)
    BY <1>1, <1>3, <2>1
  <2> QED
    BY <2>2 DEF Used
<1>7. ASSUME NEW k \in Client PROVE Used(k, Waiting(k))' <= slot'[k]
  <2>1. CASE k = own
    <3>1. Waiting(own) \in SUBSET Caller /\ c \in Waiting(own)
      BY <1>2 DEF Waiting
    <3>2. Waiting(own)' = Waiting(own) \ {c}
      BY <1>2, <1>3 DEF Waiting
    <3>3. Used(own, Waiting(own))' = Used(own, Waiting(own))
      BY <1>6, <3>1, <3>2 DEF Used
    <3> QED
      BY <1>1, <1>2, <2>1, <3>3 DEF PaceInv
  <2>2. CASE k # own
    <3>1. Used(k, Waiting(k))' = Used(k, Waiting(k))
      BY <1>3, <1>5, <2>2 DEF Used
    <3> QED
      BY <1>2, <3>1 DEF PaceInv
  <2> QED
    BY <2>1, <2>2
<1>8. ASSUME NEW k \in Client, NEW t \in Nat, t >= now'
      PROVE  Used(k, Due(k, t))' <= t + Interval
  <2>0. t >= now
    BY <1>2, <1>8
  <2>1. CASE k = own
    <3>1. Due(own, t) \in SUBSET Caller /\ c \in Due(own, t)
      BY <1>1, <1>2, <2>0 DEF Due, Waiting
    <3>2. Due(own, t)' = Due(own, t) \ {c}
      BY <1>2, <1>3 DEF Due, Waiting
    <3>3. Used(own, Due(own, t))' = Used(own, Due(own, t))
      BY <1>6, <3>1, <3>2 DEF Used
    <3> QED
      BY <1>1, <2>0, <2>1, <3>3 DEF PaceInv
  <2>2. CASE k # own
    <3>1. Used(k, Due(k, t))' = Used(k, Due(k, t))
      BY <1>3, <1>5, <2>2 DEF Used
    <3> QED
      BY <2>0, <3>1 DEF PaceInv
  <2> QED
    BY <2>1, <2>2
<1> QED
  BY <1>4, <1>7, <1>8 DEF PaceInv

LEMMA PaceNext ==
  ASSUME TypeOK, TypeOK', PaceInv, [Next]_vars
  PROVE  PaceInv'
<1>1. now \in Int
  BY DEF TypeOK
<1>2. CASE UNCHANGED vars
  BY <1>1, <1>2, PaceFewer DEF vars
<1>3. ASSUME NEW c \in Caller,
             Check(c) \/ Spend(c) \/ Answer(c) \/ Retry(c) \/ Crash(c)
      PROVE  PaceInv'
  <2>1. UNCHANGED <<slot, sent, now>>
    BY <1>3 DEF Check, Spend, Answer, Retry, Crash, End
  <2>2. \A d \in Caller : pc'[d] = "wait" => pc[d] = "wait" /\ wake'[d] = wake[d]
    BY <1>3 DEF TypeOK, Check, Spend, Answer, Retry, Crash, End
  <2> QED
    BY <1>1, <2>1, <2>2, PaceFewer
<1>4. CASE Reset \/ Tick
  BY <1>1, <1>4, PaceFewer DEF Reset, Tick
<1> QED
  BY <1>2, <1>3, <1>4, PacePace, PaceSend DEF Next

-----------------------------------------------------------------------------
(* The theorems.                                                           *)

LEMMA Invariance == Spec => [](TypeOK /\ QuotaInv /\ PaceInv)
<1>1. Init => TypeOK /\ QuotaInv /\ PaceInv
  BY TypeInit, QuotaInit, PaceInit
<1>2. TypeOK /\ QuotaInv /\ PaceInv /\ [Next]_vars
        => (TypeOK /\ QuotaInv /\ PaceInv)'
  BY TypeNext, QuotaNext, PaceNext
<1> QED
  BY <1>1, <1>2, PTL DEF Spec

\* Every variable keeps its type, and who waits has a slot behind it.
THEOREM TypeCorrect == Spec => []TypeOK
BY Invariance, PTL

\* Whatever callers in whatever processes interleave the check of the windows
\* (state) with the charge (spend), no window holds the limit and a caller more.
THEOREM QuotaHolds == Spec => []WindowRespected
<1>1. TypeOK /\ QuotaInv => WindowRespected
  <2> SUFFICES ASSUME TypeOK, QuotaInv, NEW w \in Window
               PROVE  Cardinality(Counted(charged, w, now)) < w.limit + Cardinality(Caller)
      BY DEF WindowRespected
  <2>1. Cardinality(Counted(charged, w, now)) \in Nat
    BY CountedFinite DEF QuotaInv
  <2>2. Passed \in SUBSET Caller
    BY DEF Passed
  <2>3. Cardinality(Passed) \in Nat
    BY <2>2, Callers
  <2> QED
    BY <2>1, <2>3, Constants DEF QuotaInv
<1> QED
  BY <1>1, Invariance, PTL

\* A client (_pace) never sends faster than its interval, whatever its threads,
\* their retries and their deaths do.
THEOREM PaceHolds == Spec => []Polite
<1>1. TypeOK /\ PaceInv => Polite
  <2> SUFFICES ASSUME TypeOK, PaceInv, NEW k \in Client, sent[k] > 0
               PROVE  (sent[k] - 1) * Interval <= now
      BY DEF PaceInv, Polite
  <2>1. now \in Nat /\ sent[k] \in Nat /\ sent[k] - 1 \in Nat /\ Interval \in Nat
    BY Constants DEF TypeOK
  <2>2. Used(k, Due(k, now)) <= now + Interval
    BY <2>1 DEF PaceInv
  <2>3. {} \in SUBSET Due(k, now) /\ Due(k, now) \in SUBSET Caller
    BY DEF Due, Waiting
  <2>4. /\ Used(k, {}) <= Used(k, Due(k, now))
        /\ Used(k, {}) \in Nat /\ Used(k, Due(k, now)) \in Nat
    BY <2>3, UsedGrows
  <2>5. Used(k, {}) = sent[k] * Interval
    BY <2>1, FS_EmptySet DEF Used
  <2> DEFINE n == sent[k] - 1
  <2>6. (n + 1) * Interval = n * Interval + Interval /\ n * Interval \in Nat
    <3>1. n \in Nat
      BY <2>1
    <3> HIDE DEF n
    <3> QED
      BY <2>1, <3>1, Times
  <2>7. n + 1 = sent[k]
    BY <2>1
  <2>8. (n + 1) * Interval <= now + Interval
    BY <2>1, <2>2, <2>4, <2>5, <2>7
  <2> HIDE DEF n
  <2>9. n * Interval <= now
    BY <2>1, <2>6, <2>8
  <2> QED
    BY <2>9 DEF n
<1> QED
  BY <1>1, Invariance, PTL

-----------------------------------------------------------------------------
(* The advice.  What a finite set of integers has: a greatest element, and  *)
(* a least.  Both are minimal elements of a family of finite sets under     *)
(* strict inclusion.                                                        *)

LEMMA Greatest ==
  ASSUME NEW T \in SUBSET Int, IsFiniteSet(T), T # {}
  PROVE  \E m \in T : \A x \in T : x <= m
<1> DEFINE Above(m) == {x \in T : m <= x}
           Family == {Above(m) : m \in T}
<1>1. Family \subseteq FiniteSubsetsOf(T) /\ Family # {}
  <2>1. \A m \in T : Above(m) \in SUBSET T
    OBVIOUS
  <2>2. \A m \in T : IsFiniteSet(Above(m))
    BY <2>1, FS_Subset
  <2> QED
    BY <2>1, <2>2 DEF FiniteSubsetsOf
<1>2. PICK S \in Family : \A U \in Family : <<U, S>> \notin StrictSubsetOrdering(T)
  <2> HIDE DEF Family
  <2> QED
    BY <1>1, FS_StrictSubsetOrderingWellFounded, WFMin
<1>3. PICK m \in T : S = Above(m)
  OBVIOUS
<1>4. ASSUME NEW x \in T, ~ (x <= m) PROVE FALSE
  <2>1. x \in Int /\ m \in Int /\ m < x
    BY <1>4
  <2>2. ASSUME NEW y \in T, x <= y PROVE m <= y
    <3>1. y \in Int
      OBVIOUS
    <3> QED
      BY <2>1, <2>2, <3>1
  <2>3. m \in Above(m) /\ m \notin Above(x)
    BY <2>1
  <2>4. <<Above(x), Above(m)>> \in StrictSubsetOrdering(T)
    BY <2>2, <2>3 DEF StrictSubsetOrdering
  <2>5. Above(x) \in Family
    OBVIOUS
  <2> HIDE DEF Above, Family
  <2> QED
    BY <1>2, <1>3, <2>4, <2>5
<1> QED
  BY <1>4

LEMMA Least ==
  ASSUME NEW T \in SUBSET Int, IsFiniteSet(T), T # {}
  PROVE  \E m \in T : \A x \in T : m <= x
<1> DEFINE Below(m) == {x \in T : x <= m}
           Family == {Below(m) : m \in T}
<1>1. Family \subseteq FiniteSubsetsOf(T) /\ Family # {}
  <2>1. \A m \in T : Below(m) \in SUBSET T
    OBVIOUS
  <2>2. \A m \in T : IsFiniteSet(Below(m))
    BY <2>1, FS_Subset
  <2> QED
    BY <2>1, <2>2 DEF FiniteSubsetsOf
<1>2. PICK S \in Family : \A U \in Family : <<U, S>> \notin StrictSubsetOrdering(T)
  <2> HIDE DEF Family
  <2> QED
    BY <1>1, FS_StrictSubsetOrderingWellFounded, WFMin
<1>3. PICK m \in T : S = Below(m)
  OBVIOUS
<1>4. ASSUME NEW x \in T, ~ (m <= x) PROVE FALSE
  <2>1. x \in Int /\ m \in Int /\ x < m
    BY <1>4
  <2>2. ASSUME NEW y \in T, y <= x PROVE y <= m
    <3>1. y \in Int
      OBVIOUS
    <3> QED
      BY <2>1, <2>2, <3>1
  <2>3. m \in Below(m) /\ m \notin Below(x)
    BY <2>1
  <2>4. <<Below(x), Below(m)>> \in StrictSubsetOrdering(T)
    BY <2>2, <2>3 DEF StrictSubsetOrdering
  <2>5. Below(x) \in Family
    OBVIOUS
  <2> HIDE DEF Below, Family
  <2> QED
    BY <1>2, <1>3, <2>4, <2>5
<1> QED
  BY <1>4

\* The rows of a set, up to a time and before it.
UpTo(S, t) == {r \in S : r.at <= t}
Before(S, t) == {r \in S : r.at < t}

\* Finitely many rows have finitely many times.
LEMMA TimesFinite ==
  ASSUME NEW S, IsFiniteSet(S)
  PROVE  IsFiniteSet({r.at : r \in S})
<1> DEFINE at == [r \in S |-> r.at]
<1>1. at \in Surjection(S, {r.at : r \in S})
  BY DEF Surjection
<1> QED
  BY <1>1, FS_Surjection

\* The k-th oldest of k rows or more: k were charged by its time, and fewer
\* before it.
LEMMA KthOldestIs ==
  ASSUME NEW S \in SUBSET Charge, IsFiniteSet(S),
         NEW k \in Nat \ {0}, k <= Cardinality(S)
  PROVE  /\ KthOldest(S, k) \in {r.at : r \in S}
         /\ Cardinality(UpTo(S, KthOldest(S, k))) >= k
         /\ Cardinality(Before(S, KthOldest(S, k))) < k
<1> DEFINE times == {r.at : r \in S}
           enough == {t \in times : Cardinality(UpTo(S, t)) >= k}
<1>1. times \in SUBSET Nat /\ IsFiniteSet(times)
  BY TimesFinite DEF Charge
<1>2. \A t \in Nat : /\ Cardinality(UpTo(S, t)) \in Nat
                     /\ Cardinality(Before(S, t)) \in Nat
  <2>1. \A t \in Nat : UpTo(S, t) \in SUBSET S /\ Before(S, t) \in SUBSET S
    BY DEF UpTo, Before
  <2> QED
    BY <2>1, Smaller
<1>3. enough # {}
  <2>1. times # {}
    <3>1. S # {}
      BY FS_EmptySet, FS_CardinalityType
    <3> QED
      BY <3>1
  <2>2. PICK t \in times : \A x \in times : x <= t
    <3> HIDE DEF times
    <3> QED
      BY <1>1, <2>1, Greatest
  <2>3. UpTo(S, t) = S
    BY <2>2 DEF UpTo
  <2> QED
    BY <2>3
<1>4. PICK t \in enough : \A x \in enough : t <= x
  <2>1. enough \in SUBSET times
    OBVIOUS
  <2> HIDE DEF times, enough
  <2>2. enough \in SUBSET Int
    BY <1>1, <2>1
  <2>3. IsFiniteSet(enough)
    BY <1>1, <2>1, FS_Subset
  <2>4. enough # {}
    BY <1>3
  <2> QED
    BY <2>2, <2>3, <2>4, Least
<1>5. t \in times /\ t \in Nat /\ Cardinality(UpTo(S, t)) >= k
  <2>1. t \in times /\ Cardinality(UpTo(S, t)) >= k
    BY <1>4
  <2> HIDE DEF times
  <2> QED
    BY <1>1, <2>1
<1>6. Cardinality(Before(S, t)) < k
  <2> SUFFICES ASSUME Cardinality(Before(S, t)) >= k PROVE FALSE
      BY <1>2, <1>5
  <2> DEFINE earlier == {x \in times : x < t}
  <2>1. Before(S, t) # {}
    BY FS_EmptySet
  <2>2. earlier # {}
    BY <2>1 DEF Before
  <2>3. PICK u \in earlier : \A x \in earlier : x <= u
    <3>1. earlier \in SUBSET times
      OBVIOUS
    <3> HIDE DEF times, earlier
    <3>2. earlier \in SUBSET Int
      BY <1>1, <3>1
    <3>3. IsFiniteSet(earlier)
      BY <1>1, <3>1, FS_Subset
    <3> QED
      BY <2>2, <3>2, <3>3, Greatest
  <2>4. u \in times /\ u \in Nat /\ u < t
    <3>1. u \in times /\ u < t
      BY <2>3
    <3> HIDE DEF times
    <3> QED
      BY <1>1, <3>1
  <2>5. Before(S, t) \subseteq UpTo(S, u) /\ UpTo(S, u) \in SUBSET S
    BY <2>3 DEF Before, UpTo
  <2>6. /\ Cardinality(Before(S, t)) <= Cardinality(UpTo(S, u))
        /\ Cardinality(UpTo(S, u)) \in Nat /\ Cardinality(Before(S, t)) \in Nat
    BY <2>5, Smaller
  <2>7. u \in enough
    BY <2>4, <2>6
  <2> QED
    BY <1>4, <1>5, <2>4, <2>7
<1>7. /\ t \in times /\ Cardinality(UpTo(S, t)) >= k
      /\ Cardinality(Before(S, t)) < k
  BY <1>5, <1>6
<1> QED
  BY <1>7 DEF KthOldest, UpTo, Before

\* Rows without some of them.
LEMMA Without ==
  ASSUME NEW S, IsFiniteSet(S), NEW T \in SUBSET S
  PROVE  /\ IsFiniteSet(S \ T) /\ Cardinality(S \ T) \in Nat
         /\ Cardinality(S) \in Nat /\ Cardinality(T) \in Nat
         /\ Cardinality(S \ T) = Cardinality(S) - Cardinality(T)
<1>1. S \cap T = T
  OBVIOUS
<1> QED
  BY <1>1, Smaller, FS_Difference, FS_CardinalityType

\* The wait of one window (retry_after): until it is over the window has no
\* room, and afterwards it has.
LEMMA WaitIs ==
  ASSUME NEW S \in SUBSET Charge, IsFiniteSet(S), NEW w \in Window,
         NEW t \in Nat, NEW n \in Nat \ {0}, n <= w.limit
  PROVE  /\ Wait(S, w, n, t) \in Nat
         /\ Wait(S, w, n, t) = 0 \/ Cardinality(Counted(S, w, t)) + n > w.limit
         /\ Cardinality(Counted(S, w, t)) + n > w.limit =>
              \A u \in t..(t + Wait(S, w, n, t)) :
                Cardinality(Counted(S, w, u)) + n > w.limit
         /\ Cardinality(Counted(S, w, t + Wait(S, w, n, t) + 1)) + n <= w.limit
<1> DEFINE rows == Counted(S, w, t)
           short == Cardinality(rows) + n - w.limit
<1>1. /\ rows \in SUBSET S /\ rows \in SUBSET Charge
      /\ IsFiniteSet(rows) /\ Cardinality(rows) \in Nat
  <2>1. rows \in SUBSET S
    BY DEF Counted
  <2>2. IsFiniteSet(rows) /\ Cardinality(rows) \in Nat
    BY <2>1, Smaller
  <2> QED
    BY <2>1, <2>2
<1>2. w.seconds \in Nat /\ w.limit \in Nat
  BY Constants
<1>3. short \in Int /\ short <= Cardinality(rows)
  BY <1>1, <1>2
<1>4. \A r \in S : r.at \in Nat
  BY DEF Charge
<1>5. \A u \in Int : IsFiniteSet(Counted(S, w, u)) /\ Cardinality(Counted(S, w, u)) \in Nat
  BY CountedFinite
<1>6. CASE short <= 0
  <2>1. Wait(S, w, n, t) = 0
    BY <1>6 DEF Wait
  <2>2. ~ (Cardinality(Counted(S, w, t)) + n > w.limit)
    BY <1>1, <1>2, <1>6
  <2>3. Counted(S, w, t + 1) \in SUBSET rows
    BY <1>2, <1>4 DEF Counted
  <2>4. Cardinality(Counted(S, w, t + 1)) <= Cardinality(rows)
    BY <1>1, <2>3, Smaller
  <2>5. Cardinality(Counted(S, w, t + 1)) + n <= w.limit
    BY <1>1, <1>2, <1>5, <1>6, <2>4
  <2>6. t + 0 + 1 = t + 1
    OBVIOUS
  <2> QED
    BY <2>1, <2>2, <2>5, <2>6
<1>7. CASE short > 0
  <2> DEFINE k == KthOldest(rows, short)
  <2> HIDE DEF rows, short
  <2>1. short \in Nat \ {0}
    BY <1>3, <1>7
  <2>2. /\ k \in {r.at : r \in rows}
        /\ Cardinality(UpTo(rows, k)) >= short
        /\ Cardinality(Before(rows, k)) < short
    BY <1>1, <1>3, <2>1, KthOldestIs
  <2>3. k \in Nat /\ k >= t - w.seconds
    BY <1>1, <1>4, <2>2 DEF rows, Counted
  <2>4. Wait(S, w, n, t) = k + w.seconds - t
    BY <1>3, <1>7 DEF Wait, rows, short
  <2>5. Wait(S, w, n, t) \in Nat /\ t + Wait(S, w, n, t) = k + w.seconds
    BY <1>2, <2>3, <2>4
  <2>6. Cardinality(Counted(S, w, t)) + n > w.limit
    BY <1>1, <1>2, <1>7 DEF short, rows
  <2>7. ASSUME NEW u \in t..(k + w.seconds)
        PROVE  Cardinality(Counted(S, w, u)) + n > w.limit
    <3>1. u \in Int /\ u - w.seconds <= k
      BY <1>2, <2>3
    <3>2. rows \ Before(rows, k) \in SUBSET Counted(S, w, u)
      BY <1>1, <1>2, <1>4, <2>3, <3>1 DEF Before, Counted
    <3>3. Before(rows, k) \in SUBSET rows
      BY DEF Before
    <3>4. /\ Cardinality(rows \ Before(rows, k)) = Cardinality(rows) - Cardinality(Before(rows, k))
          /\ Cardinality(Before(rows, k)) \in Nat
      BY <1>1, <3>3, Without
    <3>5. Cardinality(rows \ Before(rows, k)) <= Cardinality(Counted(S, w, u))
      BY <1>5, <3>1, <3>2, Smaller
    <3>6. Cardinality(Counted(S, w, u)) \in Nat
      BY <1>5, <3>1
    <3> QED
      BY <1>1, <1>2, <2>2, <3>4, <3>5, <3>6 DEF short
  <2>8. Cardinality(Counted(S, w, k + w.seconds + 1)) + n <= w.limit
    <3> DEFINE u == k + w.seconds + 1
    <3>1. u \in Int /\ u - w.seconds = k + 1 /\ u >= t
      BY <1>2, <2>3
    <3> HIDE DEF u
    <3>2. Counted(S, w, u) \in SUBSET (rows \ UpTo(rows, k))
      <4>1. ASSUME NEW r \in S, r.at >= u - w.seconds
            PROVE  r.at >= t - w.seconds /\ ~ (r.at <= k)
        <5>1. r.at \in Nat
          BY <1>4
        <5> QED
          BY <1>2, <2>3, <3>1, <4>1, <5>1
      <4> QED
        BY <4>1 DEF UpTo, Counted, rows
    <3>3. UpTo(rows, k) \in SUBSET rows
      BY DEF UpTo
    <3>4. /\ Cardinality(rows \ UpTo(rows, k)) = Cardinality(rows) - Cardinality(UpTo(rows, k))
          /\ Cardinality(UpTo(rows, k)) \in Nat /\ IsFiniteSet(rows \ UpTo(rows, k))
      BY <1>1, <3>3, Without
    <3>5. Cardinality(Counted(S, w, u)) <= Cardinality(rows \ UpTo(rows, k))
      BY <3>2, <3>4, Smaller
    <3>6. Cardinality(Counted(S, w, u)) \in Nat
      BY <1>5, <3>1
    <3>7. Cardinality(Counted(S, w, u)) + n <= w.limit
      BY <1>1, <1>2, <2>2, <3>4, <3>5, <3>6 DEF short
    <3> QED
      BY <3>7 DEF u
  <2> QED
    BY <2>5, <2>6, <2>7, <2>8
<1> QED
  BY <1>3, <1>6, <1>7

\* retry_after: the longest of the windows' waits.
LEMMA RetryAfterIs ==
  ASSUME NEW S \in SUBSET Charge, IsFiniteSet(S), NEW t \in Nat,
         NEW n \in Nat \ {0}, \A w \in Window : n <= w.limit
  PROVE  /\ \E w \in Window : RetryAfter(S, n, t) = Wait(S, w, n, t)
         /\ \A w \in Window : Wait(S, w, n, t) <= RetryAfter(S, n, t)
<1> DEFINE wait == [w \in Window |-> Wait(S, w, n, t)]
           waits == {Wait(S, w, n, t) : w \in Window}
<1>1. \A w \in Window : Wait(S, w, n, t) \in Nat
  BY WaitIs
<1>2. waits \in SUBSET Int
  BY <1>1
<1>3. IsFiniteSet(waits)
  <2>1. wait \in Surjection(Window, waits)
    BY DEF Surjection
  <2> HIDE DEF wait, waits
  <2> QED
    BY <2>1, FS_Surjection, RequestsAssumption
<1>4. waits # {}
  BY RequestsAssumption
<1>5. PICK d \in waits : \A x \in waits : x <= d
  <2> HIDE DEF waits
  <2> QED
    BY <1>2, <1>3, <1>4, Greatest
<1>6. \A w \in Window : Wait(S, w, n, t) <= d
  BY <1>5
<1>7. /\ RetryAfter(S, n, t) \in waits
      /\ \A w \in Window : Wait(S, w, n, t) <= RetryAfter(S, n, t)
  BY <1>6 DEF RetryAfter
<1> QED
  BY <1>7

\* The advice a refused caller gets (retry_after) is exact, whatever the
\* windows and their limits: until it has passed the source has no room for
\* what was asked, and the moment it has there is room.
THEOREM AdviceHonest == Spec => []RetryAfterHonest
<1>1. TypeOK /\ QuotaInv => RetryAfterHonest
  <2> SUFFICES ASSUME TypeOK, QuotaInv,
                      NEW n \in {m \in 1..2 : \A w \in Window : m <= w.limit},
                      ~Fits(ledger, n, now)
               PROVE  /\ \A u \in now..(now + RetryAfter(ledger, n, now)) :
                           ~Fits(ledger, n, u)
                      /\ Fits(ledger, n, now + RetryAfter(ledger, n, now) + 1)
      BY DEF RetryAfterHonest
  <2> DEFINE d == RetryAfter(ledger, n, now)
  <2>1. ledger \in SUBSET Charge /\ IsFiniteSet(ledger) /\ now \in Nat
    BY FS_Subset DEF TypeOK, QuotaInv
  <2>2. n \in Nat \ {0} /\ \A w \in Window : n <= w.limit
    OBVIOUS
  <2>3. \A w \in Window, u \in Int : Cardinality(Counted(ledger, w, u)) \in Nat
    BY <2>1, CountedFinite
  <2>4. /\ \E w \in Window : d = Wait(ledger, w, n, now)
        /\ \A w \in Window : Wait(ledger, w, n, now) <= d
    BY <2>1, <2>2, RetryAfterIs
  <2>5. PICK v \in Window : d = Wait(ledger, v, n, now)
    BY <2>4
  <2>6. d \in Nat
    BY <2>1, <2>2, <2>5, WaitIs
  <2> HIDE DEF d
  <2>7. ASSUME NEW u \in now..(now + d) PROVE ~Fits(ledger, n, u)
    <3>1. CASE Cardinality(Counted(ledger, v, now)) + n > v.limit
      <4>1. Cardinality(Counted(ledger, v, u)) + n > v.limit
        BY <2>1, <2>2, <2>5, <2>7, <3>1, WaitIs
      <4>2. Cardinality(Counted(ledger, v, u)) \in Nat /\ v.limit \in Nat
        BY <2>1, <2>3, <2>6, <2>7, Constants
      <4> QED
        BY <2>2, <4>1, <4>2 DEF Fits
    <3>2. CASE ~ (Cardinality(Counted(ledger, v, now)) + n > v.limit)
      <4>1. d = 0
        BY <2>1, <2>2, <2>5, <3>2, WaitIs
      <4>2. u = now
        BY <2>1, <2>7, <4>1
      <4> QED
        BY <4>2
    <3> QED
      BY <3>1, <3>2
  <2>8. Fits(ledger, n, now + d + 1)
    <3> SUFFICES ASSUME NEW w \in Window
                 PROVE  Cardinality(Counted(ledger, w, now + d + 1)) + n <= w.limit
        BY DEF Fits
    <3> DEFINE wait == Wait(ledger, w, n, now)
    <3>1. wait \in Nat /\ Cardinality(Counted(ledger, w, now + wait + 1)) + n <= w.limit
      BY <2>1, <2>2, WaitIs
    <3>2. wait <= d
      BY <2>4
    <3> HIDE DEF wait
    <3>3. now + wait + 1 \in Int /\ now + d + 1 \in Int /\ now + wait + 1 <= now + d + 1
      BY <2>1, <2>6, <3>1, <3>2
    <3>4. Counted(ledger, w, now + d + 1) \in SUBSET Counted(ledger, w, now + wait + 1)
      <4>1. \A r \in ledger : r.at \in Nat
        BY <2>1 DEF Charge
      <4>2. w.seconds \in Nat
        BY Constants
      <4> QED
        BY <3>3, <4>1, <4>2 DEF Counted
    <3>5. IsFiniteSet(Counted(ledger, w, now + wait + 1))
      BY <2>1, CountedFinite
    <3>6. Cardinality(Counted(ledger, w, now + d + 1))
            <= Cardinality(Counted(ledger, w, now + wait + 1))
      BY <3>4, <3>5, Smaller
    <3>7. /\ Cardinality(Counted(ledger, w, now + d + 1)) \in Nat
          /\ Cardinality(Counted(ledger, w, now + wait + 1)) \in Nat /\ w.limit \in Nat
      BY <2>3, <3>3, Constants
    <3> QED
      BY <2>2, <3>1, <3>6, <3>7
  <2> QED
    BY <2>7, <2>8 DEF d
<1> QED
  BY <1>1, Invariance, PTL
=============================================================================
