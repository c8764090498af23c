------------------------------ MODULE Requests ------------------------------
(***************************************************************************)
(* Asking a source with a quota.  A request is charged to a ledger that the *)
(* processes share, then waits for its turn at the paced client, whose slot *)
(* its threads take under a lock, then is sent and perhaps retried.  The    *)
(* ledger counts what was charged over several rolling windows; reading it  *)
(* and writing the charge are two statements.  Time is a counter of ticks.  *)
(***************************************************************************)
EXTENDS Integers, FiniteSets

CONSTANTS
  Caller,      \* the threads, of any process, that ask this source
  Client,      \* the paced clients, one of a process
  ClientOf,
  Window,      \* the rolling limits: [seconds, limit]
  Interval,    \* min_interval
  MaxRetries,  \* max_retries
  MaxTime,     \* bound: the clock
  MaxCharges,  \* bound: charges in all
  MaxResets    \* bound: ledgers an operator forgets

ASSUME RequestsAssumption ==
  /\ IsFiniteSet(Caller) /\ Caller # {}
  /\ ClientOf \in [Caller -> Client]
  /\ IsFiniteSet(Window) /\ Window # {}
  /\ Window \subseteq [seconds : Nat, limit : Nat \ {0}]
  /\ Interval \in Nat
  /\ MaxRetries \in Nat
  /\ MaxTime \in Nat /\ MaxCharges \in Nat /\ MaxResets \in Nat

VARIABLES
  now,
  ledger,   \* api_requests: the rows, [id, at]
  \* a client's _next_slot_at, and a caller: where it is, when it may send,
  \* how often it has retried
  slot, pc, wake, attempt,
  \* what the properties remember: every charge since the last reset, and how
  \* many requests a client has sent
  charged, sent,
  charges, resets

vars == <<now, ledger, slot, pc, wake, attempt, charged, sent, charges, resets>>

Charge == [id : Nat, at : Nat]

Init ==
  /\ now = 0
  /\ ledger = {}
  /\ slot = [c \in Client |-> 0]
  /\ pc = [c \in Caller |-> "idle"]
  /\ wake = [c \in Caller |-> 0]
  /\ attempt = [c \in Caller |-> 0]
  /\ charged = {}
  /\ sent = [c \in Client |-> 0]
  /\ charges = 0
  /\ resets = 0

-----------------------------------------------------------------------------
(* The ledger.                                                             *)

\* The rows of S a window counts at time t.
Counted(S, w, t) == {r \in S : r.at >= t - w.seconds}

\* state(): every window has room for n more.
Fits(S, n, t) == \A w \in Window : Cardinality(Counted(S, w, t)) + n <= w.limit

\* The time of the k-th oldest row of S.
KthOldest(S, k) ==
  CHOOSE t \in {r.at : r \in S} :
    /\ Cardinality({r \in S : r.at <= t}) >= k
    /\ Cardinality({r \in S : r.at < t}) < k

\* retry_after of one window: until enough of its oldest rows have aged out.
MutantWait(S, w, n, t) ==
  LET rows == Counted(S, w, t)
      short == Cardinality(rows) + n - w.limit
  IN IF short <= 0 THEN 0 ELSE KthOldest(rows, 1) + w.seconds - t

Wait(S, w, n, t) ==
  LET rows == Counted(S, w, t)
      short == Cardinality(rows) + n - w.limit
  IN IF short <= 0 THEN 0 ELSE KthOldest(rows, short) + w.seconds - t

RetryAfter(S, n, t) ==
  CHOOSE d \in {Wait(S, w, n, t) : w \in Window} :
    \A w \in Window : Wait(S, w, n, t) <= d

\* _prune: nothing older than two of the longest window.
MutantPruned(S, t) == {r \in S : \A w \in Window : r.at >= t - w.seconds}
Pruned(S, t) == {r \in S : \E w \in Window : r.at >= t - 2 * w.seconds}

-----------------------------------------------------------------------------
(* A call.                                                                 *)

\* spend() reads the windows ...
Check(c) ==
  /\ pc[c] = "idle"
  /\ charges < MaxCharges
  /\ Fits(ledger, 1, now)
  /\ pc' = [pc EXCEPT ![c] = "charge"]
  /\ UNCHANGED <<now, ledger, slot, wake, attempt, charged, sent, charges, resets>>

\* ... and then prunes and inserts, in one transaction.
Spend(c) ==
  /\ pc[c] = "charge"
  /\ charges' = charges + 1
  /\ LET row == [id |-> charges, at |-> now] IN
       /\ ledger' = Pruned(ledger, now) \cup {row}
       /\ charged' = charged \cup {row}
  /\ pc' = [pc EXCEPT ![c] = "pace"]
  /\ attempt' = [attempt EXCEPT ![c] = 0]
  /\ UNCHANGED <<now, slot, wake, sent, resets>>

Later(s, t) == IF s > t THEN s ELSE t

\* _pace: the slot is taken under the lock, the sleep is outside.
MutantNextSlot(start) == now + Interval
NextSlot(start) == start + Interval

Pace(c) ==
  /\ pc[c] = "pace"
  /\ LET start == Later(slot[ClientOf[c]], now) IN
       /\ wake' = [wake EXCEPT ![c] = start]
       /\ slot' = [slot EXCEPT ![ClientOf[c]] = NextSlot(start)]
  /\ pc' = [pc EXCEPT ![c] = "wait"]
  /\ UNCHANGED <<now, ledger, attempt, charged, sent, charges, resets>>

Send(c) ==
  /\ pc[c] = "wait"
  /\ now >= wake[c]
  /\ sent' = [sent EXCEPT ![ClientOf[c]] = @ + 1]
  /\ pc' = [pc EXCEPT ![c] = "answer"]
  /\ UNCHANGED <<now, ledger, slot, wake, attempt, charged, charges, resets>>

End(c) ==
  /\ pc' = [pc EXCEPT ![c] = "idle"]
  /\ wake' = [wake EXCEPT ![c] = 0]
  /\ attempt' = [attempt EXCEPT ![c] = 0]
  /\ UNCHANGED <<now, ledger, slot, charged, sent, charges, resets>>

\* An answer, a client error, or the last retry.
Answer(c) == pc[c] = "answer" /\ End(c)

MutantMayRetry(c) == attempt[c] <= MaxRetries
MayRetry(c) == attempt[c] < MaxRetries

\* A transport error, 429, 503 or 5xx: after a back-off of any length the
\* request is paced again.  It is not charged again.
Retry(c) ==
  /\ pc[c] = "answer"
  /\ MayRetry(c)
  /\ attempt' = [attempt EXCEPT ![c] = @ + 1]
  /\ pc' = [pc EXCEPT ![c] = "pace"]
  /\ UNCHANGED <<now, ledger, slot, wake, charged, sent, charges, resets>>

\* The process dies: what it charged stays charged.
Crash(c) == pc[c] # "idle" /\ End(c)

\* reset(), by an operator.
Reset ==
  /\ resets < MaxResets
  /\ resets' = resets + 1
  /\ ledger' = {}
  /\ charged' = {}
  /\ UNCHANGED <<now, slot, pc, wake, attempt, sent, charges>>

Tick ==
  /\ now < MaxTime
  /\ now' = now + 1
  /\ UNCHANGED <<ledger, slot, pc, wake, attempt, charged, sent, charges, resets>>

Next ==
  \/ \E c \in Caller : \/ Check(c) \/ Spend(c) \/ Pace(c) \/ Send(c) \/ Answer(c)
                       \/ Retry(c) \/ Crash(c)
  \/ Reset
  \/ Tick

Spec == Init /\ [][Next]_vars

-----------------------------------------------------------------------------
(* Properties.                                                             *)

\* Types, and that a waiting caller has a slot behind it.
TypeOK ==
  /\ now \in 0..MaxTime
  /\ ledger \subseteq Charge
  /\ charged \subseteq Charge
  /\ ledger \subseteq charged
  /\ \A r \in charged : r.id < charges /\ r.at <= now
  /\ slot \in [Client -> Nat]
  /\ pc \in [Caller -> {"idle", "charge", "pace", "wait", "answer"}]
  /\ wake \in [Caller -> Nat]
  /\ \A c \in Caller : pc[c] = "wait" => wake[c] <= slot[ClientOf[c]]
  /\ attempt \in [Caller -> 0..MaxRetries]
  /\ sent \in [Client -> Nat]
  /\ charges \in Nat /\ resets \in 0..MaxResets

\* Over any window the quota is exceeded by at most one request of every other
\* caller, although they check and charge in two statements, and although the
\* ledger is pruned of what a window might still count.
WindowRespected ==
  \A w \in Window :
    Cardinality(Counted(charged, w, now)) < w.limit + Cardinality(Caller)

\* A refused spend is told the moment capacity returns: it does not fit before
\* retry_after has passed, and it does after that.
RetryAfterHonest ==
  \A n \in {m \in 1..2 : \A w \in Window : m <= w.limit} :
    ~Fits(ledger, n, now) =>
      LET d == RetryAfter(ledger, n, now) IN
        /\ \A t \in now..(now + d) : ~Fits(ledger, n, t)
        /\ Fits(ledger, n, now + d + 1)

\* A client is no faster than its interval, whatever its threads do: two that
\* wait have slots an interval apart, and by any time it has sent no more
\* requests than fit into it; a redirect that httpx follows rides on its request's
\* turn.
Polite ==
  /\ \A c, d \in Caller :
       pc[c] = "wait" /\ pc[d] = "wait" /\ ClientOf[c] = ClientOf[d] /\ c # d =>
         wake[c] >= wake[d] + Interval \/ wake[d] >= wake[c] + Interval
  /\ \A k \in Client : sent[k] > 0 => (sent[k] - 1) * Interval <= now
=============================================================================
