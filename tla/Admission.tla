----------------------------- MODULE Admission -----------------------------
(***************************************************************************)
(* The gates an allowed request passes before it is authorized: the rate    *)
(* limits of the organization (acquire_rate_limits), the quota of its plan  *)
(* (action_quota_available), the budgets (module Ledger; here they say yes  *)
(* or no).  The plan is the one module Billing keeps, read when the request *)
(* begins.                                                                  *)
(*                                                                         *)
(* Counters live in Postgres, in buckets read and written under an advisory *)
(* lock of the organization, or in Redis, incremented one by one.  A refusal *)
(* commits: what was counted before it stays counted.                       *)
(***************************************************************************)
EXTENDS Billing

CONSTANTS
  Requests,   \* authorizations that are evaluated in a behaviour
  Limits,     \* active rate limits 1 .. Limits, in the order they are read
  Window,     \* Window[l]: window_seconds
  Quantity,   \* Quantity[l]: max_requests
  Actions,    \* Actions[plan]: protected actions of a month
  Month,      \* length of a month
  Stores,     \* which counters: a subset of {"postgres", "redis"}
  Horizon     \* bound on the clock

Limit == 1 .. Limits
Time == 0 .. Horizon
Refusals == {"denied", "rate_limited", "budget_exceeded"}

ASSUME AdmissionAssumption ==
  /\ Limits \in Nat
  /\ Horizon \in Nat
  /\ Window \in [Limit -> Nat \ {0}]
  /\ Quantity \in [Limit -> Nat]
  /\ Actions \in [Plans -> Nat]
  /\ Month \in Nat \ {0}
  /\ IsFiniteSet(Requests)

VARIABLES
  store,      \* settings.redis_host: where this deployment counts
  now,        \* the clock of the replicas
  buckets,    \* buckets[l][w]: the counter of limit l in its window w
  usage,      \* usage[m]: protected actions recorded in month m
  rateLock,   \* holders of the advisory lock "rate" of the organization
  quotaLock,  \* holders of the advisory lock "quota"
  req         \* req[r]: a request being evaluated, or what became of it

gateVars == <<store, now, buckets, usage, rateLock, quotaLock, req>>
vars == <<planVars, gateVars>>

Idle == [at |-> "idle", plan |-> "free", matches |-> {}, next |-> 1, time |-> 0,
         charged |-> {}, month |-> 0, decision |-> "none"]

Init ==
  /\ BillingInit
  /\ store \in Stores
  /\ now = 0
  /\ buckets = [l \in Limit |-> [w \in Time |-> 0]]
  /\ usage = [m \in Time |-> 0]
  /\ rateLock = {}
  /\ quotaLock = {}
  /\ req = [r \in Requests |-> Idle]

-----------------------------------------------------------------------------
(* authorize: policy, kill switches and registry decide first *)

\* The organization's plan is read; the limits whose scope matches are known.
Begin(r) ==
  /\ r \in live
  /\ req[r].at = "idle"
  /\ \E matches \in SUBSET Limit :
       \/ req' = [req EXCEPT ![r].at = "rate", ![r].plan = plan, ![r].matches = matches]
       \/ req' = [req EXCEPT ![r].at = "record", ![r].plan = plan, ![r].decision = "denied"]
  /\ UNCHANGED <<planVars, store, now, buckets, usage, rateLock, quotaLock>>

-----------------------------------------------------------------------------
(* acquire_rate_limits *)

Remaining(r) == {l \in req[r].matches : l >= req[r].next}

\* No limit matches: no lock, no counter.
SkipLimits(r) ==
  /\ req[r].at = "rate"
  /\ req[r].matches = {}
  /\ req' = [req EXCEPT ![r].at = "quota"]
  /\ UNCHANGED <<planVars, store, now, buckets, usage, rateLock, quotaLock>>

\* The clock is read once for all limits, in Postgres after the lock is held.
StartCounting(r) ==
  /\ req[r].at = "rate"
  /\ req[r].matches # {}
  /\ IF store = "postgres"
       THEN rateLock = {} /\ rateLock' = {r}
       ELSE UNCHANGED rateLock
  /\ req' = [req EXCEPT ![r].at = "counting", ![r].time = now]
  /\ UNCHANGED <<planVars, store, now, buckets, usage, quotaLock>>

\* _bucket_start: windows are aligned to the epoch.
Bucket(l, t) == t \div Window[l]

Refuse(r, decision) == [req EXCEPT ![r].at = "record", ![r].decision = decision]

Counted(l, w) == [buckets EXCEPT ![l][w] = @ + 1]

\* Faulty: one request too many passes a full bucket.
CountOneTooMany(r, l) ==
  LET w == Bucket(l, req[r].time) IN
  /\ store = "postgres"
  /\ IF buckets[l][w] > Quantity[l]
       THEN req' = Refuse(r, "rate_limited") /\ UNCHANGED buckets
       ELSE /\ buckets' = Counted(l, w)
            /\ req' = [req EXCEPT ![r].next = l + 1, ![r].charged = @ \cup {<<l, w>>}]

\* One limit in Postgres: an exhausted bucket refuses and is left as it is; the
\* buckets of earlier limits keep what they have counted.
CountInPostgres(r, l) ==
  LET w == Bucket(l, req[r].time) IN
  /\ store = "postgres"
  /\ IF buckets[l][w] >= Quantity[l]
       THEN req' = Refuse(r, "rate_limited") /\ UNCHANGED buckets
       ELSE /\ buckets' = Counted(l, w)
            /\ req' = [req EXCEPT ![r].next = l + 1, ![r].charged = @ \cup {<<l, w>>}]

\* One limit in Redis: INCR first, then compare; any error refuses.
CountInRedis(r, l) ==
  LET w == Bucket(l, req[r].time) IN
  /\ store = "redis"
  /\ \/ /\ buckets' = Counted(l, w)
        /\ req' = IF buckets[l][w] + 1 > Quantity[l]
                    THEN Refuse(r, "rate_limited")
                    ELSE [req EXCEPT ![r].next = l + 1, ![r].charged = @ \cup {<<l, w>>}]
     \/ req' = Refuse(r, "rate_limited") /\ UNCHANGED buckets

CountNext(r) ==
  /\ req[r].at = "counting"
  /\ \E l \in Remaining(r) :
       /\ \A k \in Remaining(r) : l <= k
       /\ CountInPostgres(r, l) \/ CountInRedis(r, l)
  /\ UNCHANGED <<planVars, store, now, usage, rateLock, quotaLock>>

AllCounted(r) ==
  /\ req[r].at = "counting"
  /\ Remaining(r) = {}
  /\ req' = [req EXCEPT ![r].at = "quota"]
  /\ UNCHANGED <<planVars, store, now, buckets, usage, rateLock, quotaLock>>

-----------------------------------------------------------------------------
(* action_quota_available and reserve_budgets *)

QuotaLeft(r) == usage[now \div Month] < Actions[req[r].plan]

\* Faulty: the quota is read without the organization's lock.
CheckQuotaUnlocked(r) ==
  /\ req[r].at = "quota"
  /\ \/ QuotaLeft(r) /\ req' = [req EXCEPT ![r].at = "record", ![r].decision = "allowed"]
     \/ req' = Refuse(r, "budget_exceeded")
  /\ UNCHANGED <<planVars, store, now, buckets, usage, rateLock, quotaLock>>

\* The lock is held until the transaction ends.
CheckQuota(r) ==
  /\ req[r].at = "quota"
  /\ quotaLock = {}
  /\ quotaLock' = {r}
  /\ \/ QuotaLeft(r) /\ req' = [req EXCEPT ![r].at = "record", ![r].decision = "allowed"]
     \/ req' = Refuse(r, "budget_exceeded")      \* no quota left, or no budget
  /\ UNCHANGED <<planVars, store, now, buckets, usage, rateLock>>

\* The decision and one protected action are recorded, whatever the decision.
Commit(r) ==
  LET m == now \div Month IN
  /\ req[r].at = "record"
  /\ usage' = [usage EXCEPT ![m] = @ + 1]
  /\ req' = [req EXCEPT ![r].at = "done", ![r].month = m]
  /\ rateLock' = rateLock \ {r}
  /\ quotaLock' = quotaLock \ {r}
  /\ UNCHANGED <<planVars, store, now, buckets>>

\* The transaction is lost before its commit: Postgres takes back its counters, Redis
\* does not.
Crash(r) ==
  /\ req[r].at \in {"rate", "counting", "quota", "record"}
  /\ buckets' = IF store = "postgres"
                  THEN [l \in Limit |-> [w \in Time |->
                         IF <<l, w>> \in req[r].charged THEN buckets[l][w] - 1 ELSE buckets[l][w]]]
                  ELSE buckets
  /\ req' = [req EXCEPT ![r] = [Idle EXCEPT !.at = "done",
                                             !.decision = "lost"]]
  /\ rateLock' = rateLock \ {r}
  /\ quotaLock' = quotaLock \ {r}
  /\ UNCHANGED <<planVars, store, now, usage>>

\* Only requests read the clock.
Tick ==
  /\ Requests \cap live # {}
  /\ now < Horizon
  /\ now' = now + 1
  /\ UNCHANGED <<planVars, store, buckets, usage, rateLock, quotaLock, req>>

-----------------------------------------------------------------------------
GateNext ==
  \/ \E r \in Requests :
       \/ Begin(r)
       \/ SkipLimits(r)
       \/ StartCounting(r)
       \/ CountNext(r)
       \/ AllCounted(r)
       \/ CheckQuota(r)
       \/ Commit(r)
       \/ Crash(r)
  \/ Tick

Next ==
  \/ BillingNext /\ UNCHANGED gateVars
  \/ GateNext

Spec == Init /\ [][Next]_vars

-----------------------------------------------------------------------------
(* Properties *)

\* Requests that pass limit l and were let through in its window w.
Admitted(l, w) ==
  {r \in Requests : /\ req[r].decision = "allowed"
                    /\ l \in req[r].matches
                    /\ Bucket(l, req[r].time) = w}

AdmittedBetween(l, t, u) ==
  {r \in Requests : /\ req[r].decision = "allowed"
                    /\ l \in req[r].matches
                    /\ req[r].time \in t .. u}

Charged(l, w) == {r \in Requests : <<l, w>> \in req[r].charged}

\* Whatever the order of requests, crashes and refusals: no window lets through more
\* than its limit, and no interval of a window's length more than twice as many, the
\* two windows it may cut.  In Postgres a bucket counts exactly the requests that went
\* past it, those a later gate refused included, and none that was rolled back; a
\* request is refused only when such a bucket is full.
RateWindows ==
  \A l \in Limit :
    /\ \A w \in Time : Cardinality(Admitted(l, w)) <= Quantity[l]
    /\ \A t \in Time :
         Cardinality(AdmittedBetween(l, t, t + Window[l] - 1)) <= 2 * Quantity[l]
    /\ store = "postgres" =>
         /\ \A w \in Time : buckets[l][w] = Cardinality(Charged(l, w))
         /\ \A r \in Requests : req[r].decision = "rate_limited" =>
              \E k \in req[r].matches : buckets[k][Bucket(k, req[r].time)] = Quantity[k]

AllowedIn(m) == {r \in Requests : req[r].at = "done" /\ req[r].decision = "allowed" /\ req[r].month = m}

\* The plan's limits hold for what runs at one time.  Registrations: see
\* RegistrationsWithinReach.  Actions: a month never has more allowed requests than the
\* quota of the plan one of them began under, across the month's end and although the
\* plan is read long before the quota is counted; refused requests use up quota too.
PlanLimitsHold ==
  /\ RegistrationsWithinReach
  /\ \A m \in Time : AllowedIn(m) # {} =>
       \E r \in AllowedIn(m) : Cardinality(AllowedIn(m)) <= Actions[req[r].plan]

=============================================================================
