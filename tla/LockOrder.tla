------------------------------ MODULE LockOrder ------------------------------
(***************************************************************************)
(* The locks that the API's handlers and the worker take in PostgreSQL, in   *)
(* the order of their statements: rows read FOR UPDATE, rows written when    *)
(* the session flushes (autoflush is off: at an explicit flush, and at the   *)
(* commit), and the advisory locks of the organization.  All are held to the *)
(* end of the transaction.  Lifecycle makes of each locked part one step;    *)
(* this module has the steps, the deadlocks between them, and their end: the *)
(* database aborts one of those that wait for each other.                    *)
(*                                                                         *)
(* status[r] is the committed status of request r, as far as locks depend on *)
(* it ("final" is every status that ends it, "authorized" also "approved").  *)
(***************************************************************************)
EXTENDS Integers, Sequences, SequencesExt, FiniteSets

CONSTANTS
  Handlers,    \* API calls served at one time, one call each
  Workers,     \* runs of the worker's job
  Requests,    \* authorization requests of one organization
  Sdk,         \* requests whose tool runs in the agent's process
  AgentOf,     \* AgentOf[r]: the agent, and the credential, r was asked for with
  Charged,     \* Charged[r]: the budget usage rows that match r
  BatchSize    \* worker_batch_size

Txns == Handlers \cup Workers

ASSUME LockAssumption ==
  /\ Handlers \cap Workers = {}
  /\ Sdk \subseteq Requests
  /\ IsFiniteSet(Txns)
  /\ \A r \in Requests : IsFiniteSet(Charged[r])
  /\ BatchSize \in Nat \ {0}

VARIABLES
  status,   \* the committed status of each request
  txn       \* what each transaction does, holds, and has still to lock

vars == <<status, txn>>

Agent(r) == <<"agent", AgentOf[r]>>
Approval(r) == <<"approval", r>>
Request(r) == <<"request", r>>
Reservations(r) == <<"reservations", r>>
Usage(u) == <<"usage", u>>
Gates == <<"gates">>    \* the advisory locks of rates, quota and budgets, one after the other
Audit == <<"audit">>    \* the advisory lock of append_audit

\* plan: the locks still to take, in order; held: those taken; todo: the rest of the
\* worker's batch; marks: the statuses to be committed, with what was seen before.
Idle == [op |-> "none", at |-> "idle", req |-> {}, plan |-> <<>>, held |-> {}, todo |-> {}, marks |-> {}]

\* Requests that exist already may have any status; the others are created by authorize.
Init ==
  /\ status \in [Requests -> {"none", "pending", "authorized", "executing"}]
  /\ txn = [t \in Txns |-> Idle]

Orders(S) == SetToSeqs(S)

\* settle_budget_reservations and reserve_budgets take rows in the order in which the
\* database returns them: neither query sorts.
Settling(r) ==
  IF Charged[r] = {} THEN {<<>>}
  ELSE {<<Reservations(r)>> \o o : o \in Orders({Usage(u) : u \in Charged[r]})}

-----------------------------------------------------------------------------
(* Calls begin *)

Begin(t, op, r, at, plan, marks) ==
  /\ txn[t].at = "idle"
  /\ txn' = [txn EXCEPT ![t] = [Idle EXCEPT !.op = op, !.at = at, !.req = {r}, !.plan = plan, !.marks = marks]]
  /\ UNCHANGED status

Mark(r, seen, to, locked) == [req |-> r, seen |-> seen, to |-> to, locked |-> locked]

\* The insert of the request also flushes what authentication has changed in agent and
\* credential; rates, quota and budgets follow unless the decision refuses already.
AuthorizePlans(r, to) ==
  (IF to = "final" THEN {<<Agent(r), Audit>>} ELSE {})
  \cup {<<Agent(r), Gates>> \o o \o <<Audit>> :
          o \in UNION {Orders({Usage(u) : u \in S}) :
                         S \in IF to = "final" THEN SUBSET Charged[r] ELSE {Charged[r]}}}

Authorize(h, r) ==
  /\ status[r] = "none"
  /\ \A t \in Txns : r \notin txn[t].req
  /\ \E to \in {"pending", "authorized", "final"} : \E p \in AuthorizePlans(r, to) :
       Begin(h, "authorize", r, "working", p, {Mark(r, "none", to, TRUE)})

\* Faulty: the request is read without FOR UPDATE.
ApprovalOnly(r) == <<Approval(r)>>

\* approval_decide, and the same two statements for Slack.  Any request that exists may
\* have had an approval.
DecideLocks(r) == <<Approval(r), Request(r)>>

Decide(h, r) == status[r] # "none" /\ Begin(h, "decide", r, "locking", DecideLocks(r), {})

\* The endpoints of a request begin with _owned_request(lock=True).
Owned(h, r) ==
  /\ status[r] # "none"
  /\ \E op \in {"poll"} \cup (IF r \in Sdk THEN {"claim", "report"} ELSE {"execute"}) :
       Begin(h, op, r, "locking", <<Request(r)>>, {})

\* POST /execute reads the request without a lock: as a replay, or for a request that
\* it has created and committed itself, when the agent is written already.  It goes on
\* when it finds a remote tool, which may have been an sdk tool when r was authorized.
Replay(h, r) ==
  /\ status[r] = "authorized"
  /\ \E op \in {"replay"} \cup (IF r \in Sdk THEN {} ELSE {"continue"}) :
       Begin(h, op, r, "locking", <<>>, {})

\* expire_stale: the unlocked query for approvals whose time is over.
QueryApprovals(w) ==
  \E S \in SUBSET {r \in Requests : status[r] = "pending"} :
    /\ Cardinality(S) <= BatchSize
    /\ txn[w].at = "idle"
    /\ txn' = [txn EXCEPT ![w] = [Idle EXCEPT !.op = "expire", !.at = "working", !.todo = S]]
    /\ UNCHANGED status

-----------------------------------------------------------------------------
(* Locks *)

Holds(t, l) == l \in txn[t].held

Blocks(o, t) == o # t /\ txn[t].plan # <<>> /\ Holds(o, Head(txn[t].plan))

Granted(t) == txn[t].plan # <<>> /\ \A o \in Txns : ~Blocks(o, t)

Take(t) ==
  /\ Granted(t)
  /\ txn' = [txn EXCEPT ![t].held = @ \cup {Head(txn[t].plan)}, ![t].plan = Tail(@)]
  /\ UNCHANGED status

\* What a call may do about request r once it has read status s: the new status,
\* whether the reservations are settled and an event is appended, and the rows the
\* session writes at its flush that it has not read FOR UPDATE.
Effect(to, settles, audits, flushes) == [to |-> to, settles |-> settles, audits |-> audits, flushes |-> flushes]

Blocked(rows) == Effect("final", TRUE, TRUE, rows)   \* _check_execution_allowed
Silent(rows) == Effect("final", TRUE, FALSE, rows)   \* expired, or the tool has changed

\* Faulty: the expiry locks the approval when it reads it.
ExpiryLocking(r) == {<<Approval(r)>> \o s : s \in Settling(r)}

\* _expire_if_needed: the approval is read without a lock and written at the flush.
ExpirySettling(r) == Settling(r)

Expiry(r) == Effect("final", TRUE, TRUE, {Approval(r), Agent(r)})

Effects(op, r, s) ==
  CASE op = "decide" /\ s = "pending" ->
         {Effect("authorized", FALSE, TRUE, {}), Effect("final", TRUE, TRUE, {}), Silent({})}
    [] op \in {"poll", "execute", "claim"} /\ s = "pending" -> {Expiry(r)}
    [] op = "execute" /\ s = "authorized" ->
         {Blocked({Agent(r)}), Silent({Agent(r)}), Effect("executing", FALSE, FALSE, {Agent(r)})}
    [] op = "claim" /\ s = "authorized" ->
         {Blocked({Agent(r)}), Silent({Agent(r)}), Effect("executing", FALSE, TRUE, {Agent(r)})}
    [] op = "report" /\ s = "executing" ->
         {Effect("final", TRUE, TRUE, {Agent(r)}), Effect("final", FALSE, TRUE, {Agent(r)}),
          Effect("final", FALSE, FALSE, {Agent(r)})}
    [] op = "replay" /\ s = "authorized" ->
         {Blocked({Agent(r), Request(r)}), Silent({Agent(r), Request(r)})}
         \cup (IF r \in Sdk THEN {} ELSE {Effect("executing", FALSE, FALSE, {Agent(r)})})
    [] op = "continue" /\ s = "authorized" ->
         {Blocked({Request(r)}), Silent({Request(r)}), Effect("executing", FALSE, FALSE, {})}
    [] op = "expire" /\ s = "pending" -> {Effect("final", TRUE, TRUE, {Approval(r)})}
    [] OTHER -> {}

StartLocks(r, e) == IF e.to = "executing" THEN <<Request(r)>> ELSE <<>>
Settlements(e, settling) == IF e.settles THEN settling ELSE {<<>>}
EventLocks(e) == IF e.audits THEN <<Audit>> ELSE <<>>

\* The locks of an effect: the UPDATE of a start, settlement, audit, flush.  The models
\* declare no relationships, so the session may flush its tables in any order.
Plans(r, e, settling) ==
  {StartLocks(r, e) \o s \o EventLocks(e) \o f : s \in Settlements(e, settling), f \in Orders(e.flushes)}

Checking(t, r) == txn[t].at = "locking" /\ txn[t].plan = <<>> /\ r \in txn[t].req

\* What a call may go on with, as effects with their plans.
Options(t, r) ==
  UNION {{e} \X Plans(r, e, IF e = Expiry(r) THEN ExpirySettling(r) ELSE Settling(r)) :
           e \in Effects(txn[t].op, r, status[r])}

\* The status is read with the last lock (without one by POST /execute), and the call goes on.
Proceed(t, r) ==
  /\ Checking(t, r)
  /\ \E c \in Options(t, r) :
       txn' = [txn EXCEPT ![t].at = "working", ![t].plan = c[2],
                 ![t].marks = @ \cup {Mark(r, status[r], c[1].to, txn[t].op \notin {"replay", "continue"})}]
  /\ UNCHANGED status

Ended == [Idle EXCEPT !.at = "ended"]

\* The worker has no reason to leave what it found pending.
Declinable(t, r) == txn[t].op = "expire" => status[r] # "pending"

\* The call answers with the state, a conflict or an error, and nothing is committed;
\* the worker goes on to the next request, with the lock of this one.
Decline(t, r) ==
  /\ Checking(t, r) /\ Declinable(t, r)
  /\ txn' = [txn EXCEPT ![t] = IF t \in Workers THEN [@ EXCEPT !.at = "working"] ELSE Ended]
  /\ UNCHANGED status

-----------------------------------------------------------------------------
(* The worker's batch: one transaction for all its requests *)

Between(w) == txn[w].at = "working" /\ txn[w].plan = <<>>

HasNext(w, r) == Between(w) /\ r \in txn[w].todo

AtEnd(t) == Between(t) /\ txn[t].todo = {}

LockNext(w, r) ==
  /\ HasNext(w, r)
  /\ txn[w].op = "expire"
  /\ txn' = [txn EXCEPT ![w].req = {r}, ![w].todo = @ \ {r}, ![w].plan = <<Request(r)>>, ![w].at = "locking"]
  /\ UNCHANGED status

\* The unlocked query for claims past their time.
QueryClaims(w) ==
  /\ AtEnd(w)
  /\ txn[w].op = "expire"
  /\ \E S \in SUBSET {r \in Sdk : status[r] = "executing"} :
       /\ Cardinality(S) <= BatchSize
       /\ txn' = [txn EXCEPT ![w].op = "sweep", ![w].todo = S]
  /\ UNCHANGED status

\* The claim's request is locked by the flush within append_audit, after the audit lock.
SweepNext(w, r) ==
  /\ HasNext(w, r)
  /\ txn[w].op = "sweep"
  /\ txn' = [txn EXCEPT ![w].req = {r}, ![w].todo = @ \ {r}, ![w].plan = <<Audit, Request(r)>>,
               ![w].marks = @ \cup {Mark(r, "executing", "final", FALSE)}]
  /\ UNCHANGED status

-----------------------------------------------------------------------------
(* Ends *)

\* The start of an execution is a compare-and-set; every other write is unconditional.
Applies(m) == m.to = "executing" => status[m.req] = "authorized"

Starts(t) == \E m \in txn[t].marks : m.to = "executing" /\ m.req \notin Sdk /\ Applies(m)

\* Faulty: a lock of the session, pg_advisory_lock, outlives the transaction.
Leftover(t) == [Ended EXCEPT !.held = txn[t].held \cap {Audit}]

\* Row locks and pg_advisory_xact_lock end with the transaction.
Released(t) == Ended

Commit(t) ==
  /\ AtEnd(t)
  /\ txn[t].op # "expire"
  /\ status' = [r \in Requests |->
       IF \E m \in txn[t].marks : m.req = r /\ Applies(m)
       THEN (CHOOSE m \in txn[t].marks : m.req = r /\ Applies(m)).to
       ELSE status[r]]
  /\ txn' = [txn EXCEPT ![t] =
       IF Starts(t) THEN [Released(t) EXCEPT !.at = "calling", !.req = txn[t].req] ELSE Released(t)]

\* The provider answers and _finalize begins, in a new transaction that holds no lock.
Finish(h, r) ==
  /\ txn[h].at = "calling"
  /\ r \in txn[h].req
  /\ \E e \in {Effect("final", b, TRUE, {Request(r)}) : b \in BOOLEAN} : \E p \in Plans(r, e, Settling(r)) :
       txn' = [txn EXCEPT ![h] = [Idle EXCEPT !.op = "finish", !.at = "working", !.req = {r}, !.plan = p,
                                              !.marks = {Mark(r, "executing", "final", FALSE)}]]
  /\ UNCHANGED status

Running(t) == txn[t].at \in {"locking", "working"}

\* A process dies, or its transaction fails.
Abort(t) ==
  /\ Running(t) \/ txn[t].at = "calling"
  /\ txn' = [txn EXCEPT ![t] = Ended]
  /\ UNCHANGED status

Stuck(S) == S # {} /\ \A t \in S : \E o \in S : Blocks(o, t)

\* S is a circle of transactions each of which waits for the next.
Deadlocked(S) == Stuck(S) /\ \A U \in SUBSET S : Stuck(U) => U = S

InCircle(t) == \E S \in SUBSET Txns : t \in S /\ Deadlocked(S)

\* After deadlock_timeout one of them finds the circle and is aborted.
BreakDeadlock(t) == InCircle(t) /\ Abort(t)

-----------------------------------------------------------------------------

Batch(w) == (\E r \in Requests : LockNext(w, r) \/ SweepNext(w, r)) \/ QueryClaims(w)

\* What a transaction under way does next, unless it waits.
Step(t) ==
  \/ Take(t)
  \/ \E r \in Requests : Proceed(t, r) \/ Decline(t, r)
  \/ t \in Workers /\ Batch(t)
  \/ Commit(t)

Next ==
  \/ \E h \in Handlers, r \in Requests :
       Authorize(h, r) \/ Decide(h, r) \/ Owned(h, r) \/ Replay(h, r) \/ Finish(h, r)
  \/ \E w \in Workers : QueryApprovals(w)
  \/ \E t \in Txns : Step(t) \/ BreakDeadlock(t) \/ Abort(t)

Spec == Init /\ [][Next]_vars

-----------------------------------------------------------------------------
(* Properties *)

\* Whatever a call has decided about a request that it read with a lock still holds when
\* it commits, although the writers are decisions, expiries, claims, results, the worker's
\* batch and POST /execute, which takes its locks late.  This is why Lifecycle may treat
\* the locked part of a handler as one step.
LockedReadsStand ==
  \A t \in Txns : \A m \in txn[t].marks : m.locked => status[m.req] = m.seen

WaitsFor(t, kinds) == txn[t].plan # <<>> /\ Head(txn[t].plan)[1] \in kinds

\* Waits for a row out of the order approval, request, budgets, audit and agent, budgets,
\* audit: for a row with the audit lock in hand (a flush after the event, or whatever the
\* worker's batch locks after its first event), or for an agent or a request at the flush
\* of a session that had read it without a lock.
LateForRow(t) ==
  \/ WaitsFor(t, {"approval", "request", "reservations", "usage"}) /\ Holds(t, Audit)
  \/ WaitsFor(t, {"agent", "request"}) /\ txn[t].at = "working"

\* The code does have deadlocks.  Each of them has a transaction that comes late for a
\* row, or two that lock usage rows in different orders, or two of the worker's batches,
\* which lock their requests in any order; apart from these, the locks of decisions,
\* expiries, claims, results and authorizations agree on one order.
DeadlocksExplained ==
  \A S \in SUBSET Txns : Deadlocked(S) =>
    \/ \E t \in S : LateForRow(t)
    \/ \E t \in S : \E o \in S \ {t} : WaitsFor(t, {"usage"}) /\ WaitsFor(o, {"usage"})
    \/ \E w \in S \cap Workers : \E x \in (S \cap Workers) \ {w} :
         WaitsFor(w, {"request"}) /\ WaitsFor(x, {"request"})

\* A transaction under way can take its next step: the guards of the disjuncts of Step.
Ready(t) ==
  \/ Granted(t)
  \/ \E r \in Requests : Checking(t, r) /\ (Options(t, r) # {} \/ Declinable(t, r))
  \/ t \in Workers /\ txn[t].op \in {"expire", "sweep"} /\ \E r \in Requests : HasNext(t, r)
  \/ AtEnd(t) /\ (txn[t].op = "expire" => t \in Workers)

\* While transactions run, one of them can take its next step, or stands in a circle that
\* the database breaks: nobody waits for a lock that was left behind, and nobody stops
\* half way.  No step takes a transaction back, so every one of them ends.
SomeoneGoesOn ==
  (\E t \in Txns : Running(t)) => \E t \in Txns : Running(t) /\ (Ready(t) \/ InCircle(t))
=============================================================================
