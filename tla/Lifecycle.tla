------------------------------ MODULE Lifecycle ------------------------------
(***************************************************************************)
(* The life of an AgentGuard authorization request: from POST /authorize    *)
(* through human approval to one execution, remote or in the agent's own    *)
(* process, and to the settlement of its budget reservations.               *)
(*                                                                         *)
(* Actors: the API handlers (Handlers, one per HTTP call being served), the *)
(* approvers, the worker's expire_stale, the agent process that reports the *)
(* result of a claimed tool, administrators, and the clock.                 *)
(*                                                                         *)
(* The database is PostgreSQL at READ COMMITTED.  A handler that reads the  *)
(* request FOR UPDATE is one atomic step up to its commit; where other      *)
(* transactions can interleave, it is split and keeps the row lock.         *)
(* POST /execute and the sweep of expired claims read the request WITHOUT a *)
(* lock and write it later: their two halves are separate steps.  Sessions  *)
(* keep loaded objects (expire_on_commit=False), so what a handler loaded   *)
(* early it still sees late: seen[h].                                       *)
(***************************************************************************)
EXTENDS Ledger

CONSTANTS
  SdkRequests,  \* requests whose tool had adapter "sdk" when they were authorized
  NoRequest,    \* what an idle handler serves
  Handlers,     \* concurrently served HTTP calls of the execution endpoints
  Controls      \* Controls[r]: the controls administrators operate against r

\* "kill": what the check before an execution queries afresh: a matching kill switch,
\* a withdrawn tool permission, an inactive organization; "agent": what it takes from
\* objects the authentication has loaded and dirtied: the agent is not active, or its
\* credential is revoked or expired; "disabled": the tool is disabled.  Then what makes
\* the tool differ from the snapshot frozen in the request: "adapter": sdk has become
\* remote, or remote sdk; "drift": anything else.
AllControls == {"kill", "agent", "disabled", "drift", "adapter"}
Changed == {"drift", "adapter"}
Emergency == AllControls \ Changed

ASSUME LifecycleAssumption ==
  /\ SdkRequests \subseteq Requests
  /\ NoRequest \notin Requests
  /\ \A r \in Requests : Controls[r] \subseteq AllControls

VARIABLES
  status,    \* status[r]: AuthorizationRequest.status, "absent" before its insert
  approval,  \* approval[r]: ApprovalRequest.state, "none" without a row
  claim,     \* claim[r]: the claim hash: none, live, or lapsed (past claim_expires_at)
  overdue,   \* requests past their expires_at
  late,      \* requests whose ApprovalRequest is past its expires_at
  facts,     \* facts[r]: the controls that now stand against r
  pc,        \* pc[h]: where handler h is
  req,       \* req[h]: the request it serves, NoRequest when idle
  seen,      \* seen[h]: controls among the objects h loaded before its check
  queried,   \* requests whose approvals the worker found late and has not treated yet
  swept,     \* requests the worker's claim query returned and has not written yet
  trail,     \* trail[r]: types of the audit events about r
  starts,    \* history: how often an execution of r was let through
  standing   \* history: controls that stood at h's arrival and have stood since

rowVars == <<status, approval, claim>>
clockVars == <<overdue, late>>
handlerVars == <<pc, req, seen, standing>>
workerVars == <<queried, swept>>
lifecycleVars ==
  <<status, approval, claim, overdue, late, facts, pc, req, seen, queried, swept,
    trail, starts, standing>>
vars == <<ledgerVars, lifecycleVars>>

Executable == {"authorized", "approved"}
Final == {"denied", "budget_exceeded", "agent_disabled", "expired", "rejected",
          "succeeded", "failed"}
Status == {"absent", "pending_approval", "executing"} \cup Executable \cup Final

ApprovalState == {"none", "pending", "approved", "rejected", "expired"}

Label == {"idle", "arrived", "found", "loaded", "cleared", "locked", "calling", "reporting"}

\* "tool.execution" carries the outcome in its data.
EventType ==
  {"authorization.decision", "approval.decision", "approval.expired",
   "tool.execution succeeded", "tool.execution failed", "tool.execution_blocked", "tool.execution_claimed",
   "tool.execution_claim_expired"}

Init ==
  /\ LedgerInit
  /\ status = [r \in Requests |-> "absent"]
  /\ approval = [r \in Requests |-> "none"]
  /\ claim = [r \in Requests |-> "none"]
  /\ overdue = {}
  /\ late = {}
  /\ facts = [r \in Requests |-> {}]
  /\ pc = [h \in Handlers |-> "idle"]
  /\ req = [h \in Handlers |-> NoRequest]
  /\ seen = [h \in Handlers |-> {}]
  /\ queried = {}
  /\ swept = {}
  /\ trail = [r \in Requests |-> {}]
  /\ starts = [r \in Requests |-> 0]
  /\ standing = [h \in Handlers |-> {}]

-----------------------------------------------------------------------------
(* Helpers *)

\* No other transaction holds the request's row lock across a step.
RowFree(r) == \A h \in Handlers : pc[h] \in {"locked", "reporting"} => req[h] # r

\* append_audit, as far as one request's events go.
Audit(r, event) == trail' = [trail EXCEPT ![r] = @ \cup {event}]

SetStatus(r, s) == status' = [status EXCEPT ![r] = s]

\* The HTTP call of h ends, with a response or an error.
Return(h) ==
  /\ pc' = [pc EXCEPT ![h] = "idle"]
  /\ seen' = [seen EXCEPT ![h] = {}]
  /\ standing' = [standing EXCEPT ![h] = {}]
  /\ req' = [req EXCEPT ![h] = NoRequest]

GoTo(h, label) ==
  /\ pc' = [pc EXCEPT ![h] = label]
  /\ UNCHANGED <<req, seen, standing>>

-----------------------------------------------------------------------------
(* POST /authorize (and the authorizing half of POST /execute) *)

\* Faulty: the answer of reserve_budgets is ignored.
RefusedNever(r) == FALSE

\* Some budget has no room for r.
Refused(r) == ~Fits(r)

\* One transaction: the row is invisible to others until its commit, and the
\* unique idempotency key makes a concurrent twin fail.  The decision stands for
\* policy, risk, DLP and permissions; emergency controls override it with
\* agent_disabled, rate limits with rate_limited, the plan's action quota with
\* budget_exceeded (all "denied" here: refused before any budget is touched).  A
\* repeated key returns the stored row.
Authorize(r, decision) ==
  /\ status[r] = "absent"
  /\ decision # "deny" => facts[r] \cap Emergency = {}
  /\ IF decision = "deny"
     THEN /\ SetStatus(r, "denied")
          /\ UNCHANGED <<ledgerVars, approval>>
     ELSE IF Refused(r)
     THEN /\ SetStatus(r, "budget_exceeded")
          /\ UNCHANGED <<ledgerVars, approval>>
     ELSE /\ ReserveBudgets(r)
          /\ SetStatus(r, IF decision = "allow" THEN "authorized" ELSE "pending_approval")
          /\ approval' = [approval EXCEPT ![r] = IF decision = "allow" THEN "none" ELSE "pending"]
  /\ facts' = [facts EXCEPT ![r] = @ \ Changed]
  /\ Audit(r, "authorization.decision")
  /\ UNCHANGED <<claim, clockVars, handlerVars, workerVars, starts>>

-----------------------------------------------------------------------------
(* Approval *)

\* Faulty: the request expires and its approval stays pending.
ExpireRequestOnly(r) ==
  /\ SetStatus(r, "expired")
  /\ UNCHANGED approval
  /\ SettleBudgets(r, "failed")

\* What every expiry of a pending approval does to the rows.
ExpireRows(r) ==
  /\ SetStatus(r, "expired")
  /\ approval' = [approval EXCEPT ![r] = IF @ = "pending" THEN "expired" ELSE @]
  /\ SettleBudgets(r, "failed")

\* decide_approval, from the dashboard or from Slack: both rows are locked.  Every
\* approval is created with mode "any" and threshold 1, so the first decision
\* resolves it.  A late one expires the request, without an audit event.
Decide(r, decision) ==
  /\ RowFree(r)
  /\ approval[r] = "pending"
  /\ status[r] = "pending_approval"
  /\ \/ /\ r \in late
        /\ ExpireRows(r)
        /\ UNCHANGED trail
     \/ /\ r \notin late
        /\ decision = "approve"
        /\ SetStatus(r, "approved")
        /\ approval' = [approval EXCEPT ![r] = "approved"]
        /\ UNCHANGED ledgerVars
        /\ Audit(r, "approval.decision")
     \/ /\ r \notin late
        /\ decision = "reject"
        /\ SetStatus(r, "rejected")
        /\ approval' = [approval EXCEPT ![r] = "rejected"]
        /\ SettleBudgets(r, "failed")
        /\ Audit(r, "approval.decision")
  /\ UNCHANGED <<claim, clockVars, facts, handlerVars, workerVars, starts>>

\* Faulty: the comparison with the deadline the wrong way round.
EarlyApprovals == {r \in Requests \ late : approval[r] = "pending"}

LateApprovals == {r \in late : approval[r] = "pending"}

\* The query of expire_stale for late approvals, without FOR UPDATE.
QueryApprovals ==
  /\ queried = {}
  /\ queried' = LateApprovals
  /\ queried' # {}
  /\ UNCHANGED <<ledgerVars, rowVars, clockVars, facts, handlerVars, swept, trail, starts>>

StillPending(r) == status[r] = "pending_approval"

\* The loop over them: the request is locked and its status checked.  (The code
\* commits the whole batch at once; seeing the requests of a batch one after the
\* other only adds interleavings.)
ExpireApproval(r) ==
  /\ r \in queried
  /\ RowFree(r)
  /\ queried' = queried \ {r}
  /\ \/ /\ StillPending(r)
        /\ ExpireRows(r)
        /\ Audit(r, "approval.expired")
     \/ /\ ~StillPending(r)
        /\ UNCHANGED <<ledgerVars, status, approval, trail>>
  /\ UNCHANGED <<claim, clockVars, facts, handlerVars, swept, starts>>

\* Faulty: the deadline is looked at in every status.
OverdueInAnyStatus(r) == status[r] # "absent" /\ r \in overdue

\* _expire_if_needed finds a pending request past its own expires_at.
PendingOverdue(r) == status[r] = "pending_approval" /\ r \in overdue

\* GET /requests/{id}, the agent's poll.
Poll(r) ==
  /\ RowFree(r)
  /\ PendingOverdue(r)
  /\ ExpireRows(r)
  /\ Audit(r, "approval.expired")
  /\ UNCHANGED <<claim, clockVars, facts, handlerVars, workerVars, starts>>

-----------------------------------------------------------------------------
(* The checks immediately before execution *)

\* Faulty: the kill switches are not asked again.
VerdictWithoutKill(r, view) ==
  IF view \cap (Emergency \ {"kill"}) # {} THEN "blocked"
  ELSE IF r \in overdue THEN "overdue"
  ELSE IF view \cap Changed # {} THEN "drifted"
  ELSE "clear"

\* What stands against executing r, in the order the code asks: the emergency
\* and access controls, the request's deadline, the frozen tool configuration.
Verdict(r, view) ==
  IF view \cap Emergency # {} THEN "blocked"
  ELSE IF r \in overdue THEN "overdue"
  ELSE IF view \cap Changed # {} THEN "drifted"
  ELSE "clear"

\* The tool, as seen, is one that the agent's process runs.
Claimable(r, view) == (r \in SdkRequests) # ("adapter" \in view)

\* _check_execution_allowed and the two checks after it, for handler h that sees
\* the controls in view.  A refusal writes the request whatever its status has
\* become (the object in the session says authorized or approved), gives its
\* budget back and ends the call.  Only a blocked execution is audited; an
\* overdue claim changes nothing at all.
Recheck(h, view, passed) ==
  LET r == req[h] IN
  \/ /\ Verdict(r, view) = "clear"
     /\ GoTo(h, passed)
     /\ UNCHANGED <<ledgerVars, status, trail>>
  \/ /\ Verdict(r, view) = "blocked"
     /\ RowFree(r)
     /\ SetStatus(r, "agent_disabled")
     /\ SettleBudgets(r, "failed")
     /\ Audit(r, "tool.execution_blocked")
     /\ Return(h)
  \/ /\ Verdict(r, view) = "overdue"
     /\ Claimable(r, view)
     /\ Return(h)
     /\ UNCHANGED <<ledgerVars, status, trail>>
  \/ /\ Verdict(r, view) = "overdue"
     /\ ~Claimable(r, view)
     /\ RowFree(r)
     /\ SetStatus(r, "expired")
     /\ SettleBudgets(r, "failed")
     /\ Return(h)
     /\ UNCHANGED trail
  \/ /\ Verdict(r, view) = "drifted"
     /\ RowFree(r)
     /\ SetStatus(r, "failed")
     /\ SettleBudgets(r, "failed")
     /\ Return(h)
     /\ UNCHANGED trail

-----------------------------------------------------------------------------
(* The calls that may execute a request *)

\* POST /execute, or the request's own /execute or /claim: the call authenticates, and
\* agent and credential now live in its session.  (With a revoked or expired credential,
\* or an inactive organization, it is refused at once and changes nothing: no step.)  A
\* request in any other status never becomes executable again, so the call would change
\* nothing either.
Arrive(h, r) ==
  /\ pc[h] = "idle"
  /\ status[r] \in Executable \cup {"pending_approval"}
  /\ pc' = [pc EXCEPT ![h] = "arrived"]
  /\ req' = [req EXCEPT ![h] = r]
  /\ seen' = [seen EXCEPT ![h] = facts[r] \cap {"agent"}]
  /\ standing' = [standing EXCEPT ![h] = facts[r]]
  /\ UNCHANGED <<ledgerVars, rowVars, clockVars, facts, workerVars, trail, starts>>

-----------------------------------------------------------------------------
(* POST /execute: the request is read without a lock *)

\* A replay with the idempotency key of a stored request, or the second half of the call
\* that has just created it (nothing can be seen to happen between).  The request stays
\* in the session as it was read.
ReadUnlocked(h) ==
  /\ pc[h] = "arrived"
  /\ IF status[req[h]] \in Executable THEN GoTo(h, "found") ELSE Return(h)
  /\ UNCHANGED <<ledgerVars, rowVars, clockVars, facts, workerVars, trail, starts>>

\* The tool is read after the request; one for the agent's process is refused here.
LoadTool(h) ==
  LET view == seen[h] \cup (facts[req[h]] \cap {"disabled", "drift", "adapter"}) IN
  /\ pc[h] = "found"
  /\ IF Claimable(req[h], view)
     THEN Return(h)
     ELSE /\ pc' = [pc EXCEPT ![h] = "loaded"]
          /\ seen' = [seen EXCEPT ![h] = view]
          /\ UNCHANGED <<req, standing>>
  /\ UNCHANGED <<ledgerVars, rowVars, clockVars, facts, workerVars, trail, starts>>

\* Kill switches and permissions are queried afresh.
CheckLoaded(h) ==
  /\ pc[h] = "loaded"
  /\ Recheck(h, seen[h] \cup (facts[req[h]] \cap {"kill"}), "cleared")
  /\ UNCHANGED <<approval, claim, clockVars, facts, workerVars, starts>>

-----------------------------------------------------------------------------
(* POST /requests/{id}/execute and /requests/{id}/claim: the request is locked *)

\* The lock is taken, a pending request past its deadline expires, and an
\* executable one is checked; the tool is read after the lock.  The call came to the
\* endpoint that fits its adapter: the other one answers with a conflict, no step.
LockAndCheck(h) ==
  LET r == req[h] IN
  /\ pc[h] = "arrived"
  /\ RowFree(r)
  /\ \/ /\ PendingOverdue(r)
        /\ ExpireRows(r)
        /\ Audit(r, "approval.expired")
        /\ Return(h)
     \/ /\ ~PendingOverdue(r)
        /\ status[r] \notin Executable
        /\ Return(h)
        /\ UNCHANGED <<ledgerVars, status, approval, trail>>
     \/ /\ status[r] \in Executable
        /\ Recheck(h, seen[h] \cup (facts[r] \ {"agent"}), "locked")
        /\ UNCHANGED approval
  /\ UNCHANGED <<claim, clockVars, facts, workerVars, starts>>

-----------------------------------------------------------------------------
(* The compare-and-set to "executing" and what follows it *)

\* Faulty: the update without its status condition.
AnyRowMatches(r) == TRUE

\* The condition of the update.
RowMatches(r) == status[r] \in Executable

\* UPDATE ... WHERE status IN ('authorized', 'approved'), then commit.  A remote
\* tool is then called by this handler; an SDK tool is run by the agent process,
\* which receives the claim token and the frozen arguments.  When no row matches,
\* the transaction rolls back and the call returns what is stored.
BeginExecution(h) ==
  LET r == req[h] IN
  /\ pc[h] \in {"cleared", "locked"}
  /\ pc[h] = "cleared" => RowFree(r)
  /\ IF ~RowMatches(r)
     THEN /\ Return(h)
          /\ UNCHANGED <<status, claim, trail, starts>>
     ELSE /\ SetStatus(r, "executing")
          /\ starts' = [starts EXCEPT ![r] = @ + 1]
          /\ IF r \in SdkRequests
             THEN /\ claim' = [claim EXCEPT ![r] = "live"]
                  /\ Audit(r, "tool.execution_claimed")
                  /\ Return(h)
             ELSE /\ GoTo(h, "calling")
                  /\ UNCHANGED <<claim, trail>>
  /\ UNCHANGED <<ledgerVars, approval, clockVars, facts, workerVars>>

\* Faulty: a failed execution gives its budget back.
KnownFailure(outcome) == outcome

\* Faulty: every answer of the provider counts as a success.
KnownSuccess(outcome) == "succeeded"

\* What the outcome of a tool settles: only a success is known.
Known(outcome) == IF outcome = "succeeded" THEN "succeeded" ELSE "unknown"

ExecutionEvent(outcome) ==
  IF outcome = "succeeded" THEN "tool.execution succeeded" ELSE "tool.execution failed"

\* Faulty: the claim is not cleared.
FinalizeKeepingClaim(r, outcome) ==
  /\ SetStatus(r, outcome)
  /\ SettleBudgets(r, Known(outcome))
  /\ Audit(r, ExecutionEvent(outcome))
  /\ UNCHANGED claim

\* _finalize: the outcome is written whatever the status has become.
Finalize(r, outcome) ==
  /\ SetStatus(r, outcome)
  /\ claim' = [claim EXCEPT ![r] = "none"]
  /\ SettleBudgets(r, Known(outcome))
  /\ Audit(r, ExecutionEvent(outcome))

\* The provider has answered, or refused, or answered what the tool's output
\* schema does not allow.
FinishRemote(h, outcome) ==
  /\ pc[h] = "calling"
  /\ RowFree(req[h])
  /\ Finalize(req[h], outcome)
  /\ Return(h)
  /\ UNCHANGED <<approval, clockVars, facts, workerVars, starts>>

\* The API process dies, or an error other than ConnectorError escapes: an open
\* transaction rolls back, a committed "executing" stays.
Crash(h) ==
  /\ pc[h] # "idle"
  /\ Return(h)
  /\ UNCHANGED <<ledgerVars, rowVars, clockVars, facts, workerVars, trail, starts>>

\* POST /requests/{id}/result by the agent process that holds the claim token: the
\* row is locked and the claim checked.  A lapsed claim fails the request with its
\* budget kept, and without an audit event.
ReportResult(h, r) ==
  /\ pc[h] = "idle"
  /\ RowFree(r)
  /\ status[r] = "executing"
  /\ \/ /\ claim[r] = "live"
        /\ pc' = [pc EXCEPT ![h] = "reporting"]
        /\ req' = [req EXCEPT ![h] = r]
        /\ UNCHANGED <<ledgerVars, status, claim, seen, standing>>
     \/ /\ claim[r] = "lapsed"
        /\ SetStatus(r, "failed")
        /\ claim' = [claim EXCEPT ![r] = "none"]
        /\ SettleBudgets(r, "unknown")
        /\ UNCHANGED handlerVars
  /\ UNCHANGED <<approval, clockVars, facts, workerVars, trail, starts>>

\* Its commit, which may come after the claim's deadline.
FinishReport(h, outcome) ==
  /\ pc[h] = "reporting"
  /\ Finalize(req[h], outcome)
  /\ Return(h)
  /\ UNCHANGED <<approval, clockVars, facts, workerVars, starts>>

-----------------------------------------------------------------------------
(* The worker's sweep of expired claims *)

\* Faulty: claims that are still running instead of those past claim_expires_at.
LapsedNotYet(r) == status[r] = "executing" /\ claim[r] = "live"

Lapsed(r) == status[r] = "executing" /\ claim[r] = "lapsed"

\* The query of expire_stale, without FOR UPDATE.
SweepRead ==
  /\ swept = {}
  /\ \E r \in Requests : Lapsed(r)
  /\ swept' = {r \in Requests : Lapsed(r)}
  /\ UNCHANGED <<ledgerVars, rowVars, clockVars, facts, handlerVars, queried, trail, starts>>

\* The loop over what the query returned, and its one commit.  Nothing is checked
\* again, and settle_budget_reservations(None) keeps the budget reserved.
SweepWrite ==
  /\ swept # {}
  /\ \A r \in swept : RowFree(r)
  /\ status' = [r \in Requests |-> IF r \in swept THEN "failed" ELSE status[r]]
  /\ claim' = [r \in Requests |-> IF r \in swept THEN "none" ELSE claim[r]]
  /\ trail' = [r \in Requests |->
       IF r \in swept THEN trail[r] \cup {"tool.execution_claim_expired"} ELSE trail[r]]
  /\ swept' = {}
  /\ UNCHANGED <<ledgerVars, approval, clockVars, facts, handlerVars, queried, starts>>

\* The worker process is killed before its commit.
WorkerCrash ==
  /\ queried \cup swept # {}
  /\ queried' = {}
  /\ swept' = {}
  /\ UNCHANGED <<ledgerVars, rowVars, clockVars, facts, handlerVars, trail, starts>>

-----------------------------------------------------------------------------
(* Administrators and time *)

\* Any change of the controls: kill switches, agent and tool status, credentials,
\* permissions, tool configuration (which may also be changed back).
SetControls(r) ==
  \E F \in SUBSET Controls[r] :
    /\ F # facts[r]
    /\ facts' = [facts EXCEPT ![r] = F]
    /\ standing' = [h \in Handlers |-> IF req[h] = r THEN standing[h] \cap F ELSE standing[h]]
    /\ UNCHANGED <<ledgerVars, rowVars, clockVars, pc, req, seen, workerVars, trail, starts>>

RequestDeadline(r) ==
  /\ status[r] # "absent"
  /\ r \notin overdue
  /\ overdue' = overdue \cup {r}
  /\ UNCHANGED <<ledgerVars, rowVars, late, facts, handlerVars, workerVars, trail, starts>>

ApprovalDeadline(r) ==
  /\ approval[r] # "none"
  /\ r \notin late
  /\ late' = late \cup {r}
  /\ UNCHANGED <<ledgerVars, rowVars, overdue, facts, handlerVars, workerVars, trail, starts>>

ClaimDeadline(r) ==
  /\ claim[r] = "live"
  /\ claim' = [claim EXCEPT ![r] = "lapsed"]
  /\ UNCHANGED <<ledgerVars, status, approval, clockVars, facts, handlerVars, workerVars,
                 trail, starts>>

-----------------------------------------------------------------------------
Next ==
  \/ \E r \in Requests :
       \/ \E decision \in {"allow", "require_approval", "deny"} : Authorize(r, decision)
       \/ \E decision \in {"approve", "reject"} : Decide(r, decision)
       \/ ExpireApproval(r)
       \/ Poll(r)
       \/ SetControls(r)
       \/ RequestDeadline(r)
       \/ ApprovalDeadline(r)
       \/ ClaimDeadline(r)
  \/ \E h \in Handlers :
       \/ \E r \in Requests : Arrive(h, r) \/ ReportResult(h, r)
       \/ ReadUnlocked(h)
       \/ LoadTool(h)
       \/ CheckLoaded(h)
       \/ LockAndCheck(h)
       \/ BeginExecution(h)
       \/ \E outcome \in {"succeeded", "failed"} : FinishRemote(h, outcome) \/ FinishReport(h, outcome)
       \/ Crash(h)
  \/ QueryApprovals
  \/ SweepRead
  \/ SweepWrite
  \/ WorkerCrash

Spec == Init /\ [][Next]_vars

-----------------------------------------------------------------------------
(* Fairness: what keeps running in a deployment                            *)
(*                                                                         *)
(* Time passes.  The worker is started every minute, again and again, and   *)
(* not every one of its runs dies half way (strong fairness of its writes,  *)
(* since a crash empties what it has read).  A handler that runs reaches    *)
(* its commit or dies; a provider may never answer.  Nothing is assumed     *)
(* about agents, approvers and administrators: none of them needs to call   *)
(* ever again.                                                             *)

\* What a call under way does next, unless it waits for a provider.
HandlerStep(h) ==
  \/ ReadUnlocked(h) \/ LoadTool(h) \/ CheckLoaded(h)
  \/ LockAndCheck(h)
  \/ BeginExecution(h)
  \/ \E outcome \in {"succeeded", "failed"} : FinishReport(h, outcome)

Fairness ==
  /\ \A r \in Requests : WF_vars(ApprovalDeadline(r)) /\ SF_vars(ExpireApproval(r))
  /\ \A r \in SdkRequests : WF_vars(ClaimDeadline(r))
  /\ WF_vars(QueryApprovals)
  /\ WF_vars(SweepRead)
  /\ SF_vars(SweepWrite)
  /\ \A h \in Handlers : WF_vars(HandlerStep(h))

FairSpec == Spec /\ Fairness

-----------------------------------------------------------------------------
(* The type invariant *)

TypeOK ==
  /\ LedgerTypeOK
  /\ status \in [Requests -> Status]
  /\ approval \in [Requests -> ApprovalState]
  /\ claim \in [Requests -> {"none", "live", "lapsed"}]
  /\ overdue \subseteq Requests
  /\ late \subseteq Requests
  /\ facts \in [Requests -> SUBSET AllControls]
  /\ pc \in [Handlers -> Label]
  /\ req \in [Handlers -> Requests \cup {NoRequest}]
  /\ \A h \in Handlers : pc[h] # "idle" => req[h] \in Requests
  /\ seen \in [Handlers -> SUBSET AllControls]
  /\ queried \subseteq Requests
  /\ swept \subseteq Requests
  /\ trail \in [Requests -> SUBSET EventType]
  /\ starts \in [Requests -> Nat]
  /\ standing \in [Handlers -> SUBSET AllControls]

-----------------------------------------------------------------------------
(* Safety *)

\* The request and its approval row, written by five different transactions of
\* three processes, never disagree: one is pending exactly when the other is, a
\* refusal by either is a refusal by both, and only an approved request that
\* needed an approval is ever let through.
ApprovalAgreement ==
  \A r \in Requests :
    /\ approval[r] = "pending" <=> status[r] = "pending_approval"
    /\ approval[r] \in {"rejected", "expired"} => status[r] = approval[r]
    /\ starts[r] > 0 => approval[r] \in {"none", "approved"}

Outcomes == {"tool.execution succeeded", "tool.execution failed"}

\* No SDK execution is open without the claim that could end it, and a claim does not
\* outlive the result or the expiry that ends it.  The one way to be left with a claim and
\* no execution is the stale refusal of a POST /execute, when the tool stopped being an
\* sdk tool after the claim: then the budget is back, and nobody will end the claim.
ClaimAgreement ==
  \A r \in Requests :
    /\ r \in SdkRequests /\ status[r] = "executing" => claim[r] # "none"
    /\ claim[r] # "none" =>
         /\ r \in SdkRequests /\ starts[r] > 0
         /\ trail[r] \cap Outcomes = {}
         /\ \/ status[r] = "executing"
            \/ status[r] \in {"agent_disabled", "expired", "failed"} /\ Open(r) = {}

\* A recorded success leaves nothing reserved, and budget is spent only for a
\* recorded success of a call that was let through.
SpendingFollowsSuccess ==
  \A r \in Requests :
    /\ "tool.execution succeeded" \in trail[r] => Open(r) = {}
    /\ (\E u \in Usages : resv[r][u] = "spent") =>
         "tool.execution succeeded" \in trail[r] /\ starts[r] > 0

\* A control that stood when the HTTP call arrived and still stands is never
\* missed, although half of what the check before the execution reads comes from
\* objects the session loaded earlier.
StandingControlsStop ==
  \A h \in Handlers : pc[h] \in {"cleared", "locked", "calling"} => standing[h] = {}

\* Handler h ends in this step a POST /execute whose request it had read unlocked.
ReplayEnds(h, r) == pc[h] = "loaded" /\ req[h] = r /\ pc'[h] = "idle"

\* A step gives back what an execution of r may cost, or ends it under its claim.
TakesBack(r) ==
  \/ starts[r] > 0 /\ \E u \in Usages : resv[r][u] = "reserved" /\ resv'[r][u] = "released"
  \/ claim[r] # "none" /\ status[r] = "executing" /\ claim'[r] # "none" /\ status'[r] # "executing"

ReplayAloneReleases ==
  \A r \in Requests : TakesBack(r) => \E h \in Handlers : ReplayEnds(h, r)

\* Once an execution was let through, its reservation is given back, and the request taken
\* from under its claim, only by the stale check of a concurrent POST /execute: decisions,
\* polls, claims, results, the worker and the locked endpoint never release what may have
\* been paid, and end a claim with its execution.
OnlyReplayReleasesStarted == [][ReplayAloneReleases]_vars

StaleWritersAloneReopen ==
  \A r \in Requests :
    status[r] \in Final /\ status'[r] # status[r] =>
      \/ r \in swept
      \/ \E h \in Handlers : ReplayEnds(h, r)
      \/ \E h \in Handlers : pc[h] = "calling" /\ req[h] = r

\* A final status changes only at the hands of those who read the request earlier
\* and unlocked, or who recorded the outcome of its execution.
OnlyStaleWritersReopen == [][StaleWritersAloneReopen]_vars

\* How far a request has come in the terms of Permit, which has no phase for a
\* request with two outcomes.
PermitPhase ==
  [r \in Requests |->
    IF starts[r] > 0
      THEN IF trail[r] \cap Outcomes = {} THEN "started"
           ELSE IF trail[r] \cap Outcomes = {"tool.execution succeeded"} THEN "succeeded"
           ELSE IF trail[r] \cap Outcomes = {"tool.execution failed"} THEN "failed"
           ELSE "ambiguous"
    ELSE IF status[r] = "absent" THEN "new"
    ELSE IF status[r] = "pending_approval" THEN "waiting"
    ELSE IF status[r] \in Executable THEN "permitted"
    ELSE "refused"]

Permits == INSTANCE Permit WITH phase <- PermitPhase, runs <- starts

\* The handlers, the worker and the claims implement the promise of Permit: every
\* execution uses up one permit, at most one is let through, at most one outcome
\* is recorded and a refusal before the start is final.
ImplementsPermit == Permits!PermitSpec

\* Every step settles or reserves through the ledger's operations, for one
\* request, and never reserves twice for the same request.
ImplementsLedger == LedgerSpec

-----------------------------------------------------------------------------
(* Liveness, under FairSpec *)

\* No request waits for an approver for ever: again and again there is a moment at which
\* none waits.
PendingResolves == []<>(\A r \in Requests : approval[r] # "pending")

\* Every claimed execution ends, even when the agent process never reports.
ClaimEnds ==
  \A r \in SdkRequests : (claim[r] # "none" /\ status[r] = "executing") ~> status[r] # "executing"

-----------------------------------------------------------------------------
(* What the documents say and the code does not do *)

\* SECURITY.md: "an uncertain remote provider outcome retains reserved budget
\* pending reconciliation"; FEATURES.md, Budgets: "Unknown provider outcomes
\* remain reserved."
StartedKeepsReservation ==
  \A r \in Requests : starts[r] > 0 => \A u \in Usages : resv[r][u] # "released"
=============================================================================
