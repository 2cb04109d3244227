# A formal model of AgentGuard

AgentGuard authorizes the tool calls of AI agents: an agent asks, policies and
limits decide, a human may have to approve, and the call runs at most once,
either inside the API (remote adapters) or in the agent's own process (SDK
claims). This directory models the part of that program where a mistake costs
money, runs something twice or spoils the evidence: the life of an authorization
request, the policies, rate limits, quota and budget that decide about it, the
client that asks for it over an unreliable network, the audit trail, the messages
the worker sends, the plan that Stripe's events change, the sessions of the people
who approve, and the locks under which all of it runs. TLC checks the models on
small instances; TLAPS proves their safety properties for any value of the constants.

Paths below are relative to `src/`; `api/` is `apps/api/agentguard_api/`.

## 1. Inventory of the system

| Part | State it keeps | Operations | Correct when | Modelled |
|---|---|---|---|---|
| Budget ledger (`api/limits.py`) | `BudgetUsage` counters, `BudgetReservation` rows | `reserve_budgets`, `settle_budget_reservations` | the counters equal the rows, never exceed the limits together, each reservation settled once | `Ledger` |
| Runtime plane (`api/runtime_routes.py`) | `AuthorizationRequest.status`, claim hash and deadline | authorize, execute (two endpoints), poll, claim, result | one execution per permit, one outcome per execution, nothing runs against a standing control | `Lifecycle`, `Permit` |
| Authorization pipeline (`api/authorization.py`) | inserts the request, its approval, usage event, audit event in one transaction | `authorize`, `authenticate_agent` | the stored status follows from the decision, the limits and the budget | `Lifecycle` (`Authorize`), `Admission`, `PolicyEngine` |
| Human approval (`api/admin_routes.py`, `api/webhook_routes.py`) | `ApprovalRequest.state`, decisions | `decide_approval` from dashboard or Slack | request and approval never disagree, whoever resolves them | `Lifecycle` |
| Worker, expiry (`apps/worker/.../main.py`) | none of its own; one process per minute | `expire_stale` | pending approvals and claims end | `Lifecycle` |
| Worker, outbox | `Notification`, `WebhookDelivery` | `send_notifications`, `deliver_webhooks` | what is marked was sent, bounded retry, every message resolves | `Outbox` |
| Audit chain and archive (`api/audit.py`, worker) | `AuditEvent` hash chain, `AuditCheckpoint`, blobs | append, verify, archive | the chain verifies across archive runs (it does not always: section 6), no event is lost | `AuditChain` |
| Rate limits, quota (`api/limits.py`) | `RateLimitBucket` or Redis counters, `UsageEvent` | `acquire_rate_limits`, `action_quota_available` | no window admits more than its limit, no month more than its quota | `Admission` |
| User sessions (`api/auth_routes.py`, `api/dependencies.py`) | `UserSession`, `MagicLink`, `OAuthFlow`, lockout counter | login, refresh, logout, magic link, OAuth | credentials are spent once, a logout ends its session, lockout | `Sessions` |
| Billing (`api/webhook_routes.py`, `api/admin_routes.py`) | `BillingSubscription`, `Organization.plan`, `InboundWebhookEvent` | Stripe events, checkout, registration of agents and tools | plan and subscription agree, plan limits hold | `Billing` |
| Python and TypeScript SDKs (`packages/`) | none persistent | authorize with retry, wait, claim, run, report | the tool runs at most once and only when started for it, its outcome is reported, no call hangs | `SdkClient` |
| Policy engine (`packages/policy-engine`, `api/admin_routes.py`) | `Policy`, `PolicyVersion` | create, update, status, `_current_policies`, `evaluate`, `validate_policy` | one moment's policies decide, in order of priority and severity; errors deny | `PolicyConditions`, `PolicyEngine` |
| Risk engine, DLP (`packages/`) | none (pure) | `score`, `scan_and_redact` | bounded score; string matching | no: arithmetic on constants, regular expressions |
| Connectors, gateway, CLI, dashboard, infrastructure | none that matters here | provider calls, proxying, presentation | | outcomes of a provider call, and the worker's schedule, only |

How the parts meet. Every handler of the API runs in a database session of its
own (READ COMMITTED, `autoflush=False`, `expire_on_commit=False`) and talks to
the others through rows only. `authorize` calls the ledger inside its
transaction; approvals, the worker, the poll, the execution endpoints and the
result endpoint all write the same request row and may all settle its budget.
The agent process holds the claim token, the provider call happens between two
transactions, and the worker is a separate process started every minute.

What is hard here:

* `POST /execute` and the worker's sweep of claims read a request without a
  lock and write it later; the by-id endpoints lock it.
* The check before an execution mixes rows queried afresh with objects the
  session loaded when the call authenticated.
* Two deadlines (request, approval) and a third one for claims race with the
  handlers they are to stop.
* A process may die between the commit of `executing` and the outcome.
* The audit chain is serialized by a lock but ordered by the clocks of the
  replicas, and the archive job moves its checkpoint without a lock.
* The SDK retries one operation and must not retry the others; any response may be
  lost after the API has acted.
* Budget is settled from six places; only the state filter of one query keeps
  that from being counted twice.
* The gates of `authorize` count in order and commit on refusal; its plan is read
  at the start, its clock several times, and Redis does not roll back.
* Stripe's events are deduplicated, not ordered, and handled without row locks by
  code that writes only the columns it changed; plan limits of agents and tools
  are checked and used in two steps.
* The worker sends first and commits a whole batch afterwards; two workers may
  have the same rows in hand.
* Logins, logouts and OAuth callbacks read rows without locks and write them
  after slow work; only refresh and magic links lock.
* Policies are read in one statement and their documents in others.
* Locks are taken by statements in one order and by the session's flush in another;
  the worker's batch keeps all of its locks to the end.

PROJECT.json lists each of these under `hazards` with its line and the property
that covers it.

## 2. Modules

| Module | What it is | Code |
|---|---|---|
| `Ledger` | budget counters and reservations, as operations for handlers and as a specification `LedgerSpec` | `api/limits.py` |
| `Permit` | abstract: what the runtime plane promises about one call | none: a statement of intent |
| `Lifecycle` | the runtime plane, approvals and `expire_stale`; EXTENDS `Ledger`, implements `LedgerSpec` and `Permit!PermitSpec` | `api/runtime_routes.py`, `authorization.py`, `admin_routes.py`, worker |
| `AuditChain` | the hash chain of one organization: append, archive, verify | `api/audit.py`, `admin_routes.py`, worker |
| `SdkClient` | one call of `protect()` or `execute()` against the API over a lossy network | `packages/sdk-python`, `packages/sdk-typescript`, endpoints of `runtime_routes.py` |
| `Billing` | the plan of an organization: Stripe's events, checkout, registrations | `api/webhook_routes.py`, `admin_routes.py` |
| `Admission` | rate limits and quota of an authorization; EXTENDS `Billing`, whose plan it reads | `api/limits.py`, `authorization.py` |
| `Sessions` | login, lockout, refresh, logout, magic links, OAuth of one user | `api/auth_routes.py`, `dependencies.py` |
| `Outbox` | notifications and webhook deliveries | worker |
| `LockOrder` | the locks of handlers and worker, statement by statement | `api/runtime_routes.py`, `authorization.py`, `admin_routes.py`, `limits.py`, `audit.py`, `database.py`, worker |
| `PolicyConditions` | conditions: their verdict, their validation, a three-valued reference | `packages/policy-engine` |
| `PolicyEngine` | versions of policies, edits, reading and evaluation; EXTENDS `PolicyConditions` | `authorization.py`, `admin_routes.py`, `packages/policy-engine` |
| `MCLedger`, `MCLifecycle`, `MCAuditChain`, `MCAdmission`, `MCSessions`, `MCOutbox`, `MCLockOrder`, `MCPolicyCases`, `MCPolicy` | values of the constants for TLC; `MCPolicyCases` enumerates the conditions for `MCPolicy` | |
| `LifecycleProofs` | theorems about `LedgerSpec` by itself, then about `Lifecycle`, which extends it: types and its inductive invariant, that it implements `Ledger` and `Permit`, action properties, spending, controls | |
| `SdkClientProofs` | theorems about `SdkClient` | |
| `AuditChainProofs` | theorems about `AuditChain` | |
| `AdmissionProofs` | theorems about `Billing` and `Admission` | |
| `SessionsProofs` | theorems about `Sessions` | |
| `OutboxProofs` | theorems about `Outbox` | |
| `LockOrderProofs` | theorems about `LockOrder` | |
| `PolicyEngineProofs` | theorems about `PolicyEngine` | |

### Ledger

`used[u]`, `reserved[u]` are the two counters of a usage row (a budget in a
period) and `resv[r][u]` the state of the reservation of request `r` on it.
`Fits` and `ReserveBudgets` are the two halves of `reserve_budgets`;
`SettleBudgets(r, outcome)` is `settle_budget_reservations` with
`succeeded = True, False, None`, including the `max(0, ...)` (`Less`). Which
budgets match a request (scope, currency, per-action limit) is given by the
constants `Charged` and `Admissible`. Both functions are one step each: they run
under an advisory lock of the organization, or with the rows locked, until the
transaction commits.

### Lifecycle

One request is its `status`, the state of its `approval`, its `claim` (none,
live, or past its deadline), and the set of audit events about it (`trail`).
`overdue` and `late` say which deadlines have passed; the clock moves them only
forward. `facts[r]` are the administrators' controls that stand against `r` at
this moment:

* `kill`: everything the check queries afresh: kill switches, permissions, and
  the organization, whose object nothing keeps alive in the session;
* `agent`: agent status and credential, taken from objects that authentication
  loaded and dirtied;
* `disabled`: the tool is disabled;
* `adapter`: the tool's adapter differs from the frozen snapshot, so that an SDK tool
  has become a remote one or the other way round (`PATCH /tools/{id}`);
* `drift`: anything else of the tool's configuration differs from it.

A handler `h` is one HTTP call being served: `pc[h]` is where it is, `req[h]`
the request, `seen[h]` the controls among the objects it has loaded.

| Action | Code |
|---|---|
| `Authorize` | `authorize`, one transaction |
| `Decide` | `decide_approval`: approve, reject, or expire when late |
| `Poll` | `GET /requests/{id}`: expires a pending request past its deadline |
| `QueryApprovals`, `ExpireApproval` | first half of `expire_stale`: unlocked query, then locked re-check |
| `SweepRead`, `SweepWrite`, `WorkerCrash` | second half: unlocked query, then an unchecked write |
| `Arrive` | a call of an endpoint that may execute a request authenticates |
| `ReadUnlocked`, `LoadTool`, `CheckLoaded` | `POST /execute`: a replay, or the second half of the call that created the request; the request is read first, then its tool, then the check |
| `LockAndCheck` | `POST /requests/{id}/execute` and `/claim` up to the check |
| `BeginExecution` | `UPDATE ... WHERE status IN ('authorized','approved')` and its commit |
| `FinishRemote`, `ReportResult`, `FinishReport` | provider's answer; the agent's result |
| `Crash` | the API process dies, or an error no handler catches escapes |
| `SetControls`, `RequestDeadline`, `ApprovalDeadline`, `ClaimDeadline` | administrators and time |

`Recheck` is `_check_execution_allowed` with the deadline and drift checks that
follow it. It writes the request whatever its status has become meanwhile,
because the object in the session still says `authorized`. Which endpoint serves a
request is decided by the adapter of its tool as it is seen at that moment
(`Claimable`), not by the one it was authorized with: a replay of `POST /execute`
may have read the request before a claim and the tool after its adapter was changed.

What is abstracted:

* The decision of policies, risk, DLP and permissions is an input of
  `Authorize`. `denied` stands for `denied`, `rate_limited`, `agent_disabled` at
  authorization and the plan's quota: all refuse before a budget is touched.
* Every approval the code creates has mode `any` and threshold 1; the first
  decision resolves it. The other modes are not modelled.
* A call with a bad credential, an inactive organization, an unknown id, a wrong
  endpoint for the adapter or a wrong claim token answers an error and changes
  nothing: no step. The unique idempotency key makes a concurrent twin fail;
  that is no step either.
* `expire_stale` commits its approvals in one batch; the model expires them one
  after the other, which only adds interleavings.
* `starts` (how often an execution was let through) and `standing` (controls
  that stood at a call's arrival and have stood ever since) are history
  variables: no guard reads them.

### AuditChain

`log` is every event ever written, numbered in that order, with its
`occurred_at` and the event it links to; `live` is the committed table, `open[a]`
what transaction `a` has appended and not committed, `stored` what is in some
blob, `checkpoint` the hash in `AuditCheckpoint` (`Genesis` without a row).
`phase[w]` and `batch[w]` are a run of the archive job; several runs overlap.
History variables, which no guard reads: `moved` (an archive run has committed since
the first statement of a verification) and `overtaken` (whether a job whose last event
another one had archived meanwhile has ever written the checkpoint, and whether it was
the last to write it).

| Action | Code |
|---|---|
| `AppendEvent` | `append_audit`: advisory lock, predecessor by `occurred_at` or checkpoint, insert |
| `Commit`, `Rollback` | the end of the transaction that appended, which also frees the lock |
| `ArchiveRead` | the worker's query: the earliest events before the cutoff, at most a batch |
| `Upload`, `ArchiveCommit` | `upload_blob`; checkpoint, deletion by id and commit |
| `WorkerCrash` | the run fails or is killed; the blob stays |
| `VerifyRead`, `VerifyAnswer` | the two statements of `GET /audit/verify` |

What is abstracted: a hash is the number of its event, so tampering and
collisions are out of the model; webhook deliveries queued by `append_audit`
belong to the outbox; the cutoff may fall anywhere, since the model has no
retention period. Real time is counted in events: the clock of whoever writes
event `n` reads `n`, up to `Skew`, which may be any natural number. Two jobs that insert the first checkpoint at
the same time collide on its key, which is `WorkerCrash`. Reading the predecessor
and the checkpoint are one step: a table that is seen empty stays so while the
appender holds the lock. `Lifecycle` does not use this module: it asks which
events exist about a request, `AuditChain` how the events of an organization hang
together, and the two share no state but the existence of an event.

### SdkClient

One call through an SDK: `kind` says whether it is `protect()` of the Python or
of the TypeScript SDK, or `execute()` of either. `pc` is the operation whose
response the client awaits, `try` the attempt; `inbox` are the requests on their
way or in the API's hands (an attempt the client has given up stays there),
`half` those it has processed half way, `reply` the response to the current
attempt, `told` what the caller gets in the end. `ran` and `outcome` record what
really happened to the tool.

| Action | Code |
|---|---|
| `Start`, `Decided`, `Polled`, `Claimed`, `ToolEnds`, `Reported`, `Resumed` | `protect`'s wrapper and `execute`, step by step; `_wait` |
| `ConnectionLost`, `ErrorResponse` | a transport error or timeout (one retry of `authorize`, else the call gives up); an error status |
| `LookUpKey`, `InsertRequest` | `authorize`: idempotency lookup, then the insert, which fails if the key is there by now |
| `AuthorizeAndExecute`, `StartRemote`, `FinishRemote`, `AnswerStatus` | `POST /execute` and the endpoint of a request |
| `RequestStatus`, `ClaimRequest`, `ReportResult`, `Refuse` | the other endpoints; every error answer |
| `Resolve`, `Lost`, `ClientDies`, `ApprovalTimeout` | approvers, deadlines and the worker; network and crashes; the wait's deadline |

The API is reduced to what a client can see of it: one status and the accepted
report. Its rows, locks and races are `Lifecycle`'s subject; the statuses here are
classes of those there (`refused` stands for every refusal, `pending` for
`pending_approval`). Calls use fresh idempotency keys and so share nothing; one
call is enough. Payloads, and the binding of frozen arguments, are reduced to
whether they fit.

### Billing and Admission

`Billing` is one organization's subscription: `plan` and `row` are the two
columns that should agree, `recorded` the events in `inbound_webhook_events`,
`settled` those Stripe has stopped delivering, `hook[h]` a delivery between its
statements with what it has read. `Written` is the ORM's dirty tracking: a column
is written when the new value differs from the one that was read. `Admission`
adds the counters (`buckets`, `usage`), the two advisory locks and the
authorizations `req`. `live` chooses, in the first state, which processes take part.

| Action | Code |
|---|---|
| `ReadOrganization`, `AnswerDuplicate`, `ReadSubscription` | the three reads of the Stripe webhook |
| `CommitEvent`, `RejectEvent`, `FailEvent` | its commit; `IntegrityError` (two unique constraints); an error or a crash |
| `OpenBilling`, `StartCheckout`, `FinishCheckout` | `_billing_record` from `GET /billing` and `POST /billing/checkout`, which keeps its insert open while it talks to Stripe |
| `CheckCapacity`, `Register`, `DeleteAgent` | `create_agent`, `create_tool`; `delete_agent` |
| `Begin`, `SkipLimits`, `StartCounting`, `CountNext`, `AllCounted` | `authorize` up to and through `acquire_rate_limits`, in Postgres or in Redis |
| `CheckQuota`, `Commit`, `Crash` | `action_quota_available` under its lock; usage event and commit; rollback |
| `Tick` | the clock |

What is abstracted: the scope of a limit is the set `matches`; the decision of
the policies and the answer of the budgets are inputs; a registration's later
validations are one nondeterministic refusal; a signature is valid; the prices are
`PlanOf`.

### Sessions

`session[s]` is a row with its generation: rotation replaces both hashes, so a
token is `<<session, generation>>`. `handler[h]` is a request with what it has
read; a refresh in progress is the holder of the row's lock (`Locked`).

| Action | Code |
|---|---|
| `ReadLogin`, `CountFailure`, `LoginSucceeds`, `LoginForbidden` | `login`, cut where the password is verified |
| `LockSession`, `RotateTokens` | `refresh` under `FOR UPDATE` |
| `BeginLogout`, `FindForLogout`, `Revoke` | `current_principal`, then the two statements of `logout` |
| `RequestMagicLink`, `ConsumeMagicLink` | the two endpoints of a magic link |
| `StartOAuth`, `BeginCallback`, `FinishCallback`, `RefuseCallback` | the flow, cut where the callback talks to the provider |
| `Abort`, `LockExpires`, `Expire`, `Deactivate` | lost transactions, time, an operator of the database |

What is abstracted: one user; a password is right or wrong; addresses, cookies
and CSRF tokens; registration and invitations, which rest on unique constraints.

### Outbox

`note[n]` and `delivery[d]` are the rows, `worker[w]` a process with its batch and
what it will commit (`marks`, `tries`, `drops`); `got`, `posted` and `missed`
record what the other side has seen. A worker runs its two jobs in turn and may
be stopped before either commit.

| Action | Code |
|---|---|
| `Notify` | the `Notification` row of `authorize` |
| `SelectNotes`, `SkipNote`, `SendNote`, `MissNote`, `CommitNotes` | `send_notifications` |
| `SelectDeliveries`, `DropDelivery`, `PostDelivery`, `MissDelivery`, `CommitDeliveries` | `deliver_webhooks` |
| `BackoffEnds`, `Stop` | `next_attempt_at` is reached; the job is killed |

What is abstracted: bodies and signatures; the length of the backoff (a delivery is
due or not); deliveries all exist from the start; several integrations of an
organization are a set, of which a failing send reaches any part.

### LockOrder

`txn[t]` is a transaction: what it has locked (`held`), what it has still to lock in
order (`plan`), and the statuses it will commit, each with what it had seen before
(`marks`). `status[r]` is the committed status, in four classes.

| Action | Code |
|---|---|
| `Authorize` | the insert, whose flush writes agent and credential; rates, quota, budgets; the event |
| `Decide`, `Owned`, `Replay` | `approval_decide` and Slack; the endpoints of a request; `POST /execute`, which locks nothing at first |
| `QueryApprovals`, `LockNext`, `QueryClaims`, `SweepNext` | `expire_stale`, one transaction |
| `Take` | one lock, granted if free |
| `Proceed`, `Decline` | what the call does about the status it has read: settlement, event, flush; or no write |
| `Commit`, `Finish` | the end of the transaction; `_finalize` after the provider's answer |
| `Abort`, `BreakDeadlock` | a process dies or a transaction fails; PostgreSQL's deadlock detector |

What is abstracted: agent and credential are written by the same flush and are one
lock; so are the three advisory locks of `authorize`, which are taken in one order.
Whether a deadline has passed, a control stands or a report is late is a choice. A replay
may come to an SDK request whose adapter was changed; it refuses it or does nothing. A
transaction may come to reservation rows that are settled already and would not be
locked; locks of foreign keys, which conflict with none of these, are left out.

### PolicyConditions and PolicyEngine

A condition is the sequence of the clauses of a `when` object, a value a record
with its type. `When` is `_when` with its three outcomes (yes, no, an
exception), in the order and with the early stops of the code; `Valid` is
`_validate_when`; `Meaning` is a reference reading without order, in which an
exception is an unknown. All of them are recursive functions over the set
`Conditions`; `Nesting` says how deeply a condition is nested, so that the parts of one
are nested less (`ConditionsAssumption`).

In `PolicyEngine`, `policy[p]` is the row, `version[p]` the documents; `reader[r]` is an
authorization between the query of the rows and the evaluation. `CreatePolicy`,
`UpdatePolicy`, `PolicyStatus` are the endpoints, `ReadPolicies` and `ReadVersion` the
query and the loop of `_current_policies`, `Decide` is `evaluate`. The rest of `authorize`
follows in `Answer`. Left out: field names, size limits, reasons, and the condition keys' syntax.

## 3. What the runs check

| Run | Instance | Checked |
|---|---|---|
| `ledger` | 6 requests of sizes 0 to 3, two budgets of 3 and 5 shared in part, one inadmissible request | `LedgerTypeOK`, `Conservation`, `Ceiling`, `AllOrNothing`, `SettledOnce` |
| `remote` | 1 remote request, 2 calls at once, all controls but the adapter | `TypeOK`, `ApprovalAgreement`, `SpendingFollowsSuccess`, `StandingControlsStop`, `ImplementsPermit` |
| `claims` | 1 SDK request whose tool's adapter changes and 1 remote request, 2 calls at once, one budget with room for one of them, fairness | `ClaimAgreement`, `OnlyReplayReleasesStarted`, `OnlyStaleWritersReopen`, `PendingResolves`, `ClaimEnds`, `ImplementsPermit`, `ImplementsLedger` |
| `started` | 1 remote request, 2 calls at once, a kill switch | `StartedKeepsReservation`, which is violated (section 6) |
| `audit` | 4 events, 2 appending transactions, 2 overlapping archive jobs with batches of 2, clocks off by one event | `TypeOK`, `UnlinkedExplained`, `ForksExplained`, `FalseAlarmsExplained`, `NothingLost`, `ReturnsExplained` |
| `archive` | the same with exact clocks | `ChainVerifies`, which is violated (section 6) |
| `sdk` | one call of any kind | `RunsOncePermitted`, `ResultMeansRecorded`, `FailureReportsTruthful`, `CallEnds` |
| `admission` | 3 requests, 2 limits with windows of 1 and 2 and quantities of 2 and 1, months of 2, 3 instants, both stores; 2 deliveries of 3 events, a checkout, 2 registrations | `RateWindows`, `PlanLimitsHold`, `FreshCommitAgrees` |
| `sessions` | 2 requests at a time, 3 session rows, a link, a flow, 3 failures to the lock | `CredentialsSpentOnce`, `SignedOutUnlessRotated`, `LockoutBound` |
| `outbox` | 2 workers, 4 notifications of three organizations, 2 deliveries, batches of 2, one stop, fairness | `MessagesAccountedFor`, `EveryMessageResolves` |
| `locks` | 2 API calls and the worker's batch of 2, a remote and an SDK request of one agent, both charged to two budgets | `LockedReadsStand`, `DeadlocksExplained`, `SomeoneGoesOn` |
| `policy` | 2 policies, 4 documents, 3 edits, 1 request being decided; 5,449 conditions and 16 sets of facts | `ConditionsFailClosed`, `DecisionFollowsSnapshot` |

The properties, in words:

* **Conservation, Ceiling, AllOrNothing, SettledOnce**: the counters are what
  the reservation rows add up to, spent plus reserved stays below every limit,
  a request reserves on all its budgets or none, a settled row is final.
* **ApprovalAgreement**: request and approval are pending together and refused
  together, though five transactions of three processes write them.
* **ClaimAgreement**: no SDK execution is open without the claim that can end it, and no
  claim outlives a result or an expiry. A claim without an open execution is left only by
  the stale refusal of a `POST /execute`: the execution was started, no outcome is
  recorded, the budget is back (section 6).
* **SpendingFollowsSuccess**: budget is spent only for a recorded success of an
  execution that was let through, and a recorded success leaves nothing reserved.
* **StandingControlsStop**: a control that stood when the call arrived and still
  stands is never missed, though half of what the check reads is stale.
* **OnlyReplayReleasesStarted, OnlyStaleWritersReopen**: the code does release
  the budget of a started execution, does take a request from under its claim, and does
  overwrite final statuses (section 6); these two say who can, and that nobody else can.
* **ImplementsPermit**: each execution uses up one permit, no permit is used
  twice, at most one outcome is recorded, a refusal before the start is final.
* **PendingResolves, ClaimEnds**: under the fairness below, every pending approval and
  every claimed execution comes to an end.
* **NothingLost**: an event leaves the table only when a blob has it.
* **UnlinkedExplained, ForksExplained, ReturnsExplained**: the promise that the table
  always verifies from the checkpoint is broken by the code (section 6). These three
  say by what, and that nothing else breaks it, across rollbacks, crashes and archive
  runs that empty the table: the table does not link up only after a clock was set back
  (`SetBack`: some event's time is not after that of the event it links to) or while an
  overtaken job is the last to have written the checkpoint; two events link to the same one
  only after a clock was set back or a job overtaken; the checkpoint moves back
  only by an overtaken job, or because times are not in the order of writing.
* **FalseAlarmsExplained**: verification reads events and checkpoint in two statements
  and can call a sound chain invalid; with a chain that no clock and no job has broken,
  this happens only when an archive run commits in between.
* **RunsOncePermitted**: whatever is lost, delayed or retried, a call runs its tool
  at most once, and only if its request was started.
* **ResultMeansRecorded, FailureReportsTruthful**: what the caller is told, what the API
  has recorded and what the tool did agree, as far as they do (section 6). If the tool
  raises, TypeScript tells its error whatever becomes of the report; Python tells it if
  the report is answered, and the report's own error if not, since a bare `raise` in a
  `finally` block raises again what entered the block. A failure is recorded only
  of a tool that raised, or by TypeScript of a success it could not report, and then the
  caller gets no result.
* **CallEnds**: outside the tool itself no call waits for ever.
* **RateWindows**: no window lets through more than its limit and no interval of a
  window's length more than twice as many; a bucket in Postgres counts exactly
  the requests that passed it, and a refusal has a full bucket to show.
* **PlanLimitsHold**: a month never has more allowed actions than the plan of one
  of them; registrations overshoot a plan's capacity by less than their number.
* **FreshCommitAgrees**: a delivery that nothing overtook between its first read and its
  commit leaves subscription and organization at the event's plan, only deliveries
  change the plan, and an event is lost only by a delivery that was overtaken.
* **CredentialsSpentOnce**: a consumed link has given one session, a refresh
  token one successor, a flow at most one session per callback under way.
* **SignedOutUnlessRotated**: a logout that found its session has ended it, whatever
  refresh it raced with; one that did not find it was overtaken by a refresh.
* **LockoutBound**: lost updates of the failure counter delay the lockout, up to as many
  wrong passwords as there are ways to place the concurrent requests on `MaxFailures`
  counts (`MaxFailures` for one, `1 + 2 + ... + MaxFailures` for two) and no further.
* **MessagesAccountedFor**: a row says sent or delivered only of what was accepted,
  failed only of what was tried `MaxAttempts` times or has no webhook; a
  notification behind a full batch of unsendable ones is never sent.
* **EveryMessageResolves**: everything else is sent, or ends as delivered or failed.
* **LockedReadsStand**: what a call has read of a request under its lock still holds
  when it commits, whichever other writers are under way. This is what allows
  `Lifecycle` to make the locked part of a handler one step.
* **DeadlocksExplained**: the code has deadlocks (section 6); each has a transaction
  that comes late for a row (at its flush, for one it had read without a lock; or with the
  audit lock in hand, as the worker's batch does from its second expired request on), or
  two that lock budgets, or two of the worker's batches that lock requests, in different
  orders. All other locks agree on one order.
* **SomeoneGoesOn**: while transactions run, one can go on or stands in a circle that
  PostgreSQL breaks. "Can go on" (`Ready`) is written out as the guards of the disjuncts of
  `Step`; in every state of the run it agrees with `ENABLED Step(t)`, which TLC can
  evaluate and the prover cannot. Since no step takes a transaction back
  (`NobodyTurnsBack`), each of them ends.
* **ConditionsFailClosed**: an ill-typed fact turns an answer into an exception, never
  into its opposite, and the order of the clauses does not matter; a missing fact
  opens nothing without a negation; validation leaves the exceptions of the facts only.
* **DecisionFollowsSnapshot**: the decision is that of the policies at the moment
  their rows were read, by priority, then severity, attributed to one of them.

Bounds. One request with two concurrent calls contains every race between two
writers of one row; a third call adds only a further copy of a writer that is
already there (the inductive invariant is stated and proved per handler and per
pair of handlers). Two requests are needed only where requests meet: in the
ledger, and in the worker's batches. The budgets are sized so that some request
is refused. No counter of `Lifecycle` needs a bound: `starts` is bounded by the code itself.
Four events let two archive jobs overlap in every way, empty the table, and be followed by an
append that links to the checkpoint, while another transaction rolls back
(`MaxEvents` and `BatchSize` are bounds of the model and of the code). `Skew = 1` lets any two
neighbours in the order of writing swap their times. The counterexample of `archive` needs
three events and no skew. `claims` has one control, the adapter of the SDK request's tool:
together with a claim and the request's deadline it lets a stale replay write `failed` or `expired`
over a started request; the refusal for an emergency control, `agent_disabled`, is the one of `started`.
`SdkClient` has no constants and finitely many states: its run is exhaustive. Its theorems
say the same; what they add is the reason.
All requests of `MCLifecycle` have amount 1, so the `max(0, ...)` is exercised
with different amounts in `ledger`.

In `admission`, `live` lets at most five of the processes and events take part in
one behaviour, in four combinations: billing alone, registrations under a changing
plan, requests alone, requests under a changing plan. Two windows of each
limit and two months fit into the `Horizon`, so requests straddle both borders.
`sessions` likewise chooses by `Scenarios` which endpoints meet; `MaxGen` lets a
session rotate twice and `MaxWrong` leaves room beyond the bound it checks. In
`outbox` the four notifications put two unsendable ones before a sendable one, which is
a full batch; `MaxAttempts = 2` is one retry; `MaxStops` bounds crashes, since a
worker that is always stopped in time does nothing. In `policy`, `MaxEdits` allows two
policies to be created and one of them to be changed while a request reads them;
`MaxDepth = 1` lets validation refuse the deepest of the conditions tried. In `locks`
three transactions are enough for circles of two and of three, two requests for a
batch, two budgets for opposite orders. Each call runs once. The instance of `locks` is
too small for one deadlock, that of a batch which has expired one request, holds the
audit lock and waits for the budget of the next, while a call holds that budget and waits
for the audit lock: it takes three requests. The proof of `DeadlockCauses` asked for this case,
and TLC confirmed it with a third, remote request, one budget for the first and the other for the
rest, one call and the worker: without the case the property is violated there, with it all
88,835 states satisfy it, and with two calls instead of one 5,626,427.

`admission`, `sessions` and `audit` use symmetry over requests, over session rows and
handlers, and over transactions and archive jobs, which no definition tells apart; none of
them checks liveness. The others are small, or check liveness.

Deadlock is not checked (`CHECK_DEADLOCK FALSE`): a system in which every request
is final, every deadline has passed and no administrator acts may really stop.

Fairness (`Fairness`). Time passes: the deadlines of approvals and of claims, the two that
liveness needs, are weakly fair. The
worker is scheduled every minute (`infra/terraform/modules/platform/container_apps.tf`),
so its queries are weakly fair; its writes are strongly fair, because a crash
between query and commit empties what was read and only the assumption that not
every run dies half way lets it finish. A call that is being served reaches its
commit or dies (weak fairness of `HandlerStep`, the steps between its arrival and its commit).
In `Outbox` a worker's cycle is weakly fair, since the job is started every minute,
and time passes; a notification whose integrations all work is strongly fair to be
accepted when it is sent again and again. No such assumption is made of webhook
endpoints, which may refuse every attempt.
In `SdkClient` only the client's own steps are
fair, its timeouts and its deadline among them; every request may be lost.
Nothing is assumed of agents, approvers, administrators or providers: none needs
to act again, and a provider may never answer.

## 4. What is proved

Assumptions: `LedgerAssumption` (finitely many requests, natural amounts and
limits) and `LifecycleAssumption` (SDK requests are requests, `NoRequest` is none
of them, controls are among the five classes), `AuditAssumption` (natural
numbers), `BillingAssumption` and `AdmissionAssumption` (the plan `free` exists,
capacities and windows are at least one, requests and registering handlers are
finitely many), `SessionsAssumption` (natural bounds; finitely many handlers, sessions
and links; a flow is not named like another way to log in) and `OutboxAssumption`
(natural bounds, finitely many deliveries and integrations per organization),
`LockAssumption` (finitely many calls and worker runs, which differ; finitely many budgets
of a request; batches of at least one), `ConditionsAssumption` (a condition is a finite tree of the
operators that `_key` knows) and `PolicyAssumption` (finitely many policies,
numbered from 1; integer priorities; the rules of a document are a sequence). Sets of
handlers and usage rows of the runtime plane, of workers, Stripe deliveries and
checkouts may be infinite or empty.

| Theorem | Says |
|---|---|
| `LedgerType`, `ReservationsTogether`, `SettlementOnce` | types, `AllOrNothing`, `SettledOnce` of `LedgerSpec` |
| `CountersAddUp`, `BudgetsHold` | `Conservation`, `Ceiling` of `LedgerSpec` |
| `LifecycleType` | `Spec => []TypeOK` |
| `ApprovalsAgree`, `ClaimsAgree` | `ApprovalAgreement`, `ClaimAgreement` |
| `LedgerImplemented`, `BudgetsHoldInLife` | `Lifecycle` implements `Ledger`; hence its budget invariants |
| `PermitImplemented`, `RunsAtMostOnce` | `Lifecycle` implements `Permit`; no tool is let run twice |
| `StartedReleases`, `FinalStatusesReopened` | the two action properties about stale writers |
| `SpendingJustified` | `SpendingFollowsSuccess` |
| `ControlsStop` | `StandingControlsStop` |
| `AuditType`, `ArchiveLosesNothing` | types, `NothingLost` of `AuditChain`, for any clocks and any overlap of archive jobs |
| `ChainVerifiesUnless`, `ForksOnlyAfter`, `CheckpointReturnsOnly`, `AlarmsExplained` | `UnlinkedExplained`, `ForksExplained`, `ReturnsExplained`, `FalseAlarmsExplained` of `AuditChain`, for any clocks and any overlap |
| `RunsOnce`, `ResultsRecorded`, `FailuresTruthful` | `RunsOncePermitted`, `ResultMeansRecorded`, `FailureReportsTruthful` of `SdkClient` |
| `FreshDeliveriesAgree` | `FreshCommitAgrees` of `Billing`, for any events, deliveries and checkouts |
| `PlanLimits` | `PlanLimitsHold` of `Admission`; `RegistrationsReach` is its part about registrations |
| `RateLimitsHold` | `RateWindows` of `Admission`, in PostgreSQL and in Redis |
| `SessionsTyped`, `LogoutsHold`, `SpentOnce` | types, `SignedOutUnlessRotated`, `CredentialsSpentOnce` of `Sessions` |
| `LockoutHolds` | `LockoutBound` of `Sessions`, for any number of requests at a time |
| `ReadsStand` | `LockedReadsStand` of `LockOrder` |
| `DeadlockCauses` | `DeadlocksExplained` of `LockOrder`, for circles of any length |
| `SomeoneAlwaysGoesOn` | `SomeoneGoesOn` of `LockOrder`, for any number of transactions |
| `NobodyTurnsBack` | every step of a transaction under way takes it to a later state |
| `ConditionsAnswer`, `FailClosedHolds` | `ConditionsFailClosed` of `PolicyEngine`, for conditions nested to any depth |
| `SnapshotDecides` | `DecisionFollowsSnapshot` of `PolicyEngine`, for any documents and conditions |
| `OutboxInvariant`, `MessagesTrue` | the inductive invariant of `Outbox`, `MessagesAccountedFor` |

The ledger. `Conservation` is a sum over requests; it is stated as the
cardinality of a set of units (`Units`), one pair per minor unit, so that adding
or removing a request's block is a fact about disjoint finite sets. Its inductive
form also contains types and `AllOrNothing`; `NeverClipped` shows that the
`max(0, ...)` never takes effect, which is what lets the counter follow the rows.

The runtime plane. None of the properties is inductive. The invariant `LifeInv`
adds what a handler may rely on after it has looked:

* `RowOK(r)`: how status, approval, claim, starts and outcomes of one request
  fit together;
* `HandlerOK(h)`: a handler past its check serves a request that is `Passed`:
  its approval is behind it for good. This is what makes an unlocked read
  harmless to approvals: whatever happens later, the request never becomes
  pending again;
* `OneOwner`: one holder of a row lock, one call to a provider per request;
* `SweptPassed`: what the worker selected is a started SDK execution.

Each action is shown to keep it in one lemma. The general facts are of
rely-guarantee form: `Rely(k)` is what handler `k` needs of others' steps, each
action's lemma says which row it touches, and `ActBy`, `ActAside`, `ActMove`
derive the rest once for all. Refinement to `Permit` then asks of every action
which phase the row was in and is in (`PermitPhase`, which never takes the value
"ambiguous").

`SightOK` is a second invariant for `ControlsStop`: what stood at arrival and
still stands is among what the check will look at.

The client. `RunOK` is why an unreliable network runs nothing twice: a started request
stays started, only an executable one can be started, `protect()` never claims again after
an answered claim, and `POST /execute`, the one operation that makes a request of its own,
has a single attempt and finds none there. `ReportOK` is about reports: every one on its way tells how the
tool ended, but for the second one of TypeScript, and the first that is accepted ends the
request, so that the answer to a report of success can only be to the accepted one.
`Onward` is what all of the API's steps leave of the status.

The audit chain. No theorem assumes anything of the clocks or of the archive jobs:
`ChainInv` says what holds as long as no clock was set back, and what an overtaken job
leaves of it. `Records` holds without any condition: one transaction appends at a time and writes
behind all that is committed, events link backwards, batches and the checkpoint are
events that were committed. As long as no clock was set back, `RowsOK` says that rows are ordered by time as
they were written and each links to the one just before it in the table, the first to the
checkpoint unless an overtaken job was the last to write it; and, while no job was ever overtaken, that table and
blobs together are one chain. It is stated twice, for the committed rows and for these with the open
transaction, since the latter may be rolled back. `ArchiveOK` says that what is only in blobs
was written before what is in the table and that a batch is a first part of the table as it was, of
which again a first part may be gone (`BatchOK`). So a job that was not overtaken
deletes a first part of the table and leaves the checkpoint just before the rest, and one whose
last event is still in the table repairs what an overtaken one had left. The condition "no
clock was set back" can only become false among rows that stay; it becomes true again
only when the transaction that broke it rolls back. TLC checked `ChainInv` with two and with three overlapping
jobs before it was proved.

Billing and admission. `FreshOK` says that what a delivery has read is what the tables
hold, as long as nothing overtook it; that a row it saw is still there; and that one
checkout at most has an uncommitted row. `QuotaOK` says that whoever passed the quota
holds its lock and that one more action fits the plan it has read: the plan may change
and the month may end before it commits, so the bound of a month is that of some
request in it, not of the plan now. `RateOK` relates buckets to the requests that went
through them: what a request has counted is a first part of the limits that match it
(`ChargesOK`), in PostgreSQL only the holder of the lock has uncommitted counts
(`LockOK`), a bucket is at least, in PostgreSQL exactly, the number of those who passed
it (`BucketsOK`), and a refusal has a bucket that is full of requests that are done, so
that no rollback can empty it again (`RefusedOK`, `Full`). An interval of a window's
length meets two windows, hence the factor two.

Sessions. `RotationOK`: a refresh in progress is alone on its row and has its current
generation; a logout in progress has seen a generation that is not above the row's.
With this a logout that finds no row can only have been overtaken by a rotation.
`SpentOK`: a flow that is still there has given no session, and for one that is gone
sessions and callbacks under way together do not exceed the handlers, because every
callback under way has read the flow before it was deleted.

The lockout. Let every request stand at a count: the row's, or the one that its login has
read, where this is lower. A wrong password that does not lock the account is counted from
what its login read, so the request leaves the lowest count that anybody changes at all
(`MovesOn`): whoever stood below stays, and nobody else arrives there. Nothing else moves
a request to a lower count, apart from a login that had read more than the row has now, and
for it the count is the row's already (`KeepsOn`). So the profile, the number of requests at
each count, goes up in the lexicographic order, and `CountOK` says that there have been no
more wrong passwords than there are profiles before that of now. No smaller
bound holds: with two requests and three or five failures to the lock, and with three
requests and two or three failures, TLC finds behaviours with exactly one wrong password
less than there are profiles. It also checked `CountOK` on these four instances (up to
327,688 states) before it was proved.

Locks. `ReadsStand` rests on one fact: whoever has a locked mark on a request holds its
row's lock (or that of a row which does not exist yet), and a commit writes only requests
of which it holds the lock. `DeadlockCauses` gives locks a rank (approval, request,
agent, the gates of `authorize`, reservations, usage, audit). The invariant `OrderInv` says of every
transaction that is not late that what it waits for ranks above all it holds, usage rows
and the worker's requests excepted. In a circle, take a transaction that waits for the
highest rank: the one that has this lock waits for a rank that is not higher, so it is
late, or one of two in an exception.

`SomeoneAlwaysGoesOn` needs more of each transaction (`Shape`): who is to read a status has
a request to read it of, a call has no batch, and a worker's run is in one of the two
halves of its job. Then whoever is under way is `Ready` or waits for a lock
(`GoesOrWaits`); the holder of a lock is itself under way, since nothing that is idle,
ended or with the provider holds one. So if nobody were ready, all that run would wait for
each other, and a least such set is a circle, by the well-foundedness of the strict subset
order (`StuckHasCircle`). `NobodyTurnsBack` gives the order (`Later`): the end, the second
half of the worker's job, a smaller batch, the status read, a shorter plan. The two
theorems together are the safety part of the claim that every transaction ends;
that a step which can be taken is taken at last is PostgreSQL's part.

Conditions. The set of conditions may be infinite and nested to any depth, and
`When`, `Meaning`, `Inside` and `ValidAt` are defined by recursion. `Recursion` shows once
that values given from the parts of a thing exist: it takes the table that is right up to
each depth and, since two such tables agree, puts them together (`FromParts`, `Solves`).
`WhenIs`, `MeaningIs`, `ClausesAre` and `ValidIs` get the four equations from it. Each claim is
then proved on the least nested condition that would refute it (`Shallowest`), clause by
clause; `ClausesSettle` and `ClauseSettles` say which clause, or which nested condition, an answer
comes from, which is why order and early stops change no answer but exceptions.

The policy engine. `EvaluateRight` is about the evaluation alone: if documents and
priorities are those of one moment, its answer follows from them (`Follows`). Its heart is that
the sort has a first element (`FirstOf`: every finite set has one in an order that compares
any two of its elements, by the well-foundedness of the strict subset order), and that
severity and priority of that element are what `Top` asks of the decision. The invariant
`ReadingOK` says that a reader's rows point to versions that are still there and that the
documents read so far are those; it holds because no step changes or removes a version (`Grows`).

The outbox. `Accounted` speaks of what each worker will commit: the attempts it has
read, plus the one it makes, have happened (`HooksRight`); what it will mark was
accepted, and fewer than a batch of notifications that cannot be sent lie before it
(`NotesRight`). The last holds because such notifications stay pending for ever: a
selection of the first `BatchSize` pending rows reaches none behind a whole batch of
them (`FirstBehind`).

Not proved, checked by TLC only: the four liveness properties (`PendingResolves`,
`ClaimEnds`, `CallEnds`, `EveryMessageResolves`), since the prover does not reason about
fairness and `ENABLED`. Every invariant and every action property of the passing runs is
the subject of a theorem.

To reproduce: `tlapm LifecycleProofs.tla`, and likewise `SdkClientProofs.tla`,
`AuditChainProofs.tla`, `AdmissionProofs.tla`, `SessionsProofs.tla`, `OutboxProofs.tla`,
`LockOrderProofs.tla`, `PolicyEngineProofs.tla`; and
`tlc -config MCRemote.cfg MCLifecycle` for the runs.

## 5. Not modelled

* In `Lifecycle`, the locks within a transaction: its locked part is one step
  (`LockedReadsStand` says why that is sound), and the end of a deadlock is a `Crash`.
* The voting modes of approvals that no code path creates; registration, invitations
  and API keys, whose only races end in a unique constraint.

Left out for good: DLP and risk scoring (strings and constants), row level
security (database configuration), connectors' protocols, presentation.

A request that was started and whose process died stays `executing` for ever
when its tool is remote: the model contains that state (`Crash` in `calling`),
and no property claims an end for it because neither code nor documents provide
one.

## 6. Where the code and its documents differ

Each is a run that TLC ends with a counterexample, and an entry under `findings`.

* `started`: SECURITY.md and FEATURES.md say that an uncertain outcome keeps the
  budget reserved. A replay of `POST /execute` that read the request before
  another call started it, and is refused by a control set in between, writes
  `agent_disabled` over `executing` and releases the reservation while the
  provider call is in flight.
* `archive`: FEATURES.md says that the checkpoint keeps the remaining chain verifiable. The
  archive job runs every minute and may take five (`container_apps.tf`); when two runs overlap, the one
  that selected less and commits last moves the checkpoint back behind events that
  the other one has deleted. The run has exact clocks. With `Skew = 1` two events and no
  archive job break the chain too: the lock serializes the appends, but predecessor and
  verification go by `occurred_at`, the clock of the replica.

Observed while modelling, without a run of their own:

* FEATURES.md says that a result consumes the claim once. The worker's sweep may
  overwrite a result that was accepted in time, and records an expiry of the same claim
  (`r \in swept` in `OnlyStaleWritersReopen`).
* A replay of `POST /execute` that read an SDK request as authorized, and its tool after
  the adapter was changed to a remote one, may write a refusal over a request that was claimed
  meanwhile. The budget is released while the agent runs the tool, its result
  is answered with a conflict, and the claim hash stays on the row: the worker's sweep
  looks at `executing` only (second part of `ClaimAgreement`).
* FEATURES.md says that a reservation is spent or released. One whose request stays
  `authorized` or `approved` is neither.
* FEATURES.md says that budget settlement is audited. An expiry by
  `decide_approval` releases without an event.
* FEATURES.md calls the TypeScript SDK equivalent to the Python one, which reports the
  real outcome. In TypeScript a lost report of a success is followed by a report of
  failure, and the API records it. The other way round, only TypeScript preserves the error of
  a tool whose failure cannot be reported: in Python the report's error replaces it.
* Both SDKs say "action was not executed" whenever an operation fails, also when the
  operation was the execution, or the report after it.
* A logout between whose two reads a refresh commits answers 204 and ends nothing
  (second part of `SignedOutUnlessRotated`).
* A delivery may end as `failed` although the endpoint has accepted it: two workers
  overlap, or one is stopped after the post. A full batch of notifications that
  cannot be sent keeps every later one waiting (`Stuck`).
* Handlers and worker deadlock, and PostgreSQL aborts one of them. `authorize` keeps the
  agent's row from its insert on and waits for the audit lock, while a claim or a result
  of the same agent has the audit lock and flushes that row; a decision and an expiry of
  one request wait for approval and request of each other; the worker's batch holds the audit
  lock while it waits for the next request. The caller is answered 500, or the worker's
  whole batch is undone until its next run.
* Two first events of an organization race for its subscription row; the loser is
  answered 200 as a duplicate and its plan is lost (`RejectEvent`).
