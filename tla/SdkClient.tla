------------------------------ MODULE SdkClient ------------------------------
(***************************************************************************)
(* One call through an SDK, against the runtime plane, over a network that  *)
(* delays and loses requests and responses.  A call of protect() authorizes  *)
(* with a fresh idempotency key, waits for an approval, claims, runs the     *)
(* tool in the agent's process and reports; a call of execute() leaves the   *)
(* tool to the API.                                                         *)
(*                                                                         *)
(* The runtime plane is reduced to what it answers and to the status of the  *)
(* request: Lifecycle has its rows, locks and races.  No two calls share an  *)
(* idempotency key or a request, so one call is enough.                     *)
(***************************************************************************)
EXTENDS Naturals

VARIABLES
  kind,      \* who calls: protect() of one SDK or the other, or execute() of either
  pc,        \* the operation whose response the client awaits, or run, or end
  try,       \* the attempt at that operation
  patient,   \* approval_timeout has not passed
  inbox,     \* requests on their way to the API or in its hands
  half,      \* those it has processed half way
  reply,     \* response to the current attempt
  told,      \* what the caller of the SDK is told in the end
  status,    \* AuthorizationRequest.status, absent without a row
  recorded,  \* the report the API has accepted
  ran,       \* history: how often the tool was run
  outcome    \* history: how its run in the agent's process ended

clientVars == <<pc, try, told>>
serverVars == <<status, recorded>>
toolVars == <<ran, outcome>>
netVars == <<inbox, half, reply>>
vars == <<kind, clientVars, patient, netVars, serverVars, toolVars>>

\* Endpoints: POST /authorize, POST /execute, GET, /claim, /execute and /result of a
\* request, the last with one of two statuses.
Operation == {"authorize", "execute", "poll", "claim", "resume", "succeeded", "failed"}

Executable == {"authorized", "approved"}

Init ==
  /\ kind \in {"python", "typescript", "gateway"}
  /\ pc = "start"
  /\ try = 0
  /\ patient = TRUE
  /\ inbox = {}
  /\ half = {}
  /\ reply = "none"
  /\ told = "nothing"
  /\ status = "absent"
  /\ recorded = "none"
  /\ ran = 0
  /\ outcome = "none"

-----------------------------------------------------------------------------
(* The client *)

Request(op, n) == [op |-> op, try |-> n]

Current == Request(pc, try)

Attempt(op, n) ==
  /\ pc' = op
  /\ try' = n
  /\ inbox' = inbox \cup {Request(op, n)}
  /\ reply' = "none"
  /\ UNCHANGED <<half, told>>

Send(op) == Attempt(op, 1)

End(what) ==
  /\ pc' = "end"
  /\ try' = 0
  /\ told' = what
  /\ reply' = "none"
  /\ UNCHANGED <<inbox, half>>

clientOnly == <<kind, patient, serverVars, toolVars>>

Start ==
  /\ pc = "start"
  /\ Send(IF kind = "gateway" THEN "execute" ELSE "authorize")
  /\ UNCHANGED clientOnly

\* Faulty: execute() is retried as well.
AttemptsAtExecute(op) == IF op \in {"authorize", "execute"} THEN 2 ELSE 1

\* retry=bool(idempotency_key): protect() always has one.
Attempts(op) == IF op = "authorize" THEN 2 ELSE 1

\* Faulty: in both SDKs a failed report of a success is followed by a report of failure.
RetellsAlways == kind # "gateway"

\* In TypeScript the report of a success is inside the try block of the tool.
Retells == kind = "typescript"

\* TypeScript catches what becomes of the report, to "preserve the actual tool failure".
\* Python raises in a finally block: the tool's error, or the report's own if that failed.
ErrorToldFor(reported) ==
  IF outcome = "raised" /\ (reported \/ kind = "typescript") THEN "raised" ELSE "unavailable"

\* Faulty: a report that fails is ignored.
GiveUpQuietly ==
  IF pc = "succeeded" THEN End("result") ELSE End(ErrorToldFor(FALSE))

\* The current operation has failed for good.
GiveUp ==
  IF pc = "succeeded" /\ Retells THEN Send("failed") ELSE End(ErrorToldFor(FALSE))

\* A transport error or a timeout: the request or its response may still be on its way.
ConnectionLost ==
  /\ pc \in Operation
  /\ IF try < Attempts(pc) THEN Attempt(pc, try + 1) ELSE GiveUp
  /\ UNCHANGED clientOnly

ErrorResponse ==
  /\ pc \in Operation
  /\ reply = "error"
  /\ GiveUp
  /\ UNCHANGED clientOnly

\* The response to authorize or execute; _wait for what is not decided.
Decided ==
  /\ pc \in {"authorize", "execute"}
  /\ \/ reply = "require_approval" /\ Send("poll")
     \/ reply = "allow" /\ IF kind = "gateway" THEN End("answer") ELSE Send("claim")
     \/ reply = "deny" /\ End(IF kind = "gateway" THEN "answer" ELSE "denied")
  /\ UNCHANGED clientOnly

\* Faulty: waiting has no deadline.
WaitsForever == TRUE

\* while time.monotonic() < deadline
MayWait == patient

Polled ==
  /\ pc = "poll"
  /\ \/ reply = "approved" /\ Send(IF kind = "gateway" THEN "resume" ELSE "claim")
     \/ reply = "refused" /\ End("denied")
     \/ reply = "pending" /\ IF MayWait THEN Send("poll") ELSE End("timeout")
  /\ UNCHANGED clientOnly

\* The claim's arguments are bound to the function, which is called; or they do not fit.
Claimed ==
  /\ pc = "claim"
  /\ reply = "claimed"
  /\ \/ /\ pc' = "run"
        /\ try' = 0
        /\ reply' = "none"
        /\ ran' = ran + 1
        /\ UNCHANGED <<inbox, half, told>>
     \/ /\ End("unavailable")
        /\ UNCHANGED ran
  /\ UNCHANGED <<kind, patient, serverVars, outcome>>

ToolEnds ==
  /\ pc = "run"
  /\ \/ outcome' = "returned" /\ Send("succeeded")
     \/ outcome' = "raised" /\ Send("failed")
  /\ UNCHANGED <<kind, patient, serverVars, ran>>

Reported ==
  /\ pc \in {"succeeded", "failed"}
  /\ reply = "ok"
  /\ End(IF pc = "succeeded" THEN "result" ELSE ErrorToldFor(TRUE))
  /\ UNCHANGED clientOnly

Resumed ==
  /\ pc = "resume"
  /\ reply = "ok"
  /\ End("answer")
  /\ UNCHANGED clientOnly

ApprovalTimeout ==
  /\ patient
  /\ patient' = FALSE
  /\ UNCHANGED <<kind, clientVars, netVars, serverVars, toolVars>>

ClientDies ==
  /\ pc # "end"
  /\ End("nothing")
  /\ UNCHANGED clientOnly

-----------------------------------------------------------------------------
(* The API *)

\* A response reaches the client only if it still waits for it.
Answer(m, response) ==
  /\ inbox' = inbox \ {m}
  /\ half' = half \ {m}
  /\ reply' = IF m = Current THEN response ELSE reply

serverOnly == <<kind, clientVars, patient, outcome>>

Decision ==
  CASE status = "pending" -> "require_approval"
    [] status \in {"absent", "refused"} -> "deny"
    [] OTHER -> "allow"

\* authorize, first the idempotency lookup ...
LookUpKey(m) ==
  /\ m.op = "authorize"
  /\ m \notin half
  /\ \/ /\ status = "absent"
        /\ half' = half \cup {m}
        /\ UNCHANGED <<inbox, reply>>
     \/ /\ status # "absent"
        /\ Answer(m, Decision)
  /\ UNCHANGED <<serverOnly, serverVars, ran>>

\* ... then the decision and the insert, which fails when the key has been inserted.
InsertRequest(m) ==
  /\ m.op = "authorize"
  /\ m \in half
  /\ \/ /\ status = "absent"
        /\ status' \in {"authorized", "pending", "refused"}
        /\ Answer(m, Decision')
     \/ /\ status # "absent"
        /\ Answer(m, "error")
        /\ UNCHANGED status
  /\ UNCHANGED <<serverOnly, recorded, ran>>

\* POST /execute: a request of its own.
AuthorizeAndExecute(m) ==
  /\ m.op = "execute"
  /\ m \notin half
  /\ \/ /\ status' = "authorized"
        /\ half' = half \cup {m}
        /\ UNCHANGED <<inbox, reply>>
     \/ /\ status' \in {"pending", "refused"}
        /\ Answer(m, Decision')
  /\ UNCHANGED <<serverOnly, recorded, ran>>

\* An operation the API refuses: an expired, blocked or drifted request, a claim that is
\* no longer valid, a credential that was revoked, a failure inside.
Refuse(m) ==
  /\ Answer(m, "error")
  /\ status' \in IF m.op \in {"claim", "execute", "resume"} /\ status \in Executable
                   THEN {status, "refused"} ELSE {status}
  /\ UNCHANGED <<serverOnly, recorded, ran>>

\* _execute_remote, for POST /execute and for the endpoint of a request.
StartRemote(m) ==
  /\ \/ m.op = "execute" /\ m \in half
     \/ m.op = "resume" /\ m \notin half
  /\ status \in Executable
  /\ status' = "executing"
  /\ ran' = ran + 1
  /\ half' = half \cup {m}
  /\ UNCHANGED <<serverOnly, inbox, reply, recorded>>

FinishRemote(m) ==
  /\ m.op \in {"execute", "resume"}
  /\ m \in half
  /\ status = "executing"
  /\ status' \in {"succeeded", "failed"}
  /\ Answer(m, IF m.op = "execute" THEN "allow" ELSE "ok")
  /\ UNCHANGED <<serverOnly, recorded, ran>>

\* A request that is not executable, or expires now, is answered as it stands.
AnswerStatus(m) ==
  /\ \/ m.op = "execute" /\ m \in half
     \/ m.op = "resume" /\ m \notin half
  /\ status # "executing"
  /\ status' = IF status \in Executable THEN "refused" ELSE status
  /\ Answer(m, IF m.op = "execute" THEN "allow" ELSE "ok")
  /\ UNCHANGED <<serverOnly, recorded, ran>>

RequestStatus(m) ==
  /\ m.op = "poll"
  /\ Answer(m, IF status \in {"pending", "approved"} THEN status ELSE "refused")
  /\ UNCHANGED <<serverOnly, serverVars, ran>>

ClaimRequest(m) ==
  /\ m.op = "claim"
  /\ status \in Executable
  /\ status' = "executing"
  /\ Answer(m, "claimed")
  /\ UNCHANGED <<serverOnly, recorded, ran>>

\* A success that does not match the tool's schema is stored as a failure.
ReportResult(m) ==
  /\ m.op \in {"succeeded", "failed"}
  /\ status = "executing"
  /\ status' \in {m.op, "failed"}
  /\ recorded' = m.op
  /\ Answer(m, "ok")
  /\ UNCHANGED <<serverOnly, ran>>

\* Approvers, the deadlines and the worker's sweep of claims.
Resolve ==
  /\ \/ status = "pending" /\ status' \in {"approved", "refused"}
     \/ status = "executing" /\ kind # "gateway" /\ status' = "failed"
  /\ UNCHANGED <<serverOnly, netVars, recorded, ran>>

\* Lost on the way, or the process that serves it dies.
Lost(m) ==
  /\ inbox' = inbox \ {m}
  /\ half' = half \ {m}
  /\ UNCHANGED <<serverOnly, reply, serverVars, ran>>

-----------------------------------------------------------------------------
ClientStep ==
  \/ Start \/ ConnectionLost \/ ErrorResponse \/ Decided \/ Polled
  \/ Claimed \/ Reported \/ Resumed

Serve(m) ==
  \/ LookUpKey(m) \/ InsertRequest(m) \/ AuthorizeAndExecute(m) \/ Refuse(m)
  \/ StartRemote(m) \/ FinishRemote(m) \/ AnswerStatus(m) \/ RequestStatus(m)
  \/ ClaimRequest(m) \/ ReportResult(m) \/ Lost(m)

Next ==
  \/ ClientStep
  \/ ToolEnds
  \/ ApprovalTimeout
  \/ ClientDies
  \/ \E m \in inbox : Serve(m)
  \/ Resolve

\* The client's own steps, its timeouts among them, and its clock.  Nothing is assumed
\* of the network, the API, the approvers or the tool.
Fairness == WF_vars(ClientStep) /\ WF_vars(ApprovalTimeout)

Spec == Init /\ [][Next]_vars /\ Fairness

-----------------------------------------------------------------------------
(* Properties *)

\* FEATURES.md: "A tool must never run unless the runtime plane returns an executable
\* state".  Whatever is lost, delayed or retried, a call runs its tool at most once, and
\* only if the request was started for it.
RunsOncePermitted ==
  /\ ran <= 1
  /\ ran = 1 => status \in {"executing", "succeeded", "failed"}

\* What the caller gets is what happened: a result only when the API has accepted the
\* report of it, a success reported only of a tool that returned, and the tool's exception
\* only of a tool that raised; of such a tool TypeScript tells nothing else, and Python
\* tells the exception only if the failure is recorded, the report's own error if not.
ResultMeansRecorded ==
  /\ told = "result" => recorded = "succeeded"
  /\ recorded = "succeeded" => outcome = "returned"
  /\ told = "raised" => outcome = "raised" /\ (kind = "python" => recorded = "failed")
  /\ outcome = "raised" => \/ told \in {"nothing", "raised"}
                           \/ kind = "python" /\ told = "unavailable"

\* A failure is recorded of a tool that raised, or of one whose success TypeScript could not
\* report: its catch block then reports a failure, and the caller gets no result.
FailureReportsTruthful ==
  recorded = "failed" =>
    \/ outcome = "raised"
    \/ kind = "typescript" /\ told \in {"nothing", "unavailable"}

\* Outside the tool no call waits for ever: neither for a response nor for an approver.
CallEnds == []<>(pc \in {"run", "end"})
=============================================================================
