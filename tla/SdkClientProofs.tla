-------------------------- MODULE SdkClientProofs --------------------------
(* Theorems about SdkClient: why a call of an SDK runs its tool at most once, and  *)
(* why what its caller is told agrees with what the API has recorded.              *)
EXTENDS SdkClient, TLAPS

-----------------------------------------------------------------------------
(* What a request in flight, and a client at one of its steps, may rely on *)

Started == {"executing", "succeeded", "failed"}
Status == {"absent", "authorized", "approved", "pending", "refused"} \cup Started

\* Operations of protect(), and those of execute().
OfProtect == {"authorize", "poll", "claim", "succeeded", "failed"}
OfExecute == {"execute", "poll", "resume"}

Message == [op : Operation, try : Nat]

TypeOK ==
  /\ kind \in {"python", "typescript", "gateway"}
  /\ pc \in Operation \cup {"start", "run", "end"}
  /\ try \in Nat
  /\ pc \in Operation => try \in Nat \ {0}
  /\ inbox \in SUBSET Message
  /\ half \in SUBSET inbox
  /\ status \in Status
  /\ recorded \in {"none", "succeeded", "failed"}
  /\ outcome \in {"none", "returned", "raised"}
  /\ ran \in Nat

\* Each SDK call keeps to its operations.
Apart ==
  IF kind = "gateway"
  THEN /\ pc \in OfExecute \cup {"start", "end"}
       /\ \A m \in inbox : m.op \in OfExecute
  ELSE /\ pc \in OfProtect \cup {"start", "run", "end"}
       /\ \A m \in inbox : m.op \in OfProtect

\* A tool runs only once its request is started, which is for good: protect() runs it when
\* the claim is answered and then never claims again; POST /execute, which has no second
\* attempt, is begun with no request there.
RunOK ==
  /\ ran <= 1
  /\ ran > 0 => status \in Started
  /\ reply = "claimed" => status \in Started
  /\ kind # "gateway" /\ pc \in {"start", "authorize", "poll", "claim"} => ran = 0
  /\ pc = "start" => status = "absent" /\ inbox = {}
  /\ \A m \in inbox : m.op = "execute" => m.try = 1 /\ (m \notin half => status = "absent")
  /\ pc = "execute" => try = 1

\* A report tells how the tool ended, except the second one of TypeScript; one at most is
\* accepted, and the API's answer is to that one.
ReportOK ==
  /\ pc # "end" => told = "nothing"
  /\ pc \in {"start", "authorize", "execute", "poll", "claim", "resume", "run"} => outcome = "none"
  /\ outcome = "returned" => told \in {"nothing", "result", "unavailable"}
  /\ outcome = "none" => recorded = "none" /\ \A m \in inbox : m.op \notin {"succeeded", "failed"}
  /\ pc = "succeeded" => outcome = "returned"
  /\ pc = "failed" => outcome # "none" /\ (kind = "python" => outcome = "raised")
  /\ \A m \in inbox : /\ m.op = "succeeded" => outcome = "returned"
                      /\ m.op = "failed" /\ kind = "python" => outcome = "raised"
  /\ recorded # "none" => status \in {"succeeded", "failed"}
  /\ pc \in {"succeeded", "failed"} /\ reply = "ok" => recorded = pc

Inv ==
  /\ TypeOK /\ Apart /\ RunOK /\ ReportOK
  /\ ResultMeansRecorded /\ FailureReportsTruthful

USE DEF Operation, Message, Status, Started, OfProtect, OfExecute,
        clientVars, serverVars, toolVars, netVars, clientOnly, serverOnly

LEMMA InitInv == Init => Inv
  BY DEF Init, Inv, TypeOK, Apart, RunOK, ReportOK, ResultMeansRecorded, FailureReportsTruthful

-----------------------------------------------------------------------------
(* The client *)

\* What a request that is sent changes.
LEMMA Sent ==
  ASSUME NEW op \in Operation, NEW n \in Nat, Attempt(op, n)
  PROVE  /\ pc' = op /\ try' = n /\ reply' = "none" /\ half' = half /\ told' = told
         /\ inbox' = inbox \cup {Request(op, n)}
         /\ Request(op, n) \in Message /\ Request(op, n).op = op /\ Request(op, n).try = n
  BY DEF Attempt, Request

\* A request that the client may send: its kind of call has it, a claim comes before the
\* tool has been run, and a report tells how the tool has ended.
Fitting(op) ==
  /\ op \in Operation /\ pc # "end"
  /\ kind = "gateway" => op \in OfExecute
  /\ kind # "gateway" => op \in OfProtect
  /\ op = "execute" => status = "absent"
  /\ op \in {"authorize", "poll", "claim"} /\ kind # "gateway" => ran = 0
  /\ outcome' = outcome \/ (outcome = "none" /\ outcome' \in {"returned", "raised"})
  /\ IF op \in {"succeeded", "failed"} THEN outcome' # "none" ELSE outcome' = "none"
  /\ op = "succeeded" => outcome' = "returned"
  /\ op = "failed" /\ kind = "python" => outcome' = "raised"

LEMMA SentInv ==
  ASSUME Inv, UNCHANGED <<kind, status, recorded, ran>>, NEW op, NEW n \in Nat \ {0},
         Attempt(op, n), Fitting(op), op = "execute" => n = 1
  PROVE  Inv'
  <1> USE DEF Fitting
  <1>1. UNCHANGED <<kind, status, recorded, ran, half, told>> /\ reply' = "none" /\ pc' = op /\ try' = n
    BY Sent
  <1>2. \A m \in inbox' : m \in inbox \/ (m \in Message /\ m.op = op /\ m.try = n)
    BY Sent
  <1>3. inbox' \in SUBSET Message /\ inbox \subseteq inbox'
    BY Sent DEF Inv, TypeOK
  <1>4. TypeOK' /\ Apart'
    BY <1>1, <1>2, <1>3 DEF Inv, TypeOK, Apart
  <1>5. RunOK'
    BY <1>1, <1>2 DEF Inv, TypeOK, RunOK
  <1>6. ReportOK' /\ ResultMeansRecorded' /\ FailureReportsTruthful'
    BY <1>1, <1>2 DEF Inv, TypeOK, ReportOK, ResultMeansRecorded, FailureReportsTruthful
  <1> QED
    BY <1>4, <1>5, <1>6 DEF Inv

\* The end of a call: a result is told only of an accepted report, and what a tool raised
\* as that, or as the failure of its report.
LEMMA EndInv ==
  ASSUME Inv, UNCHANGED clientOnly, NEW what, End(what),
         what = "result" => recorded = "succeeded",
         what = "raised" => outcome = "raised" /\ (kind = "python" => recorded = "failed"),
         outcome = "raised" => what \in {"nothing", "raised"} \/ (kind = "python" /\ what = "unavailable"),
         outcome = "returned" => what \in {"nothing", "result", "unavailable"}
  PROVE  Inv'
  BY DEF End, Inv, TypeOK, Apart, RunOK, ReportOK, ResultMeansRecorded, FailureReportsTruthful

\* An operation that fails for good ends the call, but for the report of a success by
\* TypeScript, which another report follows.
LEMMA GiveUpInv == ASSUME Inv, pc \in Operation, GiveUp, UNCHANGED clientOnly PROVE Inv'
  <1>1. CASE pc = "succeeded" /\ Retells
    <2>1. Attempt("failed", 1) /\ kind = "typescript" /\ outcome = "returned"
      BY <1>1 DEF GiveUp, Send, Retells, Inv, ReportOK
    <2>2. Fitting("failed")
      BY <1>1, <2>1 DEF Fitting
    <2> QED
      BY <2>1, <2>2, SentInv
  <1>2. CASE ~(pc = "succeeded" /\ Retells)
    <2>1. PICK what \in {"raised", "unavailable"} :
            /\ End(what)
            /\ what = "raised" <=> outcome = "raised" /\ kind = "typescript"
      BY <1>2 DEF GiveUp, ErrorToldFor
    <2>2. outcome = "raised" => kind # "gateway"
      BY DEF Inv, ReportOK, Apart
    <2> QED
      BY <2>1, <2>2, EndInv DEF Inv, TypeOK
  <1> QED
    BY <1>1, <1>2

\* Only authorize has a second attempt.
LEMMA ConnectionLostInv == ASSUME Inv, ConnectionLost PROVE Inv'
  <1>1. CASE try < Attempts(pc)
    <2>1. pc = "authorize" /\ Attempt("authorize", try + 1) /\ try + 1 \in Nat \ {0}
      BY <1>1 DEF ConnectionLost, Attempts, Inv, TypeOK
    <2>2. kind # "gateway" /\ ran = 0 /\ outcome = "none"
      BY <2>1 DEF Inv, Apart, RunOK, ReportOK
    <2>3. Fitting("authorize") /\ UNCHANGED <<kind, status, recorded, ran>>
      BY <2>1, <2>2 DEF Fitting, ConnectionLost
    <2> QED
      BY <2>1, <2>3, SentInv
  <1>2. CASE ~(try < Attempts(pc))
    BY <1>2, GiveUpInv DEF ConnectionLost
  <1> QED
    BY <1>1, <1>2

\* The steps before the tool is run, or let run by the API.
LEMMA BeforeInv == ASSUME Inv, Start \/ Decided \/ Polled \/ Resumed PROVE Inv'
  <1>1. /\ UNCHANGED clientOnly /\ UNCHANGED <<kind, status, recorded, ran>>
        /\ pc \in {"start", "authorize", "execute", "poll", "resume"} /\ outcome' = outcome
        /\ outcome = "none" /\ (kind # "gateway" => ran = 0)
    BY DEF Start, Decided, Polled, Resumed, Inv, ReportOK, Apart, RunOK
  <1>2. \/ Start /\ Attempt(IF kind = "gateway" THEN "execute" ELSE "authorize", 1)
        \/ Attempt("poll", 1)
        \/ kind # "gateway" /\ Attempt("claim", 1)
        \/ kind = "gateway" /\ Attempt("resume", 1)
        \/ \E what \in {"answer", "denied", "timeout"} : End(what)
    BY <1>1 DEF Start, Decided, Polled, Resumed, Send
  <1>3. CASE Start /\ Attempt(IF kind = "gateway" THEN "execute" ELSE "authorize", 1)
    <2>1. status = "absent"
      BY <1>3 DEF Start, Inv, RunOK
    <2>2. Fitting(IF kind = "gateway" THEN "execute" ELSE "authorize")
      BY <1>1, <2>1 DEF Fitting
    <2> QED
      BY <1>1, <1>3, <2>2, SentInv
  <1>4. CASE Attempt("poll", 1)
    <2>1. Fitting("poll")
      BY <1>1 DEF Fitting
    <2> QED
      BY <1>1, <1>4, <2>1, SentInv
  <1>5. CASE kind # "gateway" /\ Attempt("claim", 1)
    <2>1. Fitting("claim")
      BY <1>1, <1>5 DEF Fitting
    <2> QED
      BY <1>1, <1>5, <2>1, SentInv
  <1>6. CASE kind = "gateway" /\ Attempt("resume", 1)
    <2>1. Fitting("resume")
      BY <1>1, <1>6 DEF Fitting
    <2> QED
      BY <1>1, <1>6, <2>1, SentInv
  <1>7. ASSUME NEW what \in {"answer", "denied", "timeout"}, End(what) PROVE Inv'
    BY <1>1, <1>7, EndInv
  <1> QED
    BY <1>2, <1>3, <1>4, <1>5, <1>6, <1>7

\* The claim is answered only for a request that it has started, and it has not been
\* answered before: this is the first run.
LEMMA ClaimedInv == ASSUME Inv, Claimed PROVE Inv'
  <1>1. kind # "gateway" /\ ran = 0 /\ status \in Started /\ outcome = "none"
    BY DEF Claimed, Inv, Apart, RunOK, ReportOK
  <1>2. CASE End("unavailable") /\ UNCHANGED ran
    BY <1>1, <1>2, EndInv DEF Claimed
  <1>3. CASE pc' = "run" /\ try' = 0 /\ reply' = "none" /\ ran' = ran + 1 /\ UNCHANGED <<inbox, half, told>>
    <2>1. UNCHANGED <<kind, status, recorded, outcome>> /\ ran' = 1
      BY <1>1, <1>3 DEF Claimed
    <2>2. TypeOK' /\ Apart' /\ RunOK'
      BY <1>1, <1>3, <2>1 DEF Claimed, Inv, TypeOK, Apart, RunOK
    <2>3. ReportOK' /\ ResultMeansRecorded' /\ FailureReportsTruthful'
      BY <1>1, <1>3, <2>1 DEF Claimed, Inv, ReportOK, ResultMeansRecorded, FailureReportsTruthful
    <2> QED
      BY <2>2, <2>3 DEF Inv
  <1> QED
    BY <1>2, <1>3 DEF Claimed

\* What is reported first is how the tool ended.
LEMMA ToolEndsInv == ASSUME Inv, ToolEnds PROVE Inv'
  <1>1. kind # "gateway" /\ outcome = "none" /\ pc = "run" /\ UNCHANGED <<kind, status, recorded, ran>>
    BY DEF ToolEnds, Inv, Apart, ReportOK
  <1>2. \/ outcome' = "returned" /\ Attempt("succeeded", 1)
        \/ outcome' = "raised" /\ Attempt("failed", 1)
    BY DEF ToolEnds, Send
  <1>3. CASE outcome' = "returned" /\ Attempt("succeeded", 1)
    <2>1. Fitting("succeeded")
      BY <1>1, <1>3 DEF Fitting
    <2> QED
      BY <1>1, <1>3, <2>1, SentInv
  <1>4. CASE outcome' = "raised" /\ Attempt("failed", 1)
    <2>1. Fitting("failed")
      BY <1>1, <1>4 DEF Fitting
    <2> QED
      BY <1>1, <1>4, <2>1, SentInv
  <1> QED
    BY <1>2, <1>3, <1>4

LEMMA ReportedInv == ASSUME Inv, Reported PROVE Inv'
  <1>1. PICK what \in {"result", "raised", "unavailable"} :
          /\ End(what) /\ UNCHANGED clientOnly
          /\ what = "result" => pc = "succeeded"
          /\ pc = "succeeded" => what = "result"
          /\ pc # "succeeded" => (what = "raised" <=> outcome = "raised")
    BY DEF Reported, ErrorToldFor
  <1>2. pc \in {"succeeded", "failed"} /\ recorded = pc /\ (pc = "succeeded" => outcome = "returned")
    BY DEF Reported, Inv, ReportOK
  <1> QED
    BY <1>1, <1>2, EndInv

LEMMA ClientInv ==
  ASSUME Inv, ClientStep \/ ToolEnds \/ ApprovalTimeout \/ ClientDies PROVE Inv'
  <1>1. CASE ErrorResponse
    BY <1>1, GiveUpInv DEF ErrorResponse
  <1>2. CASE ApprovalTimeout
    BY <1>2 DEF ApprovalTimeout, Inv, TypeOK, Apart, RunOK, ReportOK, ResultMeansRecorded, FailureReportsTruthful
  <1>3. CASE ClientDies
    BY <1>3, EndInv DEF ClientDies
  <1> QED
    BY <1>1, <1>2, <1>3, ConnectionLostInv, BeforeInv, ClaimedInv, ToolEndsInv, ReportedInv DEF ClientStep

-----------------------------------------------------------------------------
(* The API *)

\* How the status of a request may change once the API has taken it: a start is for good,
\* an end too, and nobody takes it away.
Onward ==
  /\ status' \in Status
  /\ status # "absent" => status' # "absent"
  /\ status \in Started => status' \in Started
  /\ status \in {"succeeded", "failed"} => status' = status

\* A step of the API that neither runs a tool nor accepts a report: it may answer, take
\* up, or lose requests.
LEMMA ServedInv ==
  ASSUME Inv, UNCHANGED <<serverOnly, recorded, ran>>, Onward,
         inbox' \subseteq inbox, half' \subseteq inbox', half \cap inbox' \subseteq half',
         status = "absent" /\ status' # "absent" =>
           inbox # {} /\ \A m \in inbox' : m.op = "execute" => m \in half',
         \/ reply' = reply
         \/ reply' = "claimed" /\ status' \in Started
         \/ reply' \notin {"claimed", "ok"}
         \/ reply' = "ok" /\ pc \notin {"succeeded", "failed"}
  PROVE  Inv'
  <1>1. TypeOK' /\ Apart'
    BY DEF Inv, TypeOK, Apart, Onward
  <1>2. RunOK'
    <2>1. /\ ran <= 1 /\ (ran > 0 => status' \in Started) /\ (reply' = "claimed" => status' \in Started)
      BY DEF Inv, RunOK, Onward
    <2>2. pc = "start" => status' = "absent" /\ inbox' = {}
      BY DEF Inv, RunOK, Onward
    <2> QED
      BY <2>1, <2>2 DEF Inv, RunOK, Onward
  <1>3. ReportOK' /\ ResultMeansRecorded' /\ FailureReportsTruthful'
    BY DEF Inv, ReportOK, ResultMeansRecorded, FailureReportsTruthful, Onward
  <1> QED
    BY <1>1, <1>2, <1>3 DEF Inv

LEMMA AnswerIs ==
  ASSUME Inv, NEW m \in inbox, NEW response, Answer(m, response)
  PROVE  /\ inbox' = inbox \ {m} /\ half' \subseteq inbox' /\ half \cap inbox' \subseteq half'
         /\ reply' = reply \/ (reply' = response /\ m.op = pc)
  BY DEF Answer, Current, Request, Inv, TypeOK

\* authorize inserts its request once, and one POST /execute at most begins one.
LEMMA InsertInv ==
  ASSUME Inv, NEW m \in inbox, InsertRequest(m) \/ AuthorizeAndExecute(m) PROVE Inv'
  <1>1. UNCHANGED <<serverOnly, recorded, ran>>
    BY DEF InsertRequest, AuthorizeAndExecute
  <1>2. ASSUME InsertRequest(m) PROVE Inv'
    <2>1. /\ \A n \in inbox : n.op # "execute"
          /\ \/ status = "absent" /\ status' \in {"authorized", "pending", "refused"}
             \/ status' = status
          /\ \E response : Answer(m, response) /\ response \notin {"claimed", "ok"}
      BY <1>2 DEF InsertRequest, Decision, Inv, Apart
    <2>2. Onward
      BY <2>1 DEF Onward, Inv, TypeOK
    <2> QED
      BY <1>1, <2>1, <2>2, AnswerIs, ServedInv
  <1>3. ASSUME AuthorizeAndExecute(m) PROVE Inv'
    <2>1. status = "absent" /\ status' \in {"authorized", "pending", "refused"}
      BY <1>3 DEF AuthorizeAndExecute, Inv, RunOK
    <2>2. Onward
      BY <2>1 DEF Onward
    <2>3. \A n \in inbox : n.op = "execute" => n = m
      BY <1>3 DEF AuthorizeAndExecute, Inv, TypeOK, RunOK
    <2>4. CASE half' = half \cup {m} /\ UNCHANGED <<inbox, reply>>
      <3>1. half \subseteq inbox
        BY DEF Inv, TypeOK
      <3> QED
        BY <1>1, <2>2, <2>3, <2>4, <3>1, ServedInv
    <2>5. ASSUME Answer(m, Decision') PROVE Inv'
      <3>1. Decision' \notin {"claimed", "ok"}
        BY DEF Decision
      <3> QED
        BY <1>1, <2>2, <2>3, <2>5, <3>1, AnswerIs, ServedInv
    <2> QED
      BY <1>3, <2>4, <2>5 DEF AuthorizeAndExecute
  <1> QED
    BY <1>2, <1>3

\* A request that is not started, or ends, keeps what has been run.
LEMMA AnswerInv ==
  ASSUME Inv, NEW m \in inbox,
         LookUpKey(m) \/ Refuse(m) \/ FinishRemote(m) \/ AnswerStatus(m) \/ RequestStatus(m) \/ ClaimRequest(m)
  PROVE  Inv'
  <1>1. UNCHANGED <<serverOnly, recorded, ran>> /\ Onward /\ (status = "absent" => status' = "absent")
    BY DEF LookUpKey, Refuse, FinishRemote, AnswerStatus, RequestStatus, ClaimRequest, Executable,
           Onward, Inv, TypeOK
  <1>2. CASE LookUpKey(m) /\ status = "absent"
    <2>1. half' = half \cup {m} /\ UNCHANGED <<inbox, reply>> /\ half \subseteq inbox
      BY <1>2 DEF LookUpKey, Inv, TypeOK
    <2> QED
      BY <1>1, <1>2, <2>1, ServedInv
  <1>3. ASSUME NEW response, Answer(m, response),
               \/ response \notin {"claimed", "ok"}
               \/ response = "claimed" /\ status' \in Started
               \/ response = "ok" /\ m.op \notin {"succeeded", "failed"}
        PROVE  Inv'
    BY <1>1, <1>3, AnswerIs, ServedInv
  <1>4. CASE LookUpKey(m) /\ status # "absent"
    BY <1>3, <1>4 DEF LookUpKey, Decision
  <1>5. CASE Refuse(m)
    BY <1>3, <1>5 DEF Refuse
  <1>6. CASE FinishRemote(m)
    BY <1>3, <1>6 DEF FinishRemote
  <1>7. CASE AnswerStatus(m)
    BY <1>3, <1>7 DEF AnswerStatus
  <1>8. CASE RequestStatus(m)
    <2>1. (IF status \in {"pending", "approved"} THEN status ELSE "refused") \notin {"claimed", "ok"}
      OBVIOUS
    <2> QED
      BY <1>3, <1>8, <2>1 DEF RequestStatus
  <1>9. CASE ClaimRequest(m)
    BY <1>3, <1>9 DEF ClaimRequest
  <1> QED
    BY <1>2, <1>4, <1>5, <1>6, <1>7, <1>8, <1>9

\* The compare-and-set lets a tool run that has not run: what has run is not executable.
LEMMA StartRemoteInv == ASSUME Inv, NEW m \in inbox, StartRemote(m) PROVE Inv'
  <1>1. /\ kind = "gateway" /\ ran = 0 /\ ran' = 1 /\ status' = "executing" /\ status # "absent"
        /\ half' = half \cup {m} /\ UNCHANGED <<inbox, reply, recorded>> /\ UNCHANGED serverOnly
        /\ recorded = "none"
    BY DEF StartRemote, Executable, Inv, TypeOK, Apart, RunOK, ReportOK
  <1>2. TypeOK' /\ Apart' /\ RunOK'
    BY <1>1 DEF Inv, TypeOK, Apart, RunOK
  <1>3. ReportOK' /\ ResultMeansRecorded' /\ FailureReportsTruthful'
    BY <1>1 DEF Inv, ReportOK, ResultMeansRecorded, FailureReportsTruthful
  <1> QED
    BY <1>2, <1>3 DEF Inv

\* One report is accepted, of those that are there: it ends the request.
LEMMA ReportResultInv == ASSUME Inv, NEW m \in inbox, ReportResult(m) PROVE Inv'
  <1>1. /\ recorded = "none" /\ recorded' = m.op /\ m.op \in {"succeeded", "failed"}
        /\ status = "executing" /\ status' \in {"succeeded", "failed"}
        /\ UNCHANGED serverOnly /\ UNCHANGED ran
    BY DEF ReportResult, Inv, ReportOK
  <1>2. /\ inbox' = inbox \ {m} /\ half' \subseteq inbox' /\ half \cap inbox' \subseteq half'
        /\ reply' = reply \/ (reply' = "ok" /\ m.op = pc)
    BY AnswerIs DEF ReportResult
  <1>3. outcome # "none" /\ (m.op = "succeeded" => outcome = "returned")
        /\ (m.op = "failed" /\ kind = "python" => outcome = "raised")
        /\ kind \in {"python", "typescript"} /\ outcome \in {"returned", "raised"}
    BY <1>1 DEF Inv, TypeOK, Apart, ReportOK
  <1>4. reply = "ok" => pc \notin {"succeeded", "failed"}
    BY <1>1 DEF Inv, ReportOK
  <1>5. TypeOK' /\ Apart' /\ RunOK'
    BY <1>1, <1>2 DEF Inv, TypeOK, Apart, RunOK
  <1>6. ReportOK' /\ ResultMeansRecorded' /\ FailureReportsTruthful'
    BY <1>1, <1>2, <1>3, <1>4 DEF Inv, ReportOK, ResultMeansRecorded, FailureReportsTruthful
  <1> QED
    BY <1>5, <1>6 DEF Inv

LEMMA LostInv == ASSUME Inv, NEW m \in inbox, Lost(m) PROVE Inv'
  <1>1. Onward /\ half \subseteq inbox
    BY DEF Lost, Onward, Inv, TypeOK
  <1> QED
    BY <1>1, ServedInv DEF Lost

LEMMA ResolveInv == ASSUME Inv, Resolve PROVE Inv'
  <1>1. Onward /\ half \subseteq inbox /\ status # "absent"
    BY DEF Resolve, Onward, Inv, TypeOK
  <1> QED
    BY <1>1, ServedInv DEF Resolve

LEMMA StepInv == Inv /\ [Next]_vars => Inv'
  <1> SUFFICES ASSUME Inv, [Next]_vars PROVE Inv'
    OBVIOUS
  <1>1. ASSUME NEW m \in inbox, Serve(m) PROVE Inv'
    BY <1>1, InsertInv, AnswerInv, StartRemoteInv, ReportResultInv, LostInv DEF Serve
  <1>2. CASE UNCHANGED vars
    BY <1>2 DEF vars, Inv, TypeOK, Apart, RunOK, ReportOK, ResultMeansRecorded, FailureReportsTruthful
  <1> QED
    BY <1>1, <1>2, ClientInv, ResolveInv DEF Next

-----------------------------------------------------------------------------
\* Whatever is lost, delayed or retried, a call of either SDK, through protect() or
\* execute(), runs its tool at most once, and only when the request was started for it.
THEOREM RunsOnce == Spec => []RunsOncePermitted
  <1>1. Inv => RunsOncePermitted
    BY DEF Inv, TypeOK, RunOK, RunsOncePermitted
  <1> QED
    BY <1>1, InitInv, StepInv, PTL DEF Spec

\* A result is told only of an accepted report of a success, a success is recorded only of
\* a tool that returned, and an exception is told only of a tool that raised: by TypeScript
\* always, by Python when the failure is recorded, and its report's own error otherwise.
THEOREM ResultsRecorded == Spec => []ResultMeansRecorded
  <1>1. Inv => ResultMeansRecorded
    BY DEF Inv
  <1> QED
    BY <1>1, InitInv, StepInv, PTL DEF Spec

\* A failure is recorded of a tool that raised, or by TypeScript of one whose success it
\* could not report; its caller then gets no result.
THEOREM FailuresTruthful == Spec => []FailureReportsTruthful
  <1>1. Inv => FailureReportsTruthful
    BY DEF Inv
  <1> QED
    BY <1>1, InitInv, StepInv, PTL DEF Spec
=============================================================================
