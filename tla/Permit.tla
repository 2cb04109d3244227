------------------------------- MODULE Permit -------------------------------
(***************************************************************************)
(* What the runtime plane promises about one tool call, without the rows,   *)
(* locks, claims and clocks that implement it: a call runs only after it    *)
(* was permitted, a refusal before the run is final, a permit is used at    *)
(* most once, and at most one outcome is recorded for it.                   *)
(***************************************************************************)
EXTENDS Naturals

CONSTANT Requests

VARIABLES
  phase,  \* phase[r]: how far request r has come
  runs    \* runs[r]: how often its tool was let run

permitVars == <<phase, runs>>

Ended == {"succeeded", "failed"}

Phase == {"new", "waiting", "permitted", "refused", "started"} \cup Ended

PermitInit ==
  /\ phase = [r \in Requests |-> "new"]
  /\ runs = [r \in Requests |-> 0]

Move(r, from, to) ==
  /\ phase[r] = from
  /\ phase' = [phase EXCEPT ![r] = to]

\* Authorization: permitted at once, left to an approver, or refused.
Submit(r) ==
  /\ \E to \in {"waiting", "permitted", "refused"} : Move(r, "new", to)
  /\ UNCHANGED runs

\* An approver decides, or nobody does in time.
Resolve(r) ==
  /\ \E to \in {"permitted", "refused"} : Move(r, "waiting", to)
  /\ UNCHANGED runs

\* The permit is withdrawn before it is used.
Withdraw(r) ==
  /\ Move(r, "permitted", "refused")
  /\ UNCHANGED runs

\* The permit is used.
Start(r) ==
  /\ Move(r, "permitted", "started")
  /\ runs' = [runs EXCEPT ![r] = @ + 1]

\* The outcome is recorded.
Close(r) ==
  /\ \E to \in Ended : Move(r, "started", to)
  /\ UNCHANGED runs

PermitNext ==
  \E r \in Requests : Submit(r) \/ Resolve(r) \/ Withdraw(r) \/ Start(r) \/ Close(r)

PermitSpec == PermitInit /\ [][PermitNext]_permitVars

\* No request runs twice, and none runs that was refused or still waits.
AtMostOnce ==
  \A r \in Requests : runs[r] = IF phase[r] \in {"started"} \cup Ended THEN 1 ELSE 0
=============================================================================
