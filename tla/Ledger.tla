------------------------------- MODULE Ledger -------------------------------
(***************************************************************************)
(* Budget accounting of the AgentGuard API (apps/api/agentguard_api/       *)
(* limits.py): BudgetUsage rows with their two counters and the            *)
(* BudgetReservation rows that explain them.                               *)
(*                                                                         *)
(* A usage row stands for one budget in one period (daily, weekly or       *)
(* monthly).  reserve_budgets runs inside the authorizing transaction,     *)
(* under the organization's "budget" advisory lock and with every usage    *)
(* row it reads locked FOR UPDATE until commit; settle_budget_reservations *)
(* locks the reservations and their usage rows.  Each of the two is        *)
(* therefore one atomic step.                                              *)
(*                                                                         *)
(* The module is both a component of Lifecycle, whose handlers call        *)
(* ReserveBudgets and SettleBudgets, and a specification of its own        *)
(* (LedgerSpec), which Lifecycle is shown to implement.                    *)
(***************************************************************************)
EXTENDS Integers, FiniteSets

CONSTANTS
  Requests,   \* authorization requests
  Usages,     \* BudgetUsage rows: (budget, period) pairs
  Limit,      \* Limit[u]: limit_minor of the budget behind row u
  Amount,     \* Amount[r]: amount_minor of request r
  Charged,    \* Charged[r]: rows of the active period budgets whose scope matches r
  Admissible  \* requests that pass the currency and per-action checks

\* Finitely many requests exist at any time; amounts and limits are nonnegative
\* (amount_to_minor refuses a negative amount, BudgetInput a negative limit).
ASSUME LedgerAssumption ==
  /\ IsFiniteSet(Requests)
  /\ Limit \in [Usages -> Nat]
  /\ Amount \in [Requests -> Nat]
  /\ Charged \in [Requests -> SUBSET Usages]
  /\ Admissible \subseteq Requests

VARIABLES
  used,      \* used[u]: BudgetUsage.used_minor
  reserved,  \* reserved[u]: BudgetUsage.reserved_minor
  resv       \* resv[r][u]: state of the reservation of r on row u

ledgerVars == <<used, reserved, resv>>

\* "none": the BudgetReservation row does not exist.
ReservationState == {"none", "reserved", "spent", "released"}

\* The succeeded argument of settle_budget_reservations: True, False or None.
Outcome == {"succeeded", "failed", "unknown"}

LedgerInit ==
  /\ used = [u \in Usages |-> 0]
  /\ reserved = [u \in Usages |-> 0]
  /\ resv = [r \in Requests |-> [u \in Usages |-> "none"]]

-----------------------------------------------------------------------------
(* The operations *)

\* Faulty: the query without its state filter, so settled rows are settled again.
OpenOrSettled(r) == {u \in Usages : resv[r][u] # "none"}

\* Faulty: only the first reservation of the request is fetched.
OpenFirst(r) ==
  LET rows == {u \in Usages : resv[r][u] = "reserved"}
  IN {u \in rows : u = CHOOSE v \in rows : TRUE}

\* Rows on which r holds a reservation that is not settled yet.
Open(r) == {u \in Usages : resv[r][u] = "reserved"}

HasReservation(r) == \E u \in Usages : resv[r][u] # "none"

\* Faulty: a ceiling check that forgets what other requests have reserved.
FitsUsedOnly(r) ==
  \/ Amount[r] = 0
  \/ /\ r \in Admissible
     /\ \A u \in Charged[r] : used[u] + Amount[r] <= Limit[u]

\* reserve_budgets returns True: no amount to reserve, or every matching budget
\* has room for it beside what is used and reserved.
Fits(r) ==
  \/ Amount[r] = 0
  \/ /\ r \in Admissible
     /\ \A u \in Charged[r] : used[u] + reserved[u] + Amount[r] <= Limit[u]

\* The rows reserve_budgets writes to when it returns True.
ReservedRows(r) == IF Amount[r] = 0 THEN {} ELSE Charged[r]

\* The final loop of reserve_budgets: all matching rows, or none.
ReserveBudgets(r) ==
  /\ reserved' = [u \in Usages |->
       IF u \in ReservedRows(r) THEN reserved[u] + Amount[r] ELSE reserved[u]]
  /\ resv' = [resv EXCEPT ![r] = [u \in Usages |->
       IF u \in ReservedRows(r) THEN "reserved" ELSE resv[r][u]]]
  /\ UNCHANGED used

\* Faulty: a settlement that does not give the reserved capacity back.
LessNothing(reservedMinor, amount) == reservedMinor

\* Faulty: a settlement that gives the capacity back twice.
LessTwice(reservedMinor, amount) == reservedMinor - 2 * amount

\* max(0, reserved_minor - amount_minor)
Less(reservedMinor, amount) ==
  IF reservedMinor >= amount THEN reservedMinor - amount ELSE 0

\* settle_budget_reservations: an unknown outcome keeps the capacity reserved;
\* otherwise every reservation still in state "reserved" is spent or released.
SettleBudgets(r, outcome) ==
  IF outcome = "unknown"
  THEN UNCHANGED ledgerVars
  ELSE /\ reserved' = [u \in Usages |->
            IF u \in Open(r) THEN Less(reserved[u], Amount[r]) ELSE reserved[u]]
       /\ used' = [u \in Usages |->
            IF u \in Open(r) /\ outcome = "succeeded" THEN used[u] + Amount[r] ELSE used[u]]
       /\ resv' = [resv EXCEPT ![r] = [u \in Usages |->
            IF u \in Open(r)
              THEN IF outcome = "succeeded" THEN "spent" ELSE "released"
              ELSE resv[r][u]]]

-----------------------------------------------------------------------------
(* The ledger as a specification: a request reserves once, when its row is *)
(* created, and may be settled by any handler any number of times after.   *)

Reserve(r) ==
  /\ ~HasReservation(r)
  /\ Fits(r)
  /\ ReserveBudgets(r)

LedgerNext ==
  \E r \in Requests :
    \/ Reserve(r)
    \/ \E outcome \in Outcome : SettleBudgets(r, outcome)

LedgerSpec == LedgerInit /\ [][LedgerNext]_ledgerVars

-----------------------------------------------------------------------------
(* Properties *)

LedgerTypeOK ==
  /\ used \in [Usages -> Nat]
  /\ reserved \in [Usages -> Nat]
  /\ resv \in [Requests -> [Usages -> ReservationState]]

\* The minor units requests hold on row u in a given state, as a set of units.
Units(u, state) ==
  UNION {{r} \X (1 .. Amount[r]) : r \in {q \in Requests : resv[q][u] = state}}

Total(u, state) == Cardinality(Units(u, state))

\* The two counters of a usage row, which settlements of different requests
\* update independently, always equal what its reservation rows add up to: no
\* unit is lost, counted twice or clipped by the max(0, ...) of the settlement.
Conservation ==
  \A u \in Usages :
    /\ reserved[u] = Total(u, "reserved")
    /\ used[u] = Total(u, "spent")

\* What is spent and what is reserved never exceed the budget together,
\* whatever the order of reservations and settlements of all requests.
Ceiling == \A u \in Usages : used[u] + reserved[u] <= Limit[u]

\* A request reserves on all the budgets that match it or on none, and its
\* reservations are settled together and alike.
AllOrNothing ==
  \A r \in Requests : \A u, v \in Charged[r] : resv[r][u] = resv[r][v]

\* A step that leaves settled rows alone and settles no row that was never reserved.
SettlesOnce ==
  \A r \in Requests, u \in Usages :
    /\ resv[r][u] \in {"spent", "released"} => resv'[r][u] = resv[r][u]
    /\ resv'[r][u] \in {"spent", "released"} => resv[r][u] # "none"

\* A reservation is spent or released once: a settled row never changes again,
\* and no row is settled that was never reserved.
SettledOnce == [][SettlesOnce]_ledgerVars
=============================================================================
