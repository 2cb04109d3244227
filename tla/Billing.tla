------------------------------ MODULE Billing ------------------------------
(***************************************************************************)
(* The plan of one organization: the subscription row, the plan the Stripe  *)
(* webhook writes into it, and the capacity the plan gives to the agents    *)
(* and tools that admins register.                                          *)
(*                                                                         *)
(* Replicas of the API handle webhooks, checkouts and registrations at the  *)
(* same time.  Every transaction reads committed rows and commits only the  *)
(* columns it changed with respect to what it had read (the ORM's dirty     *)
(* tracking), without a lock on the rows in between.                        *)
(***************************************************************************)
EXTENDS Integers, FiniteSets

CONSTANTS
  Plans,       \* keys of PLAN_LIMITS, "free" among them
  Events,      \* Stripe's events about this organization
  PlanOf,      \* the plan an event's price stands for, NoChange for other events
  Hooks,       \* deliveries of events handled at one time
  Checkouts,   \* POST /billing/checkout at one time
  Creators,    \* POST /agents or POST /tools at one time
  Capacity,    \* Capacity[plan][kind]: PLAN_LIMITS
  LiveSets     \* which processes and events may take part together in a behaviour

NoChange == "no change"
Kinds == {"agents", "tools"}

ASSUME BillingAssumption ==
  /\ "free" \in Plans
  /\ PlanOf \in [Events -> Plans \cup {NoChange}]
  /\ Capacity \in [Plans -> [Kinds -> Nat \ {0}]]
  /\ IsFiniteSet(Creators)

VARIABLES
  live,      \* the processes and events that take part in this behaviour
  plan,      \* organizations.plan
  row,       \* the billing_subscriptions row
  recorded,  \* events in inbound_webhook_events
  settled,   \* events Stripe has stopped delivering: it has seen a 2xx answer
  hook,      \* hook[h]: a delivery being handled
  checkout,  \* checkout[c]: a checkout that waits for Stripe's answer
  count,     \* count[k]: registered agents and tools
  creator    \* creator[c]: a registration being handled

billingVars == <<plan, row, recorded, settled, hook, checkout>>
registryVars == <<count, creator>>
planVars == <<live, plan, row, recorded, settled, hook, checkout, count, creator>>

\* "pending" is a row that a checkout has inserted and not committed.
NoRow == [state |-> "none", plan |-> "free"]
IdleHook == [at |-> "idle"]
IdleCreator == [at |-> "idle"]

BillingInit ==
  /\ live \in LiveSets
  /\ plan = "free"
  /\ row = NoRow
  /\ recorded = {}
  /\ settled = {}
  /\ hook = [h \in Hooks |-> IdleHook]
  /\ checkout = [c \in Checkouts |-> "idle"]
  /\ count = [k \in Kinds |-> 0]
  /\ creator = [c \in Creators |-> IdleCreator]

-----------------------------------------------------------------------------
(* POST /webhooks/stripe *)

\* Another transaction has committed: what the other deliveries read is no longer
\* what the tables hold (history, for FreshCommitAgrees).
Outdate(h) ==
  [g \in Hooks |->
     IF g # h /\ hook[g].at # "idle" THEN [hook[g] EXCEPT !.fresh = FALSE] ELSE hook[g]]

\* The signature is valid; the event is new to the table; the organization is read.
ReadOrganization(h, e) ==
  /\ {h, e} \subseteq live
  /\ hook[h].at = "idle"
  /\ e \notin settled
  /\ e \notin recorded
  /\ hook' = [hook EXCEPT ![h] =
       [at |-> "organization", event |-> e, plan |-> plan, row |-> NoRow, fresh |-> TRUE]]
  /\ UNCHANGED <<live, plan, row, recorded, settled, checkout, registryVars>>

\* A redelivery of a recorded event is answered 200 at once.
AnswerDuplicate(h, e) ==
  /\ h \in live
  /\ hook[h].at = "idle"
  /\ e \in recorded
  /\ e \notin settled
  /\ settled' = settled \cup {e}
  /\ UNCHANGED <<live, plan, row, recorded, hook, checkout, registryVars>>

\* The subscription row is read, or a new one prepared; a row another transaction has
\* not committed is not seen.
ReadSubscription(h) ==
  /\ hook[h].at = "organization"
  /\ hook' = [hook EXCEPT ![h].at = "subscription",
                          ![h].row = IF row.state = "there" THEN row ELSE NoRow]
  /\ UNCHANGED <<live, plan, row, recorded, settled, checkout, registryVars>>

Inserts(h) == PlanOf[hook[h].event] # NoChange /\ hook[h].row = NoRow

\* The unique constraints on the event id and on the organization's subscription.
Conflict(h) ==
  \/ hook[h].event \in recorded
  \/ Inserts(h) /\ row.state = "there"

\* Faulty: a column is written whenever the plan is a paid one.
WrittenIfPaid(read, new, current) == IF new # "free" THEN new ELSE current

\* A column is written when its new value differs from the one that was read.
Written(read, new, current) == IF new # read THEN new ELSE current

\* db.commit() of the effects and of the event's row, answered 200; the answer may be
\* lost, and then Stripe delivers the event again.
CommitEvent(h) ==
  LET e == hook[h].event
      p == PlanOf[e] IN
  /\ hook[h].at = "subscription"
  /\ ~(Inserts(h) /\ row.state = "pending")     \* waits for the other insert
  /\ ~Conflict(h)
  /\ IF p = NoChange
       THEN UNCHANGED <<plan, row>>
       ELSE /\ plan' = Written(hook[h].plan, p, plan)
            /\ row' = IF Inserts(h)
                        THEN [state |-> "there", plan |-> p]
                        ELSE [row EXCEPT !.plan = Written(hook[h].row.plan, p, @)]
  /\ recorded' = recorded \cup {e}
  /\ settled' \in {settled, settled \cup {e}}
  /\ hook' = [Outdate(h) EXCEPT ![h] = IdleHook]
  /\ UNCHANGED <<live, checkout, registryVars>>

\* except IntegrityError: rollback, and a 200 that calls the event a duplicate.
RejectEvent(h) ==
  /\ hook[h].at = "subscription"
  /\ Conflict(h)
  /\ settled' = settled \cup {hook[h].event}
  /\ hook' = [hook EXCEPT ![h] = IdleHook]
  /\ UNCHANGED <<live, plan, row, recorded, checkout, registryVars>>

\* The process stops or an error answers 5xx: nothing is committed.
FailEvent(h) ==
  /\ hook[h].at # "idle"
  /\ hook' = [hook EXCEPT ![h] = IdleHook]
  /\ UNCHANGED <<live, plan, row, recorded, settled, checkout, registryVars>>

-----------------------------------------------------------------------------
(* _billing_record: GET /billing and POST /billing/checkout *)

OpenBilling ==
  /\ row.state = "none"
  /\ row' = [state |-> "there", plan |-> "free"]
  /\ hook' = [h \in Hooks |->
       IF hook[h].at = "idle" THEN hook[h] ELSE [hook[h] EXCEPT !.fresh = FALSE]]
  /\ UNCHANGED <<live, plan, recorded, settled, checkout, registryVars>>

\* Without a row the checkout inserts one and keeps the transaction open while Stripe
\* creates the customer.
StartCheckout(c) ==
  /\ c \in live
  /\ checkout[c] = "idle"
  /\ row.state = "none"
  /\ row' = [NoRow EXCEPT !.state = "pending"]
  /\ checkout' = [checkout EXCEPT ![c] = "calling"]
  /\ UNCHANGED <<live, plan, recorded, settled, hook, registryVars>>

\* Stripe answers and the row is committed, or Stripe fails and it is rolled back.
FinishCheckout(c) ==
  /\ checkout[c] = "calling"
  /\ checkout' = [checkout EXCEPT ![c] = "idle"]
  /\ \/ /\ row' = [row EXCEPT !.state = "there"]
        /\ hook' = [h \in Hooks |->
             IF hook[h].at = "idle" THEN hook[h] ELSE [hook[h] EXCEPT !.fresh = FALSE]]
     \/ /\ row' = NoRow
        /\ UNCHANGED hook
  /\ UNCHANGED <<live, plan, recorded, settled, registryVars>>

-----------------------------------------------------------------------------
(* POST /agents and POST /tools *)

\* The plan's limit and the number of rows are read; over the limit it is 402.
CheckCapacity(c, k) ==
  /\ c \in live
  /\ creator[c].at = "idle"
  /\ count[k] < Capacity[plan][k]
  /\ creator' = [creator EXCEPT ![c] = [at |-> "checked", kind |-> k]]
  /\ UNCHANGED <<live, billingVars, count>>

\* The row is inserted, or a later validation answers 404, 409 or 422.
Register(c) ==
  /\ creator[c].at = "checked"
  /\ creator' = [creator EXCEPT ![c] = IdleCreator]
  /\ count' \in {count, [count EXCEPT ![creator[c].kind] = @ + 1]}
  /\ UNCHANGED <<live, billingVars>>

\* DELETE /agents/{agent_id}; a tool is only disabled and keeps counting.
DeleteAgent ==
  /\ count["agents"] > 0
  /\ count' = [count EXCEPT !["agents"] = @ - 1]
  /\ UNCHANGED <<live, billingVars, creator>>

-----------------------------------------------------------------------------
BillingNext ==
  \/ \E h \in Hooks :
       \/ \E e \in Events : ReadOrganization(h, e) \/ AnswerDuplicate(h, e)
       \/ ReadSubscription(h)
       \/ CommitEvent(h)
       \/ RejectEvent(h)
       \/ FailEvent(h)
  \/ OpenBilling
  \/ \E c \in Checkouts : StartCheckout(c) \/ FinishCheckout(c)
  \/ \E c \in Creators :
       \/ \E k \in Kinds : CheckCapacity(c, k)
       \/ Register(c)
  \/ DeleteAgent

BillingSpec == BillingInit /\ [][BillingNext]_planVars

-----------------------------------------------------------------------------
(* Properties *)

Checked(k) == {c \in Creators : creator[c].at = "checked" /\ creator[c].kind = k}

\* The capacity check and the insert are two steps, and nothing locks the rows in
\* between: registrations that overlap may all see the last free place.  They go
\* beyond the limit of some plan of the organization by at most the number of
\* registrations at one time less one, also when agents are deleted and the plan changes
\* meanwhile.
RegistrationsWithinReach ==
  \A k \in Kinds : \E p \in Plans :
    count[k] + Cardinality(Checked(k)) < Capacity[p][k] + Cardinality(Creators)

Pays(h) == PlanOf[hook[h].event] # NoChange

\* Events are deduplicated but not ordered, and two deliveries read before either
\* writes.  What one delivery does is right as long as nothing was committed between
\* its first read and its commit: then the organization and its subscription both get
\* the event's plan.  A delivery whose reads were overtaken may leave them apart, or
\* lose its event to the unique subscription row; no other step changes the plan, and
\* an event is taken off Stripe's list without being recorded only in that case.
FreshCommitAgrees ==
  [][/\ \A h \in Hooks :
          (hook[h].at = "subscription" /\ hook[h].fresh /\ recorded' # recorded
             /\ hook'[h] = IdleHook /\ Pays(h))
            => plan' = PlanOf[hook[h].event] /\ row'.plan = plan'
     /\ plan' # plan => recorded' # recorded
     /\ \A e \in settled' \ settled :
          \/ e \in recorded'
          \/ \E h \in Hooks : hook[h].at # "idle" /\ hook[h].event = e /\ ~hook[h].fresh
    ]_planVars

=============================================================================
