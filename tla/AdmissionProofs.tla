--------------------------- MODULE AdmissionProofs ---------------------------
(* Theorems about Billing and Admission: the plan follows fresh deliveries, and   *)
(* registrations, rate windows and the month's quota stay within their limits,    *)
(* for any numbers of processes, limits, windows and plans.                       *)
EXTENDS Admission, TLAPS, FiniteSetTheorems

-----------------------------------------------------------------------------
(* Billing: types *)

Rows == [state : {"none", "pending", "there"}, plan : Plans]

Delivering ==
  [at : {"organization", "subscription"}, event : Events, plan : Plans, row : Rows, fresh : BOOLEAN]

BillingTypeOK ==
  /\ plan \in Plans
  /\ row \in Rows
  /\ hook \in [Hooks -> {IdleHook} \cup Delivering]
  /\ checkout \in [Checkouts -> {"idle", "calling"}]
  /\ count \in [Kinds -> Nat]
  /\ creator \in [Creators -> {IdleCreator} \cup [at : {"checked"}, kind : Kinds]]

\* A hook that is busy is a delivery.
LEMMA BusyHook ==
  ASSUME BillingTypeOK, NEW h \in Hooks, hook[h].at # "idle"
  PROVE  /\ hook[h] \in Delivering
         /\ hook[h].event \in Events /\ hook[h].plan \in Plans /\ hook[h].row \in Rows
         /\ hook[h].fresh \in BOOLEAN
         /\ hook[h].at \in {"organization", "subscription"}
  <1>1. hook[h] \in Delivering
    BY DEF BillingTypeOK, IdleHook
  <1> QED
    BY <1>1 DEF Delivering

\* Outdating keeps a delivery but for its freshness.
LEMMA OutdateKeeps ==
  ASSUME BillingTypeOK, NEW h \in Hooks
  PROVE  /\ Outdate(h) \in [Hooks -> {IdleHook} \cup Delivering]
         /\ Outdate(h)[h] = hook[h]
         /\ \A g \in Hooks :
              /\ hook[g].at = "idle" => Outdate(h)[g] = hook[g]
              /\ hook[g].at # "idle" /\ g # h =>
                   /\ ~Outdate(h)[g].fresh
                   /\ Outdate(h)[g].at = hook[g].at
                   /\ Outdate(h)[g].event = hook[g].event
                   /\ Outdate(h)[g].row = hook[g].row
                   /\ Outdate(h)[g].plan = hook[g].plan
  <1>1. ASSUME NEW g \in Hooks, hook[g].at # "idle", g # h
        PROVE  /\ Outdate(h)[g] \in Delivering
               /\ ~Outdate(h)[g].fresh
               /\ Outdate(h)[g].at = hook[g].at
               /\ Outdate(h)[g].event = hook[g].event
               /\ Outdate(h)[g].row = hook[g].row
               /\ Outdate(h)[g].plan = hook[g].plan
    <2>1. hook[g] \in Delivering
      BY <1>1, BusyHook
    <2>2. Outdate(h)[g] = [hook[g] EXCEPT !.fresh = FALSE]
      BY <1>1 DEF Outdate
    <2> QED
      BY <2>1, <2>2 DEF Delivering
  <1>2. ASSUME NEW g \in Hooks, hook[g].at = "idle" \/ g = h PROVE Outdate(h)[g] = hook[g]
    BY <1>2 DEF Outdate
  <1>3. \A g \in Hooks : Outdate(h)[g] \in {IdleHook} \cup Delivering
    BY <1>1, <1>2 DEF BillingTypeOK
  <1>4. Outdate(h) \in [Hooks -> {IdleHook} \cup Delivering]
    BY <1>3 DEF Outdate
  <1> QED
    BY <1>1, <1>2, <1>4

\* The empty organization is typed.
LEMMA BillingInitTyped == BillingInit => BillingTypeOK
  <1> SUFFICES ASSUME BillingInit PROVE BillingTypeOK
    OBVIOUS
  <1>1. plan \in Plans /\ row \in Rows
    BY BillingAssumption DEF BillingInit, NoRow, Rows
  <1>2. hook \in [Hooks -> {IdleHook} \cup Delivering]
    BY DEF BillingInit
  <1>3. checkout \in [Checkouts -> {"idle", "calling"}] /\ count \in [Kinds -> Nat]
    BY DEF BillingInit
  <1>4. creator \in [Creators -> {IdleCreator} \cup [at : {"checked"}, kind : Kinds]]
    BY DEF BillingInit
  <1> QED
    BY <1>1, <1>2, <1>3, <1>4 DEF BillingTypeOK

\* What a commit writes into a column is the old value or the new one.
LEMMA WrittenTyped ==
  ASSUME NEW read, NEW new \in Plans, NEW current \in Plans
  PROVE  Written(read, new, current) \in Plans
  BY DEF Written

\* Deliveries of events keep the types.
LEMMA HookStepTyped ==
  ASSUME BillingTypeOK, NEW h \in Hooks,
         (\E e \in Events : ReadOrganization(h, e) \/ AnswerDuplicate(h, e))
           \/ ReadSubscription(h) \/ CommitEvent(h) \/ RejectEvent(h) \/ FailEvent(h)
  PROVE  BillingTypeOK'
  <1>1. CASE \E e \in Events : ReadOrganization(h, e)
    <2>1. PICK e \in Events :
               /\ hook' = [hook EXCEPT ![h] =
                    [at |-> "organization", event |-> e, plan |-> plan, row |-> NoRow, fresh |-> TRUE]]
               /\ UNCHANGED <<plan, row, checkout, registryVars>>
      BY <1>1 DEF ReadOrganization
    <2>2. [at |-> "organization", event |-> e, plan |-> plan, row |-> NoRow, fresh |-> TRUE] \in Delivering
      BY BillingAssumption DEF BillingTypeOK, Delivering, NoRow, Rows
    <2>3. hook' \in [Hooks -> {IdleHook} \cup Delivering]
      BY <2>1, <2>2 DEF BillingTypeOK
    <2> QED
      BY <2>1, <2>3 DEF BillingTypeOK, registryVars
  <1>2. CASE \E e \in Events : AnswerDuplicate(h, e)
    BY <1>2 DEF AnswerDuplicate, BillingTypeOK, registryVars
  <1>3. CASE ReadSubscription(h)
    <2>1. /\ hook[h].at = "organization"
          /\ hook' = [hook EXCEPT ![h].at = "subscription",
                                  ![h].row = IF row.state = "there" THEN row ELSE NoRow]
          /\ UNCHANGED <<plan, row, checkout, registryVars>>
      BY <1>3 DEF ReadSubscription
    <2>2. (IF row.state = "there" THEN row ELSE NoRow) \in Rows
      BY BillingAssumption DEF BillingTypeOK, NoRow, Rows
    <2>3. [hook[h] EXCEPT !.at = "subscription",
                          !.row = IF row.state = "there" THEN row ELSE NoRow] \in Delivering
      BY <2>1, <2>2, BusyHook DEF Delivering
    <2>4. hook' \in [Hooks -> {IdleHook} \cup Delivering]
      BY <2>1, <2>3 DEF BillingTypeOK
    <2> QED
      BY <2>1, <2>4 DEF BillingTypeOK, registryVars
  <1>4. CASE CommitEvent(h)
    <2>1. /\ hook[h].at = "subscription"
          /\ hook' = [Outdate(h) EXCEPT ![h] = IdleHook]
          /\ UNCHANGED <<checkout, registryVars>>
      BY <1>4 DEF CommitEvent
    <2>2. hook' \in [Hooks -> {IdleHook} \cup Delivering]
      BY <2>1, OutdateKeeps
    <2>3. plan' \in Plans /\ row' \in Rows
      <3>1. CASE PlanOf[hook[h].event] = NoChange
        BY <1>4, <3>1 DEF CommitEvent, BillingTypeOK
      <3>2. CASE PlanOf[hook[h].event] # NoChange
        <4>1. PlanOf[hook[h].event] \in Plans
          BY <2>1, <3>2, BusyHook, BillingAssumption
        <4>2. plan' = Written(hook[h].plan, PlanOf[hook[h].event], plan)
          BY <1>4, <3>2 DEF CommitEvent
        <4>3. row' = IF Inserts(h)
                       THEN [state |-> "there", plan |-> PlanOf[hook[h].event]]
                       ELSE [row EXCEPT !.plan = Written(hook[h].row.plan, PlanOf[hook[h].event], @)]
          BY <1>4, <3>2 DEF CommitEvent
        <4>4. row.plan \in Plans
          BY DEF BillingTypeOK, Rows
        <4> QED
          BY <4>1, <4>2, <4>3, <4>4, WrittenTyped DEF BillingTypeOK, Rows
      <3> QED
        BY <3>1, <3>2
    <2> QED
      BY <2>1, <2>2, <2>3 DEF BillingTypeOK, registryVars
  <1>5. CASE RejectEvent(h) \/ FailEvent(h)
    BY <1>5 DEF RejectEvent, FailEvent, BillingTypeOK, registryVars
  <1> QED
    BY <1>1, <1>2, <1>3, <1>4, <1>5

\* So do the checkout and the registrations.
LEMMA OtherStepTyped ==
  ASSUME BillingTypeOK,
         OpenBilling \/ (\E c \in Checkouts : StartCheckout(c) \/ FinishCheckout(c))
           \/ (\E c \in Creators : (\E k \in Kinds : CheckCapacity(c, k)) \/ Register(c))
           \/ DeleteAgent
  PROVE  BillingTypeOK'
  <1>0. \A h \in Hooks :
          (IF hook[h].at = "idle" THEN hook[h] ELSE [hook[h] EXCEPT !.fresh = FALSE])
            \in {IdleHook} \cup Delivering
    <2> TAKE h \in Hooks
    <2>1. CASE hook[h].at = "idle"
      BY <2>1 DEF BillingTypeOK
    <2>2. CASE hook[h].at # "idle"
      BY <2>2, BusyHook DEF Delivering
    <2> QED
      BY <2>1, <2>2
  <1>1. CASE OpenBilling
    <2>1. row' \in Rows
      BY <1>1, BillingAssumption DEF OpenBilling, Rows
    <2>2. hook' \in [Hooks -> {IdleHook} \cup Delivering]
      BY <1>0, <1>1 DEF OpenBilling
    <2> QED
      BY <1>1, <2>1, <2>2 DEF OpenBilling, BillingTypeOK, registryVars
  <1>2. ASSUME NEW c \in Checkouts, StartCheckout(c) PROVE BillingTypeOK'
    <2>1. row' \in Rows
      BY <1>2, BillingAssumption DEF StartCheckout, NoRow, Rows
    <2> QED
      BY <1>2, <2>1 DEF StartCheckout, BillingTypeOK, registryVars
  <1>3. ASSUME NEW c \in Checkouts, FinishCheckout(c) PROVE BillingTypeOK'
    <2>1. row' \in Rows
      BY <1>3, BillingAssumption DEF FinishCheckout, NoRow, Rows, BillingTypeOK
    <2>2. hook' \in [Hooks -> {IdleHook} \cup Delivering]
      <3>1. CASE hook' = [h \in Hooks |->
                  IF hook[h].at = "idle" THEN hook[h] ELSE [hook[h] EXCEPT !.fresh = FALSE]]
        BY <1>0, <3>1
      <3>2. CASE UNCHANGED hook
        BY <3>2 DEF BillingTypeOK
      <3> QED
        BY <1>3, <3>1, <3>2 DEF FinishCheckout
    <2>3. checkout' \in [Checkouts -> {"idle", "calling"}]
      BY <1>3 DEF FinishCheckout, BillingTypeOK
    <2> QED
      BY <1>3, <2>1, <2>2, <2>3 DEF FinishCheckout, BillingTypeOK, registryVars
  <1>4. ASSUME NEW c \in Creators, NEW k \in Kinds, CheckCapacity(c, k) PROVE BillingTypeOK'
    BY <1>4 DEF CheckCapacity, BillingTypeOK, billingVars
  <1>5. ASSUME NEW c \in Creators, Register(c) PROVE BillingTypeOK'
    <2>1. creator[c].kind \in Kinds
      BY <1>5 DEF Register, BillingTypeOK, IdleCreator
    <2>2. count' \in [Kinds -> Nat]
      BY <1>5, <2>1 DEF Register, BillingTypeOK
    <2>3. creator' \in [Creators -> {IdleCreator} \cup [at : {"checked"}, kind : Kinds]]
      BY <1>5 DEF Register, BillingTypeOK
    <2> QED
      BY <1>5, <2>2, <2>3 DEF Register, BillingTypeOK, billingVars
  <1>6. CASE DeleteAgent
    BY <1>6 DEF DeleteAgent, BillingTypeOK, billingVars, Kinds
  <1> QED
    BY <1>1, <1>2, <1>3, <1>4, <1>5, <1>6

\* The types of the billing side are kept by every step.
LEMMA BillingStepTyped == BillingTypeOK /\ [BillingNext]_planVars => BillingTypeOK'
  <1> SUFFICES ASSUME BillingTypeOK, [BillingNext]_planVars PROVE BillingTypeOK'
    OBVIOUS
  <1>1. CASE UNCHANGED planVars
    BY <1>1 DEF planVars, BillingTypeOK
  <1>2. CASE BillingNext
    BY <1>2, HookStepTyped, OtherStepTyped DEF BillingNext
  <1> QED
    BY <1>1, <1>2

-----------------------------------------------------------------------------
(* Billing: deliveries that nothing overtook *)

\* What a fresh delivery has read is what the tables hold; a subscription row, once
\* there, stays; a checkout that waits for Stripe holds the only uncommitted row.
FreshOK ==
  /\ \A h \in Hooks : hook[h].at # "idle" /\ hook[h].fresh =>
       /\ hook[h].plan = plan
       /\ hook[h].event \notin recorded
       /\ hook[h].at = "subscription" =>
            hook[h].row = (IF row.state = "there" THEN row ELSE NoRow)
  /\ \A h \in Hooks : hook[h].at = "subscription" =>
       hook[h].row = NoRow \/ (hook[h].row.state = "there" /\ row.state = "there")
  /\ \A c \in Checkouts : checkout[c] = "calling" =>
       row.state = "pending" /\ \A d \in Checkouts : checkout[d] = "calling" => d = c

\* A step that leaves the tables alone and changes at most one delivery keeps FreshOK if
\* that delivery is right.
LEMMA FreshMove ==
  ASSUME BillingTypeOK, FreshOK, NEW h \in Hooks,
         UNCHANGED <<plan, row, recorded, checkout>>,
         \A g \in Hooks : g # h => hook'[g] = hook[g],
         hook'[h].at # "idle" /\ hook'[h].fresh =>
           /\ hook'[h].plan = plan
           /\ hook'[h].event \notin recorded
           /\ hook'[h].at = "subscription" =>
                hook'[h].row = (IF row.state = "there" THEN row ELSE NoRow),
         hook'[h].at = "subscription" =>
           hook'[h].row = NoRow \/ (hook'[h].row.state = "there" /\ row.state = "there")
  PROVE  FreshOK'
  BY DEF FreshOK

\* When the tables change, every other delivery is outdated, and FreshOK asks only for
\* the rows that were read and for the checkouts.
LEMMA FreshAfterCommit ==
  ASSUME \A h \in Hooks : hook'[h].at # "idle" => ~hook'[h].fresh,
         \A h \in Hooks : hook'[h].at = "subscription" =>
           hook'[h].row = NoRow \/ (hook'[h].row.state = "there" /\ row'.state = "there"),
         \A c \in Checkouts : checkout'[c] = "calling" =>
           row'.state = "pending" /\ \A d \in Checkouts : checkout'[d] = "calling" => d = c
  PROVE  FreshOK'
  BY DEF FreshOK

\* The commit of an event.
LEMMA CommitFresh ==
  ASSUME BillingTypeOK, FreshOK, NEW h \in Hooks, CommitEvent(h)
  PROVE  FreshOK'
  <1>1. /\ hook[h].at = "subscription"
        /\ hook' = [Outdate(h) EXCEPT ![h] = IdleHook]
        /\ ~(Inserts(h) /\ row.state = "pending")
        /\ ~Conflict(h)
        /\ UNCHANGED checkout
    BY DEF CommitEvent
  <1>2. /\ hook'[h] = IdleHook
        /\ \A g \in Hooks \ {h} : hook'[g] = Outdate(h)[g]
    BY <1>1, OutdateKeeps
  <1>3. \A g \in Hooks : hook'[g].at # "idle" => ~hook'[g].fresh
    BY <1>2, OutdateKeeps DEF IdleHook
  <1>4. row' = row \/ (row'.state = "there" /\ (Inserts(h) \/ row.state = "there"))
    <2>1. CASE PlanOf[hook[h].event] = NoChange
      BY <2>1 DEF CommitEvent
    <2>2. CASE PlanOf[hook[h].event] # NoChange /\ Inserts(h)
      BY <2>2 DEF CommitEvent
    <2>3. CASE PlanOf[hook[h].event] # NoChange /\ ~Inserts(h)
      <3>1. row.state = "there"
        BY <1>1, <2>3 DEF Inserts, FreshOK
      <3>2. row' = [row EXCEPT !.plan = Written(hook[h].row.plan, PlanOf[hook[h].event], @)]
        BY <2>3 DEF CommitEvent
      <3> QED
        BY <3>1, <3>2 DEF BillingTypeOK, Rows
    <2> QED
      BY <2>1, <2>2, <2>3
  <1>5. \A g \in Hooks : hook'[g].at = "subscription" =>
          hook'[g].row = NoRow \/ (hook'[g].row.state = "there" /\ row'.state = "there")
    <2> TAKE g \in Hooks
    <2> HAVE hook'[g].at = "subscription"
    <2>1. g # h /\ hook[g].at = "subscription" /\ hook'[g].row = hook[g].row
      BY <1>2, OutdateKeeps DEF IdleHook
    <2> QED
      BY <1>4, <2>1 DEF FreshOK
  <1>6. \A c \in Checkouts : checkout'[c] = "calling" =>
          row'.state = "pending" /\ \A d \in Checkouts : checkout'[d] = "calling" => d = c
    BY <1>1, <1>4 DEF FreshOK
  <1> QED
    BY <1>3, <1>5, <1>6, FreshAfterCommit

\* GET /billing and a checkout that ends well commit the row.
LEMMA RowCommitFresh ==
  ASSUME BillingTypeOK, FreshOK,
         hook' = [h \in Hooks |->
           IF hook[h].at = "idle" THEN hook[h] ELSE [hook[h] EXCEPT !.fresh = FALSE]],
         row.state # "there", row'.state = "there",
         \A c \in Checkouts : checkout'[c] # "calling"
  PROVE  FreshOK'
  <1>1. ASSUME NEW h \in Hooks, hook[h].at # "idle"
        PROVE  ~hook'[h].fresh /\ hook'[h].at = hook[h].at /\ hook'[h].row = hook[h].row
    BY <1>1, BusyHook DEF Delivering
  <1>2. \A h \in Hooks : hook[h].at = "idle" => hook'[h] = hook[h]
    OBVIOUS
  <1>3. \A h \in Hooks : hook'[h].at # "idle" => ~hook'[h].fresh
    BY <1>1, <1>2
  <1>4. \A h \in Hooks : hook'[h].at = "subscription" =>
          hook'[h].row = NoRow \/ (hook'[h].row.state = "there" /\ row'.state = "there")
    BY <1>1, <1>2 DEF FreshOK
  <1> QED
    BY <1>3, <1>4, FreshAfterCommit

\* FreshOK holds whoever acts.
LEMMA FreshStep == BillingTypeOK /\ FreshOK /\ [BillingNext]_planVars => FreshOK'
  <1> SUFFICES ASSUME BillingTypeOK, FreshOK, [BillingNext]_planVars PROVE FreshOK'
    OBVIOUS
  <1>1. ASSUME NEW h \in Hooks, NEW e \in Events, ReadOrganization(h, e) PROVE FreshOK'
    <2>1. /\ e \notin recorded
          /\ hook' = [hook EXCEPT ![h] =
               [at |-> "organization", event |-> e, plan |-> plan, row |-> NoRow, fresh |-> TRUE]]
          /\ UNCHANGED <<plan, row, recorded, checkout>>
      BY <1>1 DEF ReadOrganization
    <2>2. /\ hook'[h] = [at |-> "organization", event |-> e, plan |-> plan, row |-> NoRow, fresh |-> TRUE]
          /\ \A g \in Hooks : g # h => hook'[g] = hook[g]
      BY <2>1 DEF BillingTypeOK
    <2>3. hook'[h].at = "organization" /\ hook'[h].plan = plan /\ hook'[h].event = e
      BY <2>2
    <2> QED
      BY <2>1, <2>2, <2>3, FreshMove
  <1>2. ASSUME NEW h \in Hooks, NEW e \in Events, AnswerDuplicate(h, e) PROVE FreshOK'
    BY <1>2 DEF AnswerDuplicate, FreshOK
  <1>3. ASSUME NEW h \in Hooks, ReadSubscription(h) PROVE FreshOK'
    <2>1. /\ hook[h].at = "organization"
          /\ hook' = [hook EXCEPT ![h].at = "subscription",
                                  ![h].row = IF row.state = "there" THEN row ELSE NoRow]
          /\ UNCHANGED <<plan, row, recorded, checkout>>
      BY <1>3 DEF ReadSubscription
    <2>2. hook[h] \in Delivering
      BY <2>1, BusyHook
    <2>3. /\ hook'[h].at = "subscription"
          /\ hook'[h].row = (IF row.state = "there" THEN row ELSE NoRow)
          /\ hook'[h].fresh = hook[h].fresh
          /\ hook'[h].plan = hook[h].plan
          /\ hook'[h].event = hook[h].event
          /\ \A g \in Hooks : g # h => hook'[g] = hook[g]
      BY <2>1, <2>2 DEF BillingTypeOK, Delivering
    <2>4. hook[h].fresh => hook[h].plan = plan /\ hook[h].event \notin recorded
      BY <2>1 DEF FreshOK
    <2>5. hook'[h].row = NoRow \/ (hook'[h].row.state = "there" /\ row.state = "there")
      BY <2>3
    <2> QED
      BY <2>1, <2>3, <2>4, <2>5, FreshMove
  <1>4. ASSUME NEW h \in Hooks, CommitEvent(h) PROVE FreshOK'
    BY <1>4, CommitFresh
  <1>5. ASSUME NEW h \in Hooks, RejectEvent(h) \/ FailEvent(h) PROVE FreshOK'
    <2>1. /\ hook' = [hook EXCEPT ![h] = IdleHook]
          /\ UNCHANGED <<plan, row, recorded, checkout>>
      BY <1>5 DEF RejectEvent, FailEvent
    <2>2. /\ hook'[h] = IdleHook
          /\ \A g \in Hooks : g # h => hook'[g] = hook[g]
      BY <2>1 DEF BillingTypeOK
    <2> QED
      BY <2>1, <2>2, FreshMove DEF IdleHook
  <1>6. CASE OpenBilling
    <2>1. /\ row.state = "none"
          /\ row'.state = "there"
          /\ hook' = [h \in Hooks |->
               IF hook[h].at = "idle" THEN hook[h] ELSE [hook[h] EXCEPT !.fresh = FALSE]]
          /\ UNCHANGED checkout
      BY <1>6 DEF OpenBilling
    <2>2. \A c \in Checkouts : checkout'[c] # "calling"
      BY <2>1 DEF FreshOK
    <2> QED
      BY <2>1, <2>2, RowCommitFresh
  <1>7. ASSUME NEW c \in Checkouts, StartCheckout(c) PROVE FreshOK'
    <2>1. /\ row.state = "none" /\ row'.state = "pending"
          /\ checkout' = [checkout EXCEPT ![c] = "calling"]
          /\ UNCHANGED <<plan, recorded, hook>>
      BY <1>7 DEF StartCheckout, NoRow
    <2>2. \A d \in Checkouts : checkout'[d] = "calling" => d = c
      BY <2>1 DEF FreshOK, BillingTypeOK
    <2> QED
      BY <2>1, <2>2 DEF FreshOK
  <1>8. ASSUME NEW c \in Checkouts, FinishCheckout(c) PROVE FreshOK'
    <2>1. /\ checkout[c] = "calling"
          /\ checkout' = [checkout EXCEPT ![c] = "idle"]
          /\ UNCHANGED <<plan, recorded>>
      BY <1>8 DEF FinishCheckout
    <2>2. /\ row.state = "pending"
          /\ \A d \in Checkouts : checkout'[d] # "calling"
      BY <2>1 DEF FreshOK, BillingTypeOK
    <2>3. CASE /\ row' = [row EXCEPT !.state = "there"]
               /\ hook' = [h \in Hooks |->
                    IF hook[h].at = "idle" THEN hook[h] ELSE [hook[h] EXCEPT !.fresh = FALSE]]
      <3>1. row'.state = "there"
        BY <2>3 DEF BillingTypeOK, Rows
      <3> QED
        BY <2>2, <2>3, <3>1, RowCommitFresh
    <2>4. CASE row' = NoRow /\ UNCHANGED hook
      BY <2>1, <2>2, <2>4 DEF FreshOK, NoRow
    <2> QED
      BY <1>8, <2>3, <2>4 DEF FinishCheckout
  <1>9. ASSUME NEW c \in Creators, (\E k \in Kinds : CheckCapacity(c, k)) \/ Register(c) PROVE FreshOK'
    BY <1>9 DEF CheckCapacity, Register, billingVars, FreshOK
  <1>10. CASE DeleteAgent
    BY <1>10 DEF DeleteAgent, billingVars, FreshOK
  <1>11. CASE UNCHANGED planVars
    BY <1>11 DEF planVars, FreshOK
  <1> QED
    BY <1>1, <1>2, <1>3, <1>4, <1>5, <1>6, <1>7, <1>8, <1>9, <1>10, <1>11 DEF BillingNext

\* The start.
LEMMA FreshInit == BillingInit => FreshOK
  BY DEF BillingInit, FreshOK, IdleHook

\* What FreshCommitAgrees says of one step.
FreshCommit ==
  /\ \A h \in Hooks :
       (hook[h].at = "subscription" /\ hook[h].fresh /\ recorded' # recorded
          /\ hook'[h] = IdleHook /\ Pays(h))
         => plan' = PlanOf[hook[h].event] /\ row'.plan = plan'
  /\ plan' # plan => recorded' # recorded
  /\ \A e \in settled' \ settled :
       \/ e \in recorded'
       \/ \E h \in Hooks : hook[h].at # "idle" /\ hook[h].event = e /\ ~hook[h].fresh

\* The commit of an event does.
LEMMA CommitAgrees ==
  ASSUME BillingTypeOK, FreshOK, NEW h \in Hooks, CommitEvent(h)
  PROVE  FreshCommit
  <1>1. /\ hook[h].at = "subscription"
        /\ hook' = [Outdate(h) EXCEPT ![h] = IdleHook]
        /\ ~Conflict(h)
        /\ recorded' = recorded \cup {hook[h].event}
        /\ settled' \in {settled, settled \cup {hook[h].event}}
    BY DEF CommitEvent
  <1>2. hook[h].event \notin recorded
    BY <1>1 DEF Conflict
  <1>3. ASSUME NEW g \in Hooks, hook[g].at = "subscription", hook'[g] = IdleHook PROVE g = h
    BY <1>1, <1>3, OutdateKeeps DEF IdleHook
  <1>4. ASSUME hook[h].fresh, Pays(h) PROVE plan' = PlanOf[hook[h].event] /\ row'.plan = plan'
    <2>1. /\ plan' = Written(hook[h].plan, PlanOf[hook[h].event], plan)
          /\ row' = IF Inserts(h)
                      THEN [state |-> "there", plan |-> PlanOf[hook[h].event]]
                      ELSE [row EXCEPT !.plan = Written(hook[h].row.plan, PlanOf[hook[h].event], @)]
      BY <1>4 DEF CommitEvent, Pays
    <2>2. /\ hook[h].plan = plan
          /\ hook[h].row = (IF row.state = "there" THEN row ELSE NoRow)
      BY <1>1, <1>4 DEF FreshOK
    <2>3. plan' = PlanOf[hook[h].event]
      BY <2>1, <2>2 DEF Written
    <2>4. CASE Inserts(h)
      BY <2>1, <2>3, <2>4
    <2>5. CASE ~Inserts(h)
      <3>1. hook[h].row = row
        BY <1>4, <2>2, <2>5 DEF Inserts, Pays
      <3>2. row'.plan = Written(row.plan, PlanOf[hook[h].event], row.plan)
        BY <2>1, <2>5, <3>1 DEF BillingTypeOK, Rows
      <3> QED
        BY <2>3, <3>2 DEF Written
    <2> QED
      BY <2>3, <2>4, <2>5
  <1> QED
    BY <1>1, <1>2, <1>3, <1>4 DEF FreshCommit

\* No step of the billing side leaves a fresh delivery's event half applied, loses an
\* event without being overtaken, or changes the plan without recording an event.
LEMMA StepAgrees == BillingTypeOK /\ FreshOK /\ [BillingNext]_planVars => [FreshCommit]_planVars
  <1> SUFFICES ASSUME BillingTypeOK, FreshOK, BillingNext PROVE FreshCommit
    OBVIOUS
  <1>1. ASSUME NEW h \in Hooks, NEW e \in Events, ReadOrganization(h, e) PROVE FreshCommit
    BY <1>1 DEF ReadOrganization, FreshCommit
  <1>2. ASSUME NEW h \in Hooks, NEW e \in Events, AnswerDuplicate(h, e) PROVE FreshCommit
    BY <1>2 DEF AnswerDuplicate, FreshCommit
  <1>3. ASSUME NEW h \in Hooks, ReadSubscription(h) \/ FailEvent(h) PROVE FreshCommit
    BY <1>3 DEF ReadSubscription, FailEvent, FreshCommit
  <1>4. ASSUME NEW h \in Hooks, RejectEvent(h) PROVE FreshCommit
    <2>1. /\ hook[h].at = "subscription"
          /\ Conflict(h)
          /\ settled' = settled \cup {hook[h].event}
          /\ UNCHANGED <<plan, recorded>>
      BY <1>4 DEF RejectEvent
    <2>2. ~hook[h].fresh
      BY <2>1 DEF Conflict, Inserts, FreshOK, NoRow
    <2> QED
      BY <2>1, <2>2 DEF FreshCommit
  <1>5. CASE OpenBilling
    BY <1>5 DEF OpenBilling, FreshCommit
  <1>6. ASSUME NEW c \in Checkouts, StartCheckout(c) \/ FinishCheckout(c) PROVE FreshCommit
    BY <1>6 DEF StartCheckout, FinishCheckout, FreshCommit
  <1>7. ASSUME NEW c \in Creators, (\E k \in Kinds : CheckCapacity(c, k)) \/ Register(c) PROVE FreshCommit
    BY <1>7 DEF CheckCapacity, Register, billingVars, FreshCommit
  <1>8. CASE DeleteAgent
    BY <1>8 DEF DeleteAgent, billingVars, FreshCommit
  <1> QED
    BY <1>1, <1>2, <1>3, <1>4, <1>5, <1>6, <1>7, <1>8, CommitAgrees DEF BillingNext

\* A step of the whole is a step of billing or leaves its variables alone.
LEMMA NextIsBilling == [Next]_vars => [BillingNext]_planVars
  BY DEF Next, vars, GateNext, Begin, SkipLimits, StartCounting, CountNext, AllCounted,
         CheckQuota, Commit, Crash, Tick

\* Types and freshness hold in every state.
LEMMA BillingInvariant == Spec => [](BillingTypeOK /\ FreshOK)
  <1>1. Init => BillingTypeOK /\ FreshOK
    BY BillingInitTyped, FreshInit DEF Init
  <1>2. BillingTypeOK /\ FreshOK /\ [Next]_vars => (BillingTypeOK /\ FreshOK)'
    BY NextIsBilling, BillingStepTyped, FreshStep
  <1> QED
    BY <1>1, <1>2, PTL DEF Spec

\* For any events, deliveries and checkouts at one time: a delivery that nothing
\* overtook leaves organization and subscription at its event's plan, the plan changes
\* by deliveries only, and an event is lost only by one that was overtaken.
THEOREM FreshDeliveriesAgree == Spec => FreshCommitAgrees
  <1>1. BillingTypeOK /\ FreshOK /\ [Next]_vars => [FreshCommit]_planVars
    BY NextIsBilling, StepAgrees
  <1> QED
    BY <1>1, BillingInvariant, PTL DEF Spec, FreshCommitAgrees, FreshCommit

-----------------------------------------------------------------------------
(* Billing: registrations *)

\* The registrations of a kind that are under way are finitely many.
LEMMA CheckedFinite ==
  ASSUME NEW k \in Kinds
  PROVE  /\ IsFiniteSet(Checked(k))
         /\ Cardinality(Checked(k)) \in Nat
         /\ Cardinality(Checked(k)) <= Cardinality(Creators)
         /\ Cardinality(Creators) \in Nat
  <1>1. Checked(k) \in SUBSET Creators
    BY DEF Checked
  <1> QED
    BY <1>1, BillingAssumption, FS_Subset, FS_CardinalityType

\* A registration that has seen room for its kind.
LEMMA CheckReach ==
  ASSUME BillingTypeOK, RegistrationsWithinReach, NEW c \in Creators, NEW j \in Kinds,
         CheckCapacity(c, j)
  PROVE  RegistrationsWithinReach'
  <1>1. /\ creator[c].at = "idle"
        /\ count[j] < Capacity[plan][j]
        /\ creator' = [creator EXCEPT ![c] = [at |-> "checked", kind |-> j]]
        /\ count' = count
    BY DEF CheckCapacity, billingVars
  <1>2. ASSUME NEW k \in Kinds, k # j PROVE Checked(k)' = Checked(k)
    BY <1>1, <1>2 DEF Checked, BillingTypeOK
  <1>3. Checked(j)' \in SUBSET Creators
    BY DEF Checked
  <1>4. Cardinality(Checked(j)') <= Cardinality(Creators) /\ Cardinality(Checked(j)') \in Nat
    BY <1>3, BillingAssumption, FS_Subset, FS_CardinalityType
  <1>5. plan \in Plans /\ count[j] \in Nat /\ Capacity[plan][j] \in Nat /\ Cardinality(Creators) \in Nat
    BY BillingAssumption, FS_CardinalityType DEF BillingTypeOK
  <1>6. count'[j] + Cardinality(Checked(j)') < Capacity[plan][j] + Cardinality(Creators)
    BY <1>1, <1>4, <1>5
  <1>7. ASSUME NEW k \in Kinds
        PROVE  \E p \in Plans :
                 count'[k] + Cardinality(Checked(k)') < Capacity[p][k] + Cardinality(Creators)
    <2>1. CASE k = j
      BY <1>5, <1>6, <2>1
    <2>2. CASE k # j
      BY <1>1, <1>2, <2>2 DEF RegistrationsWithinReach
    <2> QED
      BY <2>1, <2>2
  <1> QED
    BY <1>7 DEF RegistrationsWithinReach

\* A registration that is inserted or refused.
LEMMA RegisterReach ==
  ASSUME BillingTypeOK, RegistrationsWithinReach, NEW c \in Creators, Register(c)
  PROVE  RegistrationsWithinReach'
  <1>0. PICK j : j = creator[c].kind
    OBVIOUS
  <1>1. /\ creator[c].at = "checked"
        /\ creator' = [creator EXCEPT ![c] = IdleCreator]
        /\ count' \in {count, [count EXCEPT ![j] = @ + 1]}
    BY <1>0 DEF Register
  <1>2. j \in Kinds
    BY <1>0, <1>1 DEF BillingTypeOK, IdleCreator
  <1>3. Checked(j)' = Checked(j) \ {c} /\ c \in Checked(j)
    <2>1. c \in Checked(j)
      BY <1>0, <1>1 DEF Checked
    <2>2. ASSUME NEW d \in Creators PROVE d \in Checked(j)' <=> d \in Checked(j) \ {c}
      <3>1. d # c => creator'[d] = creator[d]
        BY <1>1 DEF BillingTypeOK
      <3>2. creator'[c].at = "idle"
        BY <1>1 DEF BillingTypeOK, IdleCreator
      <3> QED
        BY <3>1, <3>2 DEF Checked
    <2> QED
      BY <2>1, <2>2 DEF Checked
  <1>4. ASSUME NEW k \in Kinds, k # j PROVE Checked(k)' = Checked(k) /\ count'[k] = count[k]
    BY <1>0, <1>1, <1>2, <1>4 DEF Checked, BillingTypeOK, IdleCreator
  <1>5. Cardinality(Checked(j)') = Cardinality(Checked(j)) - 1
    BY <1>2, <1>3, CheckedFinite, FS_RemoveElement
  <1>6. count'[j] \in {count[j], count[j] + 1} /\ count[j] \in Nat
    BY <1>1, <1>2 DEF BillingTypeOK
  <1>7. ASSUME NEW k \in Kinds
        PROVE  \E p \in Plans :
                 count'[k] + Cardinality(Checked(k)') < Capacity[p][k] + Cardinality(Creators)
    <2>1. PICK p \in Plans :
                 count[k] + Cardinality(Checked(k)) < Capacity[p][k] + Cardinality(Creators)
      BY DEF RegistrationsWithinReach
    <2>2. Capacity[p][k] \in Nat /\ Cardinality(Creators) \in Nat /\ Cardinality(Checked(k)) \in Nat
      BY BillingAssumption, CheckedFinite
    <2>3. count'[k] + Cardinality(Checked(k)') <= count[k] + Cardinality(Checked(k))
      <3>1. CASE k = j
        <4>1. Cardinality(Checked(k)) \in Nat
          BY <2>2
        <4>2. count'[k] \in {count[k], count[k] + 1} /\ count[k] \in Nat
          BY <1>6, <3>1
        <4>3. Cardinality(Checked(k)') = Cardinality(Checked(k)) - 1
          BY <1>5, <3>1
        <4> QED
          BY <4>1, <4>2, <4>3
      <3>2. CASE k # j
        BY <1>4, <2>2, <3>2 DEF BillingTypeOK
      <3> QED
        BY <3>1, <3>2
    <2>4. count'[k] + Cardinality(Checked(k)') \in Int /\ count[k] + Cardinality(Checked(k)) \in Int
      <3>1. count'[k] \in Nat /\ count[k] \in Nat
        BY <1>1, <1>2 DEF BillingTypeOK
      <3>2. Cardinality(Checked(k)') \in Int
        <4>1. CASE k = j
          <5>1. Cardinality(Checked(k)') = Cardinality(Checked(k)) - 1
            BY <1>5, <4>1
          <5> QED
            BY <2>2, <5>1
        <4>2. CASE k # j
          BY <1>4, <2>2, <4>2
        <4> QED
          BY <4>1, <4>2
      <3> QED
        BY <2>2, <3>1, <3>2
    <2> QED
      BY <2>1, <2>2, <2>3, <2>4
  <1> QED
    BY <1>7 DEF RegistrationsWithinReach

\* The bound on registrations is inductive.
LEMMA ReachStep ==
  BillingTypeOK /\ RegistrationsWithinReach /\ [BillingNext]_planVars => RegistrationsWithinReach'
  <1> SUFFICES ASSUME BillingTypeOK, RegistrationsWithinReach, [BillingNext]_planVars
               PROVE  RegistrationsWithinReach'
    OBVIOUS
  <1>1. CASE UNCHANGED registryVars
    BY <1>1 DEF registryVars, RegistrationsWithinReach, Checked
  <1>2. ASSUME NEW c \in Creators, (\E k \in Kinds : CheckCapacity(c, k)) \/ Register(c)
        PROVE  RegistrationsWithinReach'
    BY <1>2, CheckReach, RegisterReach
  <1>3. CASE DeleteAgent
    <2>1. /\ count["agents"] > 0
          /\ count' = [count EXCEPT !["agents"] = @ - 1]
          /\ creator' = creator
      BY <1>3 DEF DeleteAgent
    <2>2. \A k \in Kinds : count'[k] <= count[k] /\ count'[k] \in Int /\ count[k] \in Int
      BY <2>1 DEF BillingTypeOK, Kinds
    <2>3. \A k \in Kinds : Checked(k)' = Checked(k)
      BY <2>1 DEF Checked
    <2>4. ASSUME NEW k \in Kinds
          PROVE  \E p \in Plans :
                   count'[k] + Cardinality(Checked(k)') < Capacity[p][k] + Cardinality(Creators)
      <3>1. PICK p \in Plans :
                   count[k] + Cardinality(Checked(k)) < Capacity[p][k] + Cardinality(Creators)
        BY DEF RegistrationsWithinReach
      <3>2. Capacity[p][k] \in Nat /\ Cardinality(Creators) \in Nat /\ Cardinality(Checked(k)) \in Nat
        BY BillingAssumption, CheckedFinite
      <3>3. Cardinality(Checked(k)') = Cardinality(Checked(k))
        BY <2>3
      <3>4. count'[k] <= count[k] /\ count'[k] \in Int /\ count[k] \in Int
        BY <2>2
      <3> QED
        BY <3>1, <3>2, <3>3, <3>4
    <2> QED
      BY <2>4 DEF RegistrationsWithinReach
  <1>4. CASE UNCHANGED planVars
    BY <1>1, <1>4 DEF planVars, registryVars
  <1>5. CASE BillingNext
    BY <1>1, <1>2, <1>3, <1>5
    DEF BillingNext, ReadOrganization, AnswerDuplicate, ReadSubscription, CommitEvent,
        RejectEvent, FailEvent, OpenBilling, StartCheckout, FinishCheckout
  <1> QED
    BY <1>4, <1>5

\* Nothing is registered at first.
LEMMA ReachInit == BillingInit => RegistrationsWithinReach
  <1> SUFFICES ASSUME BillingInit, NEW k \in Kinds
               PROVE  count[k] + Cardinality(Checked(k)) < Capacity["free"][k] + Cardinality(Creators)
    BY BillingAssumption DEF RegistrationsWithinReach
  <1>1. Checked(k) = {} /\ count[k] = 0
    BY DEF BillingInit, Checked, IdleCreator
  <1>2. Cardinality(Checked(k)) = 0
    BY <1>1, FS_EmptySet
  <1>3. Capacity["free"][k] \in Nat \ {0} /\ Cardinality(Creators) \in Nat
    BY BillingAssumption, CheckedFinite
  <1> QED
    BY <1>1, <1>2, <1>3

\* For any plans and capacities: registrations that overlap go beyond the capacity of
\* some plan by less than their number, whatever plan changes and deletions do meanwhile.
THEOREM RegistrationsReach == Spec => []RegistrationsWithinReach
  <1>1. Init => RegistrationsWithinReach
    BY ReachInit DEF Init
  <1>2. BillingTypeOK /\ RegistrationsWithinReach /\ [Next]_vars => RegistrationsWithinReach'
    BY NextIsBilling, ReachStep
  <1> QED
    BY <1>1, <1>2, BillingInvariant, PTL DEF Spec

-----------------------------------------------------------------------------
(* Admission: types *)

Evaluations ==
  [at : {"idle", "rate", "counting", "quota", "record", "done"}, plan : Plans,
   matches : SUBSET Limit, next : Nat, time : Time, charged : SUBSET (Limit \X Time), month : Time,
   decision : {"none", "allowed", "lost"} \cup Refusals]

GateTypeOK ==
  /\ now \in Time
  /\ buckets \in [Limit -> [Time -> Int]]
  /\ usage \in [Time -> Nat]
  /\ req \in [Requests -> Evaluations]

\* Windows and months of the model's instants are instants of the model.
LEMMA Division ==
  ASSUME NEW t \in Time, NEW k \in Nat \ {0}
  PROVE  t \div k \in Time
  <1>1. t \in Nat /\ t <= Horizon /\ Horizon \in Nat
    BY AdmissionAssumption DEF Time
  <1>2. t \div k \in Nat /\ t \div k <= t
    BY <1>1
  <1> QED
    BY <1>1, <1>2 DEF Time

\* The window of an instant.
LEMMA BucketTyped ==
  ASSUME NEW l \in Limit, NEW t \in Time
  PROVE  Bucket(l, t) \in Time
  BY AdmissionAssumption, Division DEF Bucket

\* The month of an instant.
LEMMA MonthTyped ==
  ASSUME NEW t \in Time
  PROVE  t \div Month \in Time
  BY AdmissionAssumption, Division

\* A request that is not evaluated yet.
LEMMA IdleTyped == Idle \in Evaluations /\ [Idle EXCEPT !.at = "done", !.decision = "lost"] \in Evaluations
  <1>1. 0 \in Time /\ "free" \in Plans
    BY AdmissionAssumption, BillingAssumption DEF Time
  <1> QED
    BY <1>1 DEF Idle, Evaluations, Refusals

\* The start.
LEMMA GateInitTyped == Init => GateTypeOK
  <1> SUFFICES ASSUME Init PROVE GateTypeOK
    OBVIOUS
  <1>1. now \in Time
    BY AdmissionAssumption DEF Init, Time
  <1>2. buckets \in [Limit -> [Time -> Int]] /\ usage \in [Time -> Nat]
    BY DEF Init
  <1>3. req \in [Requests -> Evaluations]
    BY IdleTyped DEF Init
  <1> QED
    BY <1>1, <1>2, <1>3 DEF GateTypeOK

\* A refusal keeps the types.
LEMMA RefuseTyped ==
  ASSUME GateTypeOK, NEW r \in Requests, NEW decision \in Refusals
  PROVE  Refuse(r, decision) \in [Requests -> Evaluations]
  <1>1. [req[r] EXCEPT !.at = "record", !.decision = decision] \in Evaluations
    BY DEF GateTypeOK, Evaluations, Refusals
  <1> QED
    BY <1>1 DEF Refuse, GateTypeOK

\* Counting one limit keeps the types.
LEMMA CountTyped ==
  ASSUME GateTypeOK, NEW r \in Requests, CountNext(r)
  PROVE  buckets' \in [Limit -> [Time -> Int]] /\ req' \in [Requests -> Evaluations]
  <1>1. PICK l \in Remaining(r) : CountInPostgres(r, l) \/ CountInRedis(r, l)
    BY DEF CountNext
  <1>2. l \in Limit /\ l \in Nat
    BY AdmissionAssumption DEF Remaining, GateTypeOK, Evaluations, Limit
  <1>3. PICK w \in Time : w = Bucket(l, req[r].time)
    BY <1>2, BucketTyped DEF GateTypeOK, Evaluations
  <1>4. Counted(l, w) \in [Limit -> [Time -> Int]]
    BY <1>2 DEF Counted, GateTypeOK
  <1>5. [req EXCEPT ![r].next = l + 1, ![r].charged = @ \cup {<<l, w>>}] \in [Requests -> Evaluations]
    <2>1. [req[r] EXCEPT !.next = l + 1, !.charged = @ \cup {<<l, w>>}] \in Evaluations
      <3>1. req[r] \in Evaluations
        BY DEF GateTypeOK
      <3>2. req[r].charged \cup {<<l, w>>} \in SUBSET (Limit \X Time)
        BY <1>2, <3>1 DEF Evaluations
      <3>3. l + 1 \in Nat
        BY <1>2
      <3> QED
        BY <3>1, <3>2, <3>3 DEF Evaluations
    <2> QED
      BY <2>1 DEF GateTypeOK
  <1>6. Refuse(r, "rate_limited") \in [Requests -> Evaluations]
    BY RefuseTyped DEF Refusals
  <1> QED
    BY <1>1, <1>3, <1>4, <1>5, <1>6 DEF CountInPostgres, CountInRedis, GateTypeOK

\* Every step of the gates keeps the types.
LEMMA GateStepTyped == BillingTypeOK /\ GateTypeOK /\ [Next]_vars => GateTypeOK'
  <1> SUFFICES ASSUME BillingTypeOK, GateTypeOK, [Next]_vars PROVE GateTypeOK'
    OBVIOUS
  <1>1. CASE UNCHANGED gateVars
    BY <1>1 DEF gateVars, GateTypeOK
  <1>2. ASSUME NEW r \in Requests, Begin(r) PROVE GateTypeOK'
    <2>1. UNCHANGED <<now, buckets, usage>>
      BY <1>2 DEF Begin
    <2>2. PICK matches \in SUBSET Limit :
               \/ req' = [req EXCEPT ![r].at = "rate", ![r].plan = plan, ![r].matches = matches]
               \/ req' = [req EXCEPT ![r].at = "record", ![r].plan = plan, ![r].decision = "denied"]
      BY <1>2 DEF Begin
    <2>3. plan \in Plans
      BY DEF BillingTypeOK
    <2>4. req' \in [Requests -> Evaluations]
      BY <2>2, <2>3 DEF GateTypeOK, Evaluations, Refusals
    <2> QED
      BY <2>1, <2>4 DEF GateTypeOK
  <1>3. ASSUME NEW r \in Requests, SkipLimits(r) \/ AllCounted(r) \/ StartCounting(r) PROVE GateTypeOK'
    <2>1. UNCHANGED <<now, buckets, usage>>
      BY <1>3 DEF SkipLimits, AllCounted, StartCounting
    <2>2. \/ req' = [req EXCEPT ![r].at = "quota"]
          \/ req' = [req EXCEPT ![r].at = "counting", ![r].time = now]
      BY <1>3 DEF SkipLimits, AllCounted, StartCounting
    <2>3. req' \in [Requests -> Evaluations]
      BY <2>2 DEF GateTypeOK, Evaluations
    <2> QED
      BY <2>1, <2>3 DEF GateTypeOK
  <1>4. ASSUME NEW r \in Requests, CountNext(r) PROVE GateTypeOK'
    BY <1>4, CountTyped DEF CountNext, GateTypeOK
  <1>5. ASSUME NEW r \in Requests, CheckQuota(r) PROVE GateTypeOK'
    <2>1. Refuse(r, "budget_exceeded") \in [Requests -> Evaluations]
      BY RefuseTyped DEF Refusals
    <2>2. [req EXCEPT ![r].at = "record", ![r].decision = "allowed"] \in [Requests -> Evaluations]
      <3>1. [req[r] EXCEPT !.at = "record", !.decision = "allowed"] \in Evaluations
        BY DEF GateTypeOK, Evaluations
      <3> QED
        BY <3>1 DEF GateTypeOK
    <2> QED
      BY <1>5, <2>1, <2>2 DEF CheckQuota, GateTypeOK
  <1>6. ASSUME NEW r \in Requests, Commit(r) PROVE GateTypeOK'
    <2>1. PICK m \in Time : m = now \div Month
      BY MonthTyped DEF GateTypeOK
    <2>2. /\ usage' = [usage EXCEPT ![m] = @ + 1]
          /\ req' = [req EXCEPT ![r].at = "done", ![r].month = m]
          /\ UNCHANGED <<now, buckets>>
      BY <1>6, <2>1 DEF Commit
    <2>3. [req[r] EXCEPT !.at = "done", !.month = m] \in Evaluations
      BY DEF GateTypeOK, Evaluations
    <2>4. req' \in [Requests -> Evaluations]
      BY <2>2, <2>3 DEF GateTypeOK
    <2> QED
      BY <2>2, <2>4 DEF GateTypeOK
  <1>7. ASSUME NEW r \in Requests, Crash(r) PROVE GateTypeOK'
    <2>1. req' \in [Requests -> Evaluations]
      BY <1>7, IdleTyped DEF Crash, GateTypeOK
    <2>2. buckets' \in [Limit -> [Time -> Int]]
      <3>1. CASE store = "postgres"
        <4>1. \A l \in Limit, w \in Time :
                (IF <<l, w>> \in req[r].charged THEN buckets[l][w] - 1 ELSE buckets[l][w]) \in Int
          BY DEF GateTypeOK
        <4> QED
          BY <1>7, <3>1, <4>1 DEF Crash
      <3>2. CASE store # "postgres"
        BY <1>7, <3>2 DEF Crash, GateTypeOK
      <3> QED
        BY <3>1, <3>2
    <2> QED
      BY <1>7, <2>1, <2>2 DEF Crash, GateTypeOK
  <1>8. CASE Tick
    BY <1>8, AdmissionAssumption DEF Tick, GateTypeOK, Time
  <1> QED
    BY <1>1, <1>2, <1>3, <1>4, <1>5, <1>6, <1>7, <1>8 DEF Next, GateNext, vars

-----------------------------------------------------------------------------
(* Admission: the month's quota *)

Passed(r) == req[r].at = "record" /\ req[r].decision = "allowed"

\* A month records at least its allowed requests, none of a later month; whoever has
\* passed the quota still holds its lock, and one more fits into the quota it has read.
QuotaOK ==
  /\ \A m \in Time : Cardinality(AllowedIn(m)) <= usage[m]
  /\ \A r \in Requests :
       req[r].at = "done" /\ req[r].decision = "allowed" => req[r].month <= now \div Month
  /\ \A r \in Requests : Passed(r) =>
       quotaLock = {r} /\ Cardinality(AllowedIn(now \div Month)) < Actions[req[r].plan]
  /\ \A m \in Time : AllowedIn(m) # {} =>
       \E r \in AllowedIn(m) : Cardinality(AllowedIn(m)) <= Actions[req[r].plan]

\* The allowed requests of a month are finitely many.
LEMMA AllowedFinite ==
  ASSUME NEW m
  PROVE  IsFiniteSet(AllowedIn(m)) /\ Cardinality(AllowedIn(m)) \in Nat
  <1>1. AllowedIn(m) \in SUBSET Requests
    BY DEF AllowedIn
  <1> QED
    BY <1>1, AdmissionAssumption, FS_Subset, FS_CardinalityType

\* A step of a request that is not done, and does not become both done and allowed,
\* leaves every month as it was.
LEMMA AllowedSame ==
  ASSUME NEW r \in Requests,
         \A q \in Requests : q # r => req'[q] = req[q],
         req[r].at # "done",
         req'[r].at = "done" => req'[r].decision # "allowed"
  PROVE  /\ \A m : AllowedIn(m)' = AllowedIn(m)
         /\ \A m : r \notin AllowedIn(m)
  BY DEF AllowedIn

\* Such a step keeps QuotaOK unless it passes the quota.
LEMMA QuotaFrame ==
  ASSUME GateTypeOK, QuotaOK, NEW r \in Requests,
         \A q \in Requests : q # r => req'[q] = req[q],
         req[r].at # "done",
         req'[r].at = "done" => req'[r].decision # "allowed",
         UNCHANGED <<now, usage>>,
         \A q \in Requests : q # r /\ quotaLock = {q} => quotaLock' = {q},
         Passed(r)' => quotaLock' = {r} /\ Cardinality(AllowedIn(now \div Month)) < Actions[req'[r].plan]
  PROVE  QuotaOK'
  <1>1. \A m : AllowedIn(m)' = AllowedIn(m) /\ r \notin AllowedIn(m)
    BY AllowedSame
  <1>2. \A m \in Time : Cardinality(AllowedIn(m)') <= usage'[m]
    BY <1>1 DEF QuotaOK
  <1>3. \A q \in Requests :
          req'[q].at = "done" /\ req'[q].decision = "allowed" => req'[q].month <= now' \div Month
    BY DEF QuotaOK
  <1>4. ASSUME NEW q \in Requests, Passed(q)'
        PROVE  quotaLock' = {q} /\ Cardinality(AllowedIn(now \div Month)') < Actions[req'[q].plan]
    <2>1. CASE q = r
      BY <1>1, <1>4, <2>1
    <2>2. CASE q # r
      BY <1>1, <1>4, <2>2 DEF QuotaOK, Passed
    <2> QED
      BY <2>1, <2>2
  <1>5. ASSUME NEW m \in Time, AllowedIn(m)' # {}
        PROVE  \E q \in AllowedIn(m)' : Cardinality(AllowedIn(m)') <= Actions[req'[q].plan]
    <2>1. PICK q \in AllowedIn(m) : Cardinality(AllowedIn(m)) <= Actions[req[q].plan]
      BY <1>1, <1>5 DEF QuotaOK
    <2>2. q # r /\ q \in Requests
      BY <1>1, <2>1 DEF AllowedIn
    <2> QED
      BY <1>1, <2>1, <2>2
  <1> QED
    BY <1>2, <1>3, <1>4, <1>5 DEF QuotaOK

\* A request that passes the quota, or is refused by it or by a budget.
LEMMA CheckQuotaKeeps ==
  ASSUME GateTypeOK, QuotaOK, NEW r \in Requests, CheckQuota(r)
  PROVE  QuotaOK'
  <1>1. /\ req[r].at = "quota"
        /\ quotaLock = {} /\ quotaLock' = {r}
        /\ UNCHANGED <<now, usage>>
        /\ \/ QuotaLeft(r) /\ req' = [req EXCEPT ![r].at = "record", ![r].decision = "allowed"]
           \/ req' = Refuse(r, "budget_exceeded")
    BY DEF CheckQuota
  <1>2. \A q \in Requests : q # r => req'[q] = req[q]
    BY <1>1 DEF Refuse, GateTypeOK
  <1>3. req'[r].at = "record" /\ req'[r].plan = req[r].plan
    BY <1>1 DEF Refuse, GateTypeOK, Evaluations
  <1>4. req'[r].decision = "allowed" => QuotaLeft(r)
    BY <1>1 DEF Refuse, GateTypeOK, Evaluations
  <1>5. ASSUME Passed(r)' PROVE Cardinality(AllowedIn(now \div Month)) < Actions[req'[r].plan]
    <2>1. PICK m \in Time : m = now \div Month
      BY MonthTyped DEF GateTypeOK
    <2>2. usage[m] < Actions[req[r].plan]
      BY <1>4, <1>5, <2>1 DEF Passed, QuotaLeft
    <2>3. Cardinality(AllowedIn(m)) <= usage[m] /\ Cardinality(AllowedIn(m)) \in Nat /\ usage[m] \in Nat
      BY AllowedFinite DEF QuotaOK, GateTypeOK
    <2>4. Actions[req[r].plan] \in Nat
      BY AdmissionAssumption DEF GateTypeOK, Evaluations
    <2> QED
      BY <1>3, <2>1, <2>2, <2>3, <2>4
  <1> QED
    BY <1>1, <1>2, <1>3, <1>5, QuotaFrame

\* The record of a decision.
LEMMA CommitKeepsQuota ==
  ASSUME GateTypeOK, QuotaOK, NEW r \in Requests, Commit(r)
  PROVE  QuotaOK'
  <1>1. PICK m \in Time : m = now \div Month
    BY MonthTyped DEF GateTypeOK
  <1>2. /\ req[r].at = "record"
        /\ usage' = [usage EXCEPT ![m] = @ + 1]
        /\ req' = [req EXCEPT ![r].at = "done", ![r].month = m]
        /\ quotaLock' = quotaLock \ {r}
        /\ UNCHANGED now
    BY <1>1 DEF Commit
  <1>3. \A q \in Requests : q # r => req'[q] = req[q]
    BY <1>2 DEF GateTypeOK
  <1>4. /\ req'[r].at = "done" /\ req'[r].month = m
        /\ req'[r].plan = req[r].plan /\ req'[r].decision = req[r].decision
    BY <1>2 DEF GateTypeOK, Evaluations
  <1>5. \A n \in Time : usage'[n] \in Nat /\ usage[n] \in Nat /\ usage[n] <= usage'[n] /\ usage'[m] = usage[m] + 1
    BY <1>2 DEF GateTypeOK
  <1>6. ASSUME NEW q \in Requests, q # r, quotaLock = {q} PROVE quotaLock' = {q}
    BY <1>2, <1>6
  <1>7. CASE req[r].decision # "allowed"
    <2>1. \A n : AllowedIn(n)' = AllowedIn(n) /\ r \notin AllowedIn(n)
      BY <1>2, <1>3, <1>4, <1>7, AllowedSame
    <2>2. \A n \in Time : Cardinality(AllowedIn(n)') <= usage'[n]
      BY <1>5, <2>1, AllowedFinite DEF QuotaOK
    <2>3. \A q \in Requests :
            req'[q].at = "done" /\ req'[q].decision = "allowed" => req'[q].month <= now' \div Month
      BY <1>2, <1>3, <1>4, <1>7 DEF QuotaOK
    <2>4. ASSUME NEW q \in Requests, Passed(q)'
          PROVE  quotaLock' = {q} /\ Cardinality(AllowedIn(now \div Month)') < Actions[req'[q].plan]
      <3>1. q # r /\ Passed(q) /\ req'[q] = req[q]
        BY <1>3, <1>4, <2>4 DEF Passed
      <3>2. AllowedIn(now \div Month)' = AllowedIn(now \div Month)
        BY <1>2, <2>1
      <3> QED
        BY <1>6, <3>1, <3>2 DEF QuotaOK
    <2>5. ASSUME NEW n \in Time, AllowedIn(n)' # {}
          PROVE  \E q \in AllowedIn(n)' : Cardinality(AllowedIn(n)') <= Actions[req'[q].plan]
      <3>1. PICK q \in AllowedIn(n) : Cardinality(AllowedIn(n)) <= Actions[req[q].plan]
        BY <2>1, <2>5 DEF QuotaOK
      <3>2. q # r /\ q \in Requests
        BY <2>1, <3>1 DEF AllowedIn
      <3> QED
        BY <1>3, <2>1, <3>1, <3>2
    <2> QED
      BY <2>2, <2>3, <2>4, <2>5 DEF QuotaOK
  <1>8. CASE req[r].decision = "allowed"
    <2>1. quotaLock = {r} /\ Cardinality(AllowedIn(m)) < Actions[req[r].plan]
      BY <1>1, <1>2, <1>8 DEF QuotaOK, Passed
    <2>2. AllowedIn(m)' = AllowedIn(m) \cup {r} /\ r \notin AllowedIn(m)
      BY <1>2, <1>3, <1>4, <1>8 DEF AllowedIn
    <2>3. ASSUME NEW n, n # m PROVE AllowedIn(n)' = AllowedIn(n) /\ r \notin AllowedIn(n)
      BY <1>2, <1>3, <1>4, <2>3 DEF AllowedIn
    <2>4. Cardinality(AllowedIn(m)') = Cardinality(AllowedIn(m)) + 1
      BY <2>2, AllowedFinite, FS_AddElement
    <2>5. ASSUME NEW n \in Time PROVE Cardinality(AllowedIn(n)') <= usage'[n]
      <3>1. Cardinality(AllowedIn(n)) <= usage[n] /\ Cardinality(AllowedIn(n)) \in Nat
        BY AllowedFinite DEF QuotaOK
      <3>2. CASE n = m
        BY <1>5, <2>4, <3>1, <3>2
      <3>3. CASE n # m
        <4>1. Cardinality(AllowedIn(n)') = Cardinality(AllowedIn(n))
          BY <2>3, <3>3
        <4> QED
          BY <1>5, <3>1, <4>1
      <3> QED
        BY <3>2, <3>3
    <2>6. ASSUME NEW q \in Requests, req'[q].at = "done", req'[q].decision = "allowed"
          PROVE  req'[q].month <= now' \div Month
      <3>1. CASE q = r
        <4>1. m \in Nat
          BY <1>1, AdmissionAssumption DEF Time
        <4> QED
          BY <1>1, <1>2, <1>4, <3>1, <4>1
      <3>2. CASE q # r
        BY <1>2, <1>3, <2>6, <3>2 DEF QuotaOK
      <3> QED
        BY <3>1, <3>2
    <2>7. ASSUME NEW q \in Requests, Passed(q)' PROVE FALSE
      <3>1. q # r /\ Passed(q)
        BY <1>3, <1>4, <2>7 DEF Passed
      <3> QED
        BY <2>1, <3>1 DEF QuotaOK
    <2>8. ASSUME NEW n \in Time, AllowedIn(n)' # {}
          PROVE  \E q \in AllowedIn(n)' : Cardinality(AllowedIn(n)') <= Actions[req'[q].plan]
      <3>1. CASE n = m
        <4>1. Actions[req[r].plan] \in Nat /\ Cardinality(AllowedIn(m)) \in Nat
          BY AdmissionAssumption, AllowedFinite DEF GateTypeOK, Evaluations
        <4>2. Cardinality(AllowedIn(n)') <= Actions[req'[r].plan]
          BY <1>4, <2>1, <2>4, <3>1, <4>1
        <4> QED
          BY <2>2, <3>1, <4>2
      <3>2. CASE n # m
        <4>1. PICK q \in AllowedIn(n) : Cardinality(AllowedIn(n)) <= Actions[req[q].plan]
          BY <2>3, <2>8, <3>2 DEF QuotaOK
        <4>2. q # r /\ q \in Requests
          BY <2>3, <3>2, <4>1 DEF AllowedIn
        <4> QED
          BY <1>3, <2>3, <3>2, <4>1, <4>2
      <3> QED
        BY <3>1, <3>2
    <2> QED
      BY <2>5, <2>6, <2>7, <2>8 DEF QuotaOK
  <1> QED
    BY <1>7, <1>8

\* The clock: a request that has passed the quota in a month has room in the next one.
LEMMA TickKeepsQuota ==
  ASSUME GateTypeOK, QuotaOK, Tick
  PROVE  QuotaOK'
  <1>1. now' = now + 1 /\ UNCHANGED <<usage, quotaLock, req>>
    BY DEF Tick
  <1>2. PICK m, n : m = now \div Month /\ n = now' \div Month
    OBVIOUS
  <1>3. m \in Nat /\ n \in Nat /\ m <= n
    <2>1. now \in Nat /\ now' \in Nat /\ now <= now' /\ Month \in Nat \ {0}
      BY <1>1, AdmissionAssumption DEF GateTypeOK, Time
    <2>2. \A t \in Nat, u \in Nat, k \in Nat \ {0} :
            t <= u => t \div k \in Nat /\ u \div k \in Nat /\ t \div k <= u \div k
      OBVIOUS
    <2> QED
      BY <1>2, <2>1, <2>2
  <1>4. \A k : AllowedIn(k)' = AllowedIn(k)
    BY <1>1 DEF AllowedIn
  <1>5. ASSUME NEW r \in Requests, Passed(r)
        PROVE  quotaLock = {r} /\ Cardinality(AllowedIn(n)) < Actions[req[r].plan]
    <2>1. quotaLock = {r} /\ Cardinality(AllowedIn(m)) < Actions[req[r].plan]
      BY <1>2, <1>5 DEF QuotaOK
    <2>2. Cardinality(AllowedIn(m)) \in Nat /\ Actions[req[r].plan] \in Nat
      BY AllowedFinite, AdmissionAssumption DEF GateTypeOK, Evaluations
    <2>3. CASE n # m
      <3>1. \A q \in Requests : req[q].at = "done" /\ req[q].decision = "allowed" =>
              req[q].month <= m /\ req[q].month \in Nat
        BY <1>2, AdmissionAssumption DEF QuotaOK, GateTypeOK, Evaluations, Time
      <3>2. AllowedIn(n) = {}
        BY <1>3, <2>3, <3>1 DEF AllowedIn
      <3>3. Cardinality(AllowedIn(n)) = 0
        BY <3>2, FS_EmptySet
      <3> QED
        BY <2>1, <2>2, <3>3
    <2> QED
      BY <2>1, <2>3
  <1>6. \A q \in Requests : req[q].at = "done" /\ req[q].decision = "allowed" => req[q].month <= n
    <2>1. \A q \in Requests : req[q].month \in Nat
      BY AdmissionAssumption DEF GateTypeOK, Evaluations, Time
    <2> QED
      BY <1>2, <1>3, <2>1 DEF QuotaOK
  <1>7. \A k \in Time : Cardinality(AllowedIn(k)') <= usage'[k]
    BY <1>1, <1>4 DEF QuotaOK
  <1>8. \A r \in Requests : Passed(r)' =>
          quotaLock' = {r} /\ Cardinality(AllowedIn(now \div Month)') < Actions[req'[r].plan]
    <2>1. \A r \in Requests : Passed(r)' <=> Passed(r)
      BY <1>1 DEF Passed
    <2>2. AllowedIn(now \div Month)' = AllowedIn(n)
      BY <1>1, <1>2 DEF AllowedIn
    <2> QED
      BY <1>1, <1>5, <2>1, <2>2
  <1>9. \A k \in Time : AllowedIn(k)' # {} =>
          \E r \in AllowedIn(k)' : Cardinality(AllowedIn(k)') <= Actions[req'[r].plan]
    BY <1>1, <1>4 DEF QuotaOK
  <1> QED
    BY <1>1, <1>2, <1>6, <1>7, <1>8, <1>9 DEF QuotaOK

\* QuotaOK is inductive.
LEMMA QuotaStep == GateTypeOK /\ QuotaOK /\ [Next]_vars => QuotaOK'
  <1> SUFFICES ASSUME GateTypeOK, QuotaOK, [Next]_vars PROVE QuotaOK'
    OBVIOUS
  <1>1. CASE UNCHANGED gateVars
    BY <1>1 DEF gateVars, QuotaOK, AllowedIn, Passed
  <1>2. ASSUME NEW r \in Requests,
               Begin(r) \/ SkipLimits(r) \/ StartCounting(r) \/ AllCounted(r) \/ CountNext(r)
        PROVE  QuotaOK'
    <2>1. UNCHANGED <<now, usage, quotaLock>>
      BY <1>2 DEF Begin, SkipLimits, StartCounting, AllCounted, CountNext
    <2>2. req[r].at \in {"idle", "rate", "counting"}
      BY <1>2 DEF Begin, SkipLimits, StartCounting, AllCounted, CountNext
    <2>3. /\ \A q \in Requests : q # r => req'[q] = req[q]
          /\ req'[r].at # "done"
          /\ req'[r].at = "record" => req'[r].decision # "allowed"
      <3>1. CASE Begin(r)
        BY <3>1 DEF Begin, GateTypeOK, Evaluations
      <3>2. CASE SkipLimits(r) \/ StartCounting(r) \/ AllCounted(r)
        BY <3>2 DEF SkipLimits, StartCounting, AllCounted, GateTypeOK, Evaluations
      <3>3. CASE CountNext(r)
        <4>1. PICK l \in Remaining(r) : CountInPostgres(r, l) \/ CountInRedis(r, l)
          BY <3>3 DEF CountNext
        <4>2. PICK w : w = Bucket(l, req[r].time)
          OBVIOUS
        <4>3. \/ req' = Refuse(r, "rate_limited")
              \/ req' = [req EXCEPT ![r].next = l + 1, ![r].charged = @ \cup {<<l, w>>}]
          BY <4>1, <4>2 DEF CountInPostgres, CountInRedis
        <4>4. req[r].at = "counting"
          BY <3>3 DEF CountNext
        <4> QED
          BY <4>3, <4>4 DEF Refuse, GateTypeOK, Evaluations
      <3> QED
        BY <1>2, <3>1, <3>2, <3>3
    <2>4. ~Passed(r)'
      BY <2>3 DEF Passed
    <2> QED
      BY <2>1, <2>2, <2>3, <2>4, QuotaFrame
  <1>3. ASSUME NEW r \in Requests, Crash(r) PROVE QuotaOK'
    <2>1. /\ UNCHANGED <<now, usage>>
          /\ quotaLock' = quotaLock \ {r}
          /\ req[r].at # "done"
          /\ req' = [req EXCEPT ![r] = [Idle EXCEPT !.at = "done", !.decision = "lost"]]
      BY <1>3 DEF Crash
    <2>2. /\ \A q \in Requests : q # r => req'[q] = req[q]
          /\ req'[r].at = "done" /\ req'[r].decision = "lost"
      BY <2>1 DEF GateTypeOK, Idle
    <2>3. ~Passed(r)'
      BY <2>2 DEF Passed
    <2> QED
      BY <2>1, <2>2, <2>3, QuotaFrame
  <1>4. ASSUME NEW r \in Requests, CheckQuota(r) \/ Commit(r) PROVE QuotaOK'
    BY <1>4, CheckQuotaKeeps, CommitKeepsQuota
  <1>5. CASE Tick
    BY <1>5, TickKeepsQuota
  <1> QED
    BY <1>1, <1>2, <1>3, <1>4, <1>5 DEF Next, GateNext, vars

\* The start.
LEMMA QuotaInit == Init => QuotaOK
  <1> SUFFICES ASSUME Init PROVE QuotaOK
    OBVIOUS
  <1>1. \A m : AllowedIn(m) = {}
    BY DEF Init, AllowedIn, Idle
  <1>2. \A m \in Time : Cardinality(AllowedIn(m)) = 0 /\ usage[m] = 0
    BY <1>1, FS_EmptySet DEF Init
  <1>3. \A r \in Requests : req[r].at = "idle"
    BY DEF Init, Idle
  <1> QED
    BY <1>1, <1>2, <1>3 DEF QuotaOK, Passed

\* Types and quota hold in every state.
LEMMA GateInvariant == Spec => [](GateTypeOK /\ QuotaOK)
  <1>1. Init => GateTypeOK /\ QuotaOK
    BY GateInitTyped, QuotaInit
  <1>2. BillingTypeOK /\ GateTypeOK /\ QuotaOK /\ [Next]_vars => (GateTypeOK /\ QuotaOK)'
    BY GateStepTyped, QuotaStep
  <1> QED
    BY <1>1, <1>2, BillingInvariant, PTL DEF Spec

\* For any plans, quotas and months: registrations stay within reach of a capacity, and
\* a month never has more allowed actions than the quota one of them was allowed under,
\* although the plan is read before the rate limits and the month may end in between.
THEOREM PlanLimits == Spec => []PlanLimitsHold
  <1>1. QuotaOK /\ RegistrationsWithinReach => PlanLimitsHold
    BY DEF QuotaOK, PlanLimitsHold
  <1> QED
    BY <1>1, GateInvariant, RegistrationsReach, PTL

-----------------------------------------------------------------------------
(* Admission: the rate limits *)

\* What a request has charged: limits before the next one, each in the window of its
\* time; all that match once they are counted.  Decisions come last.
ChargesRight(r) ==
  /\ \A c \in req[r].charged :
       c[1] < req[r].next /\ c[1] \in req[r].matches /\ c[2] = Bucket(c[1], req[r].time)
  /\ req[r].at \in {"idle", "rate"} => req[r].charged = {} /\ req[r].next = 1
  /\ req[r].at = "counting" =>
       \A l \in req[r].matches : l < req[r].next => <<l, Bucket(l, req[r].time)>> \in req[r].charged
  /\ req[r].at = "quota" \/ req[r].decision = "allowed" =>
       \A l \in req[r].matches : <<l, Bucket(l, req[r].time)>> \in req[r].charged
  /\ req[r].at \in {"idle", "rate", "counting", "quota"} => req[r].decision = "none"

ChargesOK == \A r \in Requests : ChargesRight(r)

\* In Postgres whoever has charged a bucket that may still be rolled back holds the lock.
LockOK ==
  store = "postgres" =>
    \A r \in Requests :
      req[r].at = "counting" \/ (req[r].at # "done" /\ req[r].charged # {}) => rateLock = {r}

\* Buckets count what was charged; in Redis also what was refused or lost.
BucketsOK ==
  \A l \in Limit, w \in Time :
    /\ Cardinality(Charged(l, w)) <= Quantity[l]
    /\ Cardinality(Charged(l, w)) <= buckets[l][w]
    /\ store = "postgres" => buckets[l][w] = Cardinality(Charged(l, w))

\* A bucket that is full for good: everyone who charged it is done.
Full(l, w) ==
  /\ buckets[l][w] = Quantity[l]
  /\ \A q \in Requests : <<l, w>> \in req[q].charged => req[q].at = "done"

RefusedOK ==
  store = "postgres" =>
    \A r \in Requests : req[r].decision = "rate_limited" =>
      \E l \in req[r].matches : Full(l, Bucket(l, req[r].time))

\* A bucket's requests are finitely many.
LEMMA ChargedFinite ==
  ASSUME NEW l, NEW w
  PROVE  IsFiniteSet(Charged(l, w)) /\ Cardinality(Charged(l, w)) \in Nat
  <1>1. Charged(l, w) \in SUBSET Requests
    BY DEF Charged
  <1> QED
    BY <1>1, AdmissionAssumption, FS_Subset, FS_CardinalityType

\* What the invariant says about rates.
RateOK == ChargesOK /\ LockOK /\ BucketsOK /\ RefusedOK

\* Steps that charge nothing: the buckets' part of the invariant stays.
LEMMA ChargeFrame ==
  ASSUME GateTypeOK, BucketsOK, RefusedOK, NEW r \in Requests,
         UNCHANGED <<store, buckets>>,
         \A q \in Requests : q # r => req'[q] = req[q],
         req'[r].charged = req[r].charged,
         req[r].at = "done" => req'[r].at = "done",
         req'[r].decision = "rate_limited" =>
           /\ req[r].decision = "rate_limited"
           /\ req'[r].matches = req[r].matches /\ req'[r].time = req[r].time
  PROVE  BucketsOK' /\ RefusedOK'
  <1>1. \A l \in Limit, w \in Time : Charged(l, w)' = Charged(l, w)
    BY DEF Charged
  <1>2. BucketsOK'
    BY <1>1 DEF BucketsOK
  <1>3. ASSUME NEW l, NEW w, Full(l, w) PROVE Full(l, w)'
    BY <1>3 DEF Full
  <1>4. ASSUME NEW q \in Requests, store = "postgres", req'[q].decision = "rate_limited"
        PROVE  \E l \in req'[q].matches : Full(l, Bucket(l, req[q].time))'
    <2>1. /\ req[q].decision = "rate_limited"
          /\ req'[q].matches = req[q].matches /\ req'[q].time = req[q].time
      BY <1>4
    <2>2. PICK l \in req[q].matches : Full(l, Bucket(l, req[q].time))
      BY <1>4, <2>1 DEF RefusedOK
    <2>3. PICK w : w = Bucket(l, req[q].time)
      OBVIOUS
    <2>4. Full(l, w)'
      BY <1>3, <2>2, <2>3
    <2>5. Bucket(l, req[q].time)' = w
      BY <2>1, <2>3 DEF Bucket
    <2>6. Full(l, Bucket(l, req[q].time))'
      BY <2>4, <2>5 DEF Full
    <2> QED
      BY <2>1, <2>2, <2>6
  <1>5. RefusedOK'
    BY <1>4 DEF RefusedOK
  <1> QED
    BY <1>2, <1>5

\* One more limit is counted, or refused.
LEMMA CountKeepsCharges ==
  ASSUME GateTypeOK, ChargesOK, NEW r \in Requests, CountNext(r)
  PROVE  ChargesRight(r)'
  <1>1. req[r].at = "counting" /\ req[r].decision = "none" /\ ChargesRight(r) /\ req[r] \in Evaluations
    BY DEF CountNext, ChargesOK, ChargesRight, GateTypeOK
  <1>2. PICK l \in Remaining(r) :
             /\ \A k \in Remaining(r) : l <= k
             /\ CountInPostgres(r, l) \/ CountInRedis(r, l)
    BY DEF CountNext
  <1>3. PICK w : w = Bucket(l, req[r].time)
    OBVIOUS
  <1>4. \/ req' = Refuse(r, "rate_limited")
        \/ req' = [req EXCEPT ![r].next = l + 1, ![r].charged = @ \cup {<<l, w>>}]
    BY <1>2, <1>3 DEF CountInPostgres, CountInRedis
  <1>5. CASE req' = Refuse(r, "rate_limited")
    <2>1. /\ req'[r].at = "record" /\ req'[r].decision = "rate_limited"
          /\ req'[r].next = req[r].next /\ req'[r].charged = req[r].charged
          /\ req'[r].matches = req[r].matches /\ req'[r].time = req[r].time
      BY <1>1, <1>5 DEF Refuse, GateTypeOK, Evaluations
    <2> QED
      BY <1>1, <2>1 DEF ChargesRight, Bucket
  <1>6. CASE req' = [req EXCEPT ![r].next = l + 1, ![r].charged = @ \cup {<<l, w>>}]
    <2>1. /\ req'[r].at = "counting" /\ req'[r].decision = "none"
          /\ req'[r].next = l + 1 /\ req'[r].charged = req[r].charged \cup {<<l, w>>}
          /\ req'[r].matches = req[r].matches /\ req'[r].time = req[r].time
      BY <1>1, <1>6 DEF GateTypeOK, Evaluations
    <2>2. /\ l \in Nat /\ l \in req[r].matches /\ req[r].next \in Nat /\ req[r].next <= l
          /\ \A k \in req[r].matches : k \in Nat
          /\ \A k \in req[r].matches : k >= req[r].next => l <= k
      BY <1>1, <1>2, AdmissionAssumption DEF Remaining, Evaluations, Limit
    <2>3. \A c \in req'[r].charged :
            c[1] < req'[r].next /\ c[1] \in req'[r].matches /\ c[2] = Bucket(c[1], req'[r].time)
      <3> TAKE c \in req'[r].charged
      <3>1. CASE c \in req[r].charged
        <4>1. c[1] < req[r].next /\ c[1] \in req[r].matches /\ c[2] = Bucket(c[1], req[r].time)
          BY <1>1, <3>1 DEF ChargesRight
        <4> QED
          BY <2>1, <2>2, <4>1 DEF Bucket
      <3>2. CASE c = <<l, w>>
        BY <1>3, <2>1, <2>2, <3>2 DEF Bucket
      <3> QED
        BY <2>1, <3>1, <3>2
    <2>4. ASSUME NEW k \in req'[r].matches, k < req'[r].next
          PROVE  <<k, Bucket(k, req'[r].time)>> \in req'[r].charged
      <3>1. CASE k = l
        BY <1>3, <2>1, <3>1 DEF Bucket
      <3>2. CASE k # l
        <4>1. k < req[r].next
          BY <2>1, <2>2, <2>4, <3>2
        <4>2. <<k, Bucket(k, req[r].time)>> \in req[r].charged
          BY <1>1, <2>1, <2>4, <4>1 DEF ChargesRight
        <4> QED
          BY <2>1, <4>2 DEF Bucket
      <3> QED
        BY <3>1, <3>2
    <2> QED
      BY <2>1, <2>3, <2>4 DEF ChargesRight, Bucket
  <1> QED
    BY <1>4, <1>5, <1>6

\* What the other steps of a request do to what it has charged.
LEMMA MoveKeepsCharges ==
  ASSUME GateTypeOK, ChargesOK, NEW r \in Requests,
         Begin(r) \/ SkipLimits(r) \/ StartCounting(r) \/ AllCounted(r) \/ CheckQuota(r)
           \/ Commit(r) \/ Crash(r)
  PROVE  ChargesRight(r)'
  <1>1. ChargesRight(r) /\ req[r] \in Evaluations
    BY DEF ChargesOK, GateTypeOK
  <1>2. CASE Begin(r)
    <2>1. req[r].at = "idle"
      BY <1>2 DEF Begin
    <2>2. PICK matches :
               \/ req' = [req EXCEPT ![r].at = "rate", ![r].plan = plan, ![r].matches = matches]
               \/ req' = [req EXCEPT ![r].at = "record", ![r].plan = plan, ![r].decision = "denied"]
      BY <1>2 DEF Begin
    <2>3. \/ req'[r].at = "rate" /\ req'[r].decision = req[r].decision
          \/ req'[r].at = "record" /\ req'[r].decision = "denied"
      BY <1>1, <2>2 DEF GateTypeOK, Evaluations
    <2>4. req'[r].next = req[r].next /\ req'[r].charged = req[r].charged
      BY <1>1, <2>2 DEF GateTypeOK, Evaluations
    <2> QED
      BY <1>1, <2>1, <2>3, <2>4 DEF ChargesRight
  <1>3. CASE SkipLimits(r)
    <2>1. /\ req[r].at = "rate" /\ req[r].matches = {}
          /\ req'[r] = [req[r] EXCEPT !.at = "quota"]
      BY <1>3 DEF SkipLimits, GateTypeOK
    <2>2. /\ req'[r].at = "quota" /\ req'[r].decision = req[r].decision
          /\ req'[r].matches = {} /\ req'[r].charged = req[r].charged
      BY <1>1, <2>1 DEF Evaluations
    <2> QED
      BY <1>1, <2>1, <2>2 DEF ChargesRight
  <1>4. CASE StartCounting(r)
    <2>1. req[r].at = "rate" /\ req'[r] = [req[r] EXCEPT !.at = "counting", !.time = now]
      BY <1>4 DEF StartCounting, GateTypeOK
    <2>2. /\ req'[r].at = "counting" /\ req'[r].decision = req[r].decision /\ req'[r].next = req[r].next
          /\ req'[r].matches = req[r].matches /\ req'[r].charged = req[r].charged
      BY <1>1, <2>1 DEF Evaluations
    <2>3. req[r].charged = {} /\ req[r].next = 1 /\ req[r].decision = "none"
      BY <1>1, <2>1 DEF ChargesRight
    <2>4. \A l \in req[r].matches : ~(l < 1)
      BY <1>1, AdmissionAssumption DEF Evaluations, Limit
    <2> QED
      BY <2>2, <2>3, <2>4 DEF ChargesRight
  <1>5. CASE AllCounted(r)
    <2>1. /\ req[r].at = "counting" /\ Remaining(r) = {}
          /\ req'[r] = [req[r] EXCEPT !.at = "quota"]
      BY <1>5 DEF AllCounted, GateTypeOK
    <2>2. /\ req'[r].at = "quota" /\ req'[r].decision = req[r].decision /\ req'[r].next = req[r].next
          /\ req'[r].matches = req[r].matches /\ req'[r].charged = req[r].charged
          /\ req'[r].time = req[r].time
      BY <1>1, <2>1 DEF Evaluations
    <2>3. \A l \in req[r].matches : l < req[r].next
      BY <1>1, <2>1, AdmissionAssumption DEF Remaining, Evaluations, Limit
    <2> QED
      BY <1>1, <2>1, <2>2, <2>3 DEF ChargesRight, Bucket
  <1>6. CASE CheckQuota(r)
    <2>1. req[r].at = "quota"
      BY <1>6 DEF CheckQuota
    <2>2. /\ req'[r].at = "record" /\ req'[r].next = req[r].next
          /\ req'[r].matches = req[r].matches /\ req'[r].charged = req[r].charged
          /\ req'[r].time = req[r].time
      BY <1>1, <1>6 DEF CheckQuota, Refuse, GateTypeOK, Evaluations
    <2> QED
      BY <1>1, <2>1, <2>2 DEF ChargesRight, Bucket
  <1>7. CASE Commit(r)
    <2>1. PICK m : req' = [req EXCEPT ![r].at = "done", ![r].month = m]
      BY <1>7 DEF Commit
    <2>2. /\ req'[r].at = "done" /\ req'[r].decision = req[r].decision /\ req'[r].next = req[r].next
          /\ req'[r].matches = req[r].matches /\ req'[r].charged = req[r].charged
          /\ req'[r].time = req[r].time
      BY <1>1, <2>1 DEF GateTypeOK, Evaluations
    <2> QED
      BY <1>1, <2>2 DEF ChargesRight, Bucket
  <1>8. CASE Crash(r)
    <2>1. req'[r].at = "done" /\ req'[r].decision = "lost" /\ req'[r].charged = {}
      BY <1>8 DEF Crash, GateTypeOK, Idle
    <2> QED
      BY <2>1 DEF ChargesRight
  <1> QED
    BY <1>2, <1>3, <1>4, <1>5, <1>6, <1>7, <1>8

\* A step of the gates is a request's, or the clock's.
LEMMA OthersStay ==
  ASSUME GateTypeOK, NEW r \in Requests,
         Begin(r) \/ SkipLimits(r) \/ StartCounting(r) \/ CountNext(r) \/ AllCounted(r)
           \/ CheckQuota(r) \/ Commit(r) \/ Crash(r)
  PROVE  UNCHANGED store /\ \A q \in Requests : q # r => req'[q] = req[q]
  <1>1. CASE CountNext(r)
    <2>1. PICK l \in Remaining(r) : CountInPostgres(r, l) \/ CountInRedis(r, l)
      BY <1>1 DEF CountNext
    <2>2. PICK w : w = Bucket(l, req[r].time)
      OBVIOUS
    <2>3. \/ req' = Refuse(r, "rate_limited")
          \/ req' = [req EXCEPT ![r].next = l + 1, ![r].charged = @ \cup {<<l, w>>}]
      BY <2>1, <2>2 DEF CountInPostgres, CountInRedis
    <2> QED
      BY <1>1, <2>3 DEF CountNext, Refuse, GateTypeOK
  <1>2. CASE Begin(r) \/ SkipLimits(r) \/ StartCounting(r) \/ AllCounted(r)
    BY <1>2 DEF Begin, SkipLimits, StartCounting, AllCounted, GateTypeOK
  <1>3. CASE CheckQuota(r) \/ Crash(r)
    BY <1>3 DEF CheckQuota, Crash, Refuse, GateTypeOK
  <1>4. CASE Commit(r)
    BY <1>4 DEF Commit, GateTypeOK
  <1> QED
    BY <1>1, <1>2, <1>3, <1>4

\* Charges stay right whoever acts.
LEMMA ChargesStep == GateTypeOK /\ ChargesOK /\ [Next]_vars => ChargesOK'
  <1> SUFFICES ASSUME GateTypeOK, ChargesOK, [Next]_vars PROVE ChargesOK'
    OBVIOUS
  <1>1. CASE UNCHANGED req
    BY <1>1 DEF ChargesOK, ChargesRight, Bucket
  <1>2. ASSUME NEW r \in Requests,
               Begin(r) \/ SkipLimits(r) \/ StartCounting(r) \/ CountNext(r) \/ AllCounted(r)
                 \/ CheckQuota(r) \/ Commit(r) \/ Crash(r)
        PROVE  ChargesOK'
    <2>1. ChargesRight(r)'
      BY <1>2, CountKeepsCharges, MoveKeepsCharges
    <2>2. ASSUME NEW q \in Requests, q # r PROVE ChargesRight(q)'
      BY <1>2, <2>2, OthersStay DEF ChargesOK, ChargesRight, Bucket
    <2> QED
      BY <2>1, <2>2 DEF ChargesOK
  <1>3. Tick => UNCHANGED req
    BY DEF Tick
  <1> QED
    BY <1>1, <1>2, <1>3 DEF Next, GateNext, vars, gateVars

\* Whoever may still roll back a bucket holds the lock, whoever acts.
LEMMA LockStep == GateTypeOK /\ ChargesOK /\ LockOK /\ [Next]_vars => LockOK'
  <1> SUFFICES ASSUME GateTypeOK, ChargesOK, LockOK, [Next]_vars PROVE LockOK'
    OBVIOUS
  <1>1. CASE UNCHANGED <<store, req, rateLock>>
    BY <1>1 DEF LockOK
  <1>2. ASSUME NEW r \in Requests, store = "postgres",
               Begin(r) \/ SkipLimits(r) \/ StartCounting(r) \/ CountNext(r) \/ AllCounted(r)
                 \/ CheckQuota(r) \/ Commit(r) \/ Crash(r)
        PROVE  LockOK'
    <2>1. UNCHANGED store /\ \A q \in Requests : q # r => req'[q] = req[q]
      BY <1>2, OthersStay
    <2>2. \A q \in Requests : q # r /\ rateLock = {q} => rateLock' = {q}
      <3>1. CASE StartCounting(r)
        BY <1>2, <3>1 DEF StartCounting
      <3>2. CASE Commit(r) \/ Crash(r)
        BY <3>2 DEF Commit, Crash
      <3>3. CASE Begin(r) \/ SkipLimits(r) \/ CountNext(r) \/ AllCounted(r) \/ CheckQuota(r)
        BY <3>3 DEF Begin, SkipLimits, CountNext, AllCounted, CheckQuota
      <3> QED
        BY <1>2, <3>1, <3>2, <3>3
    <2>3. req'[r].at = "counting" \/ (req'[r].at # "done" /\ req'[r].charged # {}) => rateLock' = {r}
      <3>1. ChargesRight(r) /\ ChargesRight(r)' /\ req[r] \in Evaluations
        BY <1>2, CountKeepsCharges, MoveKeepsCharges DEF ChargesOK, GateTypeOK
      <3>2. CASE Begin(r)
        <4>1. req[r].at = "idle" /\ req'[r].at # "counting" /\ req'[r].charged = req[r].charged
          <5>1. PICK matches :
                     \/ req' = [req EXCEPT ![r].at = "rate", ![r].plan = plan, ![r].matches = matches]
                     \/ req' = [req EXCEPT ![r].at = "record", ![r].plan = plan, ![r].decision = "denied"]
            BY <3>2 DEF Begin
          <5> QED
            BY <3>2, <5>1 DEF Begin, GateTypeOK, Evaluations
        <4> QED
          BY <3>1, <4>1 DEF ChargesRight
      <3>3. CASE SkipLimits(r)
        <4>1. req[r].at = "rate" /\ req'[r].at = "quota" /\ req'[r].charged = req[r].charged
          BY <3>3 DEF SkipLimits, GateTypeOK, Evaluations
        <4> QED
          BY <3>1, <4>1 DEF ChargesRight
      <3>4. CASE StartCounting(r)
        BY <1>2, <3>4 DEF StartCounting
      <3>5. CASE CountNext(r) \/ AllCounted(r)
        BY <1>2, <3>5 DEF CountNext, AllCounted, LockOK
      <3>6. CASE CheckQuota(r)
        <4>1. req[r].at = "quota" /\ req'[r].at = "record" /\ req'[r].charged = req[r].charged
          BY <3>6 DEF CheckQuota, Refuse, GateTypeOK, Evaluations
        <4> QED
          BY <1>2, <3>6, <4>1 DEF CheckQuota, LockOK
      <3>7. CASE Commit(r) \/ Crash(r)
        <4>1. req'[r].at = "done"
          <5>1. CASE Commit(r)
            BY <5>1 DEF Commit, GateTypeOK
          <5>2. CASE Crash(r)
            BY <5>2 DEF Crash, GateTypeOK, Idle
          <5> QED
            BY <3>7, <5>1, <5>2
        <4> QED
          BY <4>1
      <3> QED
        BY <1>2, <3>2, <3>3, <3>4, <3>5, <3>6, <3>7
    <2> QED
      BY <2>1, <2>2, <2>3 DEF LockOK
  <1>3. ASSUME NEW r \in Requests, store # "postgres",
               Begin(r) \/ SkipLimits(r) \/ StartCounting(r) \/ CountNext(r) \/ AllCounted(r)
                 \/ CheckQuota(r) \/ Commit(r) \/ Crash(r)
        PROVE  LockOK'
    BY <1>3, OthersStay DEF LockOK
  <1>4. Tick => UNCHANGED <<store, req, rateLock>>
    BY DEF Tick
  <1> QED
    BY <1>1, <1>2, <1>3, <1>4 DEF Next, GateNext, vars, gateVars

\* A bucket that counts one more request.
LEMMA OneMore ==
  ASSUME GateTypeOK, ChargesOK, BucketsOK, NEW r \in Requests, NEW l \in req[r].matches, NEW w \in Time,
         l >= req[r].next, w = Bucket(l, req[r].time),
         buckets' = Counted(l, w), UNCHANGED store,
         req' = [req EXCEPT ![r].next = l + 1, ![r].charged = @ \cup {<<l, w>>}],
         buckets[l][w] < Quantity[l]
  PROVE  /\ BucketsOK'
         /\ \A k \in Limit, v \in Time : <<k, v>> # <<l, w>> =>
              buckets'[k][v] = buckets[k][v] /\ Charged(k, v)' = Charged(k, v)
  <1>1. req[r] \in Evaluations /\ l \in Limit /\ l \in Nat /\ req[r].next \in Nat
    BY AdmissionAssumption DEF GateTypeOK, Evaluations, Limit
  <1>2. <<l, w>> \notin req[r].charged
    BY <1>1 DEF ChargesOK, ChargesRight
  <1>3. /\ \A q \in Requests : q # r => req'[q] = req[q]
        /\ req'[r].charged = req[r].charged \cup {<<l, w>>}
    BY <1>1 DEF GateTypeOK, Evaluations
  <1>4. Charged(l, w)' = Charged(l, w) \cup {r} /\ r \notin Charged(l, w)
    BY <1>2, <1>3 DEF Charged
  <1>5. Cardinality(Charged(l, w)') = Cardinality(Charged(l, w)) + 1
    BY <1>4, ChargedFinite, FS_AddElement
  <1>6. ASSUME NEW k \in Limit, NEW v \in Time, <<k, v>> # <<l, w>>
        PROVE  buckets'[k][v] = buckets[k][v] /\ Charged(k, v)' = Charged(k, v)
    <2>1. buckets'[k][v] = buckets[k][v]
      BY <1>6 DEF Counted, GateTypeOK
    <2>2. Charged(k, v)' = Charged(k, v)
      BY <1>3, <1>6 DEF Charged
    <2> QED
      BY <2>1, <2>2
  <1>7. buckets'[l][w] = buckets[l][w] + 1 /\ buckets[l][w] \in Int /\ Quantity[l] \in Nat
    BY <1>1, AdmissionAssumption DEF Counted, GateTypeOK
  <1>8. /\ Cardinality(Charged(l, w)') <= Quantity[l]
        /\ Cardinality(Charged(l, w)') <= buckets'[l][w]
        /\ store' = "postgres" => buckets'[l][w] = Cardinality(Charged(l, w)')
    <2>1. Cardinality(Charged(l, w)) \in Nat
      BY ChargedFinite
    <2>2. /\ Cardinality(Charged(l, w)) <= buckets[l][w]
          /\ store = "postgres" => buckets[l][w] = Cardinality(Charged(l, w))
      BY <1>1 DEF BucketsOK
    <2> QED
      BY <1>5, <1>7, <2>1, <2>2
  <1>9. ASSUME NEW k \in Limit, NEW v \in Time
        PROVE  /\ Cardinality(Charged(k, v)') <= Quantity[k]
               /\ Cardinality(Charged(k, v)') <= buckets'[k][v]
               /\ store' = "postgres" => buckets'[k][v] = Cardinality(Charged(k, v)')
    <2>1. CASE <<k, v>> = <<l, w>>
      BY <1>8, <2>1
    <2>2. CASE <<k, v>> # <<l, w>>
      BY <1>6, <2>2 DEF BucketsOK
    <2> QED
      BY <2>1, <2>2
  <1>10. BucketsOK'
    BY <1>9 DEF BucketsOK
  <1> QED
    BY <1>6, <1>10

\* Requests that were refused, and are still, keep the full bucket that refused them.
LEMMA RefusedFrame ==
  ASSUME GateTypeOK, RefusedOK, UNCHANGED store,
         \A l \in Limit, w \in Time : Full(l, w) => Full(l, w)',
         \A q \in Requests : store = "postgres" /\ req'[q].decision = "rate_limited" =>
           \/ /\ req[q].decision = "rate_limited"
              /\ req'[q].matches = req[q].matches /\ req'[q].time = req[q].time
           \/ \E l \in req'[q].matches, w \in Time : w = Bucket(l, req'[q].time) /\ Full(l, w)'
  PROVE  RefusedOK'
  <1>1. ASSUME NEW q \in Requests, store = "postgres", req'[q].decision = "rate_limited"
        PROVE  \E l \in req'[q].matches : Full(l, Bucket(l, req[q].time))'
    <2>1. CASE /\ req[q].decision = "rate_limited"
               /\ req'[q].matches = req[q].matches /\ req'[q].time = req[q].time
      <3>1. PICK l \in req[q].matches : Full(l, Bucket(l, req[q].time))
        BY <1>1, <2>1 DEF RefusedOK
      <3>2. l \in Limit
        BY DEF GateTypeOK, Evaluations
      <3>3. PICK w \in Time : w = Bucket(l, req[q].time)
        BY <3>2, BucketTyped DEF GateTypeOK, Evaluations
      <3>4. Full(l, w)'
        BY <3>1, <3>2, <3>3
      <3>5. Bucket(l, req[q].time)' = w
        BY <2>1, <3>3 DEF Bucket
      <3> QED
        BY <2>1, <3>1, <3>4, <3>5 DEF Full
    <2>2. CASE \E l \in req'[q].matches, w \in Time : w = Bucket(l, req'[q].time) /\ Full(l, w)'
      <3>1. PICK l \in req'[q].matches, w \in Time : w = Bucket(l, req'[q].time) /\ Full(l, w)'
        BY <2>2
      <3>2. Bucket(l, req[q].time)' = w
        BY <3>1 DEF Bucket
      <3> QED
        BY <3>1, <3>2 DEF Full
    <2> QED
      BY <1>1, <2>1, <2>2
  <1> QED
    BY <1>1 DEF RefusedOK

\* A limit that remains to be counted.
LEMMA NextLimit ==
  ASSUME GateTypeOK, NEW r \in Requests, NEW l \in Remaining(r)
  PROVE  /\ req[r] \in Evaluations /\ l \in req[r].matches /\ l \in Limit /\ l \in Nat
         /\ l >= req[r].next /\ req[r].next \in Nat
  <1>1. req[r] \in Evaluations
    BY DEF GateTypeOK
  <1>2. l \in req[r].matches /\ l >= req[r].next
    BY DEF Remaining
  <1>3. l \in Limit /\ req[r].next \in Nat
    BY <1>1, <1>2 DEF Evaluations
  <1>4. l \in Nat
    BY <1>3, AdmissionAssumption DEF Limit
  <1> QED
    BY <1>1, <1>2, <1>3, <1>4

\* Counting in Postgres: whoever finds a bucket full finds it full for good.
LEMMA PostgresKeepsBuckets ==
  ASSUME GateTypeOK, ChargesOK, LockOK, BucketsOK, RefusedOK,
         NEW r \in Requests, NEW l \in Remaining(r), req[r].at = "counting",
         CountInPostgres(r, l)
  PROVE  UNCHANGED store => BucketsOK' /\ RefusedOK'
  <1> SUFFICES ASSUME UNCHANGED store PROVE BucketsOK' /\ RefusedOK'
    OBVIOUS
  <1>1. /\ req[r] \in Evaluations /\ l \in req[r].matches /\ l \in Limit /\ l \in Nat
        /\ l >= req[r].next /\ req[r].next \in Nat
    BY NextLimit
  <1>2. PICK w \in Time : w = Bucket(l, req[r].time)
    BY <1>1, BucketTyped DEF Evaluations
  <1>3. /\ store = "postgres"
        /\ \/ buckets[l][w] >= Quantity[l] /\ req' = Refuse(r, "rate_limited") /\ UNCHANGED buckets
           \/ /\ ~(buckets[l][w] >= Quantity[l])
              /\ buckets' = Counted(l, w)
              /\ req' = [req EXCEPT ![r].next = l + 1, ![r].charged = @ \cup {<<l, w>>}]
    BY <1>2 DEF CountInPostgres
  <1>4. buckets[l][w] \in Int /\ Quantity[l] \in Nat
    BY <1>1, AdmissionAssumption DEF GateTypeOK
  <1>5. ASSUME NEW k \in Limit, NEW v \in Time, Full(k, v) PROVE <<k, v>> \notin req[r].charged
    BY <1>5 DEF Full
  <1>6. CASE buckets[l][w] >= Quantity[l] /\ req' = Refuse(r, "rate_limited") /\ UNCHANGED buckets
    <2>1. /\ \A q \in Requests : q # r => req'[q] = req[q]
          /\ req'[r].charged = req[r].charged
          /\ req'[r].matches = req[r].matches /\ req'[r].time = req[r].time
      BY <1>1, <1>6 DEF Refuse, GateTypeOK, Evaluations
    <2>2. \A k \in Limit, v \in Time : Charged(k, v)' = Charged(k, v)
      BY <2>1 DEF Charged
    <2>3. BucketsOK'
      BY <1>6, <2>2 DEF BucketsOK
    <2>4. \A k \in Limit, v \in Time : Full(k, v) => Full(k, v)'
      BY <1>5, <1>6, <2>1 DEF Full
    <2>5. Full(l, w)'
      <3>1. buckets[l][w] = Quantity[l]
        <4>1. Cardinality(Charged(l, w)) <= Quantity[l] /\ buckets[l][w] = Cardinality(Charged(l, w))
          BY <1>1, <1>3 DEF BucketsOK
        <4> QED
          BY <1>4, <1>6, <4>1
      <3>2. ASSUME NEW q \in Requests, <<l, w>> \in req'[q].charged PROVE req'[q].at = "done"
        <4>1. <<l, w>> \notin req[r].charged
          BY <1>1 DEF ChargesOK, ChargesRight
        <4>2. q # r /\ req'[q] = req[q]
          BY <2>1, <3>2, <4>1
        <4>3. rateLock = {r}
          BY <1>3 DEF LockOK
        <4> QED
          BY <1>3, <3>2, <4>2, <4>3 DEF LockOK
      <3> QED
        BY <1>6, <3>1, <3>2 DEF Full
    <2>6. \E k \in req'[r].matches, v \in Time : v = Bucket(k, req'[r].time) /\ Full(k, v)'
      BY <1>1, <1>2, <2>1, <2>5
    <2>7. RefusedOK'
      BY <2>1, <2>4, <2>6, RefusedFrame
    <2> QED
      BY <2>3, <2>7
  <1>7. CASE /\ ~(buckets[l][w] >= Quantity[l])
             /\ buckets' = Counted(l, w)
             /\ req' = [req EXCEPT ![r].next = l + 1, ![r].charged = @ \cup {<<l, w>>}]
    <2>1. buckets[l][w] < Quantity[l]
      BY <1>4, <1>7
    <2>2. /\ BucketsOK'
          /\ \A k \in Limit, v \in Time : <<k, v>> # <<l, w>> =>
               buckets'[k][v] = buckets[k][v] /\ Charged(k, v)' = Charged(k, v)
      BY <1>1, <1>2, <1>7, <2>1, OneMore
    <2>3. /\ \A q \in Requests : q # r => req'[q] = req[q]
          /\ req'[r].charged = req[r].charged \cup {<<l, w>>}
          /\ req'[r].decision = req[r].decision
      BY <1>1, <1>7 DEF GateTypeOK, Evaluations
    <2>4. ASSUME NEW k \in Limit, NEW v \in Time, Full(k, v) PROVE Full(k, v)'
      <3>1. <<k, v>> # <<l, w>>
        BY <1>4, <2>1, <2>4 DEF Full
      <3> QED
        BY <1>5, <2>2, <2>3, <2>4, <3>1 DEF Full
    <2>5. req[r].decision = "none"
      BY DEF ChargesOK, ChargesRight
    <2>6. RefusedOK'
      BY <2>3, <2>4, <2>5, RefusedFrame
    <2> QED
      BY <2>2, <2>6
  <1> QED
    BY <1>3, <1>6, <1>7

\* Counting in Redis: a bucket may count more than was let past it, never less.
LEMMA RedisKeepsBuckets ==
  ASSUME GateTypeOK, ChargesOK, BucketsOK, RefusedOK,
         NEW r \in Requests, NEW l \in Remaining(r), CountInRedis(r, l)
  PROVE  UNCHANGED store => BucketsOK' /\ RefusedOK'
  <1> SUFFICES ASSUME UNCHANGED store PROVE BucketsOK' /\ RefusedOK'
    OBVIOUS
  <1>1. /\ req[r] \in Evaluations /\ l \in req[r].matches /\ l \in Limit /\ l \in Nat
        /\ l >= req[r].next /\ req[r].next \in Nat
    BY NextLimit
  <1>2. PICK w \in Time : w = Bucket(l, req[r].time)
    BY <1>1, BucketTyped DEF Evaluations
  <1>3. /\ store = "redis"
        /\ \/ /\ buckets' = Counted(l, w)
              /\ ~(buckets[l][w] + 1 > Quantity[l])
              /\ req' = [req EXCEPT ![r].next = l + 1, ![r].charged = @ \cup {<<l, w>>}]
           \/ (buckets' = Counted(l, w) \/ UNCHANGED buckets) /\ req' = Refuse(r, "rate_limited")
    BY <1>2 DEF CountInRedis
  <1>4. buckets[l][w] \in Int /\ Quantity[l] \in Nat
    BY <1>1, AdmissionAssumption DEF GateTypeOK
  <1>5. RefusedOK'
    BY <1>3 DEF RefusedOK
  <1>6. CASE /\ buckets' = Counted(l, w)
             /\ ~(buckets[l][w] + 1 > Quantity[l])
             /\ req' = [req EXCEPT ![r].next = l + 1, ![r].charged = @ \cup {<<l, w>>}]
    <2>1. buckets[l][w] < Quantity[l]
      BY <1>4, <1>6
    <2> QED
      BY <1>1, <1>2, <1>5, <1>6, <2>1, OneMore
  <1>7. CASE (buckets' = Counted(l, w) \/ UNCHANGED buckets) /\ req' = Refuse(r, "rate_limited")
    <2>1. /\ \A q \in Requests : q # r => req'[q] = req[q]
          /\ req'[r].charged = req[r].charged
      BY <1>1, <1>7 DEF Refuse, GateTypeOK, Evaluations
    <2>2. \A k \in Limit, v \in Time : Charged(k, v)' = Charged(k, v)
      BY <2>1 DEF Charged
    <2>3. ASSUME NEW k \in Limit, NEW v \in Time
          PROVE  buckets[k][v] \in Int /\ buckets'[k][v] \in {buckets[k][v], buckets[k][v] + 1}
      <3>1. buckets[k][v] \in Int
        BY DEF GateTypeOK
      <3>2. CASE buckets' = Counted(l, w)
        BY <1>1, <3>1, <3>2 DEF Counted, GateTypeOK
      <3>3. CASE UNCHANGED buckets
        BY <3>1, <3>3
      <3> QED
        BY <1>7, <3>1, <3>2, <3>3
    <2>4. ASSUME NEW k \in Limit, NEW v \in Time
          PROVE  /\ Cardinality(Charged(k, v)') <= Quantity[k]
                 /\ Cardinality(Charged(k, v)') <= buckets'[k][v]
      <3>1. /\ Cardinality(Charged(k, v)) <= Quantity[k] /\ Cardinality(Charged(k, v)) <= buckets[k][v]
            /\ Cardinality(Charged(k, v)) \in Nat
        BY ChargedFinite DEF BucketsOK
      <3> QED
        BY <2>2, <2>3, <3>1
    <2>5. BucketsOK'
      BY <1>3, <2>4 DEF BucketsOK
    <2> QED
      BY <1>5, <2>5
  <1> QED
    BY <1>3, <1>6, <1>7

\* A lost transaction: Postgres takes back exactly what the request had charged, and
\* no bucket that refused someone.
LEMMA CrashKeepsBuckets ==
  ASSUME GateTypeOK, ChargesOK, BucketsOK, RefusedOK, NEW r \in Requests, Crash(r)
  PROVE  BucketsOK' /\ RefusedOK'
  <1>1. /\ req[r].at # "done"
        /\ store' = store
        /\ store = "postgres" =>
             buckets' = [l \in Limit |-> [w \in Time |->
                          IF <<l, w>> \in req[r].charged THEN buckets[l][w] - 1 ELSE buckets[l][w]]]
        /\ store # "postgres" => buckets' = buckets
    BY DEF Crash
  <1>2. /\ \A q \in Requests : q # r => req'[q] = req[q]
        /\ req'[r].charged = {} /\ req'[r].decision = "lost"
    BY DEF Crash, GateTypeOK, Idle
  <1>3. \A l \in Limit, w \in Time : Charged(l, w)' = Charged(l, w) \ {r}
    BY <1>2 DEF Charged
  <1>4. ASSUME NEW l \in Limit, NEW w \in Time
        PROVE  /\ Cardinality(Charged(l, w)') <= Quantity[l]
               /\ Cardinality(Charged(l, w)') <= buckets'[l][w]
               /\ store' = "postgres" => buckets'[l][w] = Cardinality(Charged(l, w)')
    <2>1. /\ Cardinality(Charged(l, w)) <= Quantity[l] /\ Cardinality(Charged(l, w)) <= buckets[l][w]
          /\ store = "postgres" => buckets[l][w] = Cardinality(Charged(l, w))
          /\ Cardinality(Charged(l, w)) \in Nat /\ buckets[l][w] \in Int /\ Quantity[l] \in Nat
      BY ChargedFinite, AdmissionAssumption DEF BucketsOK, GateTypeOK
    <2>2. CASE <<l, w>> \in req[r].charged
      <3>1. r \in Charged(l, w)
        BY <2>2 DEF Charged
      <3>2. Cardinality(Charged(l, w)') = Cardinality(Charged(l, w)) - 1
        BY <1>3, <3>1, ChargedFinite, FS_RemoveElement
      <3>3. buckets'[l][w] = IF store = "postgres" THEN buckets[l][w] - 1 ELSE buckets[l][w]
        BY <1>1, <2>2
      <3> QED
        BY <1>1, <2>1, <3>2, <3>3
    <2>3. CASE <<l, w>> \notin req[r].charged
      <3>1. Charged(l, w)' = Charged(l, w)
        BY <1>3, <2>3 DEF Charged
      <3>2. buckets'[l][w] = buckets[l][w]
        BY <1>1, <2>3
      <3> QED
        BY <1>1, <2>1, <3>1, <3>2
    <2> QED
      BY <2>2, <2>3
  <1>5. BucketsOK'
    BY <1>4 DEF BucketsOK
  <1>6. CASE store = "postgres"
    <2>1. ASSUME NEW l \in Limit, NEW w \in Time, Full(l, w) PROVE Full(l, w)'
      <3>1. <<l, w>> \notin req[r].charged
        BY <1>1, <2>1 DEF Full
      <3>2. buckets'[l][w] = buckets[l][w]
        BY <1>1, <1>6, <3>1
      <3> QED
        BY <1>2, <2>1, <3>2 DEF Full
    <2> QED
      BY <1>1, <1>2, <1>5, <2>1, RefusedFrame
  <1>7. CASE store # "postgres"
    BY <1>1, <1>5, <1>7 DEF RefusedOK
  <1> QED
    BY <1>6, <1>7

\* Steps of a request that count nothing.
LEMMA MoveKeepsBuckets ==
  ASSUME GateTypeOK, ChargesOK, BucketsOK, RefusedOK, NEW r \in Requests,
         Begin(r) \/ SkipLimits(r) \/ StartCounting(r) \/ AllCounted(r) \/ CheckQuota(r) \/ Commit(r)
  PROVE  BucketsOK' /\ RefusedOK'
  <1>1. /\ req[r] \in Evaluations
        /\ req[r].at \in {"idle", "rate", "counting", "quota"} => req[r].decision = "none"
    BY DEF ChargesOK, ChargesRight, GateTypeOK
  <1>2. UNCHANGED <<store, buckets>> /\ req[r].at # "done"
    BY DEF Begin, SkipLimits, StartCounting, AllCounted, CheckQuota, Commit
  <1>3. \A q \in Requests : q # r => req'[q] = req[q]
    BY OthersStay
  <1>4. /\ req'[r].charged = req[r].charged
        /\ req'[r].decision = "rate_limited" =>
             /\ req[r].decision = "rate_limited"
             /\ req'[r].matches = req[r].matches /\ req'[r].time = req[r].time
    <2>1. CASE Begin(r)
      <3>1. PICK matches :
                 \/ req' = [req EXCEPT ![r].at = "rate", ![r].plan = plan, ![r].matches = matches]
                 \/ req' = [req EXCEPT ![r].at = "record", ![r].plan = plan, ![r].decision = "denied"]
        BY <2>1 DEF Begin
      <3>2. req'[r].charged = req[r].charged /\ req'[r].decision \in {req[r].decision, "denied"}
        BY <1>1, <3>1 DEF GateTypeOK, Evaluations
      <3> QED
        BY <1>1, <2>1, <3>2 DEF Begin
    <2>2. CASE SkipLimits(r) \/ StartCounting(r) \/ AllCounted(r)
      <3>1. req[r].at \in {"rate", "counting"}
        BY <2>2 DEF SkipLimits, StartCounting, AllCounted
      <3>2. req'[r].charged = req[r].charged /\ req'[r].decision = req[r].decision
        BY <1>1, <2>2 DEF SkipLimits, StartCounting, AllCounted, GateTypeOK, Evaluations
      <3> QED
        BY <1>1, <3>1, <3>2
    <2>3. CASE CheckQuota(r)
      BY <1>1, <2>3 DEF CheckQuota, Refuse, GateTypeOK, Evaluations
    <2>4. CASE Commit(r)
      <3>1. PICK m : req' = [req EXCEPT ![r].at = "done", ![r].month = m]
        BY <2>4 DEF Commit
      <3> QED
        BY <1>1, <3>1 DEF GateTypeOK, Evaluations
    <2> QED
      BY <2>1, <2>2, <2>3, <2>4
  <1> QED
    BY <1>2, <1>3, <1>4, ChargeFrame

\* Buckets and refusals stay right whoever acts.
LEMMA BucketsStep ==
  GateTypeOK /\ RateOK /\ [Next]_vars => BucketsOK' /\ RefusedOK'
  <1> SUFFICES ASSUME GateTypeOK, RateOK, [Next]_vars PROVE BucketsOK' /\ RefusedOK'
    OBVIOUS
  <1> USE DEF RateOK
  <1>1. CASE UNCHANGED <<store, buckets, req>>
    BY <1>1 DEF BucketsOK, RefusedOK, Charged, Full, Bucket
  <1>2. ASSUME NEW r \in Requests,
               Begin(r) \/ SkipLimits(r) \/ StartCounting(r) \/ AllCounted(r) \/ CheckQuota(r) \/ Commit(r)
        PROVE  BucketsOK' /\ RefusedOK'
    BY <1>2, MoveKeepsBuckets
  <1>3. ASSUME NEW r \in Requests, CountNext(r) PROVE BucketsOK' /\ RefusedOK'
    <2>1. PICK l \in Remaining(r) : CountInPostgres(r, l) \/ CountInRedis(r, l)
      BY <1>3 DEF CountNext
    <2>2. req[r].at = "counting" /\ UNCHANGED store
      BY <1>3 DEF CountNext
    <2> QED
      BY <2>1, <2>2, PostgresKeepsBuckets, RedisKeepsBuckets
  <1>4. ASSUME NEW r \in Requests, Crash(r) PROVE BucketsOK' /\ RefusedOK'
    BY <1>4, CrashKeepsBuckets
  <1>5. Tick => UNCHANGED <<store, buckets, req>>
    BY DEF Tick
  <1> QED
    BY <1>1, <1>2, <1>3, <1>4, <1>5 DEF Next, GateNext, vars, gateVars

\* The start.
LEMMA RateInit == Init => RateOK
  <1> SUFFICES ASSUME Init PROVE RateOK
    OBVIOUS
  <1>1. \A r \in Requests : req[r] = Idle
    BY DEF Init
  <1>2. ChargesOK
    BY <1>1 DEF ChargesOK, ChargesRight, Idle
  <1>3. LockOK /\ RefusedOK
    BY <1>1 DEF LockOK, RefusedOK, Idle
  <1>4. ASSUME NEW l \in Limit, NEW w \in Time
        PROVE  Cardinality(Charged(l, w)) = 0 /\ buckets[l][w] = 0 /\ Quantity[l] \in Nat
    <2>1. Charged(l, w) = {}
      BY <1>1 DEF Charged, Idle
    <2> QED
      BY <2>1, FS_EmptySet, AdmissionAssumption DEF Init
  <1>5. BucketsOK
    BY <1>4 DEF BucketsOK
  <1> QED
    BY <1>2, <1>3, <1>5 DEF RateOK

\* The rate limits' invariant holds in every state.
LEMMA RateInvariant == Spec => [](GateTypeOK /\ RateOK)
  <1>1. GateTypeOK /\ RateOK /\ [Next]_vars => RateOK'
    BY ChargesStep, LockStep, BucketsStep DEF RateOK
  <1> QED
    BY <1>1, RateInit, GateInvariant, PTL DEF Spec

\* An interval of a window's length meets at most two windows.
LEMMA TwoWindows ==
  ASSUME NEW n \in Nat, NEW k \in Nat \ {0}, NEW u \in Nat, u >= n, u < n + k
  PROVE  u \div k = n \div k \/ u \div k = (n \div k) + 1
  OBVIOUS

\* Whoever passed a limit has charged its window.
LEMMA AdmittedCharged ==
  ASSUME GateTypeOK, ChargesOK, NEW l \in Limit, NEW w
  PROVE  Admitted(l, w) \subseteq Charged(l, w)
  BY DEF Admitted, Charged, ChargesOK, ChargesRight

\* No window is charged beyond its limit, those past the horizon not at all.
LEMMA ChargedWithin ==
  ASSUME GateTypeOK, BucketsOK, NEW l \in Limit, NEW w
  PROVE  Cardinality(Charged(l, w)) <= Quantity[l]
  <1>1. CASE w \in Time
    BY <1>1 DEF BucketsOK
  <1>2. CASE w \notin Time
    <2>1. \A r \in Requests : <<l, w>> \notin req[r].charged
      BY <1>2 DEF GateTypeOK, Evaluations
    <2>2. Charged(l, w) = {}
      BY <2>1 DEF Charged
    <2> QED
      BY <2>2, FS_EmptySet, AdmissionAssumption
  <1> QED
    BY <1>1, <1>2

\* Any interval of a window's length lets through at most twice the limit.
LEMMA BetweenWithin ==
  ASSUME GateTypeOK, ChargesOK, BucketsOK, NEW l \in Limit, NEW t \in Time
  PROVE  Cardinality(AdmittedBetween(l, t, t + Window[l] - 1)) <= 2 * Quantity[l]
  <1>1. t \in Nat /\ Window[l] \in Nat \ {0} /\ Quantity[l] \in Nat
    BY AdmissionAssumption DEF Time
  <1>2. PICK a, b, v : a = Bucket(l, t) /\ b = Bucket(l, t) + 1 /\ v = t + Window[l] - 1
    OBVIOUS
  <1>3. AdmittedBetween(l, t, v) \subseteq Charged(l, a) \cup Charged(l, b)
    <2> SUFFICES ASSUME NEW r \in AdmittedBetween(l, t, v)
                 PROVE  r \in Charged(l, a) \cup Charged(l, b)
      OBVIOUS
    <2>1. /\ r \in Requests /\ req[r].decision = "allowed" /\ l \in req[r].matches
          /\ req[r].time \in t .. v
      BY DEF AdmittedBetween
    <2>2. <<l, Bucket(l, req[r].time)>> \in req[r].charged
      BY <2>1 DEF ChargesOK, ChargesRight
    <2>3. PICK u \in Nat : u = req[r].time
      BY <2>1, AdmissionAssumption DEF GateTypeOK, Evaluations, Time
    <2>4. u >= t /\ u < t + Window[l]
      BY <1>1, <1>2, <2>1, <2>3
    <2>5. u \div Window[l] = t \div Window[l] \/ u \div Window[l] = (t \div Window[l]) + 1
      BY <1>1, <2>4, TwoWindows
    <2>6. Bucket(l, req[r].time) \in {a, b}
      BY <1>2, <2>3, <2>5 DEF Bucket
    <2> QED
      BY <2>1, <2>2, <2>6 DEF Charged
  <1>4. /\ IsFiniteSet(Charged(l, a) \cup Charged(l, b))
        /\ Cardinality(Charged(l, a) \cup Charged(l, b)) <= Cardinality(Charged(l, a)) + Cardinality(Charged(l, b))
    <2>1. IsFiniteSet(Charged(l, a) \cup Charged(l, b))
      BY ChargedFinite, FS_Union
    <2>2. Cardinality(Charged(l, a) \cup Charged(l, b)) =
            Cardinality(Charged(l, a)) + Cardinality(Charged(l, b)) - Cardinality(Charged(l, a) \cap Charged(l, b))
      BY ChargedFinite, FS_Union
    <2>3. Cardinality(Charged(l, a) \cap Charged(l, b)) \in Nat
      BY ChargedFinite, FS_Intersection, FS_CardinalityType
    <2>4. Cardinality(Charged(l, a)) \in Nat /\ Cardinality(Charged(l, b)) \in Nat
      BY ChargedFinite
    <2> QED
      BY <2>1, <2>2, <2>3, <2>4
  <1>5. Cardinality(AdmittedBetween(l, t, v)) <= Cardinality(Charged(l, a) \cup Charged(l, b))
    BY <1>3, <1>4, FS_Subset
  <1>6. /\ Cardinality(Charged(l, a)) <= Quantity[l]
        /\ Cardinality(Charged(l, b)) <= Quantity[l]
    BY ChargedWithin
  <1>7. /\ Cardinality(AdmittedBetween(l, t, v)) \in Nat
        /\ Cardinality(Charged(l, a) \cup Charged(l, b)) \in Nat
        /\ Cardinality(Charged(l, a)) \in Nat /\ Cardinality(Charged(l, b)) \in Nat
    BY <1>3, <1>4, ChargedFinite, FS_Subset, FS_CardinalityType
  <1>8. Cardinality(AdmittedBetween(l, t, v)) <= 2 * Quantity[l]
    BY <1>1, <1>4, <1>5, <1>6, <1>7
  <1> QED
    BY <1>2, <1>8

\* For any limits, windows and requests, in Postgres and in Redis: no window lets through
\* more than its limit, no interval of a window's length more than twice as many; in
\* Postgres buckets are exact and a refusal has a full bucket, now and later.
THEOREM RateLimitsHold == Spec => []RateWindows
  <1>1. ASSUME GateTypeOK, RateOK PROVE RateWindows
    <2> USE <1>1 DEF RateOK
    <2>1. ASSUME NEW l \in Limit, NEW w \in Time PROVE Cardinality(Admitted(l, w)) <= Quantity[l]
      <3>1. /\ Cardinality(Admitted(l, w)) <= Cardinality(Charged(l, w))
            /\ Cardinality(Admitted(l, w)) \in Nat
        BY AdmittedCharged, ChargedFinite, FS_Subset, FS_CardinalityType
      <3>2. Cardinality(Charged(l, w)) <= Quantity[l] /\ Cardinality(Charged(l, w)) \in Nat
        BY ChargedWithin, ChargedFinite
      <3> QED
        BY <3>1, <3>2, AdmissionAssumption
    <2>2. ASSUME NEW l \in Limit, NEW t \in Time
          PROVE  Cardinality(AdmittedBetween(l, t, t + Window[l] - 1)) <= 2 * Quantity[l]
      BY BetweenWithin
    <2>3. ASSUME NEW l \in Limit, NEW w \in Time, store = "postgres"
          PROVE  buckets[l][w] = Cardinality(Charged(l, w))
      BY <2>3 DEF BucketsOK
    <2>4. ASSUME NEW r \in Requests, store = "postgres", req[r].decision = "rate_limited"
          PROVE  \E k \in req[r].matches : buckets[k][Bucket(k, req[r].time)] = Quantity[k]
      BY <2>4 DEF RefusedOK, Full
    <2> QED
      BY <2>1, <2>2, <2>3, <2>4 DEF RateWindows
  <1> QED
    BY <1>1, RateInvariant, PTL

=============================================================================
