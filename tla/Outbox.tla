------------------------------- MODULE Outbox -------------------------------
(***************************************************************************)
(* What the worker sends on behalf of the API: notifications of approvals    *)
(* (send_notifications) and webhook deliveries of audit events               *)
(* (deliver_webhooks).  Each is a batch job: rows are selected, the messages *)
(* are sent one after the other over HTTP, and one commit at the end records *)
(* what became of them.  A worker that stops before the commit has sent      *)
(* messages that nobody remembers.                                          *)
(*                                                                         *)
(* Notifications are numbered in the order of created_at.  Time is seen only *)
(* in the backoff of a delivery, which is due or not.                        *)
(***************************************************************************)
EXTENDS Integers, FiniteSets

CONSTANTS
  Workers,       \* worker processes that run at one time
  Notes,         \* number of notifications
  Orgs,          \* organizations
  OrgOf,         \* OrgOf[n]: the organization of notification n
  Channels,      \* Channels[o]: o's enabled Slack and e-mail integrations
  Broken,        \* integrations that always refuse
  Deliveries,    \* webhook deliveries
  Gone,          \* deliveries whose webhook is deactivated
  MaxAttempts,   \* attempts before a delivery is given up, 10 in the code
  BatchSize,     \* worker_batch_size
  MaxStops       \* bound on the times a worker is stopped

Note == 1 .. Notes

ASSUME OutboxAssumption ==
  /\ Notes \in Nat
  /\ OrgOf \in [Note -> Orgs]
  /\ \A o \in Orgs : IsFiniteSet(Channels[o])
  /\ Gone \subseteq Deliveries
  /\ IsFiniteSet(Deliveries)
  /\ MaxAttempts \in Nat \ {0}
  /\ BatchSize \in Nat \ {0}
  /\ MaxStops \in Nat

VARIABLES
  created,   \* notifications that exist: 1 .. created
  note,      \* note[n]: state of the row, "pending" or "sent"
  got,       \* got[n]: integrations that have accepted the message (history)
  delivery,  \* delivery[d]: state and attempts of the row
  due,       \* deliveries whose next_attempt_at has come
  posted,    \* deliveries the endpoint has answered with success (history)
  missed,    \* missed[d]: times a delivery was tried in vain (history)
  worker,    \* worker[w]: the job it runs and what it will commit
  stops      \* workers stopped so far

noteVars == <<created, note, got>>
hookVars == <<delivery, due, posted, missed>>
vars == <<created, note, got, delivery, due, posted, missed, worker, stops>>

\* todo: rows of the batch still to send; marks: rows that were accepted; tries: rows
\* that were refused, with their new number of attempts; drops: rows without a webhook.
Resting == [job |-> "rest", todo |-> {}, marks |-> {}, tries |-> {}, drops |-> {}, read |-> [d \in {} |-> 0]]

Init ==
  /\ created = 0
  /\ note = [n \in Note |-> "pending"]
  /\ got = [n \in Note |-> {}]
  /\ delivery = [d \in Deliveries |-> [state |-> "pending", attempts |-> 0]]
  /\ due = Deliveries
  /\ posted = {}
  /\ missed = [d \in Deliveries |-> 0]
  /\ worker = [w \in Workers |-> Resting]
  /\ stops = 0

\* authorize adds a notification for an approval.
Notify ==
  /\ created < Notes
  /\ created' = created + 1
  /\ UNCHANGED <<note, got, hookVars, worker, stops>>

-----------------------------------------------------------------------------
(* send_notifications *)

Pending == {n \in 1 .. created : note[n] = "pending"}

\* Faulty: the limit leaves out the last row.
OneTooFew(S) == {n \in S : Cardinality({m \in S : m < n}) < BatchSize - 1}

\* ORDER BY created_at LIMIT worker_batch_size.
FirstBatch(S) == {n \in S : Cardinality({m \in S : m < n}) < BatchSize}

SelectNotes(w) ==
  /\ worker[w].job = "rest"
  /\ worker' = [worker EXCEPT ![w] =
       [Resting EXCEPT !.job = "notes", !.todo = FirstBatch(Pending)]]
  /\ UNCHANGED <<noteVars, hookVars, stops>>

NextNote(w, n) == n \in worker[w].todo /\ \A m \in worker[w].todo : n <= m

Without(w, x) == [worker EXCEPT ![w].todo = @ \ {x}]

\* An organization without integrations: the row stays pending.
SkipNote(w, n) ==
  /\ worker[w].job = "notes"
  /\ NextNote(w, n)
  /\ Channels[OrgOf[n]] = {}
  /\ worker' = Without(w, n)
  /\ UNCHANGED <<noteVars, hookVars, stops>>

\* Every integration has accepted the message: the row is marked, not yet committed.
SendNote(w, n) ==
  /\ worker[w].job = "notes"
  /\ NextNote(w, n)
  /\ Channels[OrgOf[n]] # {}
  /\ Channels[OrgOf[n]] \cap Broken = {}
  /\ got' = [got EXCEPT ![n] = Channels[OrgOf[n]]]
  /\ worker' = [Without(w, n) EXCEPT ![w].marks = @ \cup {n}]
  /\ UNCHANGED <<created, note, hookVars, stops>>

\* One integration refuses or cannot be reached: those before it have the message, and
\* the next cycle sends it to all of them again.
MissNote(w, n) ==
  /\ worker[w].job = "notes"
  /\ NextNote(w, n)
  /\ \E reached \in SUBSET (Channels[OrgOf[n]] \ Broken) :
       /\ reached # Channels[OrgOf[n]]
       /\ got' = [got EXCEPT ![n] = @ \cup reached]
  /\ worker' = Without(w, n)
  /\ UNCHANGED <<created, note, hookVars, stops>>

CommitNotes(w) ==
  /\ worker[w].job = "notes"
  /\ worker[w].todo = {}
  /\ note' = [n \in Note |-> IF n \in worker[w].marks THEN "sent" ELSE note[n]]
  /\ worker' = [worker EXCEPT ![w] = [Resting EXCEPT !.job = "noted"]]
  /\ UNCHANGED <<created, got, hookVars, stops>>

-----------------------------------------------------------------------------
(* deliver_webhooks *)

Waiting == {d \in due : delivery[d].state = "pending"}

\* At most a batch of the deliveries that are due; which of them come first is a matter
\* of their times.
SelectDeliveries(w) ==
  /\ worker[w].job = "noted"
  /\ \E batch \in SUBSET Waiting :
       /\ Cardinality(batch) = IF Cardinality(Waiting) < BatchSize THEN Cardinality(Waiting) ELSE BatchSize
       /\ worker' = [worker EXCEPT ![w] =
            [Resting EXCEPT !.job = "hooks", !.todo = batch, !.read = [d \in batch |-> delivery[d].attempts]]]
  /\ UNCHANGED <<noteVars, hookVars, stops>>

\* The webhook is gone: nothing is sent.
DropDelivery(w, d) ==
  /\ worker[w].job = "hooks"
  /\ d \in worker[w].todo \cap Gone
  /\ worker' = [Without(w, d) EXCEPT ![w].drops = @ \cup {d}]
  /\ UNCHANGED <<noteVars, hookVars, stops>>

PostDelivery(w, d) ==
  /\ worker[w].job = "hooks"
  /\ d \in worker[w].todo \ Gone
  /\ posted' = posted \cup {d}
  /\ worker' = [Without(w, d) EXCEPT ![w].marks = @ \cup {d}]
  /\ UNCHANGED <<noteVars, delivery, due, missed, stops>>

\* An error answer, an exception or a timeout.
MissDelivery(w, d) ==
  /\ worker[w].job = "hooks"
  /\ d \in worker[w].todo \ Gone
  /\ missed' = [missed EXCEPT ![d] = @ + 1]
  /\ worker' = [Without(w, d) EXCEPT ![w].tries = @ \cup {d}]
  /\ UNCHANGED <<noteVars, delivery, due, posted, stops>>

\* Faulty: the last attempt is given up one too early.
GivenUpEarly(w, d) == d \in worker[w].tries /\ worker[w].read[d] + 2 >= MaxAttempts

\* The attempt that failed was the last one.
GivenUp(w, d) == d \in worker[w].tries /\ worker[w].read[d] + 1 >= MaxAttempts

\* The columns each row of the batch got: delivered, or one more attempt and a later
\* time, or failed.
CommitDeliveries(w) ==
  /\ worker[w].job = "hooks"
  /\ worker[w].todo = {}
  /\ delivery' = [d \in Deliveries |->
       [state |-> IF d \in worker[w].marks THEN "delivered"
                  ELSE IF d \in worker[w].drops \/ GivenUp(w, d) THEN "failed"
                  ELSE delivery[d].state,
        attempts |-> IF d \in worker[w].tries THEN worker[w].read[d] + 1
                     ELSE delivery[d].attempts]]
  /\ due' = due \ {d \in worker[w].tries : ~GivenUp(w, d)}
  /\ worker' = [worker EXCEPT ![w] = Resting]
  /\ UNCHANGED <<noteVars, posted, missed, stops>>

\* next_attempt_at of a row that was tried before.
BackoffEnds(d) ==
  /\ d \notin due
  /\ due' = due \cup {d}
  /\ UNCHANGED <<noteVars, delivery, posted, missed, worker, stops>>

-----------------------------------------------------------------------------
\* The worker is stopped before the commit of its batch.
Stop(w) ==
  /\ worker[w].job # "rest"
  /\ stops < MaxStops
  /\ stops' = stops + 1
  /\ worker' = [worker EXCEPT ![w] = Resting]
  /\ UNCHANGED <<noteVars, hookVars>>

\* process_once, of a job that is started every minute.
Cycle(w) ==
  \/ SelectNotes(w)
  \/ \E n \in Note : SkipNote(w, n) \/ SendNote(w, n) \/ MissNote(w, n)
  \/ CommitNotes(w)
  \/ SelectDeliveries(w)
  \/ \E d \in Deliveries : DropDelivery(w, d) \/ PostDelivery(w, d) \/ MissDelivery(w, d)
  \/ CommitDeliveries(w)

Next ==
  \/ Notify
  \/ \E w \in Workers : Cycle(w) \/ Stop(w)
  \/ \E d \in Deliveries : BackoffEnds(d)

\* The job is started again and again and time passes; an integration that is not broken
\* does not refuse for ever.
Fairness ==
  /\ \A w \in Workers : WF_vars(Cycle(w))
  /\ \A n \in Note : SF_vars(\E w \in Workers : SendNote(w, n))
  /\ \A d \in Deliveries : WF_vars(BackoffEnds(d))

Spec == Init /\ [][Next]_vars /\ Fairness

-----------------------------------------------------------------------------
(* Properties *)

TypeOK ==
  /\ created \in 0 .. Notes
  /\ note \in [Note -> {"pending", "sent"}]
  /\ delivery \in [Deliveries -> [state : {"pending", "delivered", "failed"}, attempts : 0 .. MaxAttempts]]
  /\ due \subseteq Deliveries /\ posted \subseteq Deliveries
  /\ missed \in [Deliveries -> Nat]
  /\ stops \in 0 .. MaxStops

\* An organization whose notifications can be sent.
Reachable(o) == Channels[o] # {} /\ Channels[o] \cap Broken = {}

\* Older notifications that will be pending for ever.
Stuck(n) == {m \in 1 .. n - 1 : ~Reachable(OrgOf[m])}

\* A row says "sent" or "delivered" only if the message has been accepted, by every
\* integration, although it is marked long before the commit and a stopped worker forgets
\* what it sent; "failed" only of a webhook that is gone or was tried MaxAttempts times,
\* also when two workers overlap and overwrite each other's count.  And a notification
\* behind a whole batch of older ones that cannot be sent never gets its turn: the batch
\* is always the same rows.
MessagesAccountedFor ==
  /\ \A n \in Note : note[n] = "sent" => got[n] = Channels[OrgOf[n]] /\ Cardinality(Stuck(n)) < BatchSize
  /\ \A d \in Deliveries :
       /\ delivery[d].state = "delivered" => d \in posted
       /\ delivery[d].state = "failed" => d \in Gone \/ missed[d] >= MaxAttempts

\* Every delivery ends, delivered or failed, and every notification of a reachable
\* organization is sent unless a batch of older ones stands before it: through failures,
\* retries, stopped workers, and a queue longer than a batch.
EveryMessageResolves ==
  /\ \A d \in Deliveries : delivery[d].state = "pending" ~> delivery[d].state # "pending"
  /\ \A n \in Note :
       (n <= created /\ Reachable(OrgOf[n]) /\ Cardinality(Stuck(n)) < BatchSize) ~> note[n] = "sent"
=============================================================================
