---------------------------- MODULE OutboxProofs ----------------------------
(* Theorems about Outbox: what the rows say of a message is true, for any numbers *)
(* of workers, notifications, deliveries, attempts and batches.                    *)
EXTENDS Outbox, TLAPS, FiniteSetTheorems

-----------------------------------------------------------------------------
(* Types *)

Things == Note \cup Deliveries
Counts == 0 .. MaxAttempts - 1
Reads == UNION {[batch -> Counts] : batch \in SUBSET Deliveries}

Jobs ==
  [job : {"rest", "notes", "noted", "hooks"}, todo : SUBSET Things, marks : SUBSET Things,
   tries : SUBSET Things, drops : SUBSET Things, read : Reads]

Rows == [state : {"pending", "delivered", "failed"}, attempts : 0 .. MaxAttempts]

Typed ==
  /\ TypeOK
  /\ got \in [Note -> SUBSET UNION {Channels[o] : o \in Orgs}]
  /\ worker \in [Workers -> Jobs]

\* The bounds are numbers.
LEMMA Bounds == Notes \in Nat /\ MaxAttempts \in Nat /\ MaxAttempts >= 1 /\ BatchSize \in Nat /\ BatchSize >= 1
                /\ MaxStops \in Nat
  <1>1. Notes \in Nat /\ MaxAttempts \in Nat \ {0} /\ BatchSize \in Nat \ {0} /\ MaxStops \in Nat
    BY OutboxAssumption
  <1> QED
    BY <1>1

\* A worker between two jobs.
LEMMA RestingTyped == \A job \in {"rest", "notes", "noted", "hooks"} : [Resting EXCEPT !.job = job] \in Jobs /\ Resting \in Jobs
  <1>1. [d \in {} |-> 0] \in [{} -> Counts]
    OBVIOUS
  <1>2. [{} -> Counts] \in {[batch -> Counts] : batch \in SUBSET Deliveries}
    OBVIOUS
  <1>3. [d \in {} |-> 0] \in Reads
    BY <1>1, <1>2 DEF Reads
  <1> QED
    BY <1>3 DEF Resting, Jobs

-----------------------------------------------------------------------------
(* What a worker has in hand *)

Full(n) == Reachable(OrgOf[n]) /\ got[n] = Channels[OrgOf[n]]

\* No row of a batch of notifications stands behind a whole batch that cannot be sent;
\* those marked were accepted everywhere.
NotesRight(w) ==
  worker[w].job = "notes" =>
    /\ worker[w].todo \subseteq Note /\ worker[w].marks \subseteq Note
    /\ \A n \in worker[w].todo \cup worker[w].marks : Cardinality(Stuck(n)) < BatchSize
    /\ \A n \in worker[w].marks : Full(n)

\* A delivery has been tried in vain at least as often as its row said when it was read,
\* and once more if this worker has tried it.
HooksRight(w) ==
  worker[w].job = "hooks" =>
    /\ \A d \in worker[w].todo :
         d \in Deliveries /\ worker[w].read[d] \in Counts /\ worker[w].read[d] <= missed[d]
    /\ \A d \in worker[w].tries :
         d \in Deliveries /\ worker[w].read[d] \in Counts /\ worker[w].read[d] + 1 <= missed[d]
    /\ worker[w].marks \subseteq posted
    /\ worker[w].drops \subseteq Gone

\* The rows themselves; a delivery that waits has an attempt left.
RowsRight ==
  /\ \A n \in Note : note[n] = "sent" => Full(n) /\ Cardinality(Stuck(n)) < BatchSize
  /\ \A d \in Deliveries :
       /\ delivery[d].attempts <= missed[d]
       /\ delivery[d].state = "pending" => delivery[d].attempts \in Counts
       /\ delivery[d].state = "delivered" => d \in posted
       /\ delivery[d].state = "failed" => d \in Gone \/ missed[d] >= MaxAttempts

Accounted == RowsRight /\ \A w \in Workers : NotesRight(w) /\ HooksRight(w)

Inv == Typed /\ Accounted

\* The start.
LEMMA InitHolds == Init => Inv
  <1> SUFFICES ASSUME Init PROVE Inv
    OBVIOUS
  <1>1. created \in 0 .. Notes /\ stops \in 0 .. MaxStops
    BY Bounds DEF Init
  <1>2. note \in [Note -> {"pending", "sent"}] /\ due \subseteq Deliveries /\ posted \subseteq Deliveries
    BY DEF Init
  <1>3. delivery \in [Deliveries -> Rows] /\ missed \in [Deliveries -> Nat]
    BY Bounds DEF Init, Rows
  <1>4. got \in [Note -> SUBSET UNION {Channels[o] : o \in Orgs}]
    BY DEF Init
  <1>5. worker \in [Workers -> Jobs]
    BY RestingTyped DEF Init
  <1>6. Typed
    BY <1>1, <1>2, <1>3, <1>4, <1>5 DEF Typed, TypeOK, Rows
  <1>7. RowsRight
    BY Bounds DEF Init, RowsRight, Counts
  <1>8. \A w \in Workers : NotesRight(w) /\ HooksRight(w)
    BY DEF Init, NotesRight, HooksRight, Resting
  <1> QED
    BY <1>6, <1>7, <1>8 DEF Inv, Accounted

\* Workers that do nothing stay right while messages are accepted or missed by others.
LEMMA OthersRight ==
  ASSUME Typed, NEW k \in Workers, NotesRight(k), HooksRight(k), worker'[k] = worker[k],
         \A n \in Note : Full(n) => Full(n)',
         posted \subseteq posted',
         \A d \in Deliveries : missed'[d] \in Nat /\ missed[d] <= missed'[d]
  PROVE  NotesRight(k)' /\ HooksRight(k)'
  <1>1. NotesRight(k)'
    BY DEF NotesRight, Stuck
  <1>2. HooksRight(k)'
    <2>1. ASSUME NEW d \in Deliveries, NEW c \in Counts
          PROVE  /\ c <= missed[d] => c <= missed'[d]
                 /\ c + 1 <= missed[d] => c + 1 <= missed'[d]
      <3>1. missed[d] \in Nat /\ missed'[d] \in Nat /\ missed[d] <= missed'[d] /\ c \in Nat
        BY Bounds DEF Typed, TypeOK, Counts
      <3> QED
        BY <3>1
    <2> QED
      BY <2>1 DEF HooksRight
  <1> QED
    BY <1>1, <1>2

\* Rows that are not written stay right as well.
LEMMA RowsStay ==
  ASSUME Typed, RowsRight, UNCHANGED <<note, delivery>>,
         \A n \in Note : Full(n) => Full(n)',
         posted \subseteq posted',
         \A d \in Deliveries : missed'[d] \in Nat /\ missed[d] <= missed'[d]
  PROVE  RowsRight'
  <1>1. \A n \in Note : note'[n] = "sent" => Full(n)' /\ Cardinality(Stuck(n)') < BatchSize
    BY DEF RowsRight, Stuck
  <1>2. ASSUME NEW d \in Deliveries
        PROVE  /\ delivery[d].attempts <= missed'[d]
               /\ missed[d] >= MaxAttempts => missed'[d] >= MaxAttempts
    <2>1. /\ delivery[d].attempts \in Nat /\ missed[d] \in Nat /\ missed'[d] \in Nat
          /\ missed[d] <= missed'[d] /\ delivery[d].attempts <= missed[d]
      BY Bounds DEF Typed, TypeOK, RowsRight
    <2> QED
      BY <2>1, Bounds
  <1> QED
    BY <1>1, <1>2 DEF RowsRight

\* A step of one worker.
LEMMA OneWorker ==
  ASSUME Inv, NEW w \in Workers, \A k \in Workers : k # w => worker'[k] = worker[k],
         \A n \in Note : Full(n) => Full(n)',
         posted \subseteq posted',
         \A d \in Deliveries : missed'[d] \in Nat /\ missed[d] <= missed'[d],
         Typed', RowsRight', NotesRight(w)', HooksRight(w)'
  PROVE  Inv'
  <1>1. \A k \in Workers : k # w => NotesRight(k)' /\ HooksRight(k)'
    BY OthersRight DEF Inv, Accounted
  <1> QED
    BY <1>1 DEF Inv, Accounted

\* Such a step when no message is accepted or missed and no row written.
LEMMA QuietWorker ==
  ASSUME Inv, NEW w \in Workers, NEW x \in Jobs, worker' = [worker EXCEPT ![w] = x],
         UNCHANGED <<created, note, got, delivery, due, posted, missed>>, stops' \in 0 .. MaxStops,
         NotesRight(w)', HooksRight(w)'
  PROVE  Inv'
  <1>1. Typed'
    BY DEF Inv, Typed, TypeOK
  <1>2. /\ \A k \in Workers : k # w => worker'[k] = worker[k]
        /\ \A n \in Note : Full(n) => Full(n)'
    BY DEF Inv, Typed, Full
  <1>3. \A d \in Deliveries : missed'[d] \in Nat /\ missed[d] <= missed'[d]
    BY DEF Inv, Typed, TypeOK
  <1>4. RowsRight'
    BY <1>2, <1>3, RowsStay DEF Inv, Accounted
  <1> QED
    BY <1>1, <1>2, <1>3, <1>4, OneWorker

\* What stays when something is taken off the batch.
LEMMA TakenOff ==
  ASSUME Inv, NEW w \in Workers, NEW x
  PROVE  /\ Without(w, x) \in [Workers -> Jobs]
         /\ Without(w, x)[w] = [worker[w] EXCEPT !.todo = worker[w].todo \ {x}]
         /\ Without(w, x)[w].job = worker[w].job
         /\ Without(w, x)[w].todo = worker[w].todo \ {x}
         /\ Without(w, x)[w].marks = worker[w].marks
         /\ Without(w, x)[w].tries = worker[w].tries
         /\ Without(w, x)[w].drops = worker[w].drops
         /\ Without(w, x)[w].read = worker[w].read
  <1>1. worker \in [Workers -> Jobs] /\ worker[w] \in Jobs
    BY DEF Inv, Typed
  <1>2. Without(w, x)[w] = [worker[w] EXCEPT !.todo = worker[w].todo \ {x}]
    BY <1>1 DEF Without
  <1>3. [worker[w] EXCEPT !.todo = worker[w].todo \ {x}] \in Jobs
    BY <1>1 DEF Jobs
  <1>4. Without(w, x) \in [Workers -> Jobs]
    BY <1>1, <1>3 DEF Without
  <1> QED
    BY <1>1, <1>2, <1>4 DEF Jobs

\* The first rows of those that wait never stand behind a whole batch that cannot be sent.
LEMMA FirstBehind ==
  ASSUME Inv, NEW n \in FirstBatch(Pending)
  PROVE  n \in Note /\ Cardinality(Stuck(n)) < BatchSize
  <1>1. /\ n \in Pending
        /\ Cardinality({m \in Pending : m < n}) < BatchSize
    BY DEF FirstBatch
  <1>2. created \in Nat /\ created <= Notes
    BY Bounds DEF Inv, Typed, TypeOK
  <1>3. n \in Nat /\ n <= created /\ n \in Note
    BY <1>1, <1>2, Bounds DEF Pending, Note
  <1>4. Stuck(n) \subseteq {m \in Pending : m < n}
    <2> SUFFICES ASSUME NEW m \in Stuck(n) PROVE m \in Pending /\ m < n
      OBVIOUS
    <2>1. m \in 1 .. n - 1 /\ ~Reachable(OrgOf[m])
      BY DEF Stuck
    <2>2. m \in 1 .. created /\ m < n /\ m \in Note
      BY <1>2, <1>3, <2>1, Bounds DEF Note
    <2>3. note[m] # "sent"
      BY <2>1, <2>2 DEF Inv, Accounted, RowsRight, Full
    <2>4. note[m] = "pending"
      BY <2>2, <2>3 DEF Inv, Typed, TypeOK
    <2> QED
      BY <2>2, <2>4 DEF Pending
  <1>5. IsFiniteSet({m \in Pending : m < n})
    <2>1. {m \in Pending : m < n} \subseteq 1 .. created
      BY DEF Pending
    <2> QED
      BY <1>2, <2>1, FS_Interval, FS_Subset
  <1>6. /\ Cardinality(Stuck(n)) <= Cardinality({m \in Pending : m < n})
        /\ Cardinality(Stuck(n)) \in Nat /\ Cardinality({m \in Pending : m < n}) \in Nat
    BY <1>4, <1>5, FS_Subset, FS_CardinalityType
  <1> QED
    BY <1>1, <1>3, <1>6, Bounds

\* Notifications are selected, passed over, or wait for the next cycle.
LEMMA NotesSelected ==
  ASSUME Inv, NEW w \in Workers, SelectNotes(w) \/ (\E n \in Note : SkipNote(w, n))
  PROVE  Inv'
  <1>0. stops \in 0 .. MaxStops
    BY DEF Inv, Typed, TypeOK
  <1>1. CASE SelectNotes(w)
    <2>1. PICK x : x = [Resting EXCEPT !.job = "notes", !.todo = FirstBatch(Pending)]
      OBVIOUS
    <2>2. FirstBatch(Pending) \subseteq Note
      BY FirstBehind
    <2>3. /\ x \in Jobs /\ x.job = "notes" /\ x.todo = FirstBatch(Pending) /\ x.marks = {}
      BY <2>1, <2>2, RestingTyped DEF Resting, Jobs, Things
    <2>4. worker' = [worker EXCEPT ![w] = x] /\ worker'[w] = x
      BY <1>1, <2>1 DEF SelectNotes, Inv, Typed
    <2>5. NotesRight(w)' /\ HooksRight(w)'
      <3>1. \A n \in x.todo : Cardinality(Stuck(n)') < BatchSize
        BY <2>3, FirstBehind DEF Stuck
      <3> QED
        BY <2>2, <2>3, <2>4, <3>1 DEF NotesRight, HooksRight
    <2> QED
      BY <1>0, <1>1, <2>3, <2>4, <2>5, QuietWorker DEF SelectNotes, noteVars, hookVars
  <1>2. ASSUME NEW n \in Note, SkipNote(w, n) PROVE Inv'
    <2>1. worker' = Without(w, n) /\ worker[w].job = "notes"
      BY <1>2 DEF SkipNote
    <2>2. UNCHANGED <<created, note, got, delivery, due, posted, missed, stops>>
      BY <1>2 DEF SkipNote, noteVars, hookVars
    <2>3. NotesRight(w)' /\ HooksRight(w)'
      <3>1. /\ worker'[w].job = "notes"
            /\ worker'[w].todo \subseteq worker[w].todo /\ worker'[w].marks = worker[w].marks
        BY <2>1, TakenOff
      <3>2. NotesRight(w)
        BY DEF Inv, Accounted
      <3>3. NotesRight(w)'
        BY <2>1, <2>2, <3>1, <3>2 DEF NotesRight, Full, Stuck
      <3> QED
        BY <3>1, <3>3 DEF HooksRight
    <2>4. [worker[w] EXCEPT !.todo = worker[w].todo \ {n}] \in Jobs
      BY DEF Inv, Typed, Jobs
    <2>5. worker' = [worker EXCEPT ![w] = [worker[w] EXCEPT !.todo = worker[w].todo \ {n}]]
      BY <2>1 DEF Without
    <2> QED
      BY <1>0, <2>2, <2>3, <2>4, <2>5, QuietWorker
  <1> QED
    BY <1>1, <1>2

\* A row is taken off the batch and put to what was accepted.
LEMMA Marked ==
  ASSUME Inv, NEW w \in Workers, NEW x \in Things,
         worker' = [Without(w, x) EXCEPT ![w].marks = @ \cup {x}]
  PROVE  /\ worker' \in [Workers -> Jobs]
         /\ \A k \in Workers : k # w => worker'[k] = worker[k]
         /\ worker'[w].job = worker[w].job /\ worker'[w].todo = worker[w].todo \ {x}
         /\ worker'[w].marks = worker[w].marks \cup {x} /\ worker'[w].tries = worker[w].tries
         /\ worker'[w].drops = worker[w].drops /\ worker'[w].read = worker[w].read
  <1>1. Without(w, x) \in [Workers -> Jobs] /\ Without(w, x)[w] \in Jobs
    BY TakenOff
  <1>2. [Without(w, x)[w] EXCEPT !.marks = @ \cup {x}] \in Jobs
    BY <1>1 DEF Jobs
  <1>3. worker' = [Without(w, x) EXCEPT ![w] = [Without(w, x)[w] EXCEPT !.marks = @ \cup {x}]]
    BY <1>1
  <1>4. /\ worker' \in [Workers -> Jobs]
        /\ worker'[w] = [Without(w, x)[w] EXCEPT !.marks = @ \cup {x}]
    BY <1>1, <1>2, <1>3
  <1>5. \A k \in Workers : k # w => worker'[k] = worker[k]
    <2>1. \A k \in Workers : k # w => worker'[k] = Without(w, x)[k]
      BY <1>1, <1>3
    <2>2. \A k \in Workers : k # w => Without(w, x)[k] = worker[k]
      BY DEF Without, Inv, Typed
    <2> QED
      BY <2>1, <2>2
  <1> QED
    BY <1>1, <1>4, <1>5, TakenOff DEF Jobs

\* A row is taken off the batch and put to what was refused.
LEMMA Tried ==
  ASSUME Inv, NEW w \in Workers, NEW x \in Things,
         worker' = [Without(w, x) EXCEPT ![w].tries = @ \cup {x}]
  PROVE  /\ worker' \in [Workers -> Jobs]
         /\ \A k \in Workers : k # w => worker'[k] = worker[k]
         /\ worker'[w].job = worker[w].job /\ worker'[w].todo = worker[w].todo \ {x}
         /\ worker'[w].marks = worker[w].marks /\ worker'[w].tries = worker[w].tries \cup {x}
         /\ worker'[w].drops = worker[w].drops /\ worker'[w].read = worker[w].read
  <1>1. Without(w, x) \in [Workers -> Jobs] /\ Without(w, x)[w] \in Jobs
    BY TakenOff
  <1>2. [Without(w, x)[w] EXCEPT !.tries = @ \cup {x}] \in Jobs
    BY <1>1 DEF Jobs
  <1>3. worker' = [Without(w, x) EXCEPT ![w] = [Without(w, x)[w] EXCEPT !.tries = @ \cup {x}]]
    BY <1>1
  <1>4. /\ worker' \in [Workers -> Jobs]
        /\ worker'[w] = [Without(w, x)[w] EXCEPT !.tries = @ \cup {x}]
    BY <1>1, <1>2, <1>3
  <1>5. \A k \in Workers : k # w => worker'[k] = worker[k]
    <2>1. \A k \in Workers : k # w => worker'[k] = Without(w, x)[k]
      BY <1>1, <1>3
    <2>2. \A k \in Workers : k # w => Without(w, x)[k] = worker[k]
      BY DEF Without, Inv, Typed
    <2> QED
      BY <2>1, <2>2
  <1> QED
    BY <1>1, <1>4, <1>5, TakenOff DEF Jobs

\* A row is taken off the batch and put to what has no webhook.
LEMMA Dropped ==
  ASSUME Inv, NEW w \in Workers, NEW x \in Things,
         worker' = [Without(w, x) EXCEPT ![w].drops = @ \cup {x}]
  PROVE  /\ worker' \in [Workers -> Jobs]
         /\ \A k \in Workers : k # w => worker'[k] = worker[k]
         /\ worker'[w].job = worker[w].job /\ worker'[w].todo = worker[w].todo \ {x}
         /\ worker'[w].marks = worker[w].marks /\ worker'[w].tries = worker[w].tries
         /\ worker'[w].drops = worker[w].drops \cup {x} /\ worker'[w].read = worker[w].read
  <1>1. Without(w, x) \in [Workers -> Jobs] /\ Without(w, x)[w] \in Jobs
    BY TakenOff
  <1>2. [Without(w, x)[w] EXCEPT !.drops = @ \cup {x}] \in Jobs
    BY <1>1 DEF Jobs
  <1>3. worker' = [Without(w, x) EXCEPT ![w] = [Without(w, x)[w] EXCEPT !.drops = @ \cup {x}]]
    BY <1>1
  <1>4. /\ worker' \in [Workers -> Jobs]
        /\ worker'[w] = [Without(w, x)[w] EXCEPT !.drops = @ \cup {x}]
    BY <1>1, <1>2, <1>3
  <1>5. \A k \in Workers : k # w => worker'[k] = worker[k]
    <2>1. \A k \in Workers : k # w => worker'[k] = Without(w, x)[k]
      BY <1>1, <1>3
    <2>2. \A k \in Workers : k # w => Without(w, x)[k] = worker[k]
      BY DEF Without, Inv, Typed
    <2> QED
      BY <2>1, <2>2
  <1> QED
    BY <1>1, <1>4, <1>5, TakenOff DEF Jobs

\* A notification is accepted everywhere.
LEMMA NoteSent ==
  ASSUME Inv, NEW w \in Workers, NEW n \in Note, SendNote(w, n)
  PROVE  Inv'
  <1>1. /\ worker[w].job = "notes" /\ n \in worker[w].todo /\ Reachable(OrgOf[n])
        /\ got' = [got EXCEPT ![n] = Channels[OrgOf[n]]]
        /\ worker' = [Without(w, n) EXCEPT ![w].marks = @ \cup {n}]
        /\ UNCHANGED <<created, note, delivery, due, posted, missed, stops>>
    BY DEF SendNote, NextNote, Reachable, hookVars
  <1>2. n \in Things
    BY DEF Things
  <1>3. /\ worker' \in [Workers -> Jobs]
        /\ \A k \in Workers : k # w => worker'[k] = worker[k]
        /\ worker'[w].job = "notes" /\ worker'[w].todo = worker[w].todo \ {n}
        /\ worker'[w].marks = worker[w].marks \cup {n}
    BY <1>1, <1>2, Marked
  <1>4. got \in [Note -> SUBSET UNION {Channels[o] : o \in Orgs}]
    BY DEF Inv, Typed
  <1>5. got' \in [Note -> SUBSET UNION {Channels[o] : o \in Orgs}]
    <2>1. OrgOf[n] \in Orgs
      BY OutboxAssumption
    <2>2. Channels[OrgOf[n]] \in SUBSET UNION {Channels[o] : o \in Orgs}
      BY <2>1
    <2> QED
      BY <1>1, <1>4, <2>2
  <1>6. Typed'
    BY <1>1, <1>3, <1>5 DEF Inv, Typed, TypeOK
  <1>7. (\A m \in Note : Full(m) => Full(m)') /\ Full(n)'
    BY <1>1, <1>4 DEF Full
  <1>8. \A d \in Deliveries : missed'[d] \in Nat /\ missed[d] <= missed'[d]
    BY <1>1 DEF Inv, Typed, TypeOK
  <1>9. RowsRight'
    BY <1>1, <1>7, <1>8, RowsStay DEF Inv, Accounted
  <1>10. NotesRight(w)' /\ HooksRight(w)'
    <2>1. NotesRight(w)
      BY DEF Inv, Accounted
    <2> QED
      BY <1>1, <1>3, <1>7, <2>1 DEF NotesRight, HooksRight, Stuck
  <1> QED
    BY <1>1, <1>3, <1>6, <1>7, <1>8, <1>9, <1>10, OneWorker

\* A notification that some integration refused.
LEMMA NoteMissed ==
  ASSUME Inv, NEW w \in Workers, NEW n \in Note, MissNote(w, n)
  PROVE  Inv'
  <1>1. /\ worker[w].job = "notes"
        /\ worker' = Without(w, n)
        /\ UNCHANGED <<created, note, delivery, due, posted, missed, stops>>
    BY DEF MissNote, hookVars
  <1>2. PICK reached \in SUBSET (Channels[OrgOf[n]] \ Broken) : got' = [got EXCEPT ![n] = @ \cup reached]
    BY DEF MissNote
  <1>3. /\ worker' \in [Workers -> Jobs]
        /\ \A k \in Workers : k # w => worker'[k] = worker[k]
        /\ worker'[w].job = "notes" /\ worker'[w].todo \subseteq worker[w].todo
        /\ worker'[w].marks = worker[w].marks
    <2>1. Without(w, n) \in [Workers -> Jobs]
      BY TakenOff
    <2>3. \A k \in Workers : k # w => Without(w, n)[k] = worker[k]
      BY DEF Without, Inv, Typed
    <2>2. /\ Without(w, n)[w].job = worker[w].job /\ Without(w, n)[w].todo = worker[w].todo \ {n}
          /\ Without(w, n)[w].marks = worker[w].marks
      BY TakenOff
    <2> QED
      BY <1>1, <2>1, <2>2, <2>3
  <1>4. got \in [Note -> SUBSET UNION {Channels[o] : o \in Orgs}]
    BY DEF Inv, Typed
  <1>5. got' \in [Note -> SUBSET UNION {Channels[o] : o \in Orgs}]
    <2>1. OrgOf[n] \in Orgs
      BY OutboxAssumption
    <2>2. reached \in SUBSET UNION {Channels[o] : o \in Orgs}
      BY <2>1
    <2> QED
      BY <1>2, <1>4, <2>2
  <1>6. Typed'
    BY <1>1, <1>3, <1>5 DEF Inv, Typed, TypeOK
  <1>7. \A m \in Note : Full(m) => Full(m)'
    BY <1>2, <1>4 DEF Full
  <1>8. \A d \in Deliveries : missed'[d] \in Nat /\ missed[d] <= missed'[d]
    BY <1>1 DEF Inv, Typed, TypeOK
  <1>9. RowsRight'
    BY <1>1, <1>7, <1>8, RowsStay DEF Inv, Accounted
  <1>10. NotesRight(w)' /\ HooksRight(w)'
    <2>1. NotesRight(w)
      BY DEF Inv, Accounted
    <2> QED
      BY <1>1, <1>3, <1>7, <2>1 DEF NotesRight, HooksRight, Stuck
  <1> QED
    BY <1>1, <1>3, <1>6, <1>7, <1>8, <1>9, <1>10, OneWorker

\* The commit of a batch of notifications.
LEMMA NotesCommitted ==
  ASSUME Inv, NEW w \in Workers, CommitNotes(w)
  PROVE  Inv'
  <1>1. /\ worker[w].job = "notes"
        /\ note' = [n \in Note |-> IF n \in worker[w].marks THEN "sent" ELSE note[n]]
        /\ UNCHANGED <<created, got, delivery, due, posted, missed, stops>>
    BY DEF CommitNotes, hookVars
  <1>2. PICK x : x = [Resting EXCEPT !.job = "noted"]
    OBVIOUS
  <1>3. x \in Jobs /\ x.job = "noted" /\ worker' = [worker EXCEPT ![w] = x]
    BY <1>2, RestingTyped DEF CommitNotes, Resting
  <1>4. /\ worker' \in [Workers -> Jobs] /\ worker'[w] = x
        /\ \A k \in Workers : k # w => worker'[k] = worker[k]
    BY <1>3 DEF Inv, Typed
  <1>5. note' \in [Note -> {"pending", "sent"}]
    BY <1>1 DEF Inv, Typed, TypeOK
  <1>6. Typed'
    BY <1>1, <1>4, <1>5 DEF Inv, Typed, TypeOK
  <1>7. \A n \in Note : Full(n)' <=> Full(n)
    BY <1>1 DEF Full
  <1>8. \A d \in Deliveries : missed'[d] \in Nat /\ missed[d] <= missed'[d]
    BY <1>1 DEF Inv, Typed, TypeOK
  <1>9. RowsRight'
    <2>1. ASSUME NEW n \in Note, note'[n] = "sent" PROVE Full(n)' /\ Cardinality(Stuck(n)') < BatchSize
      <3>1. n \in worker[w].marks \/ note[n] = "sent"
        BY <1>1, <2>1
      <3> QED
        BY <1>1, <1>7, <3>1 DEF Stuck, Inv, Accounted, RowsRight, NotesRight
    <2> QED
      BY <1>1, <2>1 DEF Inv, Accounted, RowsRight
  <1>10. NotesRight(w)' /\ HooksRight(w)'
    BY <1>3, <1>4 DEF NotesRight, HooksRight
  <1> QED
    BY <1>1, <1>4, <1>6, <1>7, <1>8, <1>9, <1>10, OneWorker

\* Deliveries are selected with the attempts their rows say.
LEMMA HooksSelected ==
  ASSUME Inv, NEW w \in Workers, SelectDeliveries(w)
  PROVE  Inv'
  <1>1. UNCHANGED <<created, note, got, delivery, due, posted, missed, stops>> /\ stops \in 0 .. MaxStops
    BY DEF SelectDeliveries, noteVars, hookVars, Inv, Typed, TypeOK
  <1>a. PICK batch \in SUBSET Waiting :
             worker' = [worker EXCEPT ![w] = [Resting EXCEPT !.job = "hooks", !.todo = batch,
                                              !.read = [d \in batch |-> delivery[d].attempts]]]
    BY DEF SelectDeliveries
  <1>2. PICK x : /\ x = [Resting EXCEPT !.job = "hooks", !.todo = batch,
                                        !.read = [d \in batch |-> delivery[d].attempts]]
                 /\ worker' = [worker EXCEPT ![w] = x]
    BY <1>a
  <1>3. ASSUME NEW d \in batch
        PROVE  d \in Deliveries /\ delivery[d].attempts \in Counts /\ delivery[d].attempts <= missed[d]
    <2>1. d \in Deliveries /\ delivery[d].state = "pending"
      BY DEF Waiting, Inv, Typed, TypeOK
    <2> QED
      BY <2>1 DEF Inv, Accounted, RowsRight
  <1>4. [d \in batch |-> delivery[d].attempts] \in Reads
    <2>1. [d \in batch |-> delivery[d].attempts] \in [batch -> Counts]
      BY <1>3
    <2>2. batch \in SUBSET Deliveries
      BY <1>3
    <2> QED
      BY <2>1, <2>2 DEF Reads
  <1>5. batch \in SUBSET Things
    BY <1>3 DEF Things
  <1>6. /\ x \in Jobs /\ x.job = "hooks" /\ x.todo = batch /\ x.read = [d \in batch |-> delivery[d].attempts]
        /\ x.marks = {} /\ x.tries = {} /\ x.drops = {}
    BY <1>2, <1>4, <1>5 DEF Resting, Jobs
  <1>7. worker'[w] = x
    BY <1>2 DEF Inv, Typed
  <1>8. NotesRight(w)' /\ HooksRight(w)'
    <2>1. \A d \in x.todo : d \in Deliveries /\ x.read[d] \in Counts /\ x.read[d] <= missed[d]
      BY <1>3, <1>6
    <2> QED
      BY <1>1, <1>6, <1>7, <2>1 DEF NotesRight, HooksRight
  <1> QED
    BY <1>1, <1>2, <1>6, <1>8, QuietWorker

\* A step that tries a delivery, or drops it: what must hold of the messages.
LEMMA HooksMove ==
  ASSUME Inv, NEW w \in Workers, worker' \in [Workers -> Jobs],
         \A k \in Workers : k # w => worker'[k] = worker[k],
         UNCHANGED <<created, note, got, delivery, due, stops>>,
         posted \subseteq posted', posted' \subseteq Deliveries,
         missed' \in [Deliveries -> Nat], \A d \in Deliveries : missed[d] <= missed'[d],
         worker'[w].job = "hooks", HooksRight(w)'
  PROVE  Inv'
  <1>1. Typed'
    BY DEF Inv, Typed, TypeOK
  <1>2. \A n \in Note : Full(n) => Full(n)'
    BY DEF Full
  <1>3. \A d \in Deliveries : missed'[d] \in Nat /\ missed[d] <= missed'[d]
    OBVIOUS
  <1>4. RowsRight'
    BY <1>2, <1>3, RowsStay DEF Inv, Accounted
  <1>5. NotesRight(w)'
    BY DEF NotesRight
  <1> QED
    BY <1>1, <1>2, <1>3, <1>4, <1>5, OneWorker

\* The webhook is gone.
LEMMA HookDropped ==
  ASSUME Inv, NEW w \in Workers, NEW d \in Deliveries, DropDelivery(w, d)
  PROVE  Inv'
  <1>1. /\ worker[w].job = "hooks" /\ d \in Gone
        /\ worker' = [Without(w, d) EXCEPT ![w].drops = @ \cup {d}]
        /\ UNCHANGED <<created, note, got, delivery, due, posted, missed, stops>>
    BY DEF DropDelivery, noteVars, hookVars
  <1>2. d \in Things
    BY DEF Things
  <1>3. /\ worker' \in [Workers -> Jobs]
        /\ \A k \in Workers : k # w => worker'[k] = worker[k]
        /\ worker'[w].job = "hooks" /\ worker'[w].todo = worker[w].todo \ {d}
        /\ worker'[w].marks = worker[w].marks /\ worker'[w].tries = worker[w].tries
        /\ worker'[w].drops = worker[w].drops \cup {d} /\ worker'[w].read = worker[w].read
    BY <1>1, <1>2, Dropped
  <1>4. HooksRight(w)
    BY DEF Inv, Accounted
  <1>5. HooksRight(w)'
    BY <1>1, <1>3, <1>4 DEF HooksRight
  <1>6. /\ missed' \in [Deliveries -> Nat] /\ \A e \in Deliveries : missed[e] <= missed'[e]
        /\ posted' \subseteq Deliveries
    BY <1>1 DEF Inv, Typed, TypeOK
  <1> QED
    BY <1>1, <1>3, <1>5, <1>6, HooksMove

\* The endpoint answers with success.
LEMMA HookPosted ==
  ASSUME Inv, NEW w \in Workers, NEW d \in Deliveries, PostDelivery(w, d)
  PROVE  Inv'
  <1>1. /\ worker[w].job = "hooks" /\ posted' = posted \cup {d}
        /\ worker' = [Without(w, d) EXCEPT ![w].marks = @ \cup {d}]
        /\ UNCHANGED <<created, note, got, delivery, due, missed, stops>>
    BY DEF PostDelivery, noteVars
  <1>2. d \in Things
    BY DEF Things
  <1>3. /\ worker' \in [Workers -> Jobs]
        /\ \A k \in Workers : k # w => worker'[k] = worker[k]
        /\ worker'[w].job = "hooks" /\ worker'[w].todo = worker[w].todo \ {d}
        /\ worker'[w].marks = worker[w].marks \cup {d} /\ worker'[w].tries = worker[w].tries
        /\ worker'[w].drops = worker[w].drops /\ worker'[w].read = worker[w].read
    BY <1>1, <1>2, Marked
  <1>4. HooksRight(w)
    BY DEF Inv, Accounted
  <1>5. HooksRight(w)'
    BY <1>1, <1>3, <1>4 DEF HooksRight
  <1>6. /\ missed' \in [Deliveries -> Nat] /\ \A e \in Deliveries : missed[e] <= missed'[e]
        /\ posted' \subseteq Deliveries
    BY <1>1 DEF Inv, Typed, TypeOK
  <1> QED
    BY <1>1, <1>3, <1>5, <1>6, HooksMove

\* The endpoint answers with an error, or not at all.
LEMMA HookMissed ==
  ASSUME Inv, NEW w \in Workers, NEW d \in Deliveries, MissDelivery(w, d)
  PROVE  Inv'
  <1>1. /\ worker[w].job = "hooks" /\ d \in worker[w].todo
        /\ missed' = [missed EXCEPT ![d] = @ + 1]
        /\ worker' = [Without(w, d) EXCEPT ![w].tries = @ \cup {d}]
        /\ UNCHANGED <<created, note, got, delivery, due, posted, stops>>
    BY DEF MissDelivery, noteVars
  <1>2. d \in Things
    BY DEF Things
  <1>3. /\ worker' \in [Workers -> Jobs]
        /\ \A k \in Workers : k # w => worker'[k] = worker[k]
        /\ worker'[w].job = "hooks" /\ worker'[w].todo = worker[w].todo \ {d}
        /\ worker'[w].marks = worker[w].marks /\ worker'[w].tries = worker[w].tries \cup {d}
        /\ worker'[w].drops = worker[w].drops /\ worker'[w].read = worker[w].read
    BY <1>1, <1>2, Tried
  <1>4. missed \in [Deliveries -> Nat]
    BY DEF Inv, Typed, TypeOK
  <1>5. /\ missed' \in [Deliveries -> Nat] /\ missed'[d] = missed[d] + 1
        /\ \A e \in Deliveries : e # d => missed'[e] = missed[e]
    BY <1>1, <1>4
  <1>6. \A e \in Deliveries : missed[e] <= missed'[e] /\ missed[e] \in Nat /\ missed'[e] \in Nat
    <2> TAKE e \in Deliveries
    <2>1. missed[e] \in Nat
      BY <1>4
    <2>2. missed'[e] = missed[e] \/ missed'[e] = missed[e] + 1
      BY <1>5
    <2> QED
      BY <2>1, <2>2
  <1>7. HooksRight(w)
    BY DEF Inv, Accounted
  <1>8. ASSUME NEW e \in worker'[w].todo
        PROVE  e \in Deliveries /\ worker'[w].read[e] \in Counts /\ worker'[w].read[e] <= missed'[e]
    <2>1. e \in Deliveries /\ worker[w].read[e] \in Counts /\ worker[w].read[e] <= missed[e]
      BY <1>1, <1>3, <1>7 DEF HooksRight
    <2>2. worker[w].read[e] \in Nat
      BY <2>1, Bounds DEF Counts
    <2> QED
      BY <1>3, <1>6, <2>1, <2>2
  <1>9. ASSUME NEW e \in worker'[w].tries
        PROVE  e \in Deliveries /\ worker'[w].read[e] \in Counts /\ worker'[w].read[e] + 1 <= missed'[e]
    <2>1. CASE e = d
      <3>1. worker[w].read[d] \in Counts /\ worker[w].read[d] <= missed[d]
        BY <1>1, <1>7 DEF HooksRight
      <3>2. worker[w].read[d] \in Nat /\ missed[d] \in Nat
        BY <1>4, <3>1, Bounds DEF Counts
      <3> QED
        BY <1>3, <1>5, <2>1, <3>1, <3>2
    <2>2. CASE e \in worker[w].tries
      <3>1. e \in Deliveries /\ worker[w].read[e] \in Counts /\ worker[w].read[e] + 1 <= missed[e]
        BY <1>1, <1>7, <2>2 DEF HooksRight
      <3>2. worker[w].read[e] \in Nat
        BY <3>1, Bounds DEF Counts
      <3> QED
        BY <1>3, <1>6, <3>1, <3>2
    <2> QED
      BY <1>3, <2>1, <2>2
  <1>10. worker'[w].marks \subseteq posted' /\ worker'[w].drops \subseteq Gone
    BY <1>1, <1>3, <1>7 DEF HooksRight
  <1>11. HooksRight(w)'
    BY <1>3, <1>8, <1>9, <1>10 DEF HooksRight
  <1>12. posted \subseteq posted' /\ posted' \subseteq Deliveries
    BY <1>1 DEF Inv, Typed, TypeOK
  <1> QED
    BY <1>1, <1>3, <1>5, <1>6, <1>11, <1>12, HooksMove

\* The commit of a batch of deliveries: the count a row gets is one this worker has read
\* before it tried, whatever others have written in between.
LEMMA HooksCommitted ==
  ASSUME Inv, NEW w \in Workers, CommitDeliveries(w)
  PROVE  Inv'
  <1>1. /\ worker[w].job = "hooks"
        /\ due' = due \ {d \in worker[w].tries : ~GivenUp(w, d)}
        /\ worker' = [worker EXCEPT ![w] = Resting]
        /\ UNCHANGED <<created, note, got, posted, missed, stops>>
    BY DEF CommitDeliveries, noteVars
  <1>2. ASSUME NEW d \in Deliveries
        PROVE  /\ delivery'[d].state = IF d \in worker[w].marks THEN "delivered"
                                       ELSE IF d \in worker[w].drops \/ GivenUp(w, d) THEN "failed"
                                       ELSE delivery[d].state
               /\ delivery'[d].attempts = IF d \in worker[w].tries THEN worker[w].read[d] + 1
                                          ELSE delivery[d].attempts
    BY DEF CommitDeliveries
  <1>3. HooksRight(w) /\ RowsRight
    BY DEF Inv, Accounted
  <1>4. \A d \in Deliveries : missed[d] \in Nat
    BY DEF Inv, Typed, TypeOK
  <1>5. ASSUME NEW d \in Deliveries
        PROVE  /\ delivery'[d].state \in {"pending", "delivered", "failed"}
               /\ delivery'[d].attempts \in 0 .. MaxAttempts
               /\ delivery'[d].attempts <= missed[d]
               /\ delivery'[d].state = "pending" => delivery'[d].attempts \in Counts
               /\ delivery'[d].state = "delivered" => d \in posted
               /\ delivery'[d].state = "failed" => d \in Gone \/ missed[d] >= MaxAttempts
    <2>1. /\ delivery[d].state \in {"pending", "delivered", "failed"}
          /\ delivery[d].attempts \in 0 .. MaxAttempts
      BY DEF Inv, Typed, TypeOK
    <2>2. /\ delivery[d].attempts <= missed[d]
          /\ delivery[d].state = "pending" => delivery[d].attempts \in Counts
          /\ delivery[d].state = "delivered" => d \in posted
          /\ delivery[d].state = "failed" => d \in Gone \/ missed[d] >= MaxAttempts
      BY <1>3 DEF RowsRight
    <2>3. d \in worker[w].marks => d \in posted
      BY <1>1, <1>3 DEF HooksRight
    <2>4. d \in worker[w].drops => d \in Gone
      BY <1>1, <1>3 DEF HooksRight
    <2>5. CASE d \notin worker[w].tries
      <3>1. ~GivenUp(w, d) /\ delivery'[d].attempts = delivery[d].attempts
        BY <1>2, <2>5 DEF GivenUp
      <3>2. delivery'[d].state = IF d \in worker[w].marks THEN "delivered"
                                 ELSE IF d \in worker[w].drops THEN "failed" ELSE delivery[d].state
        BY <1>2, <3>1
      <3> QED
        BY <2>1, <2>2, <2>3, <2>4, <3>1, <3>2
    <2>6. CASE d \in worker[w].tries
      <3>1. PICK k \in Counts : k = worker[w].read[d] /\ k + 1 <= missed[d]
        BY <1>1, <1>3, <2>6 DEF HooksRight
      <3>2. delivery'[d].attempts = k + 1 /\ k \in Nat /\ k + 1 <= MaxAttempts
        BY <1>2, <2>6, <3>1, Bounds DEF Counts
      <3>3. GivenUp(w, d) <=> k + 1 >= MaxAttempts
        BY <2>6, <3>1 DEF GivenUp
      <3>4. k + 1 >= MaxAttempts => missed[d] >= MaxAttempts
        BY <1>4, <3>1, <3>2, Bounds
      <3>5. ~(k + 1 >= MaxAttempts) => k + 1 \in Counts
        BY <3>2, Bounds DEF Counts
      <3>6. delivery'[d].attempts \in 0 .. MaxAttempts /\ delivery'[d].attempts <= missed[d]
        BY <3>1, <3>2, Bounds
      <3>7. CASE GivenUp(w, d)
        BY <1>2, <2>3, <3>3, <3>4, <3>6, <3>7
      <3>8. CASE ~GivenUp(w, d)
        <4>1. delivery'[d].attempts \in Counts
          BY <3>2, <3>3, <3>5, <3>8
        <4>2. delivery'[d].state = IF d \in worker[w].marks THEN "delivered"
                                   ELSE IF d \in worker[w].drops THEN "failed" ELSE delivery[d].state
          BY <1>2, <3>8
        <4> QED
          BY <2>1, <2>2, <2>3, <2>4, <3>6, <4>1, <4>2
      <3> QED
        BY <3>7, <3>8
    <2> QED
      BY <2>5, <2>6
  <1>6. delivery' \in [Deliveries -> Rows]
    <2>1. delivery' = [d \in Deliveries |-> [state |-> delivery'[d].state, attempts |-> delivery'[d].attempts]]
      BY DEF CommitDeliveries
    <2> QED
      BY <1>5, <2>1 DEF Rows
  <1>7. /\ worker' \in [Workers -> Jobs] /\ worker'[w] = Resting
        /\ \A k \in Workers : k # w => worker'[k] = worker[k]
    BY <1>1, RestingTyped DEF Inv, Typed
  <1>8. Typed'
    BY <1>1, <1>6, <1>7 DEF Inv, Typed, TypeOK, Rows
  <1>9. \A n \in Note : Full(n)' <=> Full(n)
    BY <1>1 DEF Full
  <1>10. \A d \in Deliveries : missed'[d] \in Nat /\ missed[d] <= missed'[d]
    BY <1>1, <1>4
  <1>11. RowsRight'
    BY <1>1, <1>3, <1>5, <1>9 DEF RowsRight, Stuck
  <1>12. NotesRight(w)' /\ HooksRight(w)'
    BY <1>7 DEF NotesRight, HooksRight, Resting
  <1> QED
    BY <1>1, <1>7, <1>8, <1>9, <1>10, <1>11, <1>12, OneWorker

\* The worker is stopped, a notification is written, a backoff ends.
LEMMA RestHolds ==
  ASSUME Inv, Notify \/ (\E w \in Workers : Stop(w)) \/ (\E d \in Deliveries : BackoffEnds(d))
  PROVE  Inv'
  <1>1. ASSUME NEW w \in Workers, Stop(w) PROVE Inv'
    <2>1. /\ worker' = [worker EXCEPT ![w] = Resting]
          /\ UNCHANGED <<created, note, got, delivery, due, posted, missed>>
      BY <1>1 DEF Stop, noteVars, hookVars
    <2>2. stops' \in 0 .. MaxStops
      BY <1>1, Bounds DEF Stop, Inv, Typed, TypeOK
    <2>3. worker'[w] = Resting
      BY <2>1 DEF Inv, Typed
    <2>4. NotesRight(w)' /\ HooksRight(w)'
      BY <2>3 DEF NotesRight, HooksRight, Resting
    <2> QED
      BY <2>1, <2>2, <2>4, QuietWorker, RestingTyped
  <1>2. ASSUME UNCHANGED <<note, got, delivery, posted, missed, worker, stops>>,
               created' \in 0 .. Notes, due' \subseteq Deliveries
        PROVE  Inv'
    <2>1. Typed'
      BY <1>2 DEF Inv, Typed, TypeOK
    <2>2. RowsRight'
      BY <1>2 DEF Inv, Accounted, RowsRight, Full, Stuck
    <2>3. ASSUME NEW w \in Workers PROVE NotesRight(w)' /\ HooksRight(w)'
      BY <1>2 DEF Inv, Accounted, NotesRight, HooksRight, Full, Stuck
    <2> QED
      BY <2>1, <2>2, <2>3 DEF Inv, Accounted
  <1>3. CASE Notify
    <2>1. created' \in 0 .. Notes
      BY <1>3, Bounds DEF Notify, Inv, Typed, TypeOK
    <2>2. due \subseteq Deliveries
      BY DEF Inv, Typed, TypeOK
    <2> QED
      BY <1>2, <1>3, <2>1, <2>2 DEF Notify, hookVars
  <1>4. ASSUME NEW d \in Deliveries, BackoffEnds(d) PROVE Inv'
    <2>1. due' \subseteq Deliveries /\ created \in 0 .. Notes
      BY <1>4 DEF BackoffEnds, Inv, Typed, TypeOK
    <2> QED
      BY <1>2, <1>4, <2>1 DEF BackoffEnds, noteVars
  <1> QED
    BY <1>1, <1>3, <1>4

\* The invariant is inductive.
LEMMA StepHolds == Inv /\ [Next]_vars => Inv'
  <1> SUFFICES ASSUME Inv, [Next]_vars PROVE Inv'
    OBVIOUS
  <1>1. CASE UNCHANGED vars
    BY <1>1 DEF vars, Inv, Typed, TypeOK, Accounted, RowsRight, NotesRight, HooksRight, Full, Stuck
  <1>2. ASSUME NEW w \in Workers, Cycle(w) PROVE Inv'
    BY <1>2, NotesSelected, NoteSent, NoteMissed, NotesCommitted, HooksSelected, HookDropped, HookPosted,
       HookMissed, HooksCommitted DEF Cycle
  <1> QED
    BY <1>1, <1>2, RestHolds DEF Next

\* Types and what is true of every message hold in every state.
THEOREM OutboxInvariant == Spec => []Inv
  BY InitHolds, StepHolds, PTL DEF Spec

\* For any numbers of workers, messages, integrations, attempts and batches: a row says
\* "sent" or "delivered" only of what was accepted and "failed" only of what is gone or was
\* tried MaxAttempts times, however workers overlap or stop; and nothing behind a whole
\* batch that cannot be sent is ever sent.
THEOREM MessagesTrue == Spec => []MessagesAccountedFor
  <1>1. Inv => MessagesAccountedFor
    BY DEF Inv, Accounted, RowsRight, Full, MessagesAccountedFor
  <1> QED
    BY <1>1, OutboxInvariant, PTL

=============================================================================
