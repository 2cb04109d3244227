----------------------------- MODULE AuditChain -----------------------------
(***************************************************************************)
(* The audit trail of one organization: events linked by hashes, appended   *)
(* by transactions of the API and the worker (append_audit), moved to blobs *)
(* by the worker (archive_audit) and verified on request (audit_verify).    *)
(*                                                                         *)
(* Events are numbered in the order in which they are written.  The hash of *)
(* an event stands for its number: hashes of different events differ, and   *)
(* nobody tampers with the rows.  Real time is counted in events, so the    *)
(* clock of whoever writes event n reads n, give or take Skew.              *)
(***************************************************************************)
EXTENDS Integers, FiniteSets, Sequences

CONSTANTS
  Appenders,  \* transactions that append to the trail at one time
  Workers,    \* runs of the worker's archive job at one time
  Skew,       \* how far a replica's clock may be off, in events
  BatchSize,  \* worker_batch_size
  MaxEvents   \* bound on the events of a behaviour

ASSUME AuditAssumption ==
  /\ Skew \in Nat
  /\ BatchSize \in Nat
  /\ MaxEvents \in Nat

VARIABLES
  log,         \* all events ever written: their occurred_at and previous_hash
  open,        \* open[a]: events of a's transaction, not committed yet
  live,        \* committed rows of the audit_events table
  checkpoint,  \* AuditCheckpoint.archived_through_hash, Genesis without a row
  stored,      \* events that are in some blob
  phase,       \* phase[w]: where the archive job w is
  batch,       \* batch[w]: the events it has selected
  answer,      \* of GET /audit/verify: none, reading, valid or invalid
  snapshot,    \* the events it has read
  moved,       \* history: an archive run has committed since that read
  overtaken    \* history: an archive run has written a checkpoint that another one had
               \* left behind: never, before, or as the last one to write it

workerVars == <<phase, batch>>
verifyVars == <<answer, snapshot>>
historyVars == <<moved, overtaken>>
vars == <<log, open, live, checkpoint, stored, phase, batch, answer, snapshot, moved, overtaken>>

\* No previous hash: events are numbered from 1.
Genesis == 0

Event == 1 .. MaxEvents

Init ==
  /\ log = << >>
  /\ open = [a \in Appenders |-> {}]
  /\ live = {}
  /\ checkpoint = Genesis
  /\ stored = {}
  /\ phase = [w \in Workers |-> "idle"]
  /\ batch = [w \in Workers |-> {}]
  /\ answer = "none"
  /\ snapshot = {}
  /\ moved = FALSE
  /\ overtaken = "never"

-----------------------------------------------------------------------------
(* The order of the trail *)

\* ORDER BY occurred_at; equal times in the order of the rows.
Before(d, e) ==
  \/ log[d].time < log[e].time
  \/ /\ log[d].time = log[e].time
     /\ d < e

Latest(e, S) == e \in S /\ \A d \in S \ {e} : Before(d, e)

\* d comes just before e among S.
Follows(d, e, S) ==
  /\ Before(d, e)
  /\ \A c \in S : ~(Before(d, c) /\ Before(c, e))

\* Faulty: verification that always starts from an empty hash.
LinkedFromGenesis(S, start) ==
  \A e \in S :
    \/ log[e].prev = Genesis /\ \A d \in S : ~Before(d, e)
    \/ \E d \in S : log[e].prev = d /\ Follows(d, e, S)

\* verify_audit_chain: the first event links to the given hash, every other one to
\* the event just before it.
Linked(S, start) ==
  \A e \in S :
    \/ log[e].prev = start /\ \A d \in S : ~Before(d, e)
    \/ \E d \in S : log[e].prev = d /\ Follows(d, e, S)

-----------------------------------------------------------------------------
(* append_audit, inside the transaction of its caller *)

\* Faulty: no advisory lock.
LockFreeAlways(a) == TRUE

\* The organization's advisory lock is held from the first append to the commit.
LockFree(a) == \A b \in Appenders \ {a} : open[b] = {}

\* Faulty: an empty table starts a new chain.
PreviousInTable(p, S) == Latest(p, S) \/ (S = {} /\ p = Genesis)

\* The latest event among those the transaction sees, or the checkpoint.
Previous(p, S) == Latest(p, S) \/ (S = {} /\ p = checkpoint)

\* The row: the time by the clock of the replica, the hash of the previous event.
WriteEvent(a) ==
  \E t \in (Len(log) + 1 - Skew) .. (Len(log) + 1 + Skew), p \in Event \cup {Genesis} :
    /\ \A e \in open[a] : log[e].time < t
    /\ Previous(p, live \cup open[a])
    /\ log' = Append(log, [time |-> t, prev |-> p])

\* A transaction appends one event or several (the worker's batches).
AppendEvent(a) ==
  /\ LockFree(a)
  /\ Len(log) < MaxEvents
  /\ WriteEvent(a)
  /\ open' = [open EXCEPT ![a] = @ \cup {Len(log) + 1}]
  /\ UNCHANGED <<live, checkpoint, stored, workerVars, verifyVars, historyVars>>

Commit(a) ==
  /\ open[a] # {}
  /\ live' = live \cup open[a]
  /\ open' = [open EXCEPT ![a] = {}]
  /\ UNCHANGED <<log, checkpoint, stored, workerVars, verifyVars, historyVars>>

Rollback(a) ==
  /\ open[a] # {}
  /\ open' = [open EXCEPT ![a] = {}]
  /\ UNCHANGED <<log, live, checkpoint, stored, workerVars, verifyVars, historyVars>>

-----------------------------------------------------------------------------
(* archive_audit *)

\* Faulty: the latest events first.
LatestFirst(B) == \A e \in B, d \in live : Before(e, d) => d \in B

\* The events before a cutoff, the earliest first.
EarliestFirst(B) == \A e \in B, d \in live : Before(d, e) => d \in B

\* Faulty: the job goes on with nothing selected.
SelectedAny(B) == TRUE

\* "if not events: continue"
Selected(B) == B # {}

\* The query, without a lock.  The cutoff depends on the plan's retention period; here
\* it may be anywhere.
ArchiveRead(w) ==
  /\ phase[w] = "idle"
  /\ \E B \in SUBSET live :
       /\ Selected(B)
       /\ EarliestFirst(B)
       /\ Cardinality(B) <= BatchSize
       /\ batch' = [batch EXCEPT ![w] = B]
  /\ phase' = [phase EXCEPT ![w] = "read"]
  /\ UNCHANGED <<log, open, live, checkpoint, stored, verifyVars, historyVars>>

\* upload_blob, under a name of its own.
Upload(w) ==
  /\ phase[w] = "read"
  /\ phase' = [phase EXCEPT ![w] = "uploaded"]
  /\ stored' = stored \cup batch[w]
  /\ UNCHANGED <<log, open, live, checkpoint, batch, verifyVars, historyVars>>

\* Faulty: rows are deleted by the cutoff, not by what was uploaded.
DeletedByCutoff(w) == live

\* The rows the job deletes, by id.
Deleted(w) == batch[w]

\* Another job has archived e since it was selected, and has moved the checkpoint on.
Stale(e) == e \notin live /\ e # checkpoint

\* The checkpoint is overwritten, whatever it says, and the rows are deleted.  (Two
\* jobs that both insert the first checkpoint: the second fails, which is a crash.)
ArchiveCommit(w) ==
  /\ phase[w] = "uploaded"
  /\ \E e \in batch[w] :
       /\ Latest(e, batch[w])
       /\ checkpoint' = e
       /\ overtaken' = IF Stale(e) THEN "last"
                       ELSE IF e \in live /\ overtaken = "last" THEN "before"
                       ELSE overtaken
  /\ live' = live \ Deleted(w)
  /\ phase' = [phase EXCEPT ![w] = "idle"]
  /\ batch' = [batch EXCEPT ![w] = {}]
  /\ moved' = TRUE
  /\ UNCHANGED <<log, open, stored, verifyVars>>

\* Killed at its timeout, or an error: a blob that is already written stays.
WorkerCrash(w) ==
  /\ phase[w] # "idle"
  /\ phase' = [phase EXCEPT ![w] = "idle"]
  /\ batch' = [batch EXCEPT ![w] = {}]
  /\ UNCHANGED <<log, open, live, checkpoint, stored, verifyVars, historyVars>>

-----------------------------------------------------------------------------
(* GET /audit/verify: the events, then the checkpoint, in two statements *)

VerifyRead ==
  /\ answer # "reading"
  /\ answer' = "reading"
  /\ snapshot' = live
  /\ moved' = FALSE
  /\ UNCHANGED <<log, open, live, checkpoint, stored, workerVars, overtaken>>

VerifyAnswer ==
  /\ answer = "reading"
  /\ answer' = IF Linked(snapshot, checkpoint) THEN "valid" ELSE "invalid"
  /\ snapshot' = {}
  /\ UNCHANGED <<log, open, live, checkpoint, stored, workerVars, historyVars>>

-----------------------------------------------------------------------------
Next ==
  \/ \E a \in Appenders : AppendEvent(a) \/ Commit(a) \/ Rollback(a)
  \/ \E w \in Workers : ArchiveRead(w) \/ Upload(w) \/ ArchiveCommit(w) \/ WorkerCrash(w)
  \/ VerifyRead
  \/ VerifyAnswer

Spec == Init /\ [][Next]_vars

-----------------------------------------------------------------------------
(* Properties *)

Entry == [time : Int, prev : Event \cup {Genesis}]

TypeOK ==
  /\ log \in Seq(Entry)
  /\ Len(log) <= MaxEvents
  /\ open \in [Appenders -> SUBSET (1 .. Len(log))]
  /\ live \subseteq 1 .. Len(log)
  /\ checkpoint \in (1 .. Len(log)) \cup {Genesis}
  /\ stored \subseteq 1 .. Len(log)
  /\ phase \in [Workers -> {"idle", "read", "uploaded"}]
  /\ batch \in [Workers -> SUBSET (1 .. Len(log))]
  /\ \A w \in Workers : batch[w] # {} <=> phase[w] # "idle"
  /\ answer \in {"none", "reading", "valid", "invalid"}
  /\ snapshot \subseteq 1 .. Len(log)
  /\ moved \in BOOLEAN
  /\ overtaken \in {"never", "before", "last"}

\* An event leaves the table only when a blob has it.
NothingLost == [][live \ live' \subseteq stored]_vars

Committed == live \cup stored

\* Some event of S was written by a clock that stood no later than that of the event
\* before it.
SetBack(S) ==
  \E e \in S : log[e].prev # Genesis /\ ~(log[log[e].prev].time < log[e].time)

\* What is in the table links up, from the checkpoint on, whatever is being appended,
\* rolled back, archived or left half archived, unless a clock was set back or an archive
\* job that others had overtaken was the last to write the checkpoint.
UnlinkedExplained == Linked(live, checkpoint) \/ SetBack(Committed) \/ overtaken = "last"

\* Table and blobs together are one chain, also when one event was written before and the
\* next after the table was emptied: two events have the same predecessor only when a
\* clock was set back or an archive job was overtaken.
ForksExplained ==
  \A d, e \in Committed : log[d].prev = log[e].prev =>
    d = e \/ SetBack(Committed) \/ overtaken # "never"

\* The checkpoint moves back only at the hands of an overtaken job, or because the order
\* by time was not the order of writing.
ReturnsExplained ==
  [][checkpoint' < checkpoint => SetBack(Committed) \/ overtaken' = "last"]_vars

\* The two statements of a verification disagree only because an archive run has committed
\* between them, or because the table did not link up already when it began.
FalseAlarmsExplained ==
  answer = "invalid" => moved \/ SetBack(Committed) \/ overtaken = "last"

-----------------------------------------------------------------------------
(* What the documents say and the code does not do *)

\* FEATURES.md, Retention/archive: "writes an audit checkpoint so the remaining chain
\* stays verifiable".
ChainVerifies == Linked(live, checkpoint)
=============================================================================
