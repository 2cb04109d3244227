-------------------------- MODULE AuditChainProofs --------------------------
(* Theorems about AuditChain, for any error of the clocks and any number of archive    *)
(* jobs that overlap in any way.                                                       *)
EXTENDS AuditChain, TLAPS

-----------------------------------------------------------------------------
(* Type correctness, and that nothing leaves the table before a blob has it *)

\* An organization without events is typed.
LEMMA InitTyped == Init => TypeOK
  <1> SUFFICES ASSUME Init PROVE TypeOK
    OBVIOUS
  <1>1. log = << >> /\ log \in Seq(Entry) /\ Len(log) = 0
    BY DEF Init
  <1>2. open \in [Appenders -> SUBSET (1 .. Len(log))]
    BY DEF Init
  <1>3. batch \in [Workers -> SUBSET (1 .. Len(log))]
    BY DEF Init
  <1>4. phase \in [Workers -> {"idle", "read", "uploaded"}]
    BY DEF Init
  <1>5. \A w \in Workers : batch[w] # {} <=> phase[w] # "idle"
    BY DEF Init
  <1>6. Len(log) <= MaxEvents
    BY AuditAssumption, <1>1
  <1>7. /\ live = {} /\ stored = {} /\ snapshot = {}
        /\ checkpoint = Genesis /\ answer = "none" /\ moved = FALSE /\ overtaken = "never"
    BY DEF Init
  <1> QED
    BY <1>1, <1>2, <1>3, <1>4, <1>5, <1>6, <1>7 DEF TypeOK

\* A prefix of the log keeps its entries when an event is added.
LEMMA AppendKeeps ==
  ASSUME TypeOK, NEW a \in Appenders, AppendEvent(a)
  PROVE  /\ log' \in Seq(Entry)
         /\ Len(log') = Len(log) + 1
         /\ Len(log') <= MaxEvents
         /\ \A e \in 1 .. Len(log) : log'[e] = log[e]
  <1>1. PICK t \in (Len(log) + 1 - Skew) .. (Len(log) + 1 + Skew), p \in Event \cup {Genesis} :
             /\ \A e \in open[a] : log[e].time < t
             /\ Previous(p, live \cup open[a])
             /\ log' = Append(log, [time |-> t, prev |-> p])
    BY DEF AppendEvent, WriteEvent
  <1>2. [time |-> t, prev |-> p] \in Entry
    BY AuditAssumption, <1>1 DEF TypeOK, Entry
  <1>3. Len(log) + 1 <= MaxEvents
    BY AuditAssumption DEF AppendEvent, Event, TypeOK
  <1> QED
    BY <1>1, <1>2, <1>3 DEF TypeOK

\* No append, end of a transaction, archive step or verification leaves the types.
LEMMA StepTyped == TypeOK /\ [Next]_vars => TypeOK'
  <1> SUFFICES ASSUME TypeOK, [Next]_vars PROVE TypeOK'
    OBVIOUS
  <1>1. ASSUME NEW a \in Appenders, AppendEvent(a) PROVE TypeOK'
    <2>1. /\ open' = [open EXCEPT ![a] = @ \cup {Len(log) + 1}]
          /\ UNCHANGED <<live, checkpoint, stored, workerVars, verifyVars, historyVars>>
      BY <1>1 DEF AppendEvent
    <2>2. open' \in [Appenders -> SUBSET (1 .. Len(log'))]
      BY <1>1, <2>1, AppendKeeps DEF TypeOK
    <2> QED
      BY <1>1, <2>1, <2>2, AppendKeeps DEF workerVars, verifyVars, historyVars, TypeOK
  <1>2. ASSUME NEW a \in Appenders, Commit(a) \/ Rollback(a) PROVE TypeOK'
    BY <1>2 DEF Commit, Rollback, workerVars, verifyVars, historyVars, TypeOK
  <1>3. ASSUME NEW w \in Workers, ArchiveRead(w) PROVE TypeOK'
    BY <1>3 DEF ArchiveRead, Selected, verifyVars, historyVars, TypeOK
  <1>4. ASSUME NEW w \in Workers, Upload(w) PROVE TypeOK'
    BY <1>4 DEF Upload, verifyVars, historyVars, TypeOK
  <1>5. ASSUME NEW w \in Workers, ArchiveCommit(w) PROVE TypeOK'
    BY <1>5 DEF ArchiveCommit, Latest, Deleted, verifyVars, TypeOK
  <1>6. ASSUME NEW w \in Workers, WorkerCrash(w) PROVE TypeOK'
    BY <1>6 DEF WorkerCrash, verifyVars, historyVars, TypeOK
  <1>7. CASE VerifyRead \/ VerifyAnswer
    BY <1>7 DEF VerifyRead, VerifyAnswer, workerVars, historyVars, TypeOK
  <1>8. CASE UNCHANGED vars
    BY <1>8 DEF vars, workerVars, verifyVars, TypeOK
  <1> QED
    BY <1>1, <1>2, <1>3, <1>4, <1>5, <1>6, <1>7, <1>8 DEF Next

\* Type correctness of append_audit, archive_audit and audit_verify, for any number of
\* transactions and archive jobs and any error of the clocks.
THEOREM AuditType == Spec => []TypeOK
  BY InitTyped, StepTyped, PTL DEF Spec

\* A job that has uploaded holds only what is in some blob.
UploadedFirst == \A w \in Workers : phase[w] = "uploaded" => batch[w] \subseteq stored

\* An archive job reaches "uploaded" only through the upload of its batch.
LEMMA StepUploaded ==
  TypeOK /\ UploadedFirst /\ [Next]_vars => UploadedFirst'
  <1> SUFFICES ASSUME TypeOK, UploadedFirst, [Next]_vars PROVE UploadedFirst'
    OBVIOUS
  <1> USE DEF UploadedFirst, TypeOK
  <1>1. ASSUME NEW a \in Appenders, AppendEvent(a) \/ Commit(a) \/ Rollback(a)
        PROVE  UploadedFirst'
    BY <1>1 DEF AppendEvent, Commit, Rollback, workerVars
  <1>2. ASSUME NEW w \in Workers, ArchiveRead(w) PROVE UploadedFirst'
    BY <1>2 DEF ArchiveRead
  <1>3. ASSUME NEW w \in Workers, Upload(w) PROVE UploadedFirst'
    BY <1>3 DEF Upload
  <1>4. ASSUME NEW w \in Workers, ArchiveCommit(w) \/ WorkerCrash(w) PROVE UploadedFirst'
    BY <1>4 DEF ArchiveCommit, WorkerCrash
  <1>5. CASE VerifyRead \/ VerifyAnswer \/ UNCHANGED vars
    BY <1>5 DEF VerifyRead, VerifyAnswer, vars, workerVars
  <1> QED
    BY <1>1, <1>2, <1>3, <1>4, <1>5 DEF Next

\* Only the commit of an archive job takes events out of the table.
LEMMA StepLosesNothing ==
  TypeOK /\ UploadedFirst /\ [Next]_vars => [live \ live' \subseteq stored]_vars
  BY DEF Next, UploadedFirst, TypeOK, AppendEvent, Commit, Rollback, ArchiveRead, Upload,
         ArchiveCommit, Deleted, WorkerCrash, VerifyRead, VerifyAnswer, vars

\* archive_audit deletes an event only after a blob has it: whatever the clocks, however
\* many archive jobs overlap and wherever they are killed.
THEOREM ArchiveLosesNothing == Spec => NothingLost
  <1>1. Init => UploadedFirst
    BY DEF Init, UploadedFirst
  <1> QED
    BY <1>1, InitTyped, StepTyped, StepUploaded, StepLosesNothing, PTL DEF Spec, NothingLost

-----------------------------------------------------------------------------
(* The chain, for any clocks and any archive jobs: what holds as long as no     *)
(* clock was set back and no job was overtaken, and what the others leave of it. *)

Pending == UNION {open[a] : a \in Appenders}

\* Every event that is in the table, in a blob or about to be committed.
Trail == Committed \cup Pending

\* What the table has lost to the blobs.
Archived == stored \ live

\* The advisory lock lets one transaction append at a time.
OneAppender == \A a, b \in Appenders : open[a] # {} /\ open[b] # {} => a = b

\* It writes behind everything that is committed.
PendingLast == \A a \in Appenders : \A e \in open[a], d \in Committed : d < e

\* Whatever the clocks and the archive jobs do.
Records ==
  /\ OneAppender
  /\ PendingLast
  /\ \A e \in 1 .. Len(log) : log[e].prev < e
  /\ \A w \in Workers : batch[w] \subseteq Committed
  /\ checkpoint \in Archived \cup {Genesis}

\* The order by time is the order of writing.
Sorted(S) == \A d, e \in S : d < e => log[d].time < log[e].time

\* p is the last event of S before e, or Genesis if e is the first.
JustBefore(p, e, S) ==
  /\ p \in S \cup {Genesis}
  /\ p < e
  /\ \A c \in S : ~(p < c /\ c < e)

\* Every event of S links to the one just before it, the first to the checkpoint unless
\* that was overwritten by an overtaken job.
Chained(S) ==
  \A e \in S :
    \/ log[e].prev \in S /\ JustBefore(log[e].prev, e, S)
    \/ (\A d \in S : ~(d < e)) /\ (overtaken = "last" \/ log[e].prev = checkpoint)

OneChain(T) == \A e \in T : JustBefore(log[e].prev, e, T)

\* The rows S of the table, when no clock was set back for the events T written so far.
RowsOK(S, T) ==
  ~SetBack(T) => Sorted(S) /\ Chained(S) /\ (overtaken = "never" => OneChain(T))

\* Archive jobs hold a first part of the table as it was, in order; what is gone of a
\* batch is a first part of the batch.
BatchOK(B) ==
  /\ Sorted(B)
  /\ \A e \in B, d \in live : e \in live /\ d < e => d \in B
  /\ \A d, e \in B : d < e /\ d \in live => e \in live

\* The archive, when no clock was set back.
ArchiveOK ==
  ~SetBack(Committed) =>
    /\ \A d \in Archived, e \in live : d < e
    /\ \A w \in Workers : BatchOK(batch[w])
    /\ overtaken = "never" => \A d \in Archived : d <= checkpoint

ChainInv ==
  /\ Records
  /\ RowsOK(live, Committed)
  /\ RowsOK(live \cup Pending, Trail)
  /\ ArchiveOK

\* The trail consists of events that have been written, and so do their links.
LEMMA TrailTyped ==
  TypeOK => /\ Len(log) \in Nat
            /\ Trail \subseteq 1 .. Len(log)
            /\ \A e \in 1 .. Len(log) :
                 log[e].time \in Int /\ log[e].prev \in Nat
  <1> SUFFICES ASSUME TypeOK
               PROVE  /\ Len(log) \in Nat
                      /\ Trail \subseteq 1 .. Len(log)
                      /\ \A e \in 1 .. Len(log) : log[e].time \in Int /\ log[e].prev \in Nat
    OBVIOUS
  <1>1. Len(log) \in Nat
    BY DEF TypeOK
  <1>2. Trail \subseteq 1 .. Len(log)
    BY DEF TypeOK, Trail, Committed, Pending
  <1>3. ASSUME NEW e \in 1 .. Len(log) PROVE log[e].time \in Int /\ log[e].prev \in Nat
    <2>1. log[e] \in Entry
      BY DEF TypeOK
    <2>2. log[e].time \in Int /\ log[e].prev \in Event \cup {Genesis}
      BY <2>1 DEF Entry
    <2> QED
      BY <2>2 DEF Event, Genesis
  <1> QED
    BY <1>1, <1>2, <1>3

\* A clock that was set back for some events was set back for more of them.
LEMMA SetBackMore ==
  ASSUME NEW S, NEW T, S \subseteq T
  PROVE  SetBack(S) => SetBack(T)
  BY DEF SetBack

\* What is in the order of writing is in the order by time.
LEMMA BeforeIsLess ==
  ASSUME TypeOK, NEW S \in SUBSET (1 .. Len(log)), Sorted(S), NEW d \in S, NEW e \in S
  PROVE  Before(d, e) <=> d < e
  <1>1. log[d].time \in Int /\ log[e].time \in Int /\ d \in Int /\ e \in Int
    BY TrailTyped DEF TypeOK
  <1> QED
    BY <1>1 DEF Sorted, Before

\* The latest event is the one written last.
LEMMA LatestIsLast ==
  ASSUME TypeOK, NEW S \in SUBSET (1 .. Len(log)), Sorted(S), NEW e, Latest(e, S)
  PROVE  \A d \in S : d <= e
  BY BeforeIsLess DEF Latest

\* Chained events link up, from the checkpoint on, if no overtaken job has written it.
LEMMA ChainLinks ==
  ASSUME TypeOK, NEW S \in SUBSET (1 .. Len(log)), Sorted(S), Chained(S), overtaken # "last"
  PROVE  Linked(S, checkpoint)
  <1>1. \A c, d \in S : Before(c, d) <=> c < d
    BY BeforeIsLess
  <1> SUFFICES ASSUME NEW e \in S
               PROVE  \/ log[e].prev = checkpoint /\ \A d \in S : ~Before(d, e)
                      \/ \E d \in S : log[e].prev = d /\ Follows(d, e, S)
    BY DEF Linked
  <1>2. CASE log[e].prev \in S /\ JustBefore(log[e].prev, e, S)
    <2>1. Follows(log[e].prev, e, S)
      BY <1>1, <1>2 DEF Follows, JustBefore
    <2> QED
      BY <1>2, <2>1
  <1>3. CASE (\A d \in S : ~(d < e)) /\ log[e].prev = checkpoint
    BY <1>1, <1>3
  <1> QED
    BY <1>2, <1>3 DEF Chained

\* The table links up unless something explains that it does not.
LEMMA InvVerifies == TypeOK /\ ChainInv => UnlinkedExplained
  <1> SUFFICES ASSUME TypeOK, ChainInv, ~SetBack(Committed), overtaken # "last"
               PROVE  Linked(live, checkpoint)
    BY DEF UnlinkedExplained
  <1>1. live \in SUBSET (1 .. Len(log))
    BY DEF TypeOK
  <1>2. Sorted(live) /\ Chained(live)
    BY DEF ChainInv, RowsOK
  <1> QED
    BY <1>1, <1>2, ChainLinks

\* Two events just after the same one would lie between each other.
LEMMA InvForksNot == TypeOK /\ ChainInv => ForksExplained
  <1> SUFFICES ASSUME TypeOK, ChainInv, ~SetBack(Committed), overtaken = "never",
                      NEW d \in Committed, NEW e \in Committed, log[d].prev = log[e].prev
               PROVE  d = e
    BY DEF ForksExplained
  <1>1. JustBefore(log[d].prev, d, Committed) /\ JustBefore(log[e].prev, e, Committed)
    BY DEF ChainInv, RowsOK, OneChain
  <1>2. d \in Nat /\ e \in Nat
    BY TrailTyped DEF Trail
  <1> QED
    BY <1>1, <1>2 DEF JustBefore

\* The empty trail is a chain.
LEMMA InvInit == Init => ChainInv
  <1> SUFFICES ASSUME Init PROVE ChainInv
    OBVIOUS
  <1>1. Pending = {} /\ Trail = {} /\ Committed = {} /\ Archived = {} /\ live = {}
    BY DEF Init, Trail, Pending, Committed, Archived
  <1>2. Records
    BY <1>1 DEF Init, Records, OneAppender, PendingLast
  <1>3. RowsOK(live, Committed) /\ RowsOK(live \cup Pending, Trail)
    BY <1>1 DEF RowsOK, Sorted, Chained, OneChain
  <1>4. ArchiveOK
    BY <1>1 DEF Init, ArchiveOK, BatchOK, Sorted
  <1> QED
    BY <1>2, <1>3, <1>4 DEF ChainInv

-----------------------------------------------------------------------------
(* What a step leaves of the rows *)

\* The rows of the table after a step, and those about to join it.
LEMMA RowsAre ==
  ASSUME NEW S, NEW T, live' = S, Committed' = T, RowsOK(S, T)'
  PROVE  RowsOK(live, Committed)'
  BY DEF RowsOK, SetBack, Sorted, Chained, OneChain, JustBefore

LEMMA TrailIs ==
  ASSUME NEW S, NEW T, (live \cup Pending)' = S, Trail' = T, RowsOK(S, T)'
  PROVE  RowsOK(live \cup Pending, Trail)'
  BY DEF RowsOK, SetBack, Sorted, Chained, OneChain, JustBefore

\* The log grows, and what it says of the events that are there already stays.
Grows ==
  \A e \in 1 .. Len(log) : log[e].prev < e /\ log'[e] = log[e]

\* Events keep their order, their links and their clocks.
LEMMA SetBackSame ==
  ASSUME TypeOK, Grows, NEW T \in SUBSET (1 .. Len(log))
  PROVE  SetBack(T)' <=> SetBack(T)
  <1>1. ASSUME NEW e \in T PROVE log'[e] = log[e] /\ (log[e].prev # Genesis => log'[log[e].prev] = log[log[e].prev])
    <2>1. log[e].prev # Genesis => log[e].prev \in 1 .. Len(log)
      BY TrailTyped DEF Grows, Genesis
    <2> QED
      BY <2>1 DEF Grows
  <1> QED
    BY <1>1 DEF SetBack

LEMMA SortedSame ==
  ASSUME Grows, NEW S \in SUBSET (1 .. Len(log)), Sorted(S)
  PROVE  Sorted(S)'
  <1>1. \A e \in S : log'[e] = log[e]
    BY DEF Grows
  <1> QED
    BY <1>1 DEF Sorted

LEMMA ChainedSame ==
  ASSUME Grows, NEW S \in SUBSET (1 .. Len(log)), Chained(S), UNCHANGED <<checkpoint, overtaken>>
  PROVE  Chained(S)'
  <1>1. \A e \in S : log'[e] = log[e]
    BY DEF Grows
  <1> QED
    BY <1>1 DEF Chained, JustBefore

LEMMA OneChainSame ==
  ASSUME Grows, NEW T \in SUBSET (1 .. Len(log)), OneChain(T)
  PROVE  OneChain(T)'
  <1>1. \A e \in T : log'[e] = log[e]
    BY DEF Grows
  <1> QED
    BY <1>1 DEF OneChain, JustBefore

LEMMA RowsSame ==
  ASSUME TypeOK, Grows, NEW S \in SUBSET (1 .. Len(log)), NEW T \in SUBSET (1 .. Len(log)),
         RowsOK(S, T), UNCHANGED <<checkpoint, overtaken>>
  PROVE  RowsOK(S, T)'
  <1> SUFFICES ASSUME ~SetBack(T)' PROVE (Sorted(S) /\ Chained(S) /\ (overtaken = "never" => OneChain(T)))'
    BY DEF RowsOK
  <1>1. Sorted(S) /\ Chained(S) /\ (overtaken = "never" => OneChain(T))
    BY SetBackSame DEF RowsOK
  <1> QED
    BY <1>1, SortedSame, ChainedSame, OneChainSame

LEMMA BatchesSame ==
  ASSUME TypeOK, Grows, NEW w \in Workers, BatchOK(batch[w]), UNCHANGED <<batch, live>>
  PROVE  BatchOK(batch[w])'
  <1>1. PICK B : B = batch[w]
    OBVIOUS
  <1>2. B \in SUBSET (1 .. Len(log)) /\ Sorted(B)
    BY <1>1 DEF TypeOK, BatchOK
  <1>3. Sorted(B)'
    BY <1>2, SortedSame
  <1>4. Sorted(batch[w])'
    BY <1>1, <1>3 DEF Sorted
  <1> QED
    BY <1>4 DEF BatchOK

\* A log that does not change grows by nothing.
LEMMA GrowsNot ==
  ASSUME ChainInv, UNCHANGED log
  PROVE  Grows
  BY DEF ChainInv, Records, Grows

-----------------------------------------------------------------------------
(* append_audit *)

\* An event behind the latest one of a sorted and chained table joins it.
LEMMA RowsExtended ==
  ASSUME TypeOK, Grows, NEW S \in SUBSET (1 .. Len(log)), NEW T \in SUBSET (1 .. Len(log)),
         NEW n, NEW p \in Nat, n = Len(log) + 1, p < n,
         log'[n].prev = p, log'[n].time \in Int, UNCHANGED <<checkpoint, overtaken>>,
         RowsOK(S, T), S \subseteq T,
         Latest(p, S) \/ (S = {} /\ p = checkpoint),
         ~SetBack(T) /\ overtaken = "never" => p \in T \cup {Genesis} /\ \A c \in T \ S : ~(p < c)
  PROVE  RowsOK(S \cup {n}, T \cup {n})'
  <1>0. n \in Nat /\ n \notin S /\ \A e \in T : e \in Nat /\ e < n
    BY DEF TypeOK
  <1> SUFFICES ASSUME ~SetBack(T \cup {n})'
               PROVE  /\ Sorted(S \cup {n})' /\ Chained(S \cup {n})'
                      /\ (overtaken = "never" => OneChain(T \cup {n}))'
    BY DEF RowsOK
  <1>1. ~SetBack(T)'
    BY DEF SetBack
  <1>2. ~SetBack(T)
    BY <1>1, SetBackSame
  <1>3. Sorted(S) /\ Chained(S) /\ (overtaken = "never" => OneChain(T))
    BY <1>2 DEF RowsOK
  <1>4. Sorted(S)' /\ Chained(S)' /\ (overtaken = "never" => OneChain(T)')
    BY <1>3, SortedSame, ChainedSame, OneChainSame
  <1>5. \A d \in S : d = p \/ d < p
    BY <1>0, <1>3, LatestIsLast
  <1>6. S # {} => p \in S /\ p # Genesis
    <2>1. ASSUME S # {} PROVE p \in S
      BY <2>1 DEF Latest
    <2>2. \A e \in S : e # Genesis
      BY DEF Genesis
    <2> QED
      BY <2>1, <2>2
  <1>7. \A d \in S : log'[d].time < log'[n].time
    <2> SUFFICES ASSUME NEW d \in S PROVE log'[d].time < log'[n].time
      OBVIOUS
    <2>1. log'[d].time \in Int /\ log'[p].time \in Int
      BY <1>6, TrailTyped DEF Grows
    <2>2. log'[p].time < log'[n].time
      BY <1>6 DEF SetBack
    <2>3. d = p \/ log'[d].time < log'[p].time
      BY <1>4, <1>5, <1>6 DEF Sorted
    <2> QED
      BY <2>1, <2>2, <2>3
  <1>8. Sorted(S \cup {n})'
    BY <1>0, <1>4, <1>7 DEF Sorted
  <1>9. Chained(S \cup {n})'
    <2> SUFFICES ASSUME NEW e \in S \cup {n}
                 PROVE  \/ log'[e].prev \in S \cup {n} /\ JustBefore(log'[e].prev, e, S \cup {n})
                        \/ /\ \A d \in S \cup {n} : ~(d < e)
                           /\ overtaken' = "last" \/ log'[e].prev = checkpoint'
      BY DEF Chained, JustBefore
    <2>1. CASE e \in S
      <3>1. \/ log'[e].prev \in S /\ JustBefore(log'[e].prev, e, S)
            \/ (\A d \in S : ~(d < e)) /\ (overtaken' = "last" \/ log'[e].prev = checkpoint')
        BY <1>4, <2>1 DEF Chained, JustBefore
      <3> QED
        BY <1>0, <2>1, <3>1 DEF JustBefore
    <2>2. CASE e = n /\ S # {}
      BY <1>0, <1>5, <1>6, <2>2 DEF JustBefore
    <2>3. CASE e = n /\ S = {}
      BY <1>0, <1>6, <2>3 DEF Latest
    <2> QED
      BY <2>1, <2>2, <2>3
  <1>10. ASSUME overtaken = "never" PROVE OneChain(T \cup {n})'
    <2> SUFFICES ASSUME NEW e \in T \cup {n} PROVE JustBefore(log'[e].prev, e, T \cup {n})
      BY DEF OneChain, JustBefore
    <2>1. CASE e \in T
      <3>1. JustBefore(log'[e].prev, e, T)
        BY <1>4, <1>10, <2>1 DEF OneChain, JustBefore
      <3> QED
        BY <1>0, <2>1, <3>1 DEF JustBefore
    <2>2. CASE e = n
      <3>1. p \in T \cup {Genesis} /\ \A c \in T : ~(p < c)
        BY <1>0, <1>2, <1>5, <1>10
      <3> QED
        BY <1>0, <2>2, <3>1 DEF JustBefore
    <2> QED
      BY <2>1, <2>2
  <1> QED
    BY <1>8, <1>9, <1>10

\* append_audit, under the lock: the new event follows everything that is in the table.
LEMMA AppendInv ==
  ASSUME TypeOK, ChainInv, NEW a \in Appenders, AppendEvent(a)
  PROVE  ChainInv'
  <1>1. PICK t \in (Len(log) + 1 - Skew) .. (Len(log) + 1 + Skew), p \in Event \cup {Genesis} :
             /\ \A e \in open[a] : log[e].time < t
             /\ Previous(p, live \cup open[a])
             /\ log' = Append(log, [time |-> t, prev |-> p])
    BY DEF AppendEvent, WriteEvent
  <1>2. PICK n : n = Len(log) + 1
    OBVIOUS
  <1>3. /\ Len(log') = n
        /\ \A e \in 1 .. Len(log) : log'[e] = log[e]
        /\ log'[n].time = t /\ log'[n].prev = p
        /\ t \in Int
    BY <1>1, <1>2, AuditAssumption DEF TypeOK
  <1>4. /\ open' = [open EXCEPT ![a] = @ \cup {n}]
        /\ UNCHANGED <<live, checkpoint, stored, batch, overtaken>>
    BY <1>2 DEF AppendEvent, workerVars, historyVars
  <1>5. \A b \in Appenders \ {a} : open[b] = {}
    BY DEF AppendEvent, LockFree
  <1>6. Pending = open[a]
    BY <1>5 DEF Pending
  <1>7. open'[a] = open[a] \cup {n} /\ \A b \in Appenders \ {a} : open'[b] = {}
    BY <1>4, <1>5 DEF TypeOK
  <1>8. Pending' = Pending \cup {n}
    BY <1>6, <1>7 DEF Pending
  <1>9. UNCHANGED <<Committed, Archived>>
    BY <1>4 DEF Committed, Archived
  <1>10. PICK L, C, S, T : L = live /\ C = Committed /\ S = live \cup Pending /\ T = Trail
    OBVIOUS
  <1>11. (live \cup Pending)' = S \cup {n} /\ Trail' = T \cup {n}
    BY <1>4, <1>8, <1>9, <1>10 DEF Trail
  <1>12. /\ Len(log) \in Nat
         /\ T \in SUBSET (1 .. Len(log)) /\ S \subseteq T /\ C \subseteq T /\ L \subseteq C
         /\ Archived \subseteq C /\ T = S \cup Archived
    BY <1>10, TrailTyped DEF Trail, Committed, Archived
  <1>13. Records
    BY DEF ChainInv
  <1>14. p \in Nat /\ p < n
    <2>1. p \in T \cup {checkpoint}
      BY <1>1, <1>6, <1>10, <1>12 DEF Previous, Latest
    <2>2. checkpoint \in Nat /\ checkpoint < n
      BY <1>2, <1>12 DEF TypeOK, Genesis
    <2> QED
      BY <1>2, <1>12, <2>1, <2>2
  <1>15. Grows
    BY <1>3, <1>13 DEF Records, Grows
  <1>16. Records'
    <2>1. OneAppender'
      BY <1>7 DEF OneAppender
    <2>2. PendingLast'
      <3>1. \A d \in Committed : d < n
        BY <1>2, <1>10, <1>12
      <3> QED
        BY <1>7, <1>9, <1>13, <3>1 DEF PendingLast, Records
    <2>3. \A e \in 1 .. Len(log') : log'[e].prev < e
      <3> SUFFICES ASSUME NEW e \in 1 .. Len(log') PROVE log'[e].prev < e
        OBVIOUS
      <3>1. e = n \/ e \in 1 .. Len(log)
        BY <1>2, <1>3, <1>12
      <3> QED
        BY <1>3, <1>14, <1>15, <3>1 DEF Grows
    <2> QED
      BY <1>4, <1>9, <1>13, <2>1, <2>2, <2>3 DEF Records
  <1>17. RowsOK(live, Committed)'
    <2>1. RowsOK(L, C)
      BY <1>10 DEF ChainInv
    <2>2. RowsOK(L, C)'
      BY <1>4, <1>12, <1>15, <2>1, RowsSame
    <2> QED
      BY <1>4, <1>9, <1>10, <2>2, RowsAre
  <1>18. RowsOK(live \cup Pending, Trail)'
    <2>1. RowsOK(S, T)
      BY <1>10 DEF ChainInv
    <2>2. Latest(p, S) \/ (S = {} /\ p = checkpoint)
      BY <1>1, <1>6, <1>10 DEF Previous
    <2>3. ASSUME ~SetBack(T), overtaken = "never"
          PROVE  p \in T \cup {Genesis} /\ \A c \in T \ S : ~(p < c)
      <3>1. ~SetBack(Committed)
        BY <1>10, <1>12, <2>3, SetBackMore
      <3>2. /\ \A d \in Archived, e \in live : d < e
            /\ \A d \in Archived : d <= checkpoint
        BY <2>3, <3>1 DEF ChainInv, ArchiveOK
      <3>3. \A d \in Archived, e \in Pending : d < e
        BY <1>6, <1>10, <1>12, <1>13 DEF Records, PendingLast
      <3>4. \A d \in Archived : d \in Nat
        BY <1>12
      <3>5. CASE Latest(p, S)
        BY <1>10, <1>12, <1>14, <3>2, <3>3, <3>4, <3>5 DEF Latest
      <3>6. CASE p = checkpoint
        BY <1>10, <1>12, <1>13, <1>14, <3>2, <3>4, <3>6 DEF Records
      <3> QED
        BY <2>2, <3>5, <3>6
    <2>4. S \in SUBSET (1 .. Len(log)) /\ log'[n].time \in Int
      BY <1>3, <1>12
    <2>5. RowsOK(S \cup {n}, T \cup {n})'
      BY <1>2, <1>3, <1>4, <1>12, <1>14, <1>15, <2>1, <2>2, <2>3, <2>4, RowsExtended
    <2> QED
      BY <1>11, <2>5, TrailIs
  <1>19. ArchiveOK'
    <2>1. SetBack(Committed) => SetBack(Committed)'
      <3>1. SetBack(C)' <=> SetBack(C)
        BY <1>12, <1>15, SetBackSame
      <3>2. Committed = C /\ Committed' = C
        BY <1>9, <1>10
      <3> QED
        BY <3>1, <3>2 DEF SetBack
    <2>2. \A w \in Workers : BatchOK(batch[w]) => BatchOK(batch[w])'
      BY <1>4, <1>15, BatchesSame
    <2> QED
      BY <1>4, <1>9, <2>1, <2>2 DEF ArchiveOK, ChainInv
  <1> QED
    BY <1>16, <1>17, <1>18, <1>19 DEF ChainInv

-----------------------------------------------------------------------------
(* The end of a transaction *)

\* Its events join the table, or the end of the trail disappears.
LEMMA EndInv ==
  ASSUME TypeOK, ChainInv, NEW a \in Appenders, Commit(a) \/ Rollback(a)
  PROVE  ChainInv'
  <1>1. /\ open' = [open EXCEPT ![a] = {}]
        /\ live' = live \/ live' = live \cup open[a]
        /\ UNCHANGED <<log, checkpoint, stored, batch, overtaken>>
        /\ open[a] # {}
    BY DEF Commit, Rollback, workerVars, historyVars
  <1>2. \A b \in Appenders : open'[b] = {}
    BY <1>1 DEF ChainInv, Records, OneAppender, TypeOK
  <1>3. Pending = open[a] /\ Pending' = {}
    BY <1>1, <1>2 DEF ChainInv, Records, OneAppender, Pending
  <1>4. \A e \in open[a], d \in Committed : d < e
    BY DEF ChainInv, Records, PendingLast
  <1>5. Committed \subseteq Nat /\ open[a] \subseteq Nat /\ Grows
    BY <1>1, GrowsNot DEF TypeOK, Committed
  <1>6. /\ Archived' = Archived
        /\ Committed' = Committed \/ Committed' = Committed \cup open[a]
        /\ \A e \in live' : e \in live \/ e \in open[a]
        /\ live \subseteq live'
        /\ open[a] \cap Committed = {}
    BY <1>1, <1>4, <1>5 DEF Archived, Committed
  <1>7. Records'
    BY <1>1, <1>2, <1>6 DEF ChainInv, Records, OneAppender, PendingLast
  <1>8. PICK S, T : /\ S = live' /\ T = Committed'
                    /\ RowsOK(S, T)
                    /\ S \in SUBSET (1 .. Len(log)) /\ T \in SUBSET (1 .. Len(log))
    <2>1. CASE live' = live
      <3>1. Committed' = Committed
        BY <1>1, <2>1 DEF Committed
      <3> QED
        BY <2>1, <3>1 DEF ChainInv, TypeOK, Committed
    <2>2. CASE live' = live \cup open[a]
      <3>1. Committed' = Trail /\ live' = live \cup Pending
        BY <1>1, <1>3, <2>2 DEF Committed, Trail
      <3> QED
        BY <3>1, TrailTyped DEF ChainInv, Trail, Committed
    <2> QED
      BY <1>1, <2>1, <2>2
  <1>9. RowsOK(S, T)'
    BY <1>1, <1>5, <1>8, RowsSame
  <1>10. RowsOK(live, Committed)'
    BY <1>8, <1>9, RowsAre
  <1>11. RowsOK(live \cup Pending, Trail)'
    <2>1. (live \cup Pending)' = S /\ Trail' = T
      BY <1>3, <1>8 DEF Trail
    <2> QED
      BY <1>9, <2>1, TrailIs
  <1>12. ArchiveOK'
    <2> SUFFICES ASSUME ~SetBack(Committed)'
                 PROVE  /\ \A d \in Archived, e \in live' : d < e
                        /\ \A w \in Workers : BatchOK(batch[w])'
                        /\ overtaken = "never" => \A d \in Archived : d <= checkpoint
      BY <1>1, <1>6 DEF ArchiveOK
    <2>1. ~SetBack(Committed)
      BY <1>1, <1>6 DEF SetBack
    <2>2. /\ \A d \in Archived, e \in live : d < e
          /\ \A w \in Workers : BatchOK(batch[w])
          /\ overtaken = "never" => \A d \in Archived : d <= checkpoint
      BY <2>1 DEF ChainInv, ArchiveOK
    <2>3. \A d \in Archived, e \in live' : d < e
      BY <1>4, <1>6, <2>2 DEF Archived, Committed
    <2>4. ASSUME NEW w \in Workers PROVE BatchOK(batch[w])'
      <3>1. \A e \in batch[w] : e \in Committed
        BY DEF ChainInv, Records
      <3>2. ASSUME NEW e \in batch[w], NEW d \in open[a] PROVE ~(d < e) /\ e # d
        <4>1. e \in Committed /\ e < d
          BY <1>4, <3>1
        <4>2. e \in Nat /\ d \in Nat
          BY <1>5, <4>1
        <4> QED
          BY <4>1, <4>2
      <3>3. Sorted(batch[w])'
        BY <1>1, <2>2 DEF BatchOK, Sorted
      <3>4. \A e \in batch[w] : e \in live' => e \in live
        BY <1>6, <3>2
      <3> QED
        BY <1>1, <1>6, <2>2, <3>2, <3>3, <3>4 DEF BatchOK
    <2> QED
      BY <2>2, <2>3, <2>4
  <1> QED
    BY <1>7, <1>10, <1>11, <1>12 DEF ChainInv

-----------------------------------------------------------------------------
(* archive_audit *)

\* What does not touch events, table and archive, nor the batches but to drop them.
LEMMA QuietInv ==
  ASSUME TypeOK, ChainInv,
         UNCHANGED <<log, open, live, checkpoint, overtaken>>,
         Committed' = Committed, Archived' = Archived,
         \A w \in Workers : \/ batch'[w] = batch[w]
                            \/ batch'[w] = {}
                            \/ batch'[w] \subseteq Committed /\ (~SetBack(Committed) => BatchOK(batch[w])')
  PROVE  ChainInv'
  <1>1. UNCHANGED <<Pending, Trail>>
    BY DEF Pending, Trail
  <1>2. Records'
    BY DEF ChainInv, Records, OneAppender, PendingLast
  <1>3. RowsOK(live, Committed)' /\ RowsOK(live \cup Pending, Trail)'
    BY <1>1 DEF ChainInv, RowsOK, SetBack, Sorted, Chained, OneChain, JustBefore
  <1>4. SetBack(Committed)' <=> SetBack(Committed)
    BY DEF SetBack
  <1>5. ASSUME NEW w \in Workers, ~SetBack(Committed) PROVE BatchOK(batch[w])'
    <2>1. BatchOK(batch[w])
      BY <1>5 DEF ChainInv, ArchiveOK
    <2>2. CASE batch'[w] = batch[w]
      BY <2>1, <2>2 DEF BatchOK, Sorted
    <2>3. CASE batch'[w] = {}
      BY <2>3 DEF BatchOK, Sorted
    <2> QED
      BY <1>5, <2>2, <2>3
  <1>6. ArchiveOK'
    BY <1>4, <1>5 DEF ChainInv, ArchiveOK
  <1> QED
    BY <1>2, <1>3, <1>6 DEF ChainInv

\* The archive job selects a first part of the table ...
LEMMA ReadInv ==
  ASSUME TypeOK, ChainInv, NEW w \in Workers, ArchiveRead(w)
  PROVE  ChainInv'
  <1>1. PICK B \in SUBSET live :
             EarliestFirst(B) /\ batch' = [batch EXCEPT ![w] = B]
    BY DEF ArchiveRead
  <1>2. UNCHANGED <<log, open, live, checkpoint, stored, overtaken, Committed, Archived>>
    BY DEF ArchiveRead, Committed, Archived, historyVars
  <1>3. batch'[w] = B /\ \A v \in Workers \ {w} : batch'[v] = batch[v]
    BY <1>1 DEF TypeOK
  <1>4. ASSUME ~SetBack(Committed) PROVE BatchOK(batch[w])'
    <2>1. Sorted(live) /\ live \in SUBSET (1 .. Len(log))
      BY <1>4 DEF ChainInv, RowsOK, TypeOK
    <2>2. \A e \in B, d \in live : d < e => d \in B
      BY <1>1, <2>1, BeforeIsLess DEF EarliestFirst
    <2>3. Sorted(B)'
      BY <1>2, <2>1 DEF Sorted
    <2>4. Sorted(batch[w])'
      BY <1>3, <2>3 DEF Sorted
    <2> QED
      BY <1>2, <1>3, <2>2, <2>4 DEF BatchOK
  <1> QED
    BY <1>2, <1>3, <1>4, QuietInv DEF Committed

\* ... uploads it, which adds nothing to what is committed ...
LEMMA UploadInv ==
  ASSUME TypeOK, ChainInv, NEW w \in Workers, Upload(w)
  PROVE  ChainInv'
  <1>1. stored' = stored \cup batch[w] /\ UNCHANGED <<log, open, live, checkpoint, batch, overtaken>>
    BY DEF Upload, historyVars
  <1>2. batch[w] \subseteq live \cup stored
    BY DEF ChainInv, Records, Committed
  <1>3. Committed' = Committed /\ Archived' = Archived
    BY <1>1, <1>2 DEF Committed, Archived
  <1> QED
    BY <1>1, <1>3, QuietInv

\* The rows behind the last one that goes, which is the new checkpoint.
LEMMA RowsCut ==
  ASSUME TypeOK, Grows, NEW S \in SUBSET (1 .. Len(log)), NEW T \in SUBSET (1 .. Len(log)),
         RowsOK(S, T), NEW e \in S, checkpoint' = e,
         overtaken' = "never" => overtaken = "never",
         NEW R, R = {d \in S : e < d}
  PROVE  RowsOK(R, T)'
  <1>0. \A d \in S : d \in Nat
    OBVIOUS
  <1> SUFFICES ASSUME ~SetBack(T)'
               PROVE  /\ Sorted(R)' /\ Chained(R)'
                      /\ (overtaken = "never" => OneChain(T))'
    BY DEF RowsOK
  <1>1. Sorted(S) /\ Chained(S) /\ (overtaken = "never" => OneChain(T))
    BY SetBackSame DEF RowsOK
  <1>2. Sorted(R)' /\ (overtaken' = "never" => OneChain(T)')
    BY <1>1, SortedSame, OneChainSame DEF Sorted
  <1>3. Chained(R)'
    <2> SUFFICES ASSUME NEW f \in R
                 PROVE  \/ log[f].prev \in R /\ JustBefore(log[f].prev, f, R)
                        \/ (\A d \in R : ~(d < f)) /\ log[f].prev = e
      BY DEF Chained, JustBefore, Grows
    <2>1. log[f].prev \in S /\ JustBefore(log[f].prev, f, S)
      BY <1>1 DEF Chained
    <2>2. CASE e < log[f].prev
      BY <2>1, <2>2 DEF JustBefore
    <2>3. CASE log[f].prev = e
      BY <2>1, <2>3 DEF JustBefore
    <2>4. ~(log[f].prev < e)
      BY <2>1 DEF JustBefore
    <2> QED
      BY <1>0, <2>1, <2>2, <2>3, <2>4
  <1> QED
    BY <1>2, <1>3

\* The rows before a checkpoint that an overtaken job has written.
LEMMA RowsOvertaken ==
  ASSUME TypeOK, Grows, NEW S \in SUBSET (1 .. Len(log)), NEW T \in SUBSET (1 .. Len(log)),
         RowsOK(S, T), overtaken' = "last"
  PROVE  RowsOK(S, T)'
  <1> SUFFICES ASSUME ~SetBack(T)' PROVE Sorted(S)' /\ Chained(S)'
    BY DEF RowsOK
  <1>1. Sorted(S) /\ Chained(S)
    BY SetBackSame DEF RowsOK
  <1>2. \A e \in S : log'[e] = log[e]
    BY DEF Grows
  <1> QED
    BY <1>1, <1>2, SortedSame DEF Chained, JustBefore

\* ... and moves the checkpoint behind it, or to where it was before others moved it on.
LEMMA ArchiveInv ==
  ASSUME TypeOK, UploadedFirst, ChainInv, NEW w \in Workers, ArchiveCommit(w)
  PROVE  /\ ChainInv'
         /\ checkpoint' < checkpoint => SetBack(Committed) \/ overtaken' = "last"
  <1>1. PICK e \in batch[w] :
             /\ Latest(e, batch[w])
             /\ checkpoint' = e
             /\ overtaken' = IF Stale(e) THEN "last"
                             ELSE IF e \in live /\ overtaken = "last" THEN "before"
                             ELSE overtaken
    BY DEF ArchiveCommit
  <1>2. /\ live' = live \ batch[w]
        /\ batch' = [batch EXCEPT ![w] = {}]
        /\ UNCHANGED <<log, open, stored>>
        /\ phase[w] = "uploaded"
    BY DEF ArchiveCommit, Deleted
  <1>3. batch[w] \subseteq stored
    BY <1>2 DEF UploadedFirst
  <1>4. /\ UNCHANGED <<Pending, Committed, Trail>> /\ Archived' = Archived \cup batch[w]
        /\ Grows
    BY <1>2, <1>3, GrowsNot DEF Pending, Committed, Trail, Archived
  <1>5. batch'[w] = {} /\ \A v \in Workers \ {w} : batch'[v] = batch[v]
    BY <1>2 DEF TypeOK
  <1>6. Records'
    <2>1. \A v \in Workers : batch'[v] \subseteq Committed
      BY <1>5 DEF ChainInv, Records
    <2> QED
      BY <1>1, <1>2, <1>4, <2>1 DEF ChainInv, Records, OneAppender, PendingLast
  <1>7. PICK S, C, P, T : /\ S = live /\ C = Committed /\ P = live \cup Pending /\ T = Trail
                          /\ S \in SUBSET (1 .. Len(log)) /\ C \in SUBSET (1 .. Len(log))
                          /\ P \in SUBSET (1 .. Len(log)) /\ T \in SUBSET (1 .. Len(log))
                          /\ C \subseteq T
    <2>1. Trail \in SUBSET (1 .. Len(log))
      BY TrailTyped
    <2>2. live \subseteq Committed /\ Committed \subseteq Trail /\ live \cup Pending \subseteq Trail
      BY DEF Trail, Committed
    <2>3. live \in SUBSET (1 .. Len(log)) /\ Committed \in SUBSET (1 .. Len(log))
      BY <2>1, <2>2
    <2>4. live \cup Pending \in SUBSET (1 .. Len(log))
      BY <2>1, <2>2
    <2> QED
      BY <2>1, <2>2, <2>3, <2>4
  <1>8. RowsOK(S, C) /\ RowsOK(P, T)
    BY <1>7 DEF ChainInv
  <1>9. /\ \A d \in Committed, f \in Pending : d < f
        /\ \A d \in Committed \cup Pending : d \in Nat
    BY TrailTyped DEF ChainInv, Records, PendingLast, Pending, Trail, Committed
  <1>10. ~SetBack(Committed)' => ~SetBack(Committed)
    BY <1>2, <1>4 DEF SetBack
  <1>11. CASE SetBack(Committed)
    <2>1. SetBack(Committed)' /\ SetBack(Trail)'
      BY <1>2, <1>4, <1>11 DEF SetBack, Trail
    <2> QED
      BY <1>6, <1>11, <2>1 DEF ChainInv, RowsOK, ArchiveOK
  <1>12. ASSUME ~SetBack(Committed)
         PROVE  /\ \A d \in batch[w] : d <= e
                /\ \A d \in Archived, f \in live : d < f
                /\ \A v \in Workers : BatchOK(batch[v])
                /\ overtaken = "never" => \A d \in Archived : d <= checkpoint
    <2>1. /\ \A d \in Archived, f \in live : d < f
          /\ \A v \in Workers : BatchOK(batch[v])
          /\ overtaken = "never" => \A d \in Archived : d <= checkpoint
      BY <1>12 DEF ChainInv, ArchiveOK
    <2>2. PICK B : B = batch[w] /\ B \in SUBSET (1 .. Len(log)) /\ Sorted(B)
      BY <2>1 DEF TypeOK, BatchOK
    <2>3. \A d \in B : d <= e
      BY <1>1, <2>2, LatestIsLast
    <2> QED
      BY <2>1, <2>2, <2>3
  <1>13. ASSUME ~SetBack(Committed), NEW v \in Workers PROVE BatchOK(batch[v])'
    <2>1. CASE v = w
      BY <1>5, <2>1 DEF BatchOK, Sorted
    <2>2. CASE v # w
      <3>1. BatchOK(batch[v]) /\ BatchOK(batch[w]) /\ batch'[v] = batch[v]
        BY <1>5, <1>12, <1>13, <2>2
      <3>2. Sorted(batch[v])'
        BY <1>2, <3>1 DEF BatchOK, Sorted
      <3>3. \A f \in batch[v], d \in live' : f \in live' /\ d < f => d \in batch[v]
        BY <1>2, <3>1 DEF BatchOK
      <3>4. \A d, f \in batch[v] : d < f /\ d \in live' => f \in live'
        BY <1>2, <3>1 DEF BatchOK
      <3> QED
        BY <3>1, <3>2, <3>3, <3>4 DEF BatchOK
    <2> QED
      BY <2>1, <2>2
  <1>14. CASE ~SetBack(Committed) /\ e \in live
    <2>1. overtaken' = "never" => overtaken = "never"
      BY <1>1, <1>14 DEF Stale
    <2>2. \A d \in live : d \in batch[w] <=> d <= e
      <3>1. \A d \in live : d < e => d \in batch[w]
        BY <1>1, <1>12, <1>14 DEF BatchOK
      <3>2. \A d \in live : d <= e => d < e \/ d = e
        BY <1>7, <1>14
      <3> QED
        BY <1>1, <1>12, <1>14, <3>1, <3>2
    <2>3. live' = {d \in S : e < d}
      BY <1>2, <1>7, <1>14, <2>2
    <2>4. (live \cup Pending)' = {d \in P : e < d}
      BY <1>4, <1>7, <1>9, <1>14, <2>3 DEF Committed
    <2>5. e \in S /\ e \in P
      BY <1>7, <1>14
    <2>6. PICK R, Q : R = {d \in S : e < d} /\ Q = {d \in P : e < d}
      OBVIOUS
    <2>7. RowsOK(R, C)' /\ RowsOK(Q, T)'
      BY <1>1, <1>4, <1>7, <1>8, <2>1, <2>5, <2>6, RowsCut
    <2>8. RowsOK(live, Committed)'
      BY <1>4, <1>7, <2>3, <2>6, <2>7, RowsAre
    <2>9. RowsOK(live \cup Pending, Trail)'
      BY <1>4, <1>7, <2>4, <2>6, <2>7, TrailIs
    <2>10. ArchiveOK'
      <3>1. \A d \in Archived, f \in live' : d < f
        BY <1>2, <1>12, <1>14
      <3>2. \A d \in batch[w], f \in live' : d < f
        BY <1>3, <1>7, <1>9, <1>12, <1>14, <2>3 DEF Committed
      <3>3. overtaken' = "never" => \A d \in Archived \cup batch[w] : d <= e
        BY <1>7, <1>9, <1>12, <1>14 DEF Archived, Committed
      <3> QED
        BY <1>1, <1>4, <1>13, <1>14, <3>1, <3>2, <3>3 DEF ArchiveOK
    <2>11. ~(checkpoint' < checkpoint)
      <3>1. checkpoint \in Archived \cup {Genesis} /\ e \in Nat
        BY <1>7, <1>14 DEF ChainInv, Records
      <3>2. checkpoint \in Archived => checkpoint < e /\ checkpoint \in Nat
        BY <1>9, <1>12, <1>14 DEF Archived, Committed
      <3> QED
        BY <1>1, <3>1, <3>2 DEF Genesis
    <2> QED
      BY <1>6, <2>8, <2>9, <2>10, <2>11 DEF ChainInv
  <1>15. CASE ~SetBack(Committed) /\ e \notin live
    <2>1. live' = live /\ Archived' = Archived
      <3>1. \A d \in batch[w] : d = e \/ d < e
        BY <1>3, <1>9, <1>12, <1>15 DEF Committed
      <3>2. \A d \in batch[w] : d \notin live
        BY <1>1, <1>12, <1>15, <3>1 DEF BatchOK
      <3> QED
        BY <1>2, <1>3, <1>4, <3>2 DEF Archived
    <2>2. overtaken' = "last" \/ UNCHANGED <<checkpoint, overtaken>>
      BY <1>1, <1>15 DEF Stale
    <2>3. RowsOK(S, C)' /\ RowsOK(P, T)'
      BY <1>4, <1>7, <1>8, <2>2, RowsSame, RowsOvertaken
    <2>4. RowsOK(live, Committed)'
      BY <1>4, <1>7, <2>1, <2>3, RowsAre
    <2>5. RowsOK(live \cup Pending, Trail)'
      BY <1>4, <1>7, <2>1, <2>3, TrailIs
    <2>6. ArchiveOK'
      BY <1>12, <1>13, <1>15, <2>1, <2>2 DEF ArchiveOK
    <2>7. checkpoint' < checkpoint => overtaken' = "last"
      <3>1. checkpoint \in Int
        BY DEF TypeOK, Genesis
      <3> QED
        BY <2>2, <3>1
    <2> QED
      BY <1>6, <2>4, <2>5, <2>6, <2>7 DEF ChainInv
  <1> QED
    BY <1>11, <1>14, <1>15

-----------------------------------------------------------------------------
(* The whole *)

\* What a step may do to the checkpoint.
MovesOn == checkpoint' < checkpoint => SetBack(Committed) \/ overtaken' = "last"

\* Every step keeps the chain, and explains where it moves the checkpoint.
LEMMA StepChain ==
  ASSUME TypeOK, UploadedFirst, ChainInv, [Next]_vars
  PROVE  ChainInv' /\ MovesOn
  <1>0. checkpoint' = checkpoint => MovesOn
    <2>1. checkpoint \in Int
      BY DEF TypeOK, Genesis
    <2> QED
      BY <2>1 DEF MovesOn
  <1>1. ASSUME NEW a \in Appenders, AppendEvent(a) PROVE ChainInv' /\ checkpoint' = checkpoint
    BY <1>1, AppendInv DEF AppendEvent
  <1>2. ASSUME NEW a \in Appenders, Commit(a) \/ Rollback(a)
        PROVE  ChainInv' /\ checkpoint' = checkpoint
    BY <1>2, EndInv DEF Commit, Rollback
  <1>3. ASSUME NEW w \in Workers, ArchiveRead(w) PROVE ChainInv' /\ checkpoint' = checkpoint
    BY <1>3, ReadInv DEF ArchiveRead
  <1>4. ASSUME NEW w \in Workers, Upload(w) PROVE ChainInv' /\ checkpoint' = checkpoint
    BY <1>4, UploadInv DEF Upload
  <1>5. ASSUME NEW w \in Workers, ArchiveCommit(w) PROVE ChainInv' /\ MovesOn
    BY <1>5, ArchiveInv DEF MovesOn
  <1>6. ASSUME NEW w \in Workers, WorkerCrash(w) PROVE ChainInv' /\ checkpoint' = checkpoint
    <2>1. UNCHANGED <<log, open, live, checkpoint, overtaken, Committed, Archived>>
      BY <1>6 DEF WorkerCrash, historyVars, Committed, Archived
    <2>2. \A v \in Workers : batch'[v] = batch[v] \/ batch'[v] = {}
      BY <1>6 DEF WorkerCrash, TypeOK
    <2> QED
      BY <2>1, <2>2, QuietInv
  <1>7. CASE VerifyRead \/ VerifyAnswer \/ UNCHANGED vars
    <2>1. UNCHANGED <<log, open, live, checkpoint, stored, batch, overtaken>>
      BY <1>7 DEF VerifyRead, VerifyAnswer, vars, workerVars, historyVars
    <2>2. UNCHANGED <<Committed, Archived>>
      BY <2>1 DEF Committed, Archived
    <2>3. ChainInv'
      BY <2>1, <2>2, QuietInv
    <2> QED
      BY <2>1, <2>3, <1>0
  <1> QED
    BY <1>0, <1>1, <1>2, <1>3, <1>4, <1>5, <1>6, <1>7 DEF Next

\* A clock that was set back stays so: nothing that is committed is forgotten.
LEMMA SetBackStays ==
  ASSUME TypeOK, UploadedFirst, ChainInv, [Next]_vars, SetBack(Committed)
  PROVE  SetBack(Committed)'
  <1>1. Committed \subseteq Committed'
    BY DEF Next, UploadedFirst, TypeOK, AppendEvent, Commit, Rollback, ArchiveRead, Upload,
           ArchiveCommit, Deleted, WorkerCrash, VerifyRead, VerifyAnswer, vars, Committed,
           workerVars
  <1>2. Grows
    <2>1. log' = log \/ \E a \in Appenders : AppendEvent(a)
      BY DEF Next, Commit, Rollback, ArchiveRead, Upload, ArchiveCommit, WorkerCrash,
             VerifyRead, VerifyAnswer, vars
    <2> QED
      BY <2>1, AppendKeeps DEF Grows, ChainInv, Records
  <1>3. PICK C : C = Committed /\ C \in SUBSET (1 .. Len(log))
    BY DEF Committed, TypeOK
  <1>4. SetBack(C)'
    BY <1>2, <1>3, SetBackSame
  <1> QED
    BY <1>1, <1>3, <1>4 DEF SetBack

\* What a verification has read still links to the checkpoint, unless an archive run has
\* committed, or it did not link up in the first place.
VerifyInv ==
  /\ answer = "reading" /\ ~moved /\ ~SetBack(Committed) /\ overtaken # "last" =>
       Linked(snapshot, checkpoint)
  /\ FalseAlarmsExplained

\* What a verification has read links to the checkpoint until an archive run commits.
LEMMA StepVerify ==
  ASSUME TypeOK, UploadedFirst, ChainInv, VerifyInv, [Next]_vars
  PROVE  VerifyInv'
  <1> USE DEF VerifyInv, FalseAlarmsExplained
  <1>0. SetBack(Committed) => SetBack(Committed)'
    BY SetBackStays
  <1>1. ASSUME NEW a \in Appenders, AppendEvent(a) PROVE VerifyInv'
    <2>1. \A e \in snapshot : log'[e] = log[e]
      BY <1>1, AppendKeeps DEF TypeOK
    <2>2. UNCHANGED <<checkpoint, answer, snapshot, moved, overtaken>>
      BY <1>1 DEF AppendEvent, verifyVars, historyVars
    <2>3. Linked(snapshot, checkpoint) => Linked(snapshot, checkpoint)'
      BY <2>1, <2>2 DEF Linked, Follows, Before
    <2> QED
      BY <1>0, <2>2, <2>3
  <1>2. ASSUME NEW w \in Workers, ArchiveCommit(w) PROVE VerifyInv'
    BY <1>2 DEF ArchiveCommit
  <1>3. CASE VerifyRead
    <2>1. ~SetBack(Committed) /\ overtaken # "last" => Linked(live, checkpoint)
      BY InvVerifies DEF UnlinkedExplained
    <2>2. Linked(live, checkpoint) => Linked(snapshot, checkpoint)'
      BY <1>3 DEF VerifyRead, Linked, Follows, Before
    <2>3. answer' = "reading" /\ overtaken' = overtaken
      BY <1>3 DEF VerifyRead
    <2> QED
      BY <1>0, <2>1, <2>2, <2>3
  <1>4. CASE VerifyAnswer
    BY <1>0, <1>4 DEF VerifyAnswer, historyVars
  <1>5. CASE UNCHANGED <<log, checkpoint, answer, snapshot, moved, overtaken>>
    <2>1. Linked(snapshot, checkpoint) => Linked(snapshot, checkpoint)'
      BY <1>5 DEF Linked, Follows, Before
    <2> QED
      BY <1>0, <1>5, <2>1
  <1>6. ASSUME NEW a \in Appenders, Commit(a) \/ Rollback(a) PROVE VerifyInv'
    BY <1>5, <1>6 DEF Commit, Rollback, verifyVars, historyVars
  <1>7. ASSUME NEW w \in Workers, ArchiveRead(w) \/ Upload(w) \/ WorkerCrash(w)
        PROVE  VerifyInv'
    BY <1>5, <1>7 DEF ArchiveRead, Upload, WorkerCrash, verifyVars, historyVars
  <1>8. CASE UNCHANGED vars
    BY <1>5, <1>8 DEF vars, verifyVars
  <1> QED
    BY <1>1, <1>2, <1>3, <1>4, <1>6, <1>7, <1>8 DEF Next

Sound == TypeOK /\ UploadedFirst /\ ChainInv

\* The whole invariant.
LEMMA AlwaysSound == Spec => []Sound
  <1>1. Init => Sound
    BY InitTyped, InvInit DEF Sound, Init, UploadedFirst
  <1>2. Sound /\ [Next]_vars => Sound'
    BY StepTyped, StepUploaded, StepChain DEF Sound
  <1> QED
    BY <1>1, <1>2, PTL DEF Spec

\* What is in the table verifies from the checkpoint, for any number of appending
\* transactions and archive jobs, any batch size and any cutoff, until a clock is set back
\* or an overtaken archive job writes the checkpoint; the next job that is not overtaken
\* repairs the second.
THEOREM ChainVerifiesUnless == Spec => []UnlinkedExplained
  <1>1. Sound => UnlinkedExplained
    BY InvVerifies DEF Sound
  <1> QED
    BY <1>1, AlwaysSound, PTL

\* Table and blobs together fork only after a clock was set back or an archive job was
\* overtaken.
THEOREM ForksOnlyAfter == Spec => []ForksExplained
  <1>1. Sound => ForksExplained
    BY InvForksNot DEF Sound
  <1> QED
    BY <1>1, AlwaysSound, PTL

\* No archive run moves the checkpoint backwards but an overtaken one, while the clocks
\* are right.
THEOREM CheckpointReturnsOnly == Spec => ReturnsExplained
  <1>1. Sound /\ [Next]_vars => [checkpoint' < checkpoint => SetBack(Committed) \/ overtaken' = "last"]_vars
    BY StepChain DEF Sound, MovesOn
  <1> QED
    BY <1>1, AlwaysSound, PTL DEF Spec, ReturnsExplained

\* A verification of a table that links up answers invalid only if an archive run has
\* committed between its two statements.
THEOREM AlarmsExplained == Spec => []FalseAlarmsExplained
  <1>1. Init => VerifyInv
    BY DEF Init, VerifyInv, FalseAlarmsExplained
  <1>2. Sound /\ VerifyInv /\ [Next]_vars => VerifyInv'
    BY StepVerify DEF Sound
  <1>3. VerifyInv => FalseAlarmsExplained
    BY DEF VerifyInv
  <1> QED
    BY <1>1, <1>2, <1>3, AlwaysSound, PTL DEF Spec
=============================================================================
