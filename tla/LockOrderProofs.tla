--------------------------- MODULE LockOrderProofs ---------------------------
(* Theorems about LockOrder: what a transaction has read under a lock stands until *)
(* it commits; every deadlock has one of three explanations; while transactions run, *)
(* one can go on or stands in a deadlock; and no step takes one back.  All are for any *)
(* numbers of handlers, workers, requests and budgets.                               *)
EXTENDS LockOrder, TLAPS, FiniteSetTheorems, SequenceTheorems, WellFoundedInduction

USE LockAssumption

-----------------------------------------------------------------------------
(* Types *)

Status == {"none", "pending", "authorized", "executing", "final"}
Places == {"idle", "locking", "working", "calling", "ended"}
HandlerOps == {"authorize", "decide", "poll", "claim", "report", "execute", "replay", "continue", "finish"}
Ops == {"none", "expire", "sweep"} \cup HandlerOps

Budget == UNION {{Usage(u) : u \in Charged[r]} : r \in Requests}
RowsOf(r) == {Agent(r), Approval(r), Request(r), Reservations(r)}
Locks == (UNION {RowsOf(r) : r \in Requests}) \cup Budget \cup {Gates, Audit}

Marks == [req : Requests, seen : Status, to : Status, locked : BOOLEAN]

Txn ==
  [op : Ops, at : Places, req : SUBSET Requests, plan : Seq(Locks), held : SUBSET Locks,
   todo : SUBSET Requests, marks : SUBSET Marks]

TypeOK == status \in [Requests -> Status] /\ txn \in [Txns -> Txn]

\* Every row that is locked for a request is a lock, and so are the advisory ones.
LEMMA LocksTyped ==
  /\ Gates \in Locks /\ Audit \in Locks
  /\ \A r \in Requests :
       /\ Agent(r) \in Locks /\ Approval(r) \in Locks /\ Request(r) \in Locks /\ Reservations(r) \in Locks
       /\ \A u \in Charged[r] : Usage(u) \in Locks
  <1>1. ASSUME NEW r \in Requests, NEW u \in Charged[r] PROVE Usage(u) \in Locks
    <2>1. Usage(u) \in {Usage(v) : v \in Charged[r]}
      OBVIOUS
    <2> QED
      BY <2>1 DEF Locks, Budget
  <1>2. ASSUME NEW r \in Requests, NEW l \in RowsOf(r) PROVE l \in Locks
    BY DEF Locks
  <1>3. Gates \in Locks /\ Audit \in Locks
    BY DEF Locks
  <1> QED
    BY <1>1, <1>2, <1>3 DEF RowsOf

LEMMA IdleTyped == Idle \in Txn /\ Ended \in Txn
  <1>1. <<>> \in Seq(Locks)
    BY EmptySeq
  <1> QED
    BY <1>1 DEF Idle, Ended, Txn, Ops, Places

-----------------------------------------------------------------------------
(* Sequences of locks *)

\* The elements of a sequence that follows another, by position.
LEMMA Concat ==
  ASSUME NEW p \in Seq(Locks), NEW q \in Seq(Locks)
  PROVE  /\ p \o q \in Seq(Locks)
         /\ Len(p \o q) = Len(p) + Len(q)
         /\ Len(p) \in Nat /\ Len(q) \in Nat
         /\ \A i \in 1 .. Len(p) : (p \o q)[i] = p[i]
         /\ \A i \in 1 .. Len(q) : (p \o q)[Len(p) + i] = q[i]
         /\ \A i \in 1 .. Len(p) + Len(q) :
              i \in 1 .. Len(p) \/ (i - Len(p) \in 1 .. Len(q) /\ (p \o q)[i] = q[i - Len(p)])
  BY ConcatProperties, LenProperties

\* A sequence of one lock.
LEMMA Single == \A l \in Locks : <<l>> \in Seq(Locks) /\ Len(<<l>>) = 1 /\ <<l>>[1] = l
  OBVIOUS

\* An order of a finite set of locks lists locks of the set, and all of them.
LEMMA OrdersTyped ==
  ASSUME NEW S \in SUBSET Locks, IsFiniteSet(S), NEW o \in Orders(S)
  PROVE  /\ o \in Seq(Locks)
         /\ \A i \in 1 .. Len(o) : o[i] \in S
         /\ \A l \in S : \E i \in 1 .. Len(o) : o[i] = l
  <1> DEFINE n == Cardinality(S)
  <1>1. n \in Nat
    BY FS_CardinalityType
  <1>2. o \in [1 .. n -> S] /\ \A i, j \in 1 .. n : i # j => o[i] # o[j]
    BY DEF Orders, SetToSeqs
  <1>3. o \in Seq(Locks) /\ Len(o) = n
    BY <1>1, <1>2
  <1>4. ASSUME NEW l \in S PROVE \E i \in 1 .. n : o[i] = l
    <2> DEFINE R == {o[i] : i \in 1 .. n}
    <2>1. o \in Injection(1 .. n, R) /\ o \in Surjection(1 .. n, R)
      BY <1>2 DEF Injection, IsInjective, Surjection
    <2>2. IsFiniteSet(1 .. n) /\ Cardinality(1 .. n) = n
      BY <1>1, FS_Interval
    <2>3. IsFiniteSet(R) /\ Cardinality(R) = n
      BY <2>1, <2>2, FS_Surjection, FS_Injection
    <2>4. R \subseteq S
      BY <1>2
    <2> QED
      BY <2>3, <2>4, FS_Subset
  <1> QED
    BY <1>2, <1>3, <1>4

\* The first lock of a plan, and the rest.
LEMMA HeadTail ==
  ASSUME NEW p \in Seq(Locks), p # <<>>
  PROVE  /\ Head(p) \in Locks /\ Head(p) = p[1] /\ Tail(p) \in Seq(Locks)
         /\ Len(p) \in Nat /\ Len(p) >= 1 /\ Len(Tail(p)) = Len(p) - 1
         /\ \A i \in 1 .. Len(p) - 1 : Tail(p)[i] = p[i + 1]
  BY HeadTailProperties, LenProperties

-----------------------------------------------------------------------------
(* The order of the locks *)

Kind(l) == l[1]

\* approval, request, budgets, audit; and agent, budgets, audit.
Rank(kind) ==
  CASE kind = "approval" -> 1 [] kind = "request" -> 2 [] kind = "agent" -> 3 [] kind = "gates" -> 4
    [] kind = "reservations" -> 5 [] kind = "usage" -> 6 [] OTHER -> 7

Below(h, l) == Rank(Kind(h)) < Rank(Kind(l)) \/ (Kind(h) = "usage" /\ Kind(l) = "usage")

\* Rows that are out of order once the audit lock is taken.
RowKinds == {"approval", "request", "reservations", "usage"}

\* A plan begun with the locks of H in hand follows the order, but for rows that come
\* after the audit lock and for agents and requests.
InOrder(p, H) ==
  \A i \in 1 .. Len(p) :
    \/ p[i] \in H \/ \E j \in 1 .. i - 1 : p[j] = p[i]
    \/ Kind(p[i]) \in RowKinds /\ (Audit \in H \/ \E j \in 1 .. i - 1 : p[j] = Audit)
    \/ Kind(p[i]) \in {"agent", "request"}
    \/ (\A h \in H : Below(h, p[i])) /\ \A j \in 1 .. i - 1 : Below(p[j], p[i])

LEMMA Kinds ==
  /\ Kind(Gates) = "gates" /\ Kind(Audit) = "audit"
  /\ \A r : /\ Kind(Agent(r)) = "agent" /\ Kind(Approval(r)) = "approval"
            /\ Kind(Request(r)) = "request" /\ Kind(Reservations(r)) = "reservations"
  /\ \A u : Kind(Usage(u)) = "usage"
  BY DEF Kind, Gates, Audit, Agent, Approval, Request, Reservations, Usage

LEMMA Ranks ==
  /\ Rank("approval") = 1 /\ Rank("request") = 2 /\ Rank("agent") = 3 /\ Rank("gates") = 4
  /\ Rank("reservations") = 5 /\ Rank("usage") = 6 /\ Rank("audit") = 7
  /\ \A kind : Rank(kind) \in 1 .. 7
  BY DEF Rank

Elems(p) == {p[i] : i \in 1 .. Len(p)}

LEMMA ElemsConcat ==
  ASSUME NEW p \in Seq(Locks), NEW q \in Seq(Locks)
  PROVE  Elems(p \o q) = Elems(p) \cup Elems(q)
  <1>1. ASSUME NEW i \in 1 .. Len(p) PROVE i \in 1 .. Len(p \o q) /\ (p \o q)[i] = p[i]
    BY Concat
  <1>2. ASSUME NEW i \in 1 .. Len(q)
        PROVE  Len(p) + i \in 1 .. Len(p \o q) /\ (p \o q)[Len(p) + i] = q[i]
    BY Concat
  <1>3. ASSUME NEW i \in 1 .. Len(p \o q)
        PROVE  (p \o q)[i] \in Elems(p) \cup Elems(q)
    <2>1. CASE i \in 1 .. Len(p)
      BY <2>1, <1>1 DEF Elems
    <2>2. CASE i \notin 1 .. Len(p)
      <3>1. i - Len(p) \in 1 .. Len(q) /\ (p \o q)[i] = q[i - Len(p)]
        BY <2>2, Concat
      <3> QED
        BY <3>1 DEF Elems
    <2> QED
      BY <2>1, <2>2
  <1> QED
    BY <1>1, <1>2, <1>3 DEF Elems

\* Two plans one after the other.
LEMMA ConcatInOrder ==
  ASSUME NEW p \in Seq(Locks), NEW q \in Seq(Locks), NEW H,
         InOrder(p, H), InOrder(q, H \cup Elems(p))
  PROVE  InOrder(p \o q, H)
  <1> DEFINE c == p \o q
  <1>1. /\ Len(c) = Len(p) + Len(q) /\ Len(p) \in Nat /\ Len(q) \in Nat
        /\ \A i \in 1 .. Len(p) : c[i] = p[i]
        /\ \A i \in 1 .. Len(q) : c[Len(p) + i] = q[i]
    BY Concat
  <1> HIDE DEF c
  <1>2. ASSUME NEW i \in 1 .. Len(c)
        PROVE  \/ c[i] \in H \/ \E j \in 1 .. i - 1 : c[j] = c[i]
               \/ Kind(c[i]) \in RowKinds /\ (Audit \in H \/ \E j \in 1 .. i - 1 : c[j] = Audit)
               \/ Kind(c[i]) \in {"agent", "request"}
               \/ (\A h \in H : Below(h, c[i])) /\ \A j \in 1 .. i - 1 : Below(c[j], c[i])
    <2>1. CASE i \in 1 .. Len(p)
      <3>1. c[i] = p[i] /\ \A j \in 1 .. i - 1 : c[j] = p[j] /\ j \in 1 .. Len(p)
        BY <1>1, <2>1
      <3> QED
        BY <3>1, <2>1 DEF InOrder
    <2>2. CASE i \notin 1 .. Len(p)
      <3>1. PICK k \in 1 .. Len(q) : i = Len(p) + k
        <4>1. i - Len(p) \in 1 .. Len(q) /\ i = Len(p) + (i - Len(p))
          BY <1>1, <2>2
        <4> QED
          BY <4>1
      <3>2. c[i] = q[k]
        BY <1>1, <3>1
      <3>3. \A l \in Elems(p) : \E j \in 1 .. i - 1 : c[j] = l
        BY <1>1, <3>1 DEF Elems
      <3>4. \A j \in 1 .. k - 1 : Len(p) + j \in 1 .. i - 1 /\ c[Len(p) + j] = q[j]
        BY <1>1, <3>1
      <3>5. ASSUME NEW j \in 1 .. i - 1
            PROVE  c[j] \in Elems(p) \/ \E m \in 1 .. k - 1 : c[j] = q[m]
        <4>1. CASE j \in 1 .. Len(p)
          BY <1>1, <4>1 DEF Elems
        <4>2. CASE j \notin 1 .. Len(p)
          <5>1. j - Len(p) \in 1 .. k - 1 /\ j = Len(p) + (j - Len(p))
            BY <1>1, <3>1, <4>2
          <5> QED
            BY <5>1, <3>4
        <4> QED
          BY <4>1, <4>2
      <3>6. CASE q[k] \in H \cup Elems(p)
        BY <3>2, <3>3, <3>6
      <3>7. CASE \E j \in 1 .. k - 1 : q[j] = q[k]
        BY <3>2, <3>4, <3>7
      <3>8. CASE /\ Kind(q[k]) \in RowKinds
                 /\ Audit \in H \cup Elems(p) \/ \E j \in 1 .. k - 1 : q[j] = Audit
        BY <3>2, <3>3, <3>4, <3>8
      <3>9. CASE Kind(q[k]) \in {"agent", "request"}
        BY <3>2, <3>9
      <3>10. CASE /\ \A h \in H \cup Elems(p) : Below(h, q[k])
                  /\ \A j \in 1 .. k - 1 : Below(q[j], q[k])
        BY <3>2, <3>5, <3>10
      <3> QED
        BY <3>6, <3>7, <3>8, <3>9, <3>10 DEF InOrder
    <2> QED
      BY <2>1, <2>2
  <1> QED
    BY <1>2 DEF InOrder, c

\* What has been taken no longer has to be.
LEMMA TailInOrder ==
  ASSUME NEW p \in Seq(Locks), p # <<>>, NEW H, InOrder(p, H)
  PROVE  InOrder(Tail(p), H \cup {Head(p)})
  <1> DEFINE q == Tail(p)
  <1>1. /\ Head(p) = p[1] /\ Len(p) \in Nat /\ Len(p) >= 1 /\ Len(q) = Len(p) - 1
        /\ \A i \in 1 .. Len(p) - 1 : q[i] = p[i + 1]
    BY HeadTail
  <1> HIDE DEF q
  <1>2. ASSUME NEW i \in 1 .. Len(q)
        PROVE  \/ q[i] \in H \cup {Head(p)} \/ \E j \in 1 .. i - 1 : q[j] = q[i]
               \/ Kind(q[i]) \in RowKinds /\ (Audit \in H \cup {Head(p)} \/ \E j \in 1 .. i - 1 : q[j] = Audit)
               \/ Kind(q[i]) \in {"agent", "request"}
               \/ (\A h \in H \cup {Head(p)} : Below(h, q[i])) /\ \A j \in 1 .. i - 1 : Below(q[j], q[i])
    <2>1. i + 1 \in 1 .. Len(p) /\ q[i] = p[i + 1]
      BY <1>1
    <2>2. \A j \in 1 .. i : p[j] = Head(p) \/ \E k \in 1 .. i - 1 : q[k] = p[j]
      <3>1. ASSUME NEW j \in 1 .. i, j # 1 PROVE \E k \in 1 .. i - 1 : q[k] = p[j]
        <4>1. j - 1 \in 1 .. i - 1 /\ q[j - 1] = p[j]
          BY <1>1, <3>1
        <4> QED
          BY <4>1
      <3> QED
        BY <1>1, <3>1
    <2>3. 1 \in 1 .. i /\ \A j \in 1 .. i - 1 : j + 1 \in 1 .. i /\ q[j] = p[j + 1]
      BY <1>1
    <2>4. (i + 1) - 1 = i
      OBVIOUS
    <2>5. \/ p[i + 1] \in H \/ \E j \in 1 .. i : p[j] = p[i + 1]
          \/ Kind(p[i + 1]) \in RowKinds /\ (Audit \in H \/ \E j \in 1 .. i : p[j] = Audit)
          \/ Kind(p[i + 1]) \in {"agent", "request"}
          \/ (\A h \in H : Below(h, p[i + 1])) /\ \A j \in 1 .. i : Below(p[j], p[i + 1])
      BY <2>1, <2>4 DEF InOrder
    <2> QED
      BY <1>1, <2>1, <2>2, <2>3, <2>5
  <1> QED
    BY <1>2 DEF InOrder, q

LEMMA ShortInOrder ==
  /\ \A H : InOrder(<<>>, H)
  /\ \A l, H : \/ l \in H
               \/ Kind(l) \in RowKinds /\ Audit \in H
               \/ Kind(l) \in {"agent", "request"}
               \/ \A h \in H : Below(h, l)
               => InOrder(<<l>>, H)
  <1>1. Len(<<>>) = 0 /\ \A l : Len(<<l>>) = 1 /\ <<l>>[1] = l
    OBVIOUS
  <1> QED
    BY <1>1 DEF InOrder

\* Usage rows in any order, after what comes before them or after the audit lock.
LEMMA UsageInOrder ==
  ASSUME NEW r \in Requests, NEW S \in SUBSET Charged[r], NEW o \in Orders({Usage(u) : u \in S})
  PROVE  /\ o \in Seq(Locks)
         /\ \A l \in Elems(o) : Kind(l) = "usage"
         /\ \A H : Audit \in H \/ (\A h \in H : Rank(Kind(h)) < 6) => InOrder(o, H)
  <1> DEFINE U == {Usage(u) : u \in S}
  <1>1. IsFiniteSet(S)
    BY FS_Subset
  <1>2. IsFiniteSet(U)
    <2>1. [u \in S |-> Usage(u)] \in Surjection(S, U)
      BY DEF Surjection
    <2> QED
      BY <1>1, <2>1, FS_Surjection
  <1>3. U \in SUBSET Locks /\ \A l \in U : Kind(l) = "usage"
    BY LocksTyped, Kinds
  <1> HIDE DEF U
  <1>4. o \in Seq(Locks) /\ \A i \in 1 .. Len(o) : o[i] \in U
    BY <1>2, <1>3, OrdersTyped DEF U
  <1>5. \A i \in 1 .. Len(o) : Kind(o[i]) = "usage"
    BY <1>3, <1>4
  <1>6. Rank("usage") = 6
    BY Ranks
  <1>7. \A i \in 1 .. Len(o) : \A j \in 1 .. i - 1 : Below(o[j], o[i])
    BY <1>4, <1>5, LenProperties DEF Below
  <1>8. ASSUME NEW H, \A h \in H : Rank(Kind(h)) < 6 PROVE InOrder(o, H)
    <2>1. \A i \in 1 .. Len(o) : \A h \in H : Below(h, o[i])
      BY <1>5, <1>6, <1>8 DEF Below
    <2> QED
      BY <1>7, <2>1 DEF InOrder
  <1>9. ASSUME NEW H, Audit \in H PROVE InOrder(o, H)
    BY <1>5, <1>9 DEF InOrder, RowKinds
  <1> QED
    BY <1>4, <1>5, <1>8, <1>9 DEF Elems

\* What a call has in hand when it has read the status of its request.
Early(H) == Audit \in H \/ \A h \in H : Kind(h) \in {"approval", "request"}

LEMMA SettlingRight ==
  ASSUME NEW r \in Requests, NEW s \in Settling(r)
  PROVE  /\ s \in Seq(Locks)
         /\ \A l \in Elems(s) : Kind(l) \in {"reservations", "usage"}
         /\ \A H : Early(H) => InOrder(s, H)
  <1>1. CASE s = <<>>
    <2>1. <<>> \in Seq(Locks) /\ Elems(<<>>) = {}
      BY EmptySeq DEF Elems
    <2> QED
      BY <1>1, <2>1, ShortInOrder
  <1>2. ASSUME NEW o \in Orders({Usage(u) : u \in Charged[r]}), s = <<Reservations(r)>> \o o
        PROVE  /\ s \in Seq(Locks)
               /\ \A l \in Elems(s) : Kind(l) \in {"reservations", "usage"}
               /\ \A H : Early(H) => InOrder(s, H)
    <2> DEFINE first == <<Reservations(r)>>
    <2>1. /\ o \in Seq(Locks) /\ \A l \in Elems(o) : Kind(l) = "usage"
          /\ \A H : Audit \in H \/ (\A h \in H : Rank(Kind(h)) < 6) => InOrder(o, H)
      BY UsageInOrder
    <2>2. first \in Seq(Locks) /\ Elems(first) = {Reservations(r)}
      BY LocksTyped, Single DEF Elems
    <2>3. ASSUME NEW H, Early(H) PROVE InOrder(first, H) /\ InOrder(o, H \cup Elems(first))
      <3>1. Kind(Reservations(r)) = "reservations"
        BY Kinds
      <3>2. InOrder(first, H)
        BY <2>3, <3>1, ShortInOrder, Ranks DEF Early, Below, RowKinds
      <3>3. Audit \in H \/ \A h \in H \cup {Reservations(r)} : Rank(Kind(h)) < 6
        BY <2>3, <3>1, Ranks DEF Early
      <3> QED
        BY <2>1, <2>2, <3>2, <3>3
    <2>4. s \in Seq(Locks) /\ Elems(s) = Elems(first) \cup Elems(o)
      BY <1>2, <2>1, <2>2, Concat, ElemsConcat
    <2>5. \A H : Early(H) => InOrder(s, H)
      BY <1>2, <2>1, <2>2, <2>3, ConcatInOrder
    <2> QED
      BY <2>1, <2>2, <2>4, <2>5, Kinds
  <1> QED
    BY <1>1, <1>2 DEF Settling

\* The rows a session flushes: an approval only after the event.
LEMMA FlushRight ==
  ASSUME NEW r \in Requests, NEW F \in SUBSET {Approval(r), Agent(r), Request(r)}, NEW f \in Orders(F)
  PROVE  /\ f \in Seq(Locks)
         /\ Elems(f) = F
         /\ \A H : (Approval(r) \in F => Audit \in H) => InOrder(f, H)
  <1>1. IsFiniteSet({Approval(r)}) /\ IsFiniteSet({Agent(r)}) /\ IsFiniteSet({Request(r)})
    BY FS_Singleton
  <1>2. IsFiniteSet({Approval(r)} \cup {Agent(r)})
    BY <1>1, FS_Union
  <1>3. IsFiniteSet(({Approval(r)} \cup {Agent(r)}) \cup {Request(r)})
    BY <1>1, <1>2, FS_Union
  <1>4. F \subseteq ({Approval(r)} \cup {Agent(r)}) \cup {Request(r)}
    OBVIOUS
  <1>5. IsFiniteSet(F)
    BY <1>3, <1>4, FS_Subset
  <1>6. F \in SUBSET Locks
    BY LocksTyped
  <1>7. f \in Seq(Locks) /\ (\A i \in 1 .. Len(f) : f[i] \in F) /\ \A l \in F : \E i \in 1 .. Len(f) : f[i] = l
    BY <1>5, <1>6, OrdersTyped
  <1>8. \A l \in F : l # Approval(r) => Kind(l) \in {"agent", "request"}
    BY Kinds
  <1>9. Kind(Approval(r)) \in RowKinds
    BY Kinds DEF RowKinds
  <1>10. ASSUME NEW H, Approval(r) \in F => Audit \in H PROVE InOrder(f, H)
    BY <1>7, <1>8, <1>9, <1>10 DEF InOrder
  <1> QED
    BY <1>7, <1>10 DEF Elems

\* The plan of an effect: typed, with every lock the effect needs, in order.
LEMMA PlanRight ==
  ASSUME NEW r \in Requests, NEW e, e.flushes \in SUBSET {Approval(r), Agent(r), Request(r)},
         Approval(r) \in e.flushes => e.audits,
         NEW p \in Plans(r, e, Settling(r))
  PROVE  /\ p \in Seq(Locks)
         /\ e.flushes \subseteq Elems(p)
         /\ e.to = "executing" => Request(r) \in Elems(p)
         /\ e.audits => Audit \in Elems(p)
         /\ \A H : Early(H) => InOrder(p, H)
  <1> DEFINE a == StartLocks(r, e)
             b == EventLocks(e)
  <1>1. PICK s \in Settlements(e, Settling(r)), f \in Orders(e.flushes) : p = a \o s \o b \o f
    BY DEF Plans
  <1>2. /\ Elems(<<>>) = {} /\ Elems(<<Request(r)>>) = {Request(r)} /\ Elems(<<Audit>>) = {Audit}
        /\ <<>> \in Seq(Locks) /\ <<Request(r)>> \in Seq(Locks) /\ <<Audit>> \in Seq(Locks)
    BY LocksTyped, Single DEF Elems
  <1>3. /\ a \in Seq(Locks) /\ Elems(a) \subseteq {Request(r)}
        /\ e.to = "executing" => Request(r) \in Elems(a)
    BY <1>2 DEF StartLocks
  <1>4. b \in Seq(Locks) /\ Elems(b) \subseteq {Audit} /\ (e.audits => Audit \in Elems(b))
    BY <1>2 DEF EventLocks
  <1>5. /\ s \in Seq(Locks) /\ \A l \in Elems(s) : Kind(l) \in {"reservations", "usage"}
        /\ \A H : Early(H) => InOrder(s, H)
    BY <1>2, SettlingRight, ShortInOrder DEF Settlements
  <1>6. /\ f \in Seq(Locks) /\ Elems(f) = e.flushes
        /\ \A H : (Approval(r) \in e.flushes => Audit \in H) => InOrder(f, H)
    BY FlushRight
  <1>7. \A H : InOrder(a, H)
    BY ShortInOrder, Kinds DEF StartLocks
  <1>8. \A H : (Audit \in H \/ \A h \in H : Rank(Kind(h)) < 7) => InOrder(b, H)
    <2>1. Kind(Audit) = "audit" /\ Rank("audit") = 7
      BY Kinds, Ranks
    <2> QED
      BY <2>1, ShortInOrder DEF Below, EventLocks
  <1> HIDE DEF a, b
  <1>9. /\ a \o s \in Seq(Locks) /\ Elems(a \o s) = Elems(a) \cup Elems(s)
    BY <1>3, <1>5, Concat, ElemsConcat
  <1>10. /\ (a \o s) \o b \in Seq(Locks) /\ Elems((a \o s) \o b) = Elems(a \o s) \cup Elems(b)
    BY <1>4, <1>9, Concat, ElemsConcat
  <1>11. /\ p \in Seq(Locks) /\ Elems(p) = Elems(a) \cup Elems(s) \cup Elems(b) \cup Elems(f)
    <2>1. p = ((a \o s) \o b) \o f
      BY <1>1
    <2>2. p \in Seq(Locks) /\ Elems(p) = Elems((a \o s) \o b) \cup Elems(f)
      BY <1>6, <1>10, <2>1, Concat, ElemsConcat
    <2> QED
      BY <1>9, <1>10, <2>2
  <1>12. ASSUME NEW H, Early(H) PROVE InOrder(p, H)
    <2>1. Early(H \cup Elems(a))
      BY <1>3, <1>12, Kinds DEF Early
    <2>2. InOrder(a \o s, H)
      BY <1>3, <1>5, <1>7, <2>1, ConcatInOrder
    <2>3. Audit \in H \cup Elems(a \o s) \/ \A h \in H \cup Elems(a \o s) : Rank(Kind(h)) < 7
      BY <1>3, <1>5, <1>9, <1>12, Kinds, Ranks DEF Early
    <2>4. InOrder((a \o s) \o b, H)
      BY <1>4, <1>8, <1>9, <2>2, <2>3, ConcatInOrder
    <2>5. Approval(r) \in e.flushes => Audit \in H \cup Elems((a \o s) \o b)
      BY <1>4, <1>10
    <2> QED
      BY <1>1, <1>6, <1>10, <2>4, <2>5, ConcatInOrder
  <1> QED
    BY <1>3, <1>4, <1>6, <1>11, <1>12

\* The plans of an authorization.
LEMMA AuthorizeRight ==
  ASSUME NEW r \in Requests, NEW to \in Status, NEW p \in AuthorizePlans(r, to)
  PROVE  p \in Seq(Locks) /\ InOrder(p, {})
  <1>1. /\ <<Agent(r), Audit>> \in Seq(Locks) /\ Len(<<Agent(r), Audit>>) = 2
        /\ <<Agent(r), Audit>>[1] = Agent(r) /\ <<Agent(r), Audit>>[2] = Audit
        /\ <<Agent(r), Gates>> \in Seq(Locks) /\ Len(<<Agent(r), Gates>>) = 2
        /\ <<Agent(r), Gates>>[1] = Agent(r) /\ <<Agent(r), Gates>>[2] = Gates
        /\ <<Audit>> \in Seq(Locks)
    BY LocksTyped
  <1>2. Below(Agent(r), Audit) /\ Below(Agent(r), Gates) /\ Kind(Agent(r)) = "agent"
    BY Kinds, Ranks DEF Below
  <1>3. InOrder(<<Agent(r), Audit>>, {}) /\ InOrder(<<Agent(r), Gates>>, {})
    BY <1>1, <1>2 DEF InOrder
  <1>4. ASSUME NEW S \in SUBSET Charged[r], NEW o \in Orders({Usage(u) : u \in S}),
               p = <<Agent(r), Gates>> \o o \o <<Audit>>
        PROVE  p \in Seq(Locks) /\ InOrder(p, {})
    <2> DEFINE first == <<Agent(r), Gates>>
    <2>1. first \in Seq(Locks) /\ Elems(first) = {Agent(r), Gates}
      BY <1>1 DEF Elems
    <2>2. /\ o \in Seq(Locks) /\ \A l \in Elems(o) : Kind(l) = "usage"
          /\ \A H : (\A h \in H : Rank(Kind(h)) < 6) => InOrder(o, H)
      BY UsageInOrder
    <2> HIDE DEF first
    <2>3. InOrder(o, {} \cup Elems(first))
      BY <2>1, <2>2, Kinds, Ranks
    <2>4. first \o o \in Seq(Locks) /\ Elems(first \o o) = Elems(first) \cup Elems(o) /\ InOrder(first \o o, {})
      BY <1>3, <2>1, <2>2, <2>3, Concat, ElemsConcat, ConcatInOrder DEF first
    <2>5. \A h \in {} \cup Elems(first \o o) : Below(h, Audit)
      BY <2>1, <2>2, <2>4, Kinds, Ranks DEF Below
    <2>6. InOrder(<<Audit>>, {} \cup Elems(first \o o))
      BY <2>5, ShortInOrder
    <2> QED
      BY <1>1, <1>4, <2>4, <2>6, Concat, ConcatInOrder DEF first
  <1>5. CASE p = <<Agent(r), Audit>>
    BY <1>1, <1>3, <1>5
  <1>6. CASE p # <<Agent(r), Audit>>
    <2>1. \E S \in SUBSET Charged[r] : \E o \in Orders({Usage(u) : u \in S}) : p = <<Agent(r), Gates>> \o o \o <<Audit>>
      BY <1>6 DEF AuthorizePlans
    <2> QED
      BY <1>4, <2>1
  <1> QED
    BY <1>5, <1>6

\* What any effect is like.
LEMMA EffectsRight ==
  ASSUME NEW r \in Requests, NEW op, NEW seen, NEW e \in Effects(op, r, seen)
  PROVE  /\ e.to \in {"authorized", "final", "executing"}
         /\ e.flushes \in SUBSET {Approval(r), Agent(r), Request(r)}
         /\ Approval(r) \in e.flushes => e.audits
         /\ op \in {"none", "expire", "sweep"} => e.audits
         /\ op \in {"replay", "continue"} => e.to = "executing" \/ Request(r) \in e.flushes
         /\ seen \in {"pending", "authorized", "executing"}
  <1> USE DEF Effect, Blocked, Silent, Expiry
  <1>1. Agent(r) # Approval(r) /\ Request(r) # Approval(r)
    BY Kinds
  <1>2. CASE op = "decide" /\ seen = "pending"
    BY <1>1, <1>2 DEF Effects
  <1>3. CASE op \in {"poll", "execute", "claim"} /\ seen = "pending"
    BY <1>1, <1>3 DEF Effects
  <1>4. CASE op = "execute" /\ seen = "authorized"
    BY <1>1, <1>4 DEF Effects
  <1>5. CASE op = "claim" /\ seen = "authorized"
    BY <1>1, <1>5 DEF Effects
  <1>6. CASE op = "report" /\ seen = "executing"
    BY <1>1, <1>6 DEF Effects
  <1>7. CASE op = "replay" /\ seen = "authorized"
    BY <1>1, <1>7 DEF Effects
  <1>8. CASE op = "continue" /\ seen = "authorized"
    BY <1>1, <1>8 DEF Effects
  <1>9. CASE op = "expire" /\ seen = "pending"
    BY <1>1, <1>9 DEF Effects
  <1> QED
    BY <1>2, <1>3, <1>4, <1>5, <1>6, <1>7, <1>8, <1>9 DEF Effects

-----------------------------------------------------------------------------
(* What a transaction has read, and what it will write *)

Covered(x, r) == Request(r) \in x.held \cup Elems(x.plan)

\* A transaction that is not under way has nothing in hand.
AtRest(x) ==
  x.at \in {"idle", "calling", "ended"} =>
    x.op = "none" /\ x.plan = <<>> /\ x.held = {} /\ x.todo = {} /\ x.marks = {}

\* It commits a status only with a lock on the request, or for a request it creates.
Marked(x) ==
  \A m \in x.marks :
    /\ m.to # "none"
    /\ m.locked => status[m.req] = m.seen
    /\ x.op # "authorize" => Covered(x, m.req)
    /\ x.op # "authorize" /\ m.locked => Request(m.req) \in x.held

\* It reads the status only with the lock, or without one in POST /execute.
Reads(x) == x.at = "locking" /\ x.op \notin {"replay", "continue"} => \A r \in x.req : Covered(x, r)

\* A request that is being created is nobody else's.
Creates(x) ==
  x.op = "authorize" =>
    /\ x.at = "working"
    /\ \A r \in x.req : status[r] = "none"
    /\ \A m \in x.marks : m.req \in x.req /\ m.to # "executing"

Exists(x) ==
  x.op # "authorize" =>
    /\ \A r \in x.req \cup x.todo : status[r] # "none"
    /\ \A m \in x.marks : status[m.req] # "none"

Right(x) == AtRest(x) /\ Marked(x) /\ Reads(x) /\ Creates(x) /\ Exists(x)

\* No lock has two holders, and no request two creators.
Apart(x, y) ==
  /\ x.held \cap y.held = {}
  /\ x.op = "authorize" /\ y.op = "authorize" => x.req \cap y.req = {}

Inv ==
  /\ TypeOK
  /\ \A t \in Txns : Right(txn[t])
  /\ \A t \in Txns : \A o \in Txns \ {t} : Apart(txn[t], txn[o])

LEMMA InitInv == Init => Inv
  <1> SUFFICES ASSUME Init PROVE Inv
    OBVIOUS
  <1>1. TypeOK
    BY IdleTyped DEF Init, TypeOK, Status
  <1>2. Right(Idle)
    BY DEF Right, AtRest, Marked, Reads, Creates, Exists, Idle
  <1>3. Apart(Idle, Idle)
    BY DEF Apart, Idle
  <1> QED
    BY <1>1, <1>2, <1>3 DEF Init, Inv

\* A step of one transaction that commits nothing.
LEMMA OneMoves ==
  ASSUME Inv, NEW t \in Txns, NEW x \in Txn, txn' = [txn EXCEPT ![t] = x], UNCHANGED status,
         Right(x), \A o \in Txns \ {t} : Apart(x, txn[o]) /\ Apart(txn[o], x)
  PROVE  Inv'
  <1>1. TypeOK'
    BY DEF Inv, TypeOK
  <1>2. \A o \in Txns : txn'[o] = IF o = t THEN x ELSE txn[o]
    BY DEF Inv, TypeOK
  <1>3. \A y : Right(y) => Right(y)'
    BY DEF Right, AtRest, Marked, Reads, Creates, Exists, Covered
  <1>4. \A o \in Txns : Right(txn[o])'
    BY <1>2, <1>3 DEF Inv
  <1>5. \A o \in Txns : \A k \in Txns \ {o} : Apart(txn[o], txn[k])'
    BY <1>2 DEF Inv, Apart
  <1> QED
    BY <1>1, <1>4, <1>5 DEF Inv

\* A step that neither takes a lock nor creates a request keeps transactions apart.
LEMMA StaysApart ==
  ASSUME Inv, NEW t \in Txns, NEW x, x.held \subseteq txn[t].held,
         x.op = "authorize" => x.op = txn[t].op /\ x.req = txn[t].req
  PROVE  \A o \in Txns \ {t} : Apart(x, txn[o]) /\ Apart(txn[o], x)
  BY DEF Inv, Apart

\* The empty plan.
LEMMA NoPlan == <<>> \in Seq(Locks) /\ Elems(<<>>) = {} /\ \A x, r : x.plan = <<>> => (Covered(x, r) <=> Request(r) \in x.held)
  <1>1. <<>> \in Seq(Locks) /\ Elems(<<>>) = {}
    BY EmptySeq DEF Elems
  <1> QED
    BY <1>1 DEF Covered

\* A transaction that ends without a commit.
LEMMA EndInv ==
  ASSUME Inv, NEW t \in Txns, txn' = [txn EXCEPT ![t] = Ended], UNCHANGED status
  PROVE  Inv'
  <1>1. Right(Ended)
    BY DEF Right, AtRest, Marked, Reads, Creates, Exists, Ended, Idle
  <1>2. \A o \in Txns \ {t} : Apart(Ended, txn[o]) /\ Apart(txn[o], Ended)
    BY StaysApart DEF Ended, Idle
  <1> QED
    BY <1>1, <1>2, IdleTyped, OneMoves

\* A call begins.
LEMMA BeginInv ==
  ASSUME Inv, NEW t \in Txns, NEW op \in HandlerOps, NEW r \in Requests, NEW at \in {"locking", "working"},
         NEW plan \in Seq(Locks), NEW marks \in SUBSET Marks, Begin(t, op, r, at, plan, marks),
         op = "authorize" =>
           /\ at = "working" /\ status[r] = "none" /\ \A o \in Txns : r \notin txn[o].req
           /\ \A m \in marks : m.req = r /\ m.seen = "none" /\ m.to \notin {"none", "executing"},
         op # "authorize" => status[r] # "none" /\ marks = {},
         op \notin {"authorize", "replay", "continue"} => Request(r) \in Elems(plan)
  PROVE  Inv'
  <1> DEFINE x == [Idle EXCEPT !.op = op, !.at = at, !.req = {r}, !.plan = plan, !.marks = marks]
  <1>1. /\ x.op = op /\ x.at = at /\ x.req = {r} /\ x.plan = plan /\ x.marks = marks
        /\ x.held = {} /\ x.todo = {}
    BY DEF Idle
  <1>2. x \in Txn
    BY DEF Idle, Txn, Ops, Places
  <1>3. txn' = [txn EXCEPT ![t] = x] /\ UNCHANGED status
    BY DEF Begin
  <1> HIDE DEF x
  <1>4. AtRest(x) /\ Reads(x)
    BY <1>1 DEF AtRest, Reads, Covered
  <1>5. Marked(x) /\ Creates(x) /\ Exists(x)
    BY <1>1 DEF Marked, Creates, Exists
  <1>6. \A o \in Txns \ {t} : Apart(x, txn[o]) /\ Apart(txn[o], x)
    BY <1>1 DEF Apart
  <1> QED
    BY <1>2, <1>3, <1>4, <1>5, <1>6, OneMoves DEF Right

LEMMA AuthorizeInv == ASSUME Inv, NEW h \in Handlers, NEW r \in Requests, Authorize(h, r) PROVE Inv'
  <1>1. /\ status[r] = "none" /\ \A o \in Txns : r \notin txn[o].req
    BY DEF Authorize
  <1>a. PICK to \in {"pending", "authorized", "final"} : \E p \in AuthorizePlans(r, to) :
          Begin(h, "authorize", r, "working", p, {Mark(r, "none", to, TRUE)})
    BY DEF Authorize
  <1>2. PICK p \in AuthorizePlans(r, to) :
          Begin(h, "authorize", r, "working", p, {Mark(r, "none", to, TRUE)})
    BY <1>a
  <1>3. p \in Seq(Locks)
    BY AuthorizeRight DEF Status
  <1>4. {Mark(r, "none", to, TRUE)} \in SUBSET Marks
    BY DEF Mark, Marks, Status
  <1>5. \A m \in {Mark(r, "none", to, TRUE)} : m.req = r /\ m.seen = "none" /\ m.to \notin {"none", "executing"}
    BY DEF Mark
  <1>6. h \in Txns /\ "authorize" \in HandlerOps
    BY DEF HandlerOps, Txns
  <1> QED
    BY <1>1, <1>2, <1>3, <1>4, <1>5, <1>6, BeginInv

LEMMA DecideInv == ASSUME Inv, NEW h \in Handlers, NEW r \in Requests, Decide(h, r) PROVE Inv'
  <1>1. DecideLocks(r) \in Seq(Locks) /\ Request(r) \in Elems(DecideLocks(r))
    <2>1. /\ <<Approval(r), Request(r)>> \in Seq(Locks)
          /\ 2 \in 1 .. Len(<<Approval(r), Request(r)>>) /\ <<Approval(r), Request(r)>>[2] = Request(r)
      BY LocksTyped
    <2> QED
      BY <2>1 DEF DecideLocks, Elems
  <1> QED
    BY <1>1, BeginInv DEF Decide, HandlerOps, Txns

LEMMA OwnedInv == ASSUME Inv, NEW h \in Handlers, NEW r \in Requests, Owned(h, r) PROVE Inv'
  <1>1. <<Request(r)>> \in Seq(Locks) /\ Request(r) \in Elems(<<Request(r)>>)
    BY LocksTyped, Single DEF Elems
  <1>2. PICK op \in {"poll", "claim", "report", "execute"} :
          status[r] # "none" /\ Begin(h, op, r, "locking", <<Request(r)>>, {})
    BY DEF Owned
  <1>3. h \in Txns /\ op \in HandlerOps /\ {} \in SUBSET Marks
    BY DEF HandlerOps, Txns
  <1> QED
    BY <1>1, <1>2, <1>3, BeginInv

LEMMA ReplayInv == ASSUME Inv, NEW h \in Handlers, NEW r \in Requests, Replay(h, r) PROVE Inv'
  <1>1. PICK op \in {"replay", "continue"} :
          status[r] # "none" /\ Begin(h, op, r, "locking", <<>>, {})
    BY DEF Replay
  <1>2. h \in Txns /\ op \in HandlerOps /\ {} \in SUBSET Marks
    BY DEF HandlerOps, Txns
  <1> QED
    BY <1>1, <1>2, NoPlan, BeginInv

\* The provider has answered.
LEMMA FinishInv == ASSUME Inv, NEW h \in Handlers, NEW r \in Requests, Finish(h, r) PROVE Inv'
  <1>a. PICK b \in BOOLEAN : \E p \in Plans(r, Effect("final", b, TRUE, {Request(r)}), Settling(r)) :
          txn' = [txn EXCEPT ![h] = [Idle EXCEPT !.op = "finish", !.at = "working", !.req = {r}, !.plan = p,
                                                 !.marks = {Mark(r, "executing", "final", FALSE)}]]
    BY DEF Finish
  <1>1. PICK p \in Plans(r, Effect("final", b, TRUE, {Request(r)}), Settling(r)) :
          txn' = [txn EXCEPT ![h] = [Idle EXCEPT !.op = "finish", !.at = "working", !.req = {r}, !.plan = p,
                                                 !.marks = {Mark(r, "executing", "final", FALSE)}]]
    BY <1>a
  <1> DEFINE e == Effect("final", b, TRUE, {Request(r)})
             x == [Idle EXCEPT !.op = "finish", !.at = "working", !.req = {r}, !.plan = p,
                               !.marks = {Mark(r, "executing", "final", FALSE)}]
  <1>2. e.flushes = {Request(r)} /\ e.audits
    BY DEF Effect
  <1>3. p \in Seq(Locks) /\ Request(r) \in Elems(p)
    BY <1>2, PlanRight
  <1>4. /\ x.op = "finish" /\ x.at = "working" /\ x.req = {r} /\ x.plan = p
        /\ x.held = {} /\ x.todo = {} /\ x.marks = {Mark(r, "executing", "final", FALSE)}
    BY DEF Idle
  <1>5. x \in Txn
    <2>1. {Mark(r, "executing", "final", FALSE)} \in SUBSET Marks
      BY DEF Mark, Marks, Status
    <2> QED
      BY <1>3, <2>1 DEF Idle, Txn, Ops, HandlerOps, Places
  <1>6. status[r] # "none"
    BY DEF Finish, Inv, Right, AtRest, Exists, Txns
  <1> HIDE DEF x
  <1>7. Right(x)
    BY <1>3, <1>4, <1>6 DEF Right, AtRest, Marked, Reads, Creates, Exists, Covered, Mark
  <1>8. \A o \in Txns \ {h} : Apart(x, txn[o]) /\ Apart(txn[o], x)
    BY <1>4 DEF Apart
  <1> QED
    BY <1>1, <1>5, <1>7, <1>8, OneMoves DEF Finish, Txns, x

\* A lock is taken that nobody else holds.
LEMMA TakeInv == ASSUME Inv, NEW t \in Txns, Take(t) PROVE Inv'
  <1> DEFINE y == txn[t]
             l == Head(y.plan)
             x == [y EXCEPT !.held = @ \cup {l}, !.plan = Tail(@)]
  <1>1. y \in Txn /\ y.plan \in Seq(Locks) /\ y.plan # <<>>
    BY DEF Take, Granted, Inv, TypeOK, Txn
  <1>2. /\ l \in Locks /\ l = y.plan[1] /\ Tail(y.plan) \in Seq(Locks)
        /\ Len(y.plan) \in Nat /\ Len(y.plan) >= 1 /\ Len(Tail(y.plan)) = Len(y.plan) - 1
        /\ \A i \in 1 .. Len(y.plan) - 1 : Tail(y.plan)[i] = y.plan[i + 1]
    BY <1>1, HeadTail
  <1>3. Elems(y.plan) \subseteq {l} \cup Elems(Tail(y.plan))
    <2>1. ASSUME NEW i \in 1 .. Len(y.plan), i # 1 PROVE y.plan[i] \in Elems(Tail(y.plan))
      <3>1. i - 1 \in 1 .. Len(Tail(y.plan)) /\ Tail(y.plan)[i - 1] = y.plan[i]
        BY <1>2, <2>1
      <3> QED
        BY <3>1 DEF Elems
    <2> QED
      BY <1>2, <2>1 DEF Elems
  <1>4. txn' = [txn EXCEPT ![t] = x] /\ UNCHANGED status
    BY DEF Take, Inv, TypeOK
  <1>5. \A o \in Txns \ {t} : l \notin txn[o].held
    BY <1>1 DEF Take, Granted, Blocks, Holds
  <1> HIDE DEF l
  <1>6. /\ x.op = y.op /\ x.at = y.at /\ x.req = y.req /\ x.todo = y.todo /\ x.marks = y.marks
        /\ x.held = y.held \cup {l} /\ x.plan = Tail(y.plan)
    BY <1>1 DEF Txn
  <1>7. x \in Txn
    BY <1>1, <1>2 DEF Txn
  <1>8. Right(y) /\ \A o \in Txns \ {t} : Apart(y, txn[o]) /\ Apart(txn[o], y)
    BY DEF Inv
  <1> HIDE DEF x, y
  <1>9. \A r : Covered(y, r) => Covered(x, r)
    BY <1>3, <1>6 DEF Covered
  <1>10. AtRest(x)
    BY <1>1, <1>6, <1>8 DEF Right, AtRest
  <1>11. Right(x)
    BY <1>6, <1>8, <1>9, <1>10 DEF Right, Marked, Reads, Creates, Exists
  <1>12. \A o \in Txns \ {t} : Apart(x, txn[o]) /\ Apart(txn[o], x)
    BY <1>5, <1>6, <1>8 DEF Apart
  <1> QED
    BY <1>4, <1>7, <1>11, <1>12, OneMoves

\* What a call may go on with is an effect and one of its plans.
LEMMA OptionIs ==
  ASSUME NEW t, NEW r
  PROVE  /\ \A c \in Options(t, r) : /\ c[1] \in Effects(txn[t].op, r, status[r])
                                    /\ c[2] \in Plans(r, c[1], Settling(r))
         /\ \A e \in Effects(txn[t].op, r, status[r]) : \A p \in Plans(r, e, Settling(r)) :
              <<e, p>> \in Options(t, r)
  <1>1. \A e : (IF e = Expiry(r) THEN ExpirySettling(r) ELSE Settling(r)) = Settling(r)
    BY DEF ExpirySettling
  <1>2. Options(t, r) = UNION {{e} \X Plans(r, e, Settling(r)) : e \in Effects(txn[t].op, r, status[r])}
    BY <1>1 DEF Options
  <1> QED
    BY <1>2

\* The status is read with the locks that were planned, and the call goes on.
LEMMA ProceedInv == ASSUME Inv, NEW t \in Txns, NEW r \in Requests, Proceed(t, r) PROVE Inv'
  <1> DEFINE y == txn[t]
             locked == y.op \notin {"replay", "continue"}
  <1>1. y.at = "locking" /\ y.plan = <<>> /\ r \in y.req
    BY DEF Proceed, Checking
  <1>a. PICK c \in Options(t, r) :
          txn' = [txn EXCEPT ![t].at = "working", ![t].plan = c[2],
                    ![t].marks = @ \cup {Mark(r, status[r], c[1].to, locked)}]
    BY DEF Proceed
  <1> DEFINE e == c[1]
             p == c[2]
  <1>b. e \in Effects(y.op, r, status[r]) /\ p \in Plans(r, e, Settling(r))
    BY OptionIs
  <1>2. txn' = [txn EXCEPT ![t].at = "working", ![t].plan = p,
                  ![t].marks = @ \cup {Mark(r, status[r], e.to, locked)}]
    BY <1>a
  <1> HIDE DEF e, p
  <1> DEFINE m == Mark(r, status[r], e.to, locked)
             x == [y EXCEPT !.at = "working", !.plan = p, !.marks = @ \cup {m}]
  <1>3. y \in Txn /\ Right(y)
    BY DEF Inv, TypeOK
  <1>4. /\ e.to \in {"authorized", "final", "executing"}
        /\ y.op \in {"replay", "continue"} => e.to = "executing" \/ Request(r) \in e.flushes
        /\ e.flushes \in SUBSET {Approval(r), Agent(r), Request(r)}
        /\ Approval(r) \in e.flushes => e.audits
    BY <1>b, EffectsRight
  <1>5. p \in Seq(Locks) /\ (y.op \in {"replay", "continue"} => Request(r) \in Elems(p))
    BY <1>b, <1>4, PlanRight
  <1>6. txn' = [txn EXCEPT ![t] = x] /\ UNCHANGED status
    BY <1>2 DEF Proceed, Inv, TypeOK
  <1>7. /\ x.op = y.op /\ x.at = "working" /\ x.req = y.req /\ x.todo = y.todo /\ x.plan = p
        /\ x.held = y.held /\ x.marks = y.marks \cup {m}
    BY <1>3 DEF Txn
  <1>8. m.req = r /\ m.seen = status[r] /\ m.to = e.to /\ m.locked = locked
    BY DEF Mark
  <1>9. x \in Txn
    <2>1. m \in Marks
      BY <1>4 DEF Mark, Marks, Status, Inv, TypeOK
    <2> QED
      BY <1>3, <1>5, <2>1 DEF Txn, Places
  <1>10. y.op # "authorize" /\ status[r] # "none"
    BY <1>1, <1>3 DEF Right, Creates, Exists
  <1>11. locked => Request(r) \in y.held
    BY <1>1, <1>3, NoPlan DEF Right, Reads
  <1>12. \A k \in y.marks : Request(k.req) \in y.held
    BY <1>1, <1>3, <1>10, NoPlan DEF Right, Marked
  <1> HIDE DEF x, y, m
  <1>13. Marked(x)
    BY <1>3, <1>4, <1>5, <1>7, <1>8, <1>10, <1>11, <1>12 DEF Right, Marked, Covered
  <1>14. Right(x)
    BY <1>3, <1>7, <1>8, <1>10, <1>13 DEF Right, AtRest, Reads, Creates, Exists
  <1>15. \A o \in Txns \ {t} : Apart(x, txn[o]) /\ Apart(txn[o], x)
    BY <1>7, <1>10, StaysApart DEF y
  <1> QED
    BY <1>6, <1>9, <1>14, <1>15, OneMoves

\* What the worker does between two requests, and when it begins.
LEMMA WorkerInv ==
  ASSUME Inv, NEW t \in Txns, NEW x \in Txn, txn' = [txn EXCEPT ![t] = x], UNCHANGED status,
         txn[t].plan = <<>>, txn[t].op # "authorize", x.op # "authorize",
         x.at \in {"locking", "working"}, x.held = txn[t].held,
         \A r \in x.req \cup x.todo : status[r] # "none",
         x.at = "locking" => \A r \in x.req : Request(r) \in Elems(x.plan),
         \A m \in x.marks : \/ m \in txn[t].marks
                            \/ /\ m.to # "none" /\ ~m.locked /\ status[m.req] # "none"
                               /\ Request(m.req) \in Elems(x.plan)
  PROVE  Inv'
  <1>1. Right(txn[t])
    BY DEF Inv
  <1>2. \A m \in txn[t].marks : /\ m.to # "none" /\ Request(m.req) \in x.held /\ status[m.req] # "none"
                                /\ m.locked => status[m.req] = m.seen
    BY <1>1, NoPlan DEF Right, Marked, Exists
  <1>3. Marked(x)
    BY <1>2 DEF Marked, Covered
  <1>4. Right(x)
    BY <1>2, <1>3 DEF Right, AtRest, Reads, Creates, Exists, Covered
  <1>5. \A o \in Txns \ {t} : Apart(x, txn[o]) /\ Apart(txn[o], x)
    BY StaysApart
  <1> QED
    BY <1>4, <1>5, OneMoves

LEMMA DeclineInv == ASSUME Inv, NEW t \in Txns, NEW r \in Requests, Decline(t, r) PROVE Inv'
  <1>1. CASE t \in Workers
    <2> DEFINE x == [txn[t] EXCEPT !.at = "working"]
    <2>1. txn[t] \in Txn /\ Right(txn[t])
      BY DEF Inv, TypeOK
    <2>2. txn' = [txn EXCEPT ![t] = x] /\ UNCHANGED status /\ txn[t].at = "locking" /\ txn[t].plan = <<>>
      BY <1>1 DEF Decline, Checking, Inv, TypeOK
    <2>3. /\ x.op = txn[t].op /\ x.at = "working" /\ x.req = txn[t].req /\ x.todo = txn[t].todo
          /\ x.plan = txn[t].plan /\ x.held = txn[t].held /\ x.marks = txn[t].marks /\ x \in Txn
      BY <2>1 DEF Txn, Places
    <2>4. txn[t].op # "authorize"
      BY <2>1, <2>2 DEF Right, Creates
    <2>5. \A q \in x.req \cup x.todo : status[q] # "none"
      BY <2>1, <2>3, <2>4 DEF Right, Exists
    <2> HIDE DEF x
    <2> QED
      BY <2>2, <2>3, <2>4, <2>5, WorkerInv
  <1>2. CASE t \notin Workers
    BY <1>2, EndInv DEF Decline
  <1> QED
    BY <1>1, <1>2

LEMMA QueryApprovalsInv == ASSUME Inv, NEW w \in Workers, QueryApprovals(w) PROVE Inv'
  <1>1. PICK S \in SUBSET {r \in Requests : status[r] = "pending"} :
          txn' = [txn EXCEPT ![w] = [Idle EXCEPT !.op = "expire", !.at = "working", !.todo = S]]
    BY DEF QueryApprovals
  <1> DEFINE x == [Idle EXCEPT !.op = "expire", !.at = "working", !.todo = S]
  <1>2. w \in Txns /\ txn[w].at = "idle" /\ UNCHANGED status
    BY DEF QueryApprovals, Txns
  <1>3. txn[w].op = "none" /\ txn[w].plan = <<>> /\ txn[w].held = {}
    BY <1>2 DEF Inv, Right, AtRest
  <1>4. /\ x.op = "expire" /\ x.at = "working" /\ x.req = {} /\ x.todo = S /\ x.plan = <<>> /\ x.held = {}
        /\ x.marks = {} /\ x \in Txn
    BY NoPlan DEF Idle, Txn, Ops, Places
  <1> HIDE DEF x
  <1> QED
    BY <1>1, <1>2, <1>3, <1>4, WorkerInv DEF x

LEMMA LockNextInv == ASSUME Inv, NEW w \in Workers, NEW r \in Requests, LockNext(w, r) PROVE Inv'
  <1> DEFINE y == txn[w]
             x == [y EXCEPT !.req = {r}, !.todo = @ \ {r}, !.plan = <<Request(r)>>, !.at = "locking"]
  <1>1. w \in Txns /\ y \in Txn /\ Right(y)
    BY DEF Inv, TypeOK, Txns
  <1>2. y.at = "working" /\ y.plan = <<>> /\ y.op = "expire" /\ r \in y.todo
    BY DEF LockNext, HasNext, Between
  <1>3. txn' = [txn EXCEPT ![w] = x] /\ UNCHANGED status
    BY <1>1 DEF LockNext, Inv, TypeOK
  <1>4. <<Request(r)>> \in Seq(Locks) /\ Request(r) \in Elems(<<Request(r)>>)
    BY LocksTyped, Single DEF Elems
  <1>5. /\ x.op = y.op /\ x.at = "locking" /\ x.req = {r} /\ x.todo = y.todo \ {r} /\ x.plan = <<Request(r)>>
        /\ x.held = y.held /\ x.marks = y.marks /\ x \in Txn
    BY <1>1, <1>4 DEF Txn, Places
  <1>6. \A q \in x.req \cup x.todo : status[q] # "none"
    BY <1>1, <1>2, <1>5 DEF Right, Exists
  <1> HIDE DEF x
  <1> QED
    BY <1>1, <1>2, <1>3, <1>4, <1>5, <1>6, WorkerInv

LEMMA QueryClaimsInv == ASSUME Inv, NEW w \in Workers, QueryClaims(w) PROVE Inv'
  <1>1. PICK S \in SUBSET {r \in Sdk : status[r] = "executing"} :
          txn' = [txn EXCEPT ![w].op = "sweep", ![w].todo = S]
    BY DEF QueryClaims
  <1> DEFINE y == txn[w]
             x == [y EXCEPT !.op = "sweep", !.todo = S]
  <1>2. w \in Txns /\ y \in Txn /\ Right(y)
    BY DEF Inv, TypeOK, Txns
  <1>3. y.at = "working" /\ y.plan = <<>> /\ y.op = "expire"
    BY DEF QueryClaims, AtEnd, Between
  <1>4. txn' = [txn EXCEPT ![w] = x] /\ UNCHANGED status
    BY <1>1, <1>2 DEF QueryClaims, Inv, TypeOK
  <1>5. /\ x.op = "sweep" /\ x.at = y.at /\ x.req = y.req /\ x.todo = S /\ x.plan = y.plan
        /\ x.held = y.held /\ x.marks = y.marks /\ x \in Txn
    BY <1>2 DEF Txn, Ops
  <1>6. \A q \in x.req \cup x.todo : status[q] # "none"
    BY <1>2, <1>3, <1>5 DEF Right, Exists
  <1> HIDE DEF x
  <1> QED
    BY <1>2, <1>3, <1>4, <1>5, <1>6, WorkerInv

LEMMA SweepNextInv == ASSUME Inv, NEW w \in Workers, NEW r \in Requests, SweepNext(w, r) PROVE Inv'
  <1> DEFINE y == txn[w]
             m == Mark(r, "executing", "final", FALSE)
             x == [y EXCEPT !.req = {r}, !.todo = @ \ {r}, !.plan = <<Audit, Request(r)>>, !.marks = @ \cup {m}]
  <1>1. w \in Txns /\ y \in Txn /\ Right(y)
    BY DEF Inv, TypeOK, Txns
  <1>2. y.at = "working" /\ y.plan = <<>> /\ y.op = "sweep" /\ r \in y.todo
    BY DEF SweepNext, HasNext, Between
  <1>3. txn' = [txn EXCEPT ![w] = x] /\ UNCHANGED status
    BY <1>1 DEF SweepNext, Inv, TypeOK
  <1>4. <<Audit, Request(r)>> \in Seq(Locks) /\ Request(r) \in Elems(<<Audit, Request(r)>>)
    <2>1. /\ <<Audit, Request(r)>> \in Seq(Locks)
          /\ 2 \in 1 .. Len(<<Audit, Request(r)>>) /\ <<Audit, Request(r)>>[2] = Request(r)
      BY LocksTyped
    <2> QED
      BY <2>1 DEF Elems
  <1>5. m \in Marks /\ m.req = r /\ m.to = "final" /\ ~m.locked
    BY DEF Mark, Marks, Status
  <1> HIDE DEF m
  <1>6. /\ x.op = y.op /\ x.at = y.at /\ x.req = {r} /\ x.todo = y.todo \ {r} /\ x.plan = <<Audit, Request(r)>>
        /\ x.held = y.held /\ x.marks = y.marks \cup {m} /\ x \in Txn
    BY <1>1, <1>4, <1>5 DEF Txn
  <1>7. status[r] # "none" /\ \A q \in x.req \cup x.todo : status[q] # "none"
    BY <1>1, <1>2, <1>6 DEF Right, Exists
  <1> HIDE DEF x
  <1> QED
    BY <1>1, <1>2, <1>3, <1>4, <1>5, <1>6, <1>7, WorkerInv

\* A commit changes the statuses of its own marks, and none that another has read locked.
LEMMA CommitInv == ASSUME Inv, NEW t \in Txns, Commit(t) PROVE Inv'
  <1> DEFINE y == txn[t]
             x == IF Starts(t) THEN [Ended EXCEPT !.at = "calling", !.req = y.req] ELSE Ended
  <1>1. y \in Txn /\ Right(y) /\ y.plan = <<>> /\ y.at = "working"
    BY DEF Commit, AtEnd, Between, Inv, TypeOK
  <1>2. txn' = [txn EXCEPT ![t] = x]
    BY DEF Commit, Released
  <1>3. x \in Txn
    BY <1>1, IdleTyped DEF Txn, Places
  <1>4. /\ x.held = {} /\ x.marks = {} /\ x.plan = <<>> /\ x.todo = {} /\ x.op = "none"
        /\ (x.at = "ended" /\ x.req = {}) \/ (x.at = "calling" /\ x.req = y.req /\ Starts(t))
    <2>1. CASE Starts(t)
      <3>1. x = [Ended EXCEPT !.at = "calling", !.req = y.req]
        BY <2>1
      <3> QED
        BY <2>1, <3>1 DEF Ended, Idle
    <2>2. CASE ~Starts(t)
      <3>1. x = Ended
        BY <2>2
      <3> QED
        BY <3>1 DEF Ended, Idle
    <2> QED
      BY <2>1, <2>2
  <1>5. ASSUME NEW r \in Requests
        PROVE  \/ status'[r] = status[r]
               \/ \E m \in y.marks : m.req = r /\ status'[r] = m.to
    <2> DEFINE chosen(m) == m \in y.marks /\ m.req = r /\ Applies(m)
    <2>1. status'[r] = IF \E m \in y.marks : m.req = r /\ Applies(m)
                       THEN (CHOOSE m \in y.marks : m.req = r /\ Applies(m)).to ELSE status[r]
      BY DEF Commit
    <2>2. CASE \E m \in y.marks : m.req = r /\ Applies(m)
      <3> DEFINE m == CHOOSE m \in y.marks : m.req = r /\ Applies(m)
      <3>1. m \in y.marks /\ m.req = r
        BY <2>2
      <3>2. status'[r] = m.to
        BY <2>1, <2>2
      <3> QED
        BY <3>1, <3>2
    <2> QED
      BY <2>1, <2>2
  <1>6. status' \in [Requests -> Status]
    <2>1. DOMAIN status' = Requests /\ status' = [r \in Requests |-> status'[r]]
      BY DEF Commit
    <2>2. \A r \in Requests : status'[r] \in Status
      BY <1>1, <1>5 DEF Inv, TypeOK, Txn, Marks
    <2> QED
      BY <2>1, <2>2
  <1>7. \A r \in Requests : status[r] # "none" => status'[r] # "none"
    BY <1>1, <1>5 DEF Right, Marked
  <1>8. \A m \in y.marks : IF y.op = "authorize" THEN m.req \in y.req /\ status[m.req] = "none"
                           ELSE Request(m.req) \in y.held /\ status[m.req] # "none"
    BY <1>1, NoPlan DEF Right, Marked, Creates, Exists
  <1>9. txn'[t] = x /\ \A o \in Txns \ {t} : txn'[o] = txn[o]
    BY <1>2 DEF Inv, TypeOK
  <1>10. ASSUME NEW o \in Txns \ {t} PROVE Right(txn[o])'
    <2> DEFINE z == txn[o]
    <2>1. z \in Txn /\ Right(z) /\ Apart(y, z) /\ txn'[o] = z
      BY <1>9 DEF Inv, TypeOK
    <2>2. ASSUME z.op = "authorize", NEW r \in z.req PROVE status'[r] = status[r]
      <3>1. r \in Requests /\ status[r] = "none"
        BY <2>1, <2>2 DEF Txn, Right, Creates
      <3>2. \A m \in y.marks : m.req # r
        BY <1>8, <2>1, <2>2, <3>1 DEF Apart
      <3> QED
        BY <1>5, <3>1, <3>2
    <2>3. ASSUME NEW m \in z.marks, m.locked PROVE status'[m.req] = status[m.req]
      <3>1. m.req \in Requests
        BY <2>1 DEF Txn, Marks
      <3>2. CASE z.op = "authorize"
        BY <2>1, <2>2, <3>2 DEF Right, Creates
      <3>3. CASE z.op # "authorize"
        <4>1. Request(m.req) \in z.held /\ status[m.req] # "none"
          BY <2>1, <2>3, <3>3 DEF Right, Marked, Exists
        <4>2. \A k \in y.marks : k.req # m.req
          BY <1>8, <2>1, <4>1 DEF Apart
        <4> QED
          BY <1>5, <3>1, <4>2
      <3> QED
        BY <3>2, <3>3
    <2>4. \A r \in z.req \cup z.todo : r \in Requests
      BY <2>1 DEF Txn
    <2>5. \A m \in z.marks : m.req \in Requests
      BY <2>1 DEF Txn, Marks
    <2>6. Marked(z)' /\ Creates(z)' /\ Exists(z)'
      BY <1>7, <2>1, <2>2, <2>3, <2>4, <2>5 DEF Right, Marked, Creates, Exists, Covered
    <2> QED
      BY <2>1, <2>6 DEF Right, AtRest, Reads, Covered
  <1>11. Right(txn[t])'
    <2>1. ASSUME Starts(t) PROVE \A r \in y.req : status'[r] # "none"
      <3>1. y.op # "authorize"
        BY <1>1, <2>1 DEF Starts, Right, Creates
      <3> QED
        BY <1>1, <1>7, <3>1 DEF Right, Exists, Txn
    <2> HIDE DEF x, y
    <2> QED
      BY <1>4, <1>9, <2>1 DEF Right, AtRest, Marked, Reads, Creates, Exists
  <1>12. TypeOK'
    BY <1>2, <1>3, <1>6 DEF Inv, TypeOK
  <1>13. ASSUME NEW o \in Txns, NEW k \in Txns \ {o} PROVE Apart(txn[o], txn[k])'
    BY <1>4, <1>9 DEF Inv, Apart
  <1> QED
    BY <1>10, <1>11, <1>12, <1>13 DEF Inv

LEMMA StepInv == Inv /\ [Next]_vars => Inv'
  <1> SUFFICES ASSUME Inv, [Next]_vars PROVE Inv'
    OBVIOUS
  <1>1. ASSUME NEW h \in Handlers, NEW r \in Requests,
               Authorize(h, r) \/ Decide(h, r) \/ Owned(h, r) \/ Replay(h, r) \/ Finish(h, r)
        PROVE  Inv'
    BY <1>1, AuthorizeInv, DecideInv, OwnedInv, ReplayInv, FinishInv
  <1>2. ASSUME NEW w \in Workers, QueryApprovals(w) PROVE Inv'
    BY <1>2, QueryApprovalsInv
  <1>3. ASSUME NEW t \in Txns, Step(t) PROVE Inv'
    <2>1. CASE Take(t)
      BY <2>1, TakeInv
    <2>2. ASSUME NEW r \in Requests, Proceed(t, r) \/ Decline(t, r) PROVE Inv'
      BY <2>2, ProceedInv, DeclineInv
    <2>3. CASE t \in Workers /\ Batch(t)
      BY <2>3, LockNextInv, SweepNextInv, QueryClaimsInv DEF Batch
    <2>4. CASE Commit(t)
      BY <2>4, CommitInv
    <2> QED
      BY <1>3, <2>1, <2>2, <2>3, <2>4 DEF Step
  <1>4. ASSUME NEW t \in Txns, BreakDeadlock(t) \/ Abort(t) PROVE Inv'
    BY <1>4, EndInv DEF BreakDeadlock, Abort
  <1>5. CASE UNCHANGED vars
    <2>1. \A x : Right(x) => Right(x)'
      BY <1>5 DEF vars, Right, AtRest, Marked, Reads, Creates, Exists, Covered
    <2> QED
      BY <1>5, <2>1 DEF vars, Inv, TypeOK, Apart
  <1> QED
    BY <1>1, <1>2, <1>3, <1>4, <1>5 DEF Next

\* Nobody else commits a status that a call has read under a lock and has not yet written:
\* the writers hold the request's row, or create it.
THEOREM ReadsStand == Spec => []LockedReadsStand
  <1>1. Inv => LockedReadsStand
    BY DEF Inv, Right, Marked, LockedReadsStand
  <1> QED
    BY <1>1, InitInv, StepInv, PTL DEF Spec

-----------------------------------------------------------------------------
(* The order in which transactions wait *)

OnlyKinds(S, kinds) == \A l \in S : Kind(l) \in kinds

\* A handler that locks its request: the approval first, if it is a decision.
LocksRequest(x) ==
  \/ x.plan = <<>> /\ OnlyKinds(x.held, {"approval", "request"})
  \/ \E r \in Requests : x.plan = <<Request(r)>> /\ OnlyKinds(x.held, {"approval"})
  \/ \E r \in Requests : x.plan = <<Approval(r), Request(r)>> /\ x.held = {}

\* A batch has nothing but requests before its first event, and keeps the audit lock after it.
InBatch(x) ==
  /\ x.op \in {"none", "expire", "sweep"}
  /\ Audit \in x.held \cup Elems(x.plan) \/ OnlyKinds(x.held \cup Elems(x.plan), {"request"})
  /\ x.at = "locking" => x.plan = <<>> \/ \E r \in Requests : x.plan = <<Request(r)>>

Ordered(t, x) ==
  /\ x.at = "working" => InOrder(x.plan, x.held)
  /\ x.at = "locking" /\ t \notin Workers => LocksRequest(x)
  /\ t \in Workers => InBatch(x)

OrderInv == Inv /\ \A t \in Txns : Ordered(t, txn[t])

LEMMA InitOrder == Init => OrderInv
  <1>1. ASSUME NEW t \in Txns PROVE Ordered(t, Idle)
    BY NoPlan DEF Ordered, InBatch, OnlyKinds, Idle
  <1> QED
    BY <1>1, InitInv DEF Init, OrderInv

\* A step of one transaction.
LEMMA OneOrdered ==
  ASSUME OrderInv, NEW t \in Txns, NEW x, txn' = [txn EXCEPT ![t] = x], Ordered(t, x), Inv'
  PROVE  OrderInv'
  <1>1. \A o \in Txns : txn'[o] = IF o = t THEN x ELSE txn[o]
    BY DEF OrderInv, Inv, TypeOK
  <1>2. \A o \in Txns : Ordered(o, txn[o])'
    BY <1>1 DEF OrderInv, Ordered, LocksRequest, InBatch, OnlyKinds
  <1> QED
    BY <1>2 DEF OrderInv

\* A handler's call begins.
LEMMA BeginOrder ==
  ASSUME OrderInv, Inv', NEW t \in Handlers, NEW op, NEW r, NEW at, NEW plan, NEW marks,
         Begin(t, op, r, at, plan, marks),
         at = "working" => InOrder(plan, {}),
         at = "locking" => \/ plan = <<>>
                           \/ \E q \in Requests : plan = <<Request(q)>>
                           \/ \E q \in Requests : plan = <<Approval(q), Request(q)>>
  PROVE  OrderInv'
  <1> DEFINE x == [Idle EXCEPT !.op = op, !.at = at, !.req = {r}, !.plan = plan, !.marks = marks]
  <1>1. x.at = at /\ x.plan = plan /\ x.held = {}
    BY DEF Idle
  <1>2. txn' = [txn EXCEPT ![t] = x] /\ t \in Txns /\ t \notin Workers
    BY DEF Begin, Txns
  <1> HIDE DEF x
  <1>3. Ordered(t, x)
    BY <1>1, <1>2 DEF Ordered, LocksRequest, OnlyKinds
  <1> QED
    BY <1>2, <1>3, OneOrdered

LEMMA CallOrder ==
  ASSUME OrderInv, Inv', NEW h \in Handlers, NEW r \in Requests,
         Authorize(h, r) \/ Decide(h, r) \/ Owned(h, r) \/ Replay(h, r)
  PROVE  OrderInv'
  <1>1. ASSUME NEW to \in {"pending", "authorized", "final"}, NEW p \in AuthorizePlans(r, to),
               Begin(h, "authorize", r, "working", p, {Mark(r, "none", to, TRUE)})
        PROVE  OrderInv'
    <2>1. InOrder(p, {})
      BY AuthorizeRight DEF Status
    <2> QED
      BY <1>1, <2>1, BeginOrder
  <1>2. CASE Decide(h, r)
    BY <1>2, BeginOrder DEF Decide, DecideLocks
  <1>3. CASE Owned(h, r)
    <2>1. PICK op : Begin(h, op, r, "locking", <<Request(r)>>, {})
      BY <1>3 DEF Owned
    <2> QED
      BY <2>1, BeginOrder
  <1>4. CASE Replay(h, r)
    <2>1. PICK op : Begin(h, op, r, "locking", <<>>, {})
      BY <1>4 DEF Replay
    <2> QED
      BY <2>1, BeginOrder
  <1> QED
    BY <1>1, <1>2, <1>3, <1>4 DEF Authorize

LEMMA FinishOrder ==
  ASSUME OrderInv, Inv', NEW h \in Handlers, NEW r \in Requests, Finish(h, r) PROVE OrderInv'
  <1>a. PICK b \in BOOLEAN : \E p \in Plans(r, Effect("final", b, TRUE, {Request(r)}), Settling(r)) :
          txn' = [txn EXCEPT ![h] = [Idle EXCEPT !.op = "finish", !.at = "working", !.req = {r}, !.plan = p,
                                                 !.marks = {Mark(r, "executing", "final", FALSE)}]]
    BY DEF Finish
  <1>1. PICK p \in Plans(r, Effect("final", b, TRUE, {Request(r)}), Settling(r)) :
          txn' = [txn EXCEPT ![h] = [Idle EXCEPT !.op = "finish", !.at = "working", !.req = {r}, !.plan = p,
                                                 !.marks = {Mark(r, "executing", "final", FALSE)}]]
    BY <1>a
  <1> DEFINE e == Effect("final", b, TRUE, {Request(r)})
             x == [Idle EXCEPT !.op = "finish", !.at = "working", !.req = {r}, !.plan = p,
                               !.marks = {Mark(r, "executing", "final", FALSE)}]
  <1>2. e.flushes = {Request(r)} /\ e.audits
    BY DEF Effect
  <1>3. Early({})
    BY DEF Early
  <1>4. InOrder(p, {})
    BY <1>2, <1>3, PlanRight
  <1>5. x.at = "working" /\ x.plan = p /\ x.held = {}
    BY DEF Idle
  <1>6. h \in Txns /\ h \notin Workers /\ txn' = [txn EXCEPT ![h] = x]
    BY <1>1 DEF Txns
  <1> HIDE DEF x
  <1>7. Ordered(h, x)
    BY <1>4, <1>5, <1>6 DEF Ordered
  <1> QED
    BY <1>6, <1>7, OneOrdered

LEMMA TakeOrder == ASSUME OrderInv, Inv', NEW t \in Txns, Take(t) PROVE OrderInv'
  <1> DEFINE y == txn[t]
             l == Head(y.plan)
             x == [y EXCEPT !.held = @ \cup {l}, !.plan = Tail(@)]
  <1>1. y \in Txn /\ y.plan \in Seq(Locks) /\ y.plan # <<>> /\ Ordered(t, y)
    BY DEF Take, Granted, OrderInv, Inv, TypeOK, Txn
  <1>2. txn' = [txn EXCEPT ![t] = x]
    BY DEF Take, OrderInv, Inv, TypeOK
  <1>3. x.op = y.op /\ x.at = y.at /\ x.held = y.held \cup {l} /\ x.plan = Tail(y.plan)
    BY <1>1 DEF Txn
  <1>4. x.held \cup Elems(x.plan) = y.held \cup Elems(y.plan)
    <2>1. /\ l = y.plan[1]
          /\ Len(y.plan) \in Nat /\ Len(y.plan) >= 1 /\ Len(Tail(y.plan)) = Len(y.plan) - 1
          /\ \A i \in 1 .. Len(y.plan) - 1 : Tail(y.plan)[i] = y.plan[i + 1]
      BY <1>1, HeadTail
    <2>2. ASSUME NEW i \in 1 .. Len(y.plan), i # 1 PROVE y.plan[i] \in Elems(Tail(y.plan))
      <3>1. i - 1 \in 1 .. Len(Tail(y.plan)) /\ Tail(y.plan)[i - 1] = y.plan[i]
        BY <2>1, <2>2
      <3> QED
        BY <3>1 DEF Elems
    <2>3. 1 \in 1 .. Len(y.plan)
      BY <2>1
    <2>4. ASSUME NEW i \in 1 .. Len(Tail(y.plan)) PROVE Tail(y.plan)[i] \in Elems(y.plan)
      <3>1. i + 1 \in 1 .. Len(y.plan) /\ Tail(y.plan)[i] = y.plan[i + 1]
        BY <2>1
      <3> QED
        BY <3>1 DEF Elems
    <2>5. Elems(y.plan) = {l} \cup Elems(Tail(y.plan))
      BY <2>1, <2>2, <2>3, <2>4 DEF Elems
    <2> QED
      BY <1>3, <2>5
  <1> HIDE DEF l, x, y
  <1>5. ASSUME x.at = "working" PROVE Ordered(t, x)
    <2>1. InOrder(x.plan, x.held)
      BY <1>1, <1>3, <1>5, TailInOrder DEF Ordered, l
    <2> QED
      BY <1>1, <1>3, <1>4, <1>5, <2>1 DEF Ordered, InBatch
  <1>6. ASSUME x.at = "locking" PROVE Ordered(t, x)
    <2>1. \A r \in Requests : /\ Head(<<Request(r)>>) = Request(r) /\ Tail(<<Request(r)>>) = <<>>
                             /\ Head(<<Approval(r), Request(r)>>) = Approval(r)
                             /\ Tail(<<Approval(r), Request(r)>>) = <<Request(r)>>
      OBVIOUS
    <2>2. t \notin Workers => LocksRequest(x)
      <3>1. SUFFICES ASSUME t \notin Workers PROVE LocksRequest(x)
        OBVIOUS
      <3>2. LocksRequest(y)
        BY <1>1, <1>3, <1>6, <3>1 DEF Ordered
      <3>3. ASSUME NEW r \in Requests, y.plan = <<Request(r)>>, OnlyKinds(y.held, {"approval"})
            PROVE  LocksRequest(x)
        BY <1>3, <2>1, <3>3, Kinds DEF LocksRequest, OnlyKinds, l
      <3>4. ASSUME NEW r \in Requests, y.plan = <<Approval(r), Request(r)>>, y.held = {}
            PROVE  LocksRequest(x)
        <4>1. x.plan = <<Request(r)>> /\ x.held = {Approval(r)}
          BY <1>3, <2>1, <3>4 DEF l
        <4> QED
          BY <4>1, Kinds DEF LocksRequest, OnlyKinds
      <3> QED
        BY <1>1, <3>2, <3>3, <3>4 DEF LocksRequest
    <2>3. t \in Workers => InBatch(x)
      BY <1>1, <1>3, <1>4, <1>6, <2>1 DEF Ordered, InBatch
    <2> QED
      BY <1>6, <2>2, <2>3 DEF Ordered
  <1>7. ASSUME x.at \notin {"working", "locking"} PROVE Ordered(t, x)
    BY <1>1, <1>3, <1>4, <1>7 DEF Ordered, InBatch
  <1> QED
    BY <1>2, <1>5, <1>6, <1>7, OneOrdered DEF y, l

LEMMA ProceedOrder ==
  ASSUME OrderInv, Inv', NEW t \in Txns, NEW r \in Requests, Proceed(t, r) PROVE OrderInv'
  <1> DEFINE y == txn[t]
             locked == y.op \notin {"replay", "continue"}
  <1>1. y.at = "locking" /\ y.plan = <<>> /\ y \in Txn /\ Ordered(t, y)
    BY DEF Proceed, Checking, OrderInv, Inv, TypeOK
  <1>a. PICK c \in Options(t, r) :
          txn' = [txn EXCEPT ![t].at = "working", ![t].plan = c[2],
                    ![t].marks = @ \cup {Mark(r, status[r], c[1].to, locked)}]
    BY DEF Proceed
  <1> DEFINE e == c[1]
             p == c[2]
  <1>b. e \in Effects(y.op, r, status[r]) /\ p \in Plans(r, e, Settling(r))
    BY OptionIs
  <1>2. txn' = [txn EXCEPT ![t].at = "working", ![t].plan = p,
                  ![t].marks = @ \cup {Mark(r, status[r], e.to, locked)}]
    BY <1>a
  <1> HIDE DEF e, p
  <1> DEFINE m == Mark(r, status[r], e.to, locked)
             x == [y EXCEPT !.at = "working", !.plan = p, !.marks = @ \cup {m}]
  <1>3. /\ e.flushes \in SUBSET {Approval(r), Agent(r), Request(r)}
        /\ Approval(r) \in e.flushes => e.audits
        /\ y.op \in {"none", "expire", "sweep"} => e.audits
    BY <1>b, EffectsRight
  <1>4. txn' = [txn EXCEPT ![t] = x]
    BY <1>2 DEF OrderInv, Inv, TypeOK
  <1>5. x.op = y.op /\ x.at = "working" /\ x.plan = p /\ x.held = y.held
    BY <1>1 DEF Txn
  <1> HIDE DEF x
  <1>6. Early(y.held)
    <2>1. CASE t \in Workers
      BY <1>1, <2>1, NoPlan DEF Ordered, InBatch, Early, OnlyKinds
    <2>2. CASE t \notin Workers
      <3>1. <<>> # <<Request(r)>> /\ \A q : <<>> # <<Request(q)>> /\ <<>> # <<Approval(q), Request(q)>>
        OBVIOUS
      <3> QED
        BY <1>1, <2>2, <3>1 DEF Ordered, LocksRequest, Early, OnlyKinds
    <2> QED
      BY <2>1, <2>2
  <1>7. InOrder(p, y.held) /\ (e.audits => Audit \in Elems(p))
    BY <1>b, <1>3, <1>6, PlanRight
  <1>8. Ordered(t, x)
    BY <1>1, <1>3, <1>5, <1>7 DEF Ordered, InBatch
  <1> QED
    BY <1>4, <1>8, OneOrdered

\* A transaction that ends, or whose tool runs, waits for nothing.
LEMMA RestOrder ==
  ASSUME OrderInv, Inv', NEW t \in Txns, NEW x, txn' = [txn EXCEPT ![t] = x],
         x.op = "none", x.at \in {"calling", "ended"}, x.plan = <<>>, x.held = {}
  PROVE  OrderInv'
  <1>1. Ordered(t, x)
    BY NoPlan DEF Ordered, InBatch, OnlyKinds
  <1> QED
    BY <1>1, OneOrdered

LEMMA DeclineOrder ==
  ASSUME OrderInv, Inv', NEW t \in Txns, NEW r \in Requests, Decline(t, r) PROVE OrderInv'
  <1>1. CASE t \in Workers
    <2> DEFINE x == [txn[t] EXCEPT !.at = "working"]
    <2>1. txn[t] \in Txn /\ Ordered(t, txn[t])
      BY DEF OrderInv, Inv, TypeOK
    <2>2. txn' = [txn EXCEPT ![t] = x] /\ txn[t].plan = <<>>
      BY <1>1 DEF Decline, Checking, OrderInv, Inv, TypeOK
    <2>3. x.op = txn[t].op /\ x.at = "working" /\ x.plan = txn[t].plan /\ x.held = txn[t].held
      BY <2>1 DEF Txn
    <2> HIDE DEF x
    <2>4. Ordered(t, x)
      BY <1>1, <2>1, <2>2, <2>3, ShortInOrder DEF Ordered, InBatch
    <2> QED
      BY <2>2, <2>4, OneOrdered
  <1>2. CASE t \notin Workers
    <2>1. txn' = [txn EXCEPT ![t] = Ended]
      BY <1>2 DEF Decline
    <2>2. Ended.op = "none" /\ Ended.at = "ended" /\ Ended.plan = <<>> /\ Ended.held = {}
      BY DEF Ended, Idle
    <2> QED
      BY <2>1, <2>2, RestOrder
  <1> QED
    BY <1>1, <1>2

LEMMA CommitOrder == ASSUME OrderInv, Inv', NEW t \in Txns, Commit(t) PROVE OrderInv'
  <1> DEFINE x == [Ended EXCEPT !.at = "calling", !.req = txn[t].req]
  <1>1. x.op = "none" /\ x.at = "calling" /\ x.plan = <<>> /\ x.held = {}
    BY DEF Ended, Idle
  <1>2. Ended.op = "none" /\ Ended.at = "ended" /\ Ended.plan = <<>> /\ Ended.held = {}
    BY DEF Ended, Idle
  <1>3. txn' = [txn EXCEPT ![t] = x] \/ txn' = [txn EXCEPT ![t] = Ended]
    BY DEF Commit, Released
  <1> HIDE DEF x
  <1> QED
    BY <1>1, <1>2, <1>3, RestOrder

\* What the worker does between two requests, and when it begins.
LEMMA BatchOrder ==
  ASSUME OrderInv, Inv', NEW w \in Workers, QueryApprovals(w) \/ Batch(w)
  PROVE  OrderInv'
  <1> DEFINE y == txn[w]
  <1>1. w \in Txns /\ y \in Txn /\ Ordered(w, y) /\ Right(y)
    BY DEF OrderInv, Inv, TypeOK, Txns
  <1>2. ASSUME NEW x, txn' = [txn EXCEPT ![w] = x], x.op \in {"expire", "sweep"}, x.held = y.held,
               y.plan = <<>>,
               \/ x.at = "working" /\ x.plan = <<>>
               \/ x.at = "locking" /\ \E r \in Requests : x.plan = <<Request(r)>>
               \/ x.at = "working" /\ \E r \in Requests : x.plan = <<Audit, Request(r)>>
        PROVE  OrderInv'
    <2>1. Audit \in y.held \/ OnlyKinds(y.held, {"request"})
      BY <1>1, <1>2, NoPlan DEF Ordered, InBatch, OnlyKinds
    <2>2. CASE x.at = "working" /\ x.plan = <<>>
      <3>1. Ordered(w, x)
        BY <1>2, <2>1, <2>2, NoPlan, ShortInOrder DEF Ordered, InBatch, OnlyKinds
      <3> QED
        BY <1>1, <1>2, <3>1, OneOrdered
    <2>3. ASSUME x.at = "locking", NEW r \in Requests, x.plan = <<Request(r)>> PROVE OrderInv'
      <3>1. Elems(<<Request(r)>>) = {Request(r)}
        BY LocksTyped, Single DEF Elems
      <3>2. Ordered(w, x)
        BY <1>2, <2>1, <2>3, <3>1, Kinds DEF Ordered, InBatch, OnlyKinds
      <3> QED
        BY <1>1, <1>2, <3>2, OneOrdered
    <2>4. ASSUME x.at = "working", NEW r \in Requests, x.plan = <<Audit, Request(r)>> PROVE OrderInv'
      <3> DEFINE p == <<Audit, Request(r)>>
      <3>1. Len(p) = 2 /\ p[1] = Audit /\ p[2] = Request(r)
        OBVIOUS
      <3> HIDE DEF p
      <3>2. \A h \in y.held : Kind(h) = "request" => Below(h, Audit)
        BY Kinds, Ranks DEF Below
      <3>3. InOrder(p, y.held)
        BY <2>1, <3>1, <3>2, Kinds DEF InOrder, OnlyKinds
      <3>4. Audit \in Elems(p)
        BY <3>1 DEF Elems
      <3>5. x.plan = p
        BY <2>4 DEF p
      <3>6. Ordered(w, x)
        BY <1>2, <2>4, <3>3, <3>4, <3>5 DEF Ordered, InBatch
      <3> QED
        BY <1>1, <1>2, <3>6, OneOrdered
    <2> QED
      BY <1>2, <2>2, <2>3, <2>4
  <1>3. CASE QueryApprovals(w)
    <2>1. PICK S : txn' = [txn EXCEPT ![w] = [Idle EXCEPT !.op = "expire", !.at = "working", !.todo = S]]
      BY <1>3 DEF QueryApprovals
    <2>2. y.plan = <<>> /\ y.held = {}
      BY <1>1, <1>3 DEF QueryApprovals, Right, AtRest
    <2> DEFINE x == [Idle EXCEPT !.op = "expire", !.at = "working", !.todo = S]
    <2>3. x.op = "expire" /\ x.at = "working" /\ x.plan = <<>> /\ x.held = {}
      BY DEF Idle
    <2>4. txn' = [txn EXCEPT ![w] = x]
      BY <2>1
    <2> HIDE DEF x
    <2> QED
      BY <1>2, <2>2, <2>3, <2>4
  <1>4. ASSUME NEW r \in Requests, LockNext(w, r) PROVE OrderInv'
    <2> DEFINE x == [y EXCEPT !.req = {r}, !.todo = @ \ {r}, !.plan = <<Request(r)>>, !.at = "locking"]
    <2>1. txn' = [txn EXCEPT ![w] = x] /\ y.plan = <<>> /\ y.op = "expire"
      BY <1>1, <1>4 DEF LockNext, HasNext, Between, OrderInv, Inv, TypeOK
    <2>2. x.op = y.op /\ x.at = "locking" /\ x.plan = <<Request(r)>> /\ x.held = y.held
      BY <1>1 DEF Txn
    <2> HIDE DEF x, y
    <2> QED
      BY <1>2, <2>1, <2>2
  <1>5. CASE QueryClaims(w)
    <2>1. PICK S : txn' = [txn EXCEPT ![w].op = "sweep", ![w].todo = S]
      BY <1>5 DEF QueryClaims
    <2> DEFINE x == [y EXCEPT !.op = "sweep", !.todo = S]
    <2>2. txn' = [txn EXCEPT ![w] = x] /\ y.plan = <<>> /\ y.at = "working"
      BY <1>1, <1>5, <2>1 DEF QueryClaims, AtEnd, Between, OrderInv, Inv, TypeOK
    <2>3. x.op = "sweep" /\ x.at = y.at /\ x.plan = y.plan /\ x.held = y.held
      BY <1>1 DEF Txn
    <2> HIDE DEF x, y
    <2> QED
      BY <1>2, <2>2, <2>3
  <1>6. ASSUME NEW r \in Requests, SweepNext(w, r) PROVE OrderInv'
    <2> DEFINE x == [y EXCEPT !.req = {r}, !.todo = @ \ {r}, !.plan = <<Audit, Request(r)>>,
                       !.marks = @ \cup {Mark(r, "executing", "final", FALSE)}]
    <2>1. txn' = [txn EXCEPT ![w] = x] /\ y.plan = <<>> /\ y.op = "sweep" /\ y.at = "working"
      BY <1>1, <1>6 DEF SweepNext, HasNext, Between, OrderInv, Inv, TypeOK
    <2>2. x.op = y.op /\ x.at = y.at /\ x.plan = <<Audit, Request(r)>> /\ x.held = y.held
      BY <1>1 DEF Txn
    <2> HIDE DEF x, y
    <2> QED
      BY <1>2, <2>1, <2>2
  <1> QED
    BY <1>3, <1>4, <1>5, <1>6 DEF Batch

LEMMA StepOrder == OrderInv /\ [Next]_vars => OrderInv'
  <1> SUFFICES ASSUME OrderInv, [Next]_vars PROVE OrderInv'
    OBVIOUS
  <1>0. Inv'
    BY StepInv DEF OrderInv
  <1>1. ASSUME NEW h \in Handlers, NEW r \in Requests,
               Authorize(h, r) \/ Decide(h, r) \/ Owned(h, r) \/ Replay(h, r) \/ Finish(h, r)
        PROVE  OrderInv'
    BY <1>0, <1>1, CallOrder, FinishOrder
  <1>2. ASSUME NEW w \in Workers, QueryApprovals(w) PROVE OrderInv'
    BY <1>0, <1>2, BatchOrder
  <1>3. ASSUME NEW t \in Txns, Step(t) PROVE OrderInv'
    <2>1. CASE Take(t)
      BY <1>0, <2>1, TakeOrder
    <2>2. ASSUME NEW r \in Requests, Proceed(t, r) \/ Decline(t, r) PROVE OrderInv'
      BY <1>0, <2>2, ProceedOrder, DeclineOrder
    <2>3. CASE t \in Workers /\ Batch(t)
      BY <1>0, <2>3, BatchOrder
    <2>4. CASE Commit(t)
      BY <1>0, <2>4, CommitOrder
    <2> QED
      BY <1>3, <2>1, <2>2, <2>3, <2>4 DEF Step
  <1>4. ASSUME NEW t \in Txns, BreakDeadlock(t) \/ Abort(t) PROVE OrderInv'
    <2>1. txn' = [txn EXCEPT ![t] = Ended]
      BY <1>4 DEF BreakDeadlock, Abort
    <2>2. Ended.op = "none" /\ Ended.at = "ended" /\ Ended.plan = <<>> /\ Ended.held = {}
      BY DEF Ended, Idle
    <2> QED
      BY <1>0, <2>1, <2>2, RestOrder
  <1>5. CASE UNCHANGED vars
    BY <1>0, <1>5 DEF vars, OrderInv, Ordered, LocksRequest, InBatch, OnlyKinds
  <1> QED
    BY <1>1, <1>2, <1>3, <1>4, <1>5 DEF Next

-----------------------------------------------------------------------------
(* Deadlocks *)

\* One of a set of transactions waits for a lock of the highest rank.
LEMMA Highest ==
  ASSUME NEW S, S # {}, NEW R(_), \A t \in S : R(t) \in 1 .. 7
  PROVE  \E t \in S : \A o \in S : R(o) <= R(t)
  OBVIOUS

Awaited(t) == Head(txn[t].plan)
Height(t) == Rank(Kind(Awaited(t)))

\* A transaction that waits and does not come late holds only locks that come before the
\* one it waits for, or is a batch of the worker with nothing but requests.
LEMMA WaitsAbove ==
  ASSUME OrderInv, NEW t \in Txns, NEW o \in Txns, Blocks(o, t), ~LateForRow(t)
  PROVE  \/ \A l \in txn[t].held : Below(l, Awaited(t))
         \/ /\ t \in Workers /\ Kind(Awaited(t)) = "request"
            /\ \A l \in txn[t].held : Kind(l) = "request"
  <1> DEFINE y == txn[t]
             l == Awaited(t)
  <1>1. y \in Txn /\ Ordered(t, y) /\ Right(y) /\ y.plan \in Seq(Locks) /\ y.plan # <<>>
    BY DEF OrderInv, Inv, TypeOK, Txn, Blocks
  <1>2. l = y.plan[1] /\ 1 \in 1 .. Len(y.plan)
    BY <1>1, HeadTail DEF Awaited
  <1>3. l \notin y.held
    BY DEF OrderInv, Inv, Apart, Blocks, Holds, Awaited
  <1>4. /\ ~(Kind(l) \in RowKinds /\ Audit \in y.held)
        /\ ~(Kind(l) \in {"agent", "request"} /\ y.at = "working")
    BY <1>1 DEF LateForRow, WaitsFor, Holds, Kind, RowKinds, Awaited
  <1>5. CASE y.at = "working"
    <2>1. InOrder(y.plan, y.held)
      BY <1>1, <1>5 DEF Ordered
    <2>2. \A j \in 1 .. 1 - 1 : FALSE
      OBVIOUS
    <2> QED
      BY <1>2, <1>3, <1>4, <1>5, <2>1, <2>2 DEF InOrder
  <1>6. CASE y.at = "locking" /\ t \notin Workers
    <2>1. LocksRequest(y)
      BY <1>1, <1>6 DEF Ordered
    <2>2. ASSUME NEW r \in Requests, y.plan = <<Request(r)>>, OnlyKinds(y.held, {"approval"})
          PROVE  \A h \in y.held : Below(h, l)
      BY <1>2, <2>2, Kinds, Ranks DEF OnlyKinds, Below
    <2> QED
      BY <1>1, <2>1, <2>2 DEF LocksRequest
  <1>7. CASE y.at = "locking" /\ t \in Workers
    <2>1. PICK r \in Requests : y.plan = <<Request(r)>>
      BY <1>1, <1>7 DEF Ordered, InBatch
    <2>2. l = Request(r) /\ Kind(l) = "request" /\ Elems(y.plan) = {Request(r)}
      BY <1>2, <2>1, LocksTyped, Single, Kinds DEF Elems
    <2>3. Audit # Request(r)
      BY Kinds
    <2>4. Audit \notin y.held
      BY <1>4, <2>2 DEF RowKinds
    <2> QED
      BY <1>1, <1>7, <2>2, <2>3, <2>4 DEF Ordered, InBatch, OnlyKinds
  <1>8. CASE y.at \notin {"working", "locking"}
    BY <1>1, <1>8 DEF Right, AtRest, Txn, Places
  <1> QED
    BY <1>5, <1>6, <1>7, <1>8

\* Every deadlock, of any number of transactions, contains a transaction that comes late
\* for a row, two that wait for usage rows, or two batches of the worker that wait for
\* requests: all others lock approval, request, budgets and audit log in this order.
THEOREM DeadlockCauses == Spec => []DeadlocksExplained
  <1>1. OrderInv => DeadlocksExplained
    <2> SUFFICES ASSUME OrderInv, NEW S \in SUBSET Txns, Deadlocked(S), \A t \in S : ~LateForRow(t)
                 PROVE  \/ \E t \in S : \E o \in S \ {t} : WaitsFor(t, {"usage"}) /\ WaitsFor(o, {"usage"})
                        \/ \E w \in S \cap Workers : \E x \in (S \cap Workers) \ {w} :
                             WaitsFor(w, {"request"}) /\ WaitsFor(x, {"request"})
      BY DEF DeadlocksExplained
    <2>1. S # {} /\ \A t \in S : \E o \in S : Blocks(o, t)
      BY DEF Deadlocked, Stuck
    <2>2. \A t \in S : Height(t) \in 1 .. 7
      BY Ranks DEF Height
    <2>3. PICK t \in S : \A o \in S : Height(o) <= Height(t)
      BY <2>1, <2>2, Highest
    <2>4. ASSUME NEW u \in S, \A o \in S : Height(o) <= Height(u)
          PROVE  \/ \E o \in S \ {u} : WaitsFor(u, {"usage"}) /\ WaitsFor(o, {"usage"})
                 \/ \E o \in S \ {u} : /\ o \in Workers /\ Height(o) = Height(u)
                                       /\ WaitsFor(u, {"request"}) /\ WaitsFor(o, {"request"})
      <3>1. PICK o \in S : Blocks(o, u)
        BY <2>1
      <3>2. PICK k \in S : Blocks(k, o)
        BY <2>1
      <3>3. o # u /\ Awaited(u) \in txn[o].held /\ txn[u].plan # <<>> /\ txn[o].plan # <<>>
        BY <3>1, <3>2 DEF Blocks, Holds, Awaited
      <3>4. \/ Below(Awaited(u), Awaited(o))
            \/ o \in Workers /\ Kind(Awaited(o)) = "request" /\ Kind(Awaited(u)) = "request"
        BY <3>2, <3>3, WaitsAbove
      <3>5. CASE Below(Awaited(u), Awaited(o))
        <4>1. ~(Height(u) < Height(o))
          BY <2>2, <2>4
        <4>2. Kind(Awaited(u)) = "usage" /\ Kind(Awaited(o)) = "usage"
          BY <3>5, <4>1 DEF Below, Height
        <4> QED
          BY <3>3, <4>2 DEF WaitsFor, Kind, Awaited
      <3>6. CASE o \in Workers /\ Kind(Awaited(o)) = "request" /\ Kind(Awaited(u)) = "request"
        BY <3>3, <3>6 DEF WaitsFor, Kind, Awaited, Height
      <3> QED
        BY <3>4, <3>5, <3>6
    <2>5. CASE \E o \in S \ {t} : WaitsFor(t, {"usage"}) /\ WaitsFor(o, {"usage"})
      BY <2>5
    <2>6. ASSUME NEW o \in S \ {t}, o \in Workers, Height(o) = Height(t)
          PROVE  \/ \E u \in S : \E k \in S \ {u} : WaitsFor(u, {"usage"}) /\ WaitsFor(k, {"usage"})
                 \/ \E w \in S \cap Workers : \E x \in (S \cap Workers) \ {w} :
                      WaitsFor(w, {"request"}) /\ WaitsFor(x, {"request"})
      BY <2>3, <2>4, <2>6
    <2> QED
      BY <2>3, <2>4, <2>5, <2>6
  <1> QED
    BY <1>1, InitOrder, StepOrder, PTL DEF Spec

-----------------------------------------------------------------------------
(* Someone goes on *)

\* A call has no batch, the worker's run is in one of the two halves of its job, and
\* whoever is to read a status has a request to read it of.
Shape(t, x) ==
  x.at \in {"locking", "working"} =>
    /\ x.at = "locking" => x.req # {}
    /\ t \in Workers => x.op \in {"expire", "sweep"}
    /\ t \notin Workers => x.op # "expire" /\ x.todo = {}

GoInv == Inv /\ \A t \in Txns : Shape(t, txn[t])

LEMMA InitGo == Init => GoInv
  BY InitInv DEF Init, GoInv, Shape, Idle

LEMMA OneShape ==
  ASSUME GoInv, Inv', NEW t \in Txns, NEW x, txn' = [txn EXCEPT ![t] = x], Shape(t, x)
  PROVE  GoInv'
  <1>1. \A o \in Txns : txn'[o] = IF o = t THEN x ELSE txn[o]
    BY DEF GoInv, Inv, TypeOK
  <1>2. \A o \in Txns : Shape(o, txn'[o])
    BY <1>1 DEF GoInv
  <1> QED
    BY <1>2 DEF GoInv, Shape

\* A call begins, or goes on after the provider's answer.
LEMMA CallGo ==
  ASSUME GoInv, Inv', NEW h \in Handlers, NEW r \in Requests,
         Authorize(h, r) \/ Decide(h, r) \/ Owned(h, r) \/ Replay(h, r) \/ Finish(h, r)
  PROVE  GoInv'
  <1>1. h \in Txns /\ h \notin Workers
    BY DEF Txns
  <1>2. ASSUME NEW op, op # "expire", NEW at, NEW plan, NEW marks, Begin(h, op, r, at, plan, marks)
        PROVE  GoInv'
    <2> DEFINE x == [Idle EXCEPT !.op = op, !.at = at, !.req = {r}, !.plan = plan, !.marks = marks]
    <2>1. x.op = op /\ x.req = {r} /\ x.todo = {}
      BY DEF Idle
    <2>2. txn' = [txn EXCEPT ![h] = x]
      BY <1>2 DEF Begin
    <2> HIDE DEF x
    <2>3. Shape(h, x)
      BY <1>1, <1>2, <2>1 DEF Shape
    <2> QED
      BY <1>1, <2>2, <2>3, OneShape
  <1>3. CASE Authorize(h, r)
    <2>1. PICK to \in {"pending", "authorized", "final"} : \E p \in AuthorizePlans(r, to) :
            Begin(h, "authorize", r, "working", p, {Mark(r, "none", to, TRUE)})
      BY <1>3 DEF Authorize
    <2> QED
      BY <1>2, <2>1
  <1>4. CASE Decide(h, r)
    BY <1>2, <1>4 DEF Decide
  <1>5. CASE Owned(h, r)
    <2>1. PICK op \in {"poll", "claim", "report", "execute"} : Begin(h, op, r, "locking", <<Request(r)>>, {})
      BY <1>5 DEF Owned
    <2> QED
      BY <1>2, <2>1
  <1>6. CASE Replay(h, r)
    BY <1>2, <1>6 DEF Replay
  <1>7. CASE Finish(h, r)
    <2>1. PICK e \in {Effect("final", b, TRUE, {Request(r)}) : b \in BOOLEAN} : \E p \in Plans(r, e, Settling(r)) :
            txn' = [txn EXCEPT ![h] = [Idle EXCEPT !.op = "finish", !.at = "working", !.req = {r}, !.plan = p,
                                                   !.marks = {Mark(r, "executing", "final", FALSE)}]]
      BY <1>7 DEF Finish
    <2>2. PICK p \in Plans(r, e, Settling(r)) :
            txn' = [txn EXCEPT ![h] = [Idle EXCEPT !.op = "finish", !.at = "working", !.req = {r}, !.plan = p,
                                                   !.marks = {Mark(r, "executing", "final", FALSE)}]]
      BY <2>1
    <2> DEFINE x == [Idle EXCEPT !.op = "finish", !.at = "working", !.req = {r}, !.plan = p,
                                 !.marks = {Mark(r, "executing", "final", FALSE)}]
    <2>3. x.op = "finish" /\ x.at = "working" /\ x.todo = {}
      BY DEF Idle
    <2>4. txn' = [txn EXCEPT ![h] = x]
      BY <2>2
    <2> HIDE DEF x
    <2>5. Shape(h, x)
      BY <1>1, <2>3 DEF Shape
    <2> QED
      BY <1>1, <2>4, <2>5, OneShape
  <1> QED
    BY <1>3, <1>4, <1>5, <1>6, <1>7

\* Locks are taken, a status is read, a transaction ends.
LEMMA StepGo ==
  ASSUME GoInv, Inv', NEW t \in Txns,
         \/ Take(t) \/ Commit(t) \/ Abort(t)
         \/ \E r \in Requests : Proceed(t, r) \/ Decline(t, r)
  PROVE  GoInv'
  <1> DEFINE y == txn[t]
  <1>1. y \in Txn /\ Shape(t, y)
    BY DEF GoInv, Inv, TypeOK
  <1>2. ASSUME NEW x, txn' = [txn EXCEPT ![t] = x], x.at \notin {"locking", "working"} PROVE GoInv'
    BY <1>2, OneShape DEF Shape
  <1>3. ASSUME NEW x, txn' = [txn EXCEPT ![t] = x], x.op = y.op, x.todo = y.todo, x.req = y.req,
               y.at \in {"locking", "working"}, x.at \in {"working", y.at}
        PROVE  GoInv'
    <2>1. Shape(t, x)
      BY <1>1, <1>3 DEF Shape
    <2> QED
      BY <1>3, <2>1, OneShape
  <1>4. CASE Take(t)
    <2> DEFINE x == [y EXCEPT !.held = @ \cup {Head(y.plan)}, !.plan = Tail(@)]
    <2>1. txn' = [txn EXCEPT ![t] = x]
      BY <1>4 DEF Take, GoInv, Inv, TypeOK
    <2>2. y.at \in {"locking", "working"}
      BY <1>1, <1>4 DEF Take, Granted, GoInv, Inv, Right, AtRest, Txn, Places
    <2>3. x.op = y.op /\ x.todo = y.todo /\ x.req = y.req /\ x.at = y.at
      BY <1>1 DEF Txn
    <2> HIDE DEF x, y
    <2> QED
      BY <1>3, <2>1, <2>2, <2>3
  <1>5. ASSUME NEW r \in Requests, Proceed(t, r) PROVE GoInv'
    <2>1. PICK c \in Options(t, r) :
            txn' = [txn EXCEPT ![t].at = "working", ![t].plan = c[2],
                      ![t].marks = @ \cup {Mark(r, status[r], c[1].to, y.op \notin {"replay", "continue"})}]
      BY <1>5 DEF Proceed
    <2> DEFINE x == [y EXCEPT !.at = "working", !.plan = c[2],
                       !.marks = @ \cup {Mark(r, status[r], c[1].to, y.op \notin {"replay", "continue"})}]
    <2>2. txn' = [txn EXCEPT ![t] = x]
      BY <2>1 DEF GoInv, Inv, TypeOK
    <2>3. x.op = y.op /\ x.todo = y.todo /\ x.req = y.req /\ x.at = "working" /\ y.at = "locking"
      BY <1>1, <1>5 DEF Txn, Proceed, Checking
    <2> HIDE DEF x, y
    <2> QED
      BY <1>3, <2>2, <2>3
  <1>6. Ended.at \notin {"locking", "working"}
    BY DEF Ended, Idle
  <1>7. ASSUME NEW r \in Requests, Decline(t, r) PROVE GoInv'
    <2>1. CASE t \in Workers
      <3> DEFINE x == [y EXCEPT !.at = "working"]
      <3>1. txn' = [txn EXCEPT ![t] = x] /\ y.at = "locking"
        BY <1>7, <2>1 DEF Decline, Checking, GoInv, Inv, TypeOK
      <3>2. x.op = y.op /\ x.todo = y.todo /\ x.req = y.req /\ x.at = "working"
        BY <1>1 DEF Txn
      <3> HIDE DEF x, y
      <3> QED
        BY <1>3, <3>1, <3>2
    <2>2. CASE t \notin Workers
      <3>1. txn' = [txn EXCEPT ![t] = Ended]
        BY <1>7, <2>2 DEF Decline
      <3> QED
        BY <1>2, <1>6, <3>1
    <2> QED
      BY <2>1, <2>2
  <1>8. CASE Commit(t)
    <2> DEFINE x == [Ended EXCEPT !.at = "calling", !.req = txn[t].req]
    <2>1. txn' = [txn EXCEPT ![t] = x] \/ txn' = [txn EXCEPT ![t] = Ended]
      BY <1>8 DEF Commit, Released
    <2>2. x.at = "calling"
      BY DEF Ended, Idle
    <2> HIDE DEF x
    <2> QED
      BY <1>2, <1>6, <2>1, <2>2
  <1>9. CASE Abort(t)
    BY <1>2, <1>6, <1>9 DEF Abort
  <1> QED
    BY <1>4, <1>5, <1>7, <1>8, <1>9

\* What the worker does between two requests, and when it begins.
LEMMA BatchGo ==
  ASSUME GoInv, Inv', NEW w \in Workers, QueryApprovals(w) \/ Batch(w)
  PROVE  GoInv'
  <1> DEFINE y == txn[w]
  <1>1. w \in Txns /\ y \in Txn /\ Shape(w, y)
    BY DEF GoInv, Inv, TypeOK, Txns
  <1>2. ASSUME NEW x, txn' = [txn EXCEPT ![w] = x], x.op \in {"expire", "sweep"}, x.at = "working" \/ x.req # {}
        PROVE  GoInv'
    <2>1. Shape(w, x)
      BY <1>2 DEF Shape
    <2> QED
      BY <1>1, <1>2, <2>1, OneShape
  <1>3. CASE QueryApprovals(w)
    <2>1. PICK S : txn' = [txn EXCEPT ![w] = [Idle EXCEPT !.op = "expire", !.at = "working", !.todo = S]]
      BY <1>3 DEF QueryApprovals
    <2>2. \A x : x = [Idle EXCEPT !.op = "expire", !.at = "working", !.todo = S] => x.op = "expire" /\ x.at = "working"
      BY DEF Idle
    <2> QED
      BY <1>2, <2>1, <2>2
  <1>4. ASSUME NEW r \in Requests, LockNext(w, r) PROVE GoInv'
    <2> DEFINE x == [y EXCEPT !.req = {r}, !.todo = @ \ {r}, !.plan = <<Request(r)>>, !.at = "locking"]
    <2>1. txn' = [txn EXCEPT ![w] = x] /\ y.op = "expire"
      BY <1>1, <1>4 DEF LockNext, GoInv, Inv, TypeOK
    <2>2. x.op = y.op /\ x.req = {r}
      BY <1>1 DEF Txn
    <2> HIDE DEF x, y
    <2> QED
      BY <1>2, <2>1, <2>2
  <1>5. CASE QueryClaims(w)
    <2>1. PICK S : txn' = [txn EXCEPT ![w].op = "sweep", ![w].todo = S]
      BY <1>5 DEF QueryClaims
    <2> DEFINE x == [y EXCEPT !.op = "sweep", !.todo = S]
    <2>2. txn' = [txn EXCEPT ![w] = x] /\ y.at = "working"
      BY <1>1, <1>5, <2>1 DEF QueryClaims, AtEnd, Between, GoInv, Inv, TypeOK
    <2>3. x.op = "sweep" /\ x.at = y.at
      BY <1>1 DEF Txn
    <2> HIDE DEF x, y
    <2> QED
      BY <1>2, <2>2, <2>3
  <1>6. ASSUME NEW r \in Requests, SweepNext(w, r) PROVE GoInv'
    <2> DEFINE x == [y EXCEPT !.req = {r}, !.todo = @ \ {r}, !.plan = <<Audit, Request(r)>>,
                       !.marks = @ \cup {Mark(r, "executing", "final", FALSE)}]
    <2>1. txn' = [txn EXCEPT ![w] = x] /\ y.op = "sweep"
      BY <1>1, <1>6 DEF SweepNext, GoInv, Inv, TypeOK
    <2>2. x.op = y.op /\ x.req = {r}
      BY <1>1 DEF Txn
    <2> HIDE DEF x, y
    <2> QED
      BY <1>2, <2>1, <2>2
  <1> QED
    BY <1>3, <1>4, <1>5, <1>6 DEF Batch

LEMMA NextGo == GoInv /\ [Next]_vars => GoInv'
  <1> SUFFICES ASSUME GoInv, [Next]_vars PROVE GoInv'
    OBVIOUS
  <1>0. Inv'
    BY StepInv DEF GoInv
  <1>1. ASSUME NEW h \in Handlers, NEW r \in Requests,
               Authorize(h, r) \/ Decide(h, r) \/ Owned(h, r) \/ Replay(h, r) \/ Finish(h, r)
        PROVE  GoInv'
    BY <1>0, <1>1, CallGo
  <1>2. ASSUME NEW w \in Workers, QueryApprovals(w) PROVE GoInv'
    BY <1>0, <1>2, BatchGo
  <1>3. ASSUME NEW t \in Txns, Step(t) PROVE GoInv'
    BY <1>0, <1>3, StepGo, BatchGo DEF Step
  <1>4. ASSUME NEW t \in Txns, BreakDeadlock(t) \/ Abort(t) PROVE GoInv'
    BY <1>0, <1>4, StepGo DEF BreakDeadlock
  <1>5. CASE UNCHANGED vars
    BY <1>0, <1>5 DEF vars, GoInv, Shape
  <1> QED
    BY <1>1, <1>2, <1>3, <1>4, <1>5 DEF Next

\* The rows of a flush and those of a settlement have an order.
LEMMA OrdersExist == ASSUME NEW S, IsFiniteSet(S) PROVE Orders(S) # {}
  <1> DEFINE n == Cardinality(S)
  <1>1. PICK f : f \in Bijection(1 .. n, S)
    BY FS_CardinalityType DEF ExistsBijection
  <1>2. f \in [1 .. n -> S] /\ \A i, j \in 1 .. n : i # j => f[i] # f[j]
    BY <1>1 DEF Bijection, Injection, IsInjective
  <1>3. f \in Orders(S)
    BY <1>2 DEF Orders, SetToSeqs
  <1> QED
    BY <1>3

LEMMA SettlingExists == ASSUME NEW r \in Requests PROVE Settling(r) # {}
  <1> DEFINE U == {Usage(u) : u \in Charged[r]}
  <1>1. IsFiniteSet(U)
    <2>1. [u \in Charged[r] |-> Usage(u)] \in Surjection(Charged[r], U)
      BY DEF Surjection
    <2> QED
      BY <2>1, FS_Surjection
  <1>2. Orders(U) # {}
    BY <1>1, OrdersExist
  <1> QED
    BY <1>2 DEF Settling

\* What the worker has found pending it can expire.
LEMMA ExpiryExists ==
  ASSUME NEW t \in Txns, NEW r \in Requests, txn[t].op = "expire", status[r] = "pending"
  PROVE  Options(t, r) # {}
  <1> DEFINE e == Effect("final", TRUE, TRUE, {Approval(r)})
  <1>1. e \in Effects(txn[t].op, r, status[r])
    BY DEF Effects
  <1>2. e.flushes = {Approval(r)}
    BY DEF Effect
  <1>3. Orders(e.flushes) # {}
    BY <1>2, FS_Singleton, OrdersExist
  <1>4. Settlements(e, Settling(r)) # {}
    BY SettlingExists DEF Settlements
  <1> HIDE DEF e
  <1>5. PICK p : p \in Plans(r, e, Settling(r))
    <2>1. PICK s \in Settlements(e, Settling(r)) : TRUE
      BY <1>4
    <2>2. PICK f \in Orders(e.flushes) : TRUE
      BY <1>3
    <2>3. StartLocks(r, e) \o s \o EventLocks(e) \o f \in Plans(r, e, Settling(r))
      BY DEF Plans
    <2> QED
      BY <2>3
  <1> QED
    BY <1>1, <1>5, OptionIs

\* Every transaction under way can go on or waits for one that is under way.
LEMMA GoesOrWaits ==
  ASSUME GoInv, NEW t \in Txns, Running(t)
  PROVE  Ready(t) \/ \E o \in Txns : Running(o) /\ Blocks(o, t)
  <1> DEFINE y == txn[t]
  <1>1. y \in Txn /\ Shape(t, y) /\ y.at \in {"locking", "working"}
    BY DEF GoInv, Inv, TypeOK, Running
  <1>2. ASSUME NEW o \in Txns, Blocks(o, t) PROVE Running(o)
    <2>1. txn[o] \in Txn /\ Right(txn[o]) /\ txn[o].held # {}
      BY <1>2 DEF GoInv, Inv, TypeOK, Blocks, Holds
    <2> QED
      BY <2>1 DEF Right, AtRest, Txn, Places, Running
  <1>3. CASE y.plan # <<>>
    BY <1>2, <1>3 DEF Ready, Granted
  <1>4. CASE y.plan = <<>> /\ y.at = "locking"
    <2>1. PICK r \in y.req : TRUE
      BY <1>1, <1>4 DEF Shape
    <2>2. r \in Requests /\ Checking(t, r)
      BY <1>1, <1>4, <2>1 DEF Txn, Checking
    <2>3. Options(t, r) # {} \/ Declinable(t, r)
      BY <2>2, ExpiryExists DEF Declinable
    <2> QED
      BY <2>2, <2>3 DEF Ready
  <1>5. CASE y.plan = <<>> /\ y.at = "working" /\ y.todo = {}
    BY <1>1, <1>5 DEF Ready, AtEnd, Between, Shape
  <1>6. CASE y.plan = <<>> /\ y.at = "working" /\ y.todo # {}
    <2>1. PICK r \in y.todo : TRUE
      BY <1>6
    <2>2. r \in Requests /\ HasNext(t, r)
      BY <1>1, <1>6, <2>1 DEF Txn, HasNext, Between
    <2> QED
      BY <1>1, <1>6, <2>2 DEF Ready, Shape
  <1> QED
    BY <1>1, <1>3, <1>4, <1>5, <1>6

\* Those who all wait for each other contain a circle.
LEMMA StuckHasCircle ==
  ASSUME NEW R \in SUBSET Txns, Stuck(R) PROVE \E t \in R : InCircle(t)
  <1> DEFINE Bad == {U \in FiniteSubsetsOf(Txns) : U \subseteq R /\ Stuck(U)}
  <1>1. R \in Bad
    BY FS_Subset DEF FiniteSubsetsOf
  <1>2. PICK U \in Bad : \A V \in Bad : ~(<<V, U>> \in StrictSubsetOrdering(Txns))
    <2>1. Bad \subseteq FiniteSubsetsOf(Txns) /\ Bad # {}
      BY <1>1
    <2> HIDE DEF Bad
    <2> QED
      BY <2>1, FS_StrictSubsetOrderingWellFounded, WFMin
  <1>3. U \in SUBSET Txns /\ IsFiniteSet(U) /\ U \subseteq R /\ Stuck(U)
    BY DEF FiniteSubsetsOf
  <1>4. ASSUME NEW V \in SUBSET U, Stuck(V) PROVE V = U
    <2>1. V \in Bad
      BY <1>3, <1>4, FS_Subset DEF FiniteSubsetsOf
    <2>2. V # U => <<V, U>> \in StrictSubsetOrdering(Txns)
      BY <1>3, <1>4 DEF StrictSubsetOrdering
    <2> QED
      BY <1>2, <2>1, <2>2
  <1>5. Deadlocked(U)
    BY <1>3, <1>4 DEF Deadlocked
  <1>6. PICK t \in U : TRUE
    BY <1>3 DEF Stuck
  <1> QED
    BY <1>3, <1>5, <1>6 DEF InCircle

\* While transactions run, one of them can go on or stands in a circle, for any number of
\* calls, worker runs, requests and budgets.
THEOREM SomeoneAlwaysGoesOn == Spec => []SomeoneGoesOn
  <1>1. GoInv => SomeoneGoesOn
    <2> SUFFICES ASSUME GoInv, NEW k \in Txns, Running(k), \A t \in Txns : Running(t) => ~Ready(t)
                 PROVE  \E t \in Txns : Running(t) /\ InCircle(t)
      BY DEF SomeoneGoesOn
    <2> DEFINE R == {t \in Txns : Running(t)}
    <2>1. Stuck(R)
      BY GoesOrWaits DEF Stuck
    <2>2. R \in SUBSET Txns
      OBVIOUS
    <2>3. PICK t \in R : InCircle(t)
      <3> HIDE DEF R
      <3> QED
        BY <2>1, <2>2, StuckHasCircle
    <2> QED
      BY <2>3
  <1> QED
    BY <1>1, InitGo, NextGo, PTL DEF Spec

\* y is a later state of a transaction that was in x: its end; the second half of the
\* worker's job; the next request of its batch; the status read; a lock taken.
Later(x, y) ==
  \/ y.at \in {"calling", "ended"}
  \/ x.op = "expire" /\ y.op = "sweep"
  \/ /\ y.op = x.op
     /\ \/ y.todo \subseteq x.todo /\ y.todo # x.todo
        \/ /\ y.todo = x.todo
           /\ \/ x.at = "locking" /\ y.at = "working"
              \/ y.at = x.at /\ Len(y.plan) < Len(x.plan)

\* What a step of its own does to a transaction under way.
LEMMA OwnStepLater ==
  ASSUME Inv, NEW t \in Txns, Running(t), Step(t) \/ Abort(t)
  PROVE  \E y : txn' = [txn EXCEPT ![t] = y] /\ Later(txn[t], y)
  <1> DEFINE x == txn[t]
  <1>1. x \in Txn
    BY DEF Inv, TypeOK
  <1>2. Later(x, Ended)
    BY DEF Later, Ended, Idle
  <1>3. CASE Take(t)
    <2> DEFINE y == [x EXCEPT !.held = @ \cup {Head(x.plan)}, !.plan = Tail(@)]
    <2>1. txn' = [txn EXCEPT ![t] = y]
      BY <1>3 DEF Take, Inv, TypeOK
    <2>2. Len(Tail(x.plan)) < Len(x.plan)
      BY <1>1, <1>3, HeadTail DEF Take, Granted, Txn
    <2>3. y.op = x.op /\ y.todo = x.todo /\ y.at = x.at /\ y.plan = Tail(x.plan)
      BY <1>1 DEF Txn
    <2> HIDE DEF y
    <2> QED
      BY <2>1, <2>2, <2>3 DEF Later
  <1>4. ASSUME NEW r \in Requests, Proceed(t, r) PROVE \E y : txn' = [txn EXCEPT ![t] = y] /\ Later(x, y)
    <2>1. PICK c \in Options(t, r) :
            txn' = [txn EXCEPT ![t].at = "working", ![t].plan = c[2],
                      ![t].marks = @ \cup {Mark(r, status[r], c[1].to, x.op \notin {"replay", "continue"})}]
      BY <1>4 DEF Proceed
    <2> DEFINE y == [x EXCEPT !.at = "working", !.plan = c[2],
                       !.marks = @ \cup {Mark(r, status[r], c[1].to, x.op \notin {"replay", "continue"})}]
    <2>2. txn' = [txn EXCEPT ![t] = y]
      BY <2>1 DEF Inv, TypeOK
    <2>3. y.op = x.op /\ y.todo = x.todo /\ y.at = "working" /\ x.at = "locking"
      BY <1>1, <1>4 DEF Txn, Proceed, Checking
    <2> HIDE DEF y
    <2> QED
      BY <2>2, <2>3 DEF Later
  <1>5. ASSUME NEW r \in Requests, Decline(t, r) PROVE \E y : txn' = [txn EXCEPT ![t] = y] /\ Later(x, y)
    <2> DEFINE y == [x EXCEPT !.at = "working"]
    <2>1. x.at = "locking" /\ (txn' = [txn EXCEPT ![t] = y] \/ txn' = [txn EXCEPT ![t] = Ended])
      BY <1>5 DEF Decline, Checking, Inv, TypeOK
    <2>2. y.op = x.op /\ y.todo = x.todo /\ y.at = "working"
      BY <1>1 DEF Txn
    <2> HIDE DEF y
    <2>3. Later(x, y)
      BY <2>1, <2>2 DEF Later
    <2> QED
      BY <1>2, <2>1, <2>3
  <1>6. ASSUME NEW r \in Requests, LockNext(t, r) PROVE \E y : txn' = [txn EXCEPT ![t] = y] /\ Later(x, y)
    <2> DEFINE y == [x EXCEPT !.req = {r}, !.todo = @ \ {r}, !.plan = <<Request(r)>>, !.at = "locking"]
    <2>1. txn' = [txn EXCEPT ![t] = y] /\ r \in x.todo
      BY <1>1, <1>6 DEF LockNext, HasNext, Inv, TypeOK
    <2>2. y.op = x.op /\ y.todo = x.todo \ {r}
      BY <1>1 DEF Txn
    <2> HIDE DEF y
    <2> QED
      BY <2>1, <2>2 DEF Later
  <1>7. ASSUME NEW r \in Requests, SweepNext(t, r) PROVE \E y : txn' = [txn EXCEPT ![t] = y] /\ Later(x, y)
    <2> DEFINE y == [x EXCEPT !.req = {r}, !.todo = @ \ {r}, !.plan = <<Audit, Request(r)>>,
                       !.marks = @ \cup {Mark(r, "executing", "final", FALSE)}]
    <2>1. txn' = [txn EXCEPT ![t] = y] /\ r \in x.todo
      BY <1>1, <1>7 DEF SweepNext, HasNext, Inv, TypeOK
    <2>2. y.op = x.op /\ y.todo = x.todo \ {r}
      BY <1>1 DEF Txn
    <2> HIDE DEF y
    <2> QED
      BY <2>1, <2>2 DEF Later
  <1>8. CASE QueryClaims(t)
    <2>1. PICK S : txn' = [txn EXCEPT ![t].op = "sweep", ![t].todo = S]
      BY <1>8 DEF QueryClaims
    <2> DEFINE y == [x EXCEPT !.op = "sweep", !.todo = S]
    <2>2. txn' = [txn EXCEPT ![t] = y] /\ x.op = "expire"
      BY <1>8, <2>1 DEF QueryClaims, Inv, TypeOK
    <2>3. y.op = "sweep"
      BY <1>1 DEF Txn
    <2> HIDE DEF y
    <2> QED
      BY <2>2, <2>3 DEF Later
  <1>9. CASE Commit(t)
    <2> DEFINE y == [Ended EXCEPT !.at = "calling", !.req = txn[t].req]
    <2>1. txn' = [txn EXCEPT ![t] = y] \/ txn' = [txn EXCEPT ![t] = Ended]
      BY <1>9 DEF Commit, Released
    <2>2. y.at = "calling"
      BY DEF Ended, Idle
    <2> HIDE DEF y
    <2> QED
      BY <1>2, <2>1, <2>2 DEF Later
  <1>10. CASE Abort(t)
    BY <1>2, <1>10 DEF Abort
  <1> QED
    BY <1>3, <1>4, <1>5, <1>6, <1>7, <1>8, <1>9, <1>10 DEF Step, Batch

\* Only its own steps change a transaction under way, and none of them takes it back: its
\* state gets later in an order in which its batch, of BatchSize requests, and its plan
\* bound the number of its steps.  With SomeoneAlwaysGoesOn, all of them end, if no more
\* calls and runs begin.
THEOREM NobodyTurnsBack ==
  Spec => [][\A t \in Txns : Running(t) => txn'[t] = txn[t] \/ Later(txn[t], txn'[t])]_vars
  <1> DEFINE Onwards == \A t \in Txns : Running(t) => txn'[t] = txn[t] \/ Later(txn[t], txn'[t])
  <1>1. ASSUME Inv, Next PROVE Onwards
    <2>1. ASSUME NEW o \in Txns, NEW y, txn' = [txn EXCEPT ![o] = y],
                 Running(o) => Later(txn[o], y)
          PROVE  Onwards
      <3>1. \A t \in Txns : txn'[t] = IF t = o THEN y ELSE txn[t]
        BY <1>1, <2>1 DEF Inv, TypeOK
      <3> QED
        BY <2>1, <3>1
    <2>2. ASSUME NEW h \in Handlers, NEW r \in Requests, NEW op, NEW at, NEW plan, NEW marks,
                 Begin(h, op, r, at, plan, marks)
          PROVE  Onwards
      BY <2>1, <2>2 DEF Begin, Running, Txns
    <2>3. ASSUME NEW h \in Handlers, NEW r \in Requests,
                 Authorize(h, r) \/ Decide(h, r) \/ Owned(h, r) \/ Replay(h, r)
          PROVE  Onwards
      <3>1. CASE Authorize(h, r)
        <4>1. PICK to \in {"pending", "authorized", "final"} : \E p \in AuthorizePlans(r, to) :
                Begin(h, "authorize", r, "working", p, {Mark(r, "none", to, TRUE)})
          BY <3>1 DEF Authorize
        <4> QED
          BY <2>2, <4>1
      <3>2. CASE Decide(h, r)
        BY <2>2, <3>2 DEF Decide
      <3>3. CASE Owned(h, r)
        <4>1. PICK op \in {"poll", "claim", "report", "execute"} : Begin(h, op, r, "locking", <<Request(r)>>, {})
          BY <3>3 DEF Owned
        <4> QED
          BY <2>2, <4>1
      <3>4. CASE Replay(h, r)
        BY <2>2, <3>4 DEF Replay
      <3> QED
        BY <2>3, <3>1, <3>2, <3>3, <3>4
    <2>4. ASSUME NEW h \in Handlers, NEW r \in Requests, Finish(h, r) PROVE Onwards
      <3>1. PICK e \in {Effect("final", b, TRUE, {Request(r)}) : b \in BOOLEAN} : \E p \in Plans(r, e, Settling(r)) :
              txn' = [txn EXCEPT ![h] = [Idle EXCEPT !.op = "finish", !.at = "working", !.req = {r}, !.plan = p,
                                                     !.marks = {Mark(r, "executing", "final", FALSE)}]]
        BY <2>4 DEF Finish
      <3> QED
        BY <2>1, <2>4, <3>1 DEF Finish, Running, Txns
    <2>5. ASSUME NEW w \in Workers, QueryApprovals(w) PROVE Onwards
      BY <2>1, <2>5 DEF QueryApprovals, Running, Txns
    <2>6. ASSUME NEW t \in Txns, Step(t) \/ Abort(t) PROVE Onwards
      <3>1. CASE Running(t)
        BY <1>1, <2>1, <2>6, <3>1, OwnStepLater
      <3>2. CASE ~Running(t)
        <4>1. \E y : txn' = [txn EXCEPT ![t] = y]
          <5>1. txn[t].plan = <<>> \/ Running(t)
            BY <1>1 DEF Inv, TypeOK, Txn, Places, Right, AtRest, Running
          <5>2. ~Step(t)
            BY <3>2, <5>1 DEF Step, Take, Granted, Proceed, Decline, Checking, Batch, LockNext, SweepNext,
                              QueryClaims, HasNext, AtEnd, Between, Commit, Running
          <5> QED
            BY <2>6, <5>2 DEF Abort
        <4> QED
          BY <2>1, <3>2, <4>1
      <3> QED
        BY <3>1, <3>2
    <2> QED
      BY <1>1, <2>3, <2>4, <2>5, <2>6 DEF Next, BreakDeadlock
  <1>2. Inv /\ [Next]_vars => [Onwards]_vars
    BY <1>1
  <1> QED
    BY <1>2, InitInv, StepInv, PTL DEF Spec
=============================================================================
