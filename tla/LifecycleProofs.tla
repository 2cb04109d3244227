--------------------------- MODULE LifecycleProofs ---------------------------
(* Proofs about the life of a request and the budget ledger it uses, for any  *)
(* requests, tools, budgets, handlers and controls that satisfy the           *)
(* assumptions of Ledger and Lifecycle: the ledger by itself; the invariants   *)
(* of a request; that its handlers implement Ledger and Permit; its action     *)
(* properties.                                                                *)
EXTENDS Lifecycle, FiniteSetTheorems, TLAPS
USE LedgerAssumption

-----------------------------------------------------------------------------
(* The ledger by itself: types *)

\* Reserving keeps the counters natural numbers and the states known.
LEMMA ReserveType ==
  ASSUME LedgerTypeOK, NEW r \in Requests, ReserveBudgets(r)
  PROVE  LedgerTypeOK'
<1>1. Amount[r] \in Nat
  OBVIOUS
<1>2. used' \in [Usages -> Nat]
  BY DEF LedgerTypeOK, ReserveBudgets
<1>3. reserved' \in [Usages -> Nat]
  BY <1>1 DEF LedgerTypeOK, ReserveBudgets
<1>4. resv' \in [Requests -> [Usages -> ReservationState]]
  <2> DEFINE row == [u \in Usages |->
                       IF u \in ReservedRows(r) THEN "reserved" ELSE resv[r][u]]
  <2>1. row \in [Usages -> ReservationState]
    BY DEF LedgerTypeOK, ReservationState
  <2>2. resv' = [resv EXCEPT ![r] = row]
    BY DEF ReserveBudgets
  <2> QED
    BY <2>1, <2>2 DEF LedgerTypeOK
<1> QED
  BY <1>2, <1>3, <1>4 DEF LedgerTypeOK

\* So does settling, thanks to the max(0, ...) of the code.
LEMMA SettleType ==
  ASSUME LedgerTypeOK, NEW r \in Requests, NEW outcome, SettleBudgets(r, outcome)
  PROVE  LedgerTypeOK'
<1>1. CASE outcome = "unknown"
  BY <1>1 DEF LedgerTypeOK, SettleBudgets, ledgerVars
<1>2. CASE outcome # "unknown"
  <2> DEFINE row == [u \in Usages |->
                       IF u \in Open(r)
                         THEN IF outcome = "succeeded" THEN "spent" ELSE "released"
                         ELSE resv[r][u]]
  <2>1. Amount[r] \in Nat
    OBVIOUS
  <2>2. \A u \in Usages : Less(reserved[u], Amount[r]) \in Nat
    BY <2>1 DEF LedgerTypeOK, Less
  <2>3. reserved' \in [Usages -> Nat]
    BY <1>2, <2>2 DEF LedgerTypeOK, SettleBudgets
  <2>4. used' \in [Usages -> Nat]
    BY <1>2, <2>1 DEF LedgerTypeOK, SettleBudgets
  <2>5. row \in [Usages -> ReservationState]
    BY DEF LedgerTypeOK, ReservationState
  <2>6. resv' = [resv EXCEPT ![r] = row]
    BY <1>2 DEF SettleBudgets
  <2>7. resv' \in [Requests -> [Usages -> ReservationState]]
    BY <2>5, <2>6 DEF LedgerTypeOK
  <2> QED
    BY <2>3, <2>4, <2>7 DEF LedgerTypeOK
<1> QED
  BY <1>1, <1>2

\* Empty counters and no reservations are typed.
LEMMA InitType == LedgerInit => LedgerTypeOK
BY DEF LedgerInit, LedgerTypeOK, ReservationState

\* Reserving and settling keep the types.
LEMMA StepType == LedgerTypeOK /\ [LedgerNext]_ledgerVars => LedgerTypeOK'
<1> SUFFICES ASSUME LedgerTypeOK, [LedgerNext]_ledgerVars PROVE LedgerTypeOK'
  OBVIOUS
<1>1. ASSUME NEW r \in Requests, Reserve(r) PROVE LedgerTypeOK'
  BY <1>1, ReserveType DEF Reserve
<1>2. ASSUME NEW r \in Requests, NEW outcome \in Outcome, SettleBudgets(r, outcome)
      PROVE LedgerTypeOK'
  BY <1>2, SettleType
<1>3. CASE UNCHANGED ledgerVars
  BY <1>3 DEF LedgerTypeOK, ledgerVars
<1> QED
  BY <1>1, <1>2, <1>3 DEF LedgerNext

\* Counters never become negative and reservations never reach an unknown state.
THEOREM LedgerType == LedgerSpec => []LedgerTypeOK
<1>1. LedgerInit => LedgerTypeOK
  BY InitType
<1>2. LedgerTypeOK /\ [LedgerNext]_ledgerVars => LedgerTypeOK'
  BY StepType
<1> QED
  BY <1>1, <1>2, PTL DEF LedgerSpec

-----------------------------------------------------------------------------
(* Reservations are made and settled together, and settled once *)

\* What a settlement does to one reservation.
LEMMA SettleRow ==
  ASSUME LedgerTypeOK, NEW r \in Requests, NEW outcome, SettleBudgets(r, outcome),
         NEW q \in Requests, NEW u \in Usages
  PROVE  /\ q # r \/ resv[q][u] # "reserved" \/ outcome = "unknown" => resv'[q][u] = resv[q][u]
         /\ q = r /\ resv[q][u] = "reserved" /\ outcome # "unknown" =>
              resv'[q][u] = IF outcome = "succeeded" THEN "spent" ELSE "released"
BY DEF LedgerTypeOK, SettleBudgets, Open, ledgerVars

\* What a reservation does to one row.
LEMMA ReserveRow ==
  ASSUME LedgerTypeOK, NEW r \in Requests, ReserveBudgets(r),
         NEW q \in Requests, NEW u \in Usages
  PROVE  resv'[q][u] = IF q = r /\ u \in ReservedRows(r) THEN "reserved" ELSE resv[q][u]
BY DEF LedgerTypeOK, ReserveBudgets

\* The reservations of a request are never settled in part.
THEOREM ReservationsTogether == LedgerSpec => []AllOrNothing
<1>1. LedgerInit => AllOrNothing
  BY DEF LedgerInit, AllOrNothing
<1>2. LedgerTypeOK /\ AllOrNothing /\ [LedgerNext]_ledgerVars => AllOrNothing'
  <2> SUFFICES ASSUME LedgerTypeOK, AllOrNothing, [LedgerNext]_ledgerVars,
                      NEW q \in Requests, NEW u \in Charged[q], NEW v \in Charged[q]
               PROVE  resv'[q][u] = resv'[q][v]
    BY DEF AllOrNothing
  <2>1. u \in Usages /\ v \in Usages /\ resv[q][u] = resv[q][v]
    BY DEF AllOrNothing
  <2>2. ASSUME NEW r \in Requests, Reserve(r) PROVE resv'[q][u] = resv'[q][v]
    <3>1. u \in ReservedRows(q) <=> v \in ReservedRows(q)
      BY DEF ReservedRows
    <3> QED
      BY <2>1, <2>2, <3>1, ReserveRow DEF Reserve
  <2>3. ASSUME NEW r \in Requests, NEW outcome \in Outcome, SettleBudgets(r, outcome)
        PROVE resv'[q][u] = resv'[q][v]
    BY <2>1, <2>3, SettleRow
  <2>4. CASE UNCHANGED ledgerVars
    BY <2>1, <2>4 DEF ledgerVars
  <2> QED
    BY <2>2, <2>3, <2>4 DEF LedgerNext
<1> QED
  BY <1>1, <1>2, LedgerType, PTL DEF LedgerSpec

\* A settled reservation never changes again, whoever settles it once more.
THEOREM SettlementOnce == LedgerSpec => SettledOnce
<1>1. LedgerTypeOK /\ [LedgerNext]_ledgerVars => [SettlesOnce]_ledgerVars
  <2> SUFFICES ASSUME LedgerTypeOK, LedgerNext, NEW q \in Requests, NEW u \in Usages
               PROVE  /\ resv[q][u] \in {"spent", "released"} => resv'[q][u] = resv[q][u]
                      /\ resv'[q][u] \in {"spent", "released"} => resv[q][u] # "none"
    BY DEF SettlesOnce
  <2>1. ASSUME NEW r \in Requests, Reserve(r)
        PROVE  /\ resv[q][u] \in {"spent", "released"} => resv'[q][u] = resv[q][u]
               /\ resv'[q][u] \in {"spent", "released"} => resv[q][u] # "none"
    BY <2>1, ReserveRow DEF Reserve, HasReservation
  <2>2. ASSUME NEW r \in Requests, NEW outcome \in Outcome, SettleBudgets(r, outcome)
        PROVE  /\ resv[q][u] \in {"spent", "released"} => resv'[q][u] = resv[q][u]
               /\ resv'[q][u] \in {"spent", "released"} => resv[q][u] # "none"
    BY <2>2, SettleRow
  <2> QED
    BY <2>1, <2>2 DEF LedgerNext
<1> QED
  BY <1>1, LedgerType, PTL DEF LedgerSpec, SettledOnce

-----------------------------------------------------------------------------
(* The counters are what the reservation rows add up to *)

\* Units(u, state) when the reservation rows are rs.
Held(rs, u, state) ==
  UNION {{q} \X (1 .. Amount[q]) : q \in {p \in Requests : rs[p][u] = state}}

Block(r) == {r} \X (1 .. Amount[r])

\* A request's block has one unit per minor unit of its amount.
LEMMA BlockSize ==
  ASSUME NEW r \in Requests
  PROVE  IsFiniteSet(Block(r)) /\ Cardinality(Block(r)) = Amount[r]
<1>1. Amount[r] \in Nat
  OBVIOUS
<1>2. IsFiniteSet(1 .. Amount[r]) /\ Cardinality(1 .. Amount[r]) = Amount[r]
  BY <1>1, FS_Interval
<1>3. IsFiniteSet({r}) /\ Cardinality({r}) = 1
  BY FS_Singleton
<1>4. /\ IsFiniteSet({r} \X (1 .. Amount[r]))
      /\ Cardinality({r} \X (1 .. Amount[r])) = Cardinality({r}) * Cardinality(1 .. Amount[r])
  BY <1>2, <1>3, FS_Product
<1> QED
  BY <1>1, <1>2, <1>3, <1>4 DEF Block

\* What is held does not change when no row of u enters or leaves the state.
LEMMA HeldSame ==
  ASSUME NEW rs, NEW ss, NEW u, NEW state,
         \A q \in Requests : rs[q][u] = state <=> ss[q][u] = state
  PROVE  Held(ss, u, state) = Held(rs, u, state)
<1>1. {q \in Requests : rs[q][u] = state} = {q \in Requests : ss[q][u] = state}
  OBVIOUS
<1> QED
  BY <1>1 DEF Held

\* When the row of r alone enters the state, its block is added.
LEMMA HeldGrows ==
  ASSUME NEW rs, NEW ss, NEW u, NEW state, NEW r \in Requests,
         rs[r][u] # state, ss[r][u] = state,
         \A q \in Requests \ {r} : rs[q][u] = state <=> ss[q][u] = state
  PROVE  /\ Held(ss, u, state) = Held(rs, u, state) \cup Block(r)
         /\ Held(rs, u, state) \cap Block(r) = {}
BY DEF Held, Block

\* The cardinality of what is held, when a block comes or goes.
LEMMA AddBlock ==
  ASSUME NEW S, IsFiniteSet(S), NEW r \in Requests, S \cap Block(r) = {}
  PROVE  /\ IsFiniteSet(S \cup Block(r))
         /\ Cardinality(S \cup Block(r)) = Cardinality(S) + Amount[r]
<1>1. Cardinality(S) \in Nat /\ Amount[r] \in Nat
  BY FS_CardinalityType
<1>2. Cardinality(S \cap Block(r)) = 0
  BY FS_EmptySet
<1>3. IsFiniteSet(Block(r)) /\ Cardinality(Block(r)) = Amount[r]
  BY BlockSize
<1>4. /\ IsFiniteSet(S \cup Block(r))
      /\ Cardinality(S \cup Block(r)) =
           Cardinality(S) + Cardinality(Block(r)) - Cardinality(S \cap Block(r))
  BY <1>3, FS_Union
<1> QED
  BY <1>1, <1>2, <1>3, <1>4

\* The inductive invariant: Conservation, and that the units are countable at all.
Counted(u, state) == IsFiniteSet(Held(resv, u, state))

LedgerInv ==
  /\ LedgerTypeOK
  /\ \A u \in Usages :
       /\ Counted(u, "reserved")
       /\ Counted(u, "spent")
       /\ reserved[u] = Cardinality(Held(resv, u, "reserved"))
       /\ used[u] = Cardinality(Held(resv, u, "spent"))

\* The units of a usage row are the blocks of the requests that hold it.
LEMMA UnitsHeld == \A u, state : Units(u, state) = Held(resv, u, state)
BY DEF Units, Held

\* Empty counters equal the sums of no reservations.
LEMMA InitInv == LedgerInit => LedgerInv
<1> SUFFICES ASSUME LedgerInit PROVE LedgerInv
  OBVIOUS
<1>1. \A u \in Usages : Held(resv, u, "reserved") = {} /\ Held(resv, u, "spent") = {}
  BY DEF LedgerInit, Held
<1> QED
  BY <1>1, InitType, FS_EmptySet DEF LedgerInit, LedgerInv, Counted

\* reserve_budgets adds the request's block to every reserved counter, or nothing.
LEMMA ReserveInv ==
  ASSUME LedgerInv, NEW r \in Requests, Reserve(r)
  PROVE  LedgerInv'
<1>1. LedgerTypeOK /\ LedgerTypeOK' /\ ReserveBudgets(r)
  BY ReserveType DEF LedgerInv, Reserve
<1> SUFFICES ASSUME NEW u \in Usages
             PROVE  /\ Counted(u, "reserved")'
                    /\ Counted(u, "spent")'
                    /\ reserved'[u] = Cardinality(Held(resv', u, "reserved"))
                    /\ used'[u] = Cardinality(Held(resv', u, "spent"))
  BY <1>1 DEF LedgerInv
<1>2. resv[r][u] = "none"
  BY DEF LedgerTypeOK, ReservationState, Reserve, HasReservation
<1>3. \A q \in Requests :
        resv'[q][u] = IF q = r /\ u \in ReservedRows(r) THEN "reserved" ELSE resv[q][u]
  BY <1>1, ReserveRow
<1>4. Held(resv', u, "spent") = Held(resv, u, "spent") /\ used'[u] = used[u]
  <2>1. \A q \in Requests : resv[q][u] = "spent" <=> resv'[q][u] = "spent"
    BY <1>2, <1>3
  <2>2. Held(resv', u, "spent") = Held(resv, u, "spent")
    BY <2>1, HeldSame
  <2> QED
    BY <1>1, <2>2 DEF ReserveBudgets
<1>5. CASE u \in ReservedRows(r)
  <2>1. /\ Held(resv', u, "reserved") = Held(resv, u, "reserved") \cup Block(r)
        /\ Held(resv, u, "reserved") \cap Block(r) = {}
    <3>1. resv[r][u] # "reserved" /\ resv'[r][u] = "reserved"
      BY <1>2, <1>3, <1>5
    <3>2. \A q \in Requests \ {r} : resv[q][u] = "reserved" <=> resv'[q][u] = "reserved"
      BY <1>3
    <3> QED
      BY <3>1, <3>2, HeldGrows
  <2>2. reserved'[u] = reserved[u] + Amount[r]
    BY <1>1, <1>5 DEF ReserveBudgets
  <2> QED
    BY <1>4, <2>1, <2>2, AddBlock DEF LedgerInv, Counted
<1>6. CASE u \notin ReservedRows(r)
  <2>1. Held(resv', u, "reserved") = Held(resv, u, "reserved")
    BY <1>3, <1>6, HeldSame
  <2>2. reserved'[u] = reserved[u]
    BY <1>1, <1>6 DEF ReserveBudgets
  <2> QED
    BY <1>4, <2>1, <2>2 DEF LedgerInv, Counted
<1> QED
  BY <1>5, <1>6

\* A row in use always holds at least what its open reservations need, so the
\* max(0, ...) of a settlement never clips.
LEMMA NeverClipped ==
  ASSUME LedgerInv, NEW r \in Requests, NEW u \in Open(r)
  PROVE  reserved[u] >= Amount[r]
<1>1. u \in Usages /\ resv[r][u] = "reserved"
  BY DEF Open
<1>2. Block(r) \subseteq Held(resv, u, "reserved")
  BY <1>1 DEF Held, Block
<1>3. Cardinality(Block(r)) <= Cardinality(Held(resv, u, "reserved"))
  BY <1>1, <1>2, FS_Subset DEF LedgerInv, Counted
<1> QED
  BY <1>1, <1>3, BlockSize DEF LedgerInv

\* settle_budget_reservations moves or removes the blocks of the open reservations.
LEMMA SettleInv ==
  ASSUME LedgerInv, NEW r \in Requests, NEW outcome \in Outcome, SettleBudgets(r, outcome)
  PROVE  LedgerInv'
<1>1. LedgerTypeOK /\ LedgerTypeOK'
  BY SettleType DEF LedgerInv
<1> SUFFICES ASSUME NEW u \in Usages
             PROVE  /\ Counted(u, "reserved")'
                    /\ Counted(u, "spent")'
                    /\ reserved'[u] = Cardinality(Held(resv', u, "reserved"))
                    /\ used'[u] = Cardinality(Held(resv', u, "spent"))
  BY <1>1 DEF LedgerInv
<1>2. Amount[r] \in Nat /\ reserved[u] \in Nat /\ used[u] \in Nat
  BY <1>1 DEF LedgerTypeOK
<1>3. CASE outcome = "unknown" \/ u \notin Open(r)
  <2>1. reserved'[u] = reserved[u] /\ used'[u] = used[u]
    BY <1>1, <1>3 DEF SettleBudgets, ledgerVars, LedgerTypeOK
  <2>2. \A q \in Requests : resv'[q][u] = resv[q][u]
    BY <1>1, <1>3, SettleRow DEF Open
  <2>3. /\ Held(resv', u, "reserved") = Held(resv, u, "reserved")
        /\ Held(resv', u, "spent") = Held(resv, u, "spent")
    BY <2>2, HeldSame
  <2> QED
    BY <2>1, <2>3 DEF LedgerInv, Counted
<1>4. CASE outcome # "unknown" /\ u \in Open(r)
  <2>1. \A q \in Requests \ {r} : resv'[q][u] = resv[q][u]
    BY <1>1, SettleRow
  <2>2. resv[r][u] = "reserved" /\ resv'[r][u] # "reserved"
    BY <1>1, <1>4, SettleRow DEF Open
  <2>3. /\ Held(resv, u, "reserved") = Held(resv', u, "reserved") \cup Block(r)
        /\ Held(resv', u, "reserved") \cap Block(r) = {}
    <3>1. \A q \in Requests \ {r} : resv'[q][u] = "reserved" <=> resv[q][u] = "reserved"
      BY <2>1
    <3> QED
      BY <2>2, <3>1, HeldGrows
  <2>4. IsFiniteSet(Held(resv', u, "reserved"))
    BY <2>3, FS_Subset DEF LedgerInv, Counted
  <2>5. Cardinality(Held(resv, u, "reserved")) = Cardinality(Held(resv', u, "reserved")) + Amount[r]
    BY <2>3, <2>4, AddBlock
  <2>6. reserved'[u] = reserved[u] - Amount[r]
    BY <1>1, <1>2, <1>4, NeverClipped DEF SettleBudgets, Less, Open
  <2>7. reserved'[u] = Cardinality(Held(resv', u, "reserved"))
    BY <1>2, <2>4, <2>5, <2>6, FS_CardinalityType DEF LedgerInv
  <2>8. CASE outcome = "succeeded"
    <3>1. resv'[r][u] = "spent"
      BY <1>1, <1>4, <2>2, <2>8, SettleRow
    <3>2. /\ Held(resv', u, "spent") = Held(resv, u, "spent") \cup Block(r)
          /\ Held(resv, u, "spent") \cap Block(r) = {}
      <4>1. \A q \in Requests \ {r} : resv[q][u] = "spent" <=> resv'[q][u] = "spent"
        BY <2>1
      <4>2. resv[r][u] # "spent"
        BY <2>2
      <4> QED
        BY <3>1, <4>1, <4>2, HeldGrows
    <3>3. used'[u] = used[u] + Amount[r]
      BY <1>4, <2>8 DEF SettleBudgets, Open
    <3> QED
      BY <2>4, <2>7, <3>2, <3>3, AddBlock DEF LedgerInv, Counted
  <2>9. CASE outcome # "succeeded"
    <3>1. resv'[r][u] = "released"
      BY <1>1, <1>4, <2>2, <2>9, SettleRow
    <3>2. Held(resv', u, "spent") = Held(resv, u, "spent")
      BY <2>1, <2>2, <3>1, HeldSame
    <3>3. used'[u] = used[u]
      BY <1>4, <2>9 DEF SettleBudgets, Open
    <3> QED
      BY <2>4, <2>7, <3>2, <3>3 DEF LedgerInv, Counted
  <2> QED
    BY <2>8, <2>9
<1> QED
  BY <1>3, <1>4

\* Both operations keep the ledger's invariant.
LEMMA StepInv == LedgerInv /\ [LedgerNext]_ledgerVars => LedgerInv'
<1> SUFFICES ASSUME LedgerInv, [LedgerNext]_ledgerVars PROVE LedgerInv'
  OBVIOUS
<1>1. CASE LedgerNext
  BY <1>1, ReserveInv, SettleInv DEF LedgerNext
<1>2. CASE UNCHANGED ledgerVars
  BY <1>2 DEF LedgerInv, LedgerTypeOK, Counted, ledgerVars
<1> QED
  BY <1>1, <1>2

\* The counters of every usage row equal the sum of its reservations.
THEOREM CountersAddUp == LedgerSpec => []Conservation
<1>1. LedgerInit => LedgerInv
  BY InitInv
<1>2. LedgerInv /\ [LedgerNext]_ledgerVars => LedgerInv'
  BY StepInv
<1>3. LedgerInv => Conservation
  BY UnitsHeld DEF LedgerInv, Conservation, Total
<1> QED
  BY <1>1, <1>2, <1>3, PTL DEF LedgerSpec

\* No order of reservations and settlements takes a budget past its limit.  The
\* argument needs LedgerInv: a clipped settlement would free capacity twice.
THEOREM BudgetsHold == LedgerSpec => []Ceiling
<1>1. LedgerInit => LedgerInv /\ Ceiling
  BY InitInv DEF LedgerInit, Ceiling
<1>2. LedgerInv /\ Ceiling /\ [LedgerNext]_ledgerVars => Ceiling'
  <2> SUFFICES ASSUME LedgerInv, Ceiling, [LedgerNext]_ledgerVars, NEW u \in Usages
               PROVE  used'[u] + reserved'[u] <= Limit[u]
    BY DEF Ceiling
  <2>1. used[u] + reserved[u] <= Limit[u] /\ used[u] \in Nat /\ reserved[u] \in Nat
    BY DEF Ceiling, LedgerInv, LedgerTypeOK
  <2>2. ASSUME NEW r \in Requests, Reserve(r) PROVE used'[u] + reserved'[u] <= Limit[u]
    <3>1. Amount[r] \in Nat
      OBVIOUS
    <3>2. u \in ReservedRows(r) => used[u] + reserved[u] + Amount[r] <= Limit[u]
      BY <2>2 DEF Reserve, Fits, ReservedRows
    <3>3. /\ used'[u] = used[u]
          /\ reserved'[u] = IF u \in ReservedRows(r) THEN reserved[u] + Amount[r] ELSE reserved[u]
      BY <2>2 DEF Reserve, ReserveBudgets
    <3> QED
      BY <2>1, <3>1, <3>2, <3>3
  <2>3. ASSUME NEW r \in Requests, NEW outcome \in Outcome, SettleBudgets(r, outcome)
        PROVE  used'[u] + reserved'[u] <= Limit[u]
    <3>1. Amount[r] \in Nat /\ Limit[u] \in Nat
      OBVIOUS
    <3>2. CASE outcome = "unknown" \/ u \notin Open(r)
      BY <2>1, <2>3, <3>2 DEF SettleBudgets, ledgerVars
    <3>3. CASE outcome # "unknown" /\ u \in Open(r)
      <4>1. reserved'[u] = reserved[u] - Amount[r]
        BY <2>1, <2>3, <3>1, <3>3, NeverClipped DEF SettleBudgets, Less
      <4>2. used'[u] = used[u] \/ used'[u] = used[u] + Amount[r]
        BY <2>3, <3>3 DEF SettleBudgets
      <4> QED
        BY <2>1, <3>1, <4>1, <4>2
    <3> QED
      BY <3>2, <3>3
  <2>4. CASE UNCHANGED ledgerVars
    BY <2>1, <2>4 DEF ledgerVars
  <2> QED
    BY <2>2, <2>3, <2>4 DEF LedgerNext
<1>3. LedgerInv /\ [LedgerNext]_ledgerVars => LedgerInv'
  BY StepInv
<1> QED
  BY <1>1, <1>2, <1>3, PTL DEF LedgerSpec

-----------------------------------------------------------------------------
(* The runtime plane *)

USE LifecycleAssumption

-----------------------------------------------------------------------------
(* Types *)

\* The database without requests is typed.
LEMMA InitTypeOK == Init => TypeOK
<1> SUFFICES ASSUME Init PROVE TypeOK
  OBVIOUS
<1>1. LedgerTypeOK
  BY InitType DEF Init
<1> QED
  BY <1>1 DEF Init, TypeOK, Status, Label, ApprovalState

\* The ledger's part of an action keeps the ledger's types.
LEMMA LedgerPart ==
  ASSUME TypeOK, NEW r \in Requests,
         \/ UNCHANGED ledgerVars
         \/ ReserveBudgets(r)
         \/ \E outcome \in Outcome : SettleBudgets(r, outcome)
  PROVE  LedgerTypeOK'
<1>1. LedgerTypeOK
  BY DEF TypeOK
<1>2. CASE UNCHANGED ledgerVars
  BY <1>1, <1>2 DEF LedgerTypeOK, ledgerVars
<1> QED
  BY <1>1, <1>2, ReserveType, SettleType

\* append_audit adds an event to the trail of one request.
LEMMA AuditType ==
  ASSUME TypeOK, NEW r \in Requests, NEW event \in EventType, Audit(r, event)
  PROVE  trail' \in [Requests -> SUBSET EventType]
BY DEF TypeOK, Audit

\* Writing a status keeps the statuses typed.
LEMMA StatusType ==
  ASSUME TypeOK, NEW r \in Requests, NEW s \in Status, SetStatus(r, s)
  PROVE  status' \in [Requests -> Status]
BY DEF TypeOK, SetStatus

\* The handler's part of TypeOK.
HandlersTyped ==
  /\ pc \in [Handlers -> Label]
  /\ req \in [Handlers -> Requests \cup {NoRequest}]
  /\ \A h \in Handlers : pc[h] # "idle" => req[h] \in Requests
  /\ seen \in [Handlers -> SUBSET AllControls]
  /\ standing \in [Handlers -> SUBSET AllControls]

\* A handler that answers is idle again.
LEMMA ReturnType ==
  ASSUME TypeOK, NEW h \in Handlers, Return(h)
  PROVE  HandlersTyped'
BY DEF TypeOK, HandlersTyped, Return, Label

\* A handler that moves on keeps its request and what it has seen.
LEMMA GoToType ==
  ASSUME TypeOK, NEW h \in Handlers, pc[h] # "idle", NEW l \in Label, GoTo(h, l)
  PROVE  HandlersTyped'
BY DEF TypeOK, HandlersTyped, GoTo

\* Steps that leave the handlers alone leave them typed.
LEMMA HandlersUnchanged == TypeOK /\ UNCHANGED handlerVars => HandlersTyped'
BY DEF TypeOK, HandlersTyped, handlerVars

\* Expiring a request and its approval keeps rows and ledger typed.
LEMMA ExpireType ==
  ASSUME TypeOK, NEW r \in Requests, ExpireRows(r)
  PROVE  /\ LedgerTypeOK'
         /\ status' \in [Requests -> Status]
         /\ approval' \in [Requests -> ApprovalState]
<1>1. LedgerTypeOK'
  BY LedgerPart DEF ExpireRows, Outcome
<1>2. status' \in [Requests -> Status]
  BY StatusType DEF ExpireRows, Status, Final
<1>3. approval' \in [Requests -> ApprovalState]
  BY DEF TypeOK, ExpireRows, ApprovalState
<1> QED
  BY <1>1, <1>2, <1>3

\* A refusal or a clearance by the checks before execution.
LEMMA RecheckType ==
  ASSUME TypeOK, NEW h \in Handlers, NEW view, NEW passed \in {"cleared", "locked"},
         pc[h] # "idle", Recheck(h, view, passed)
  PROVE  /\ LedgerTypeOK'
         /\ status' \in [Requests -> Status]
         /\ trail' \in [Requests -> SUBSET EventType]
         /\ HandlersTyped'
<1>1. req[h] \in Requests
  BY DEF TypeOK
<1>2. LedgerTypeOK'
  BY <1>1, LedgerPart DEF Recheck, Outcome
<1>3. status' \in [Requests -> Status]
  BY <1>1, StatusType DEF TypeOK, Recheck, Status, Final
<1>4. trail' \in [Requests -> SUBSET EventType]
  <2>1. "tool.execution_blocked" \in EventType
    BY DEF EventType
  <2>2. trail' = trail \/ Audit(req[h], "tool.execution_blocked")
    BY DEF Recheck
  <2> QED
    BY <1>1, <2>1, <2>2, AuditType DEF TypeOK
<1>5. HandlersTyped'
  <2>1. GoTo(h, passed) \/ Return(h)
    BY DEF Recheck
  <2> QED
    BY <2>1, GoToType, ReturnType DEF Label
<1> QED
  BY <1>2, <1>3, <1>4, <1>5

\* The outcome of an execution.
LEMMA FinalizeType ==
  ASSUME TypeOK, NEW r \in Requests, NEW outcome \in {"succeeded", "failed"},
         Finalize(r, outcome)
  PROVE  /\ LedgerTypeOK'
         /\ status' \in [Requests -> Status]
         /\ claim' \in [Requests -> {"none", "live", "lapsed"}]
         /\ trail' \in [Requests -> SUBSET EventType]
<1>1. LedgerTypeOK'
  BY LedgerPart DEF Finalize, Known, Outcome
<1>2. status' \in [Requests -> Status]
  BY StatusType DEF Finalize, Status, Final
<1>3. ExecutionEvent(outcome) \in EventType
  BY DEF ExecutionEvent, EventType
<1>4. trail' \in [Requests -> SUBSET EventType]
  BY <1>3, AuditType DEF Finalize
<1> QED
  BY <1>1, <1>2, <1>4 DEF Finalize, TypeOK

\* One step per action.
LEMMA NextType == TypeOK /\ [Next]_vars => TypeOK'
<1> SUFFICES ASSUME TypeOK, [Next]_vars PROVE TypeOK'
  OBVIOUS
<1>1. ASSUME NEW r \in Requests, NEW decision \in {"allow", "require_approval", "deny"},
             Authorize(r, decision)
      PROVE TypeOK'
  <2>1. LedgerTypeOK'
    BY <1>1, LedgerPart DEF Authorize
  <2>2. status' \in [Requests -> Status]
    BY <1>1, StatusType DEF Authorize, Status, Final, Executable
  <2>3. approval' \in [Requests -> ApprovalState]
    BY <1>1 DEF TypeOK, Authorize, ApprovalState
  <2>4. trail' \in [Requests -> SUBSET EventType]
    BY <1>1, AuditType DEF Authorize, EventType
  <2>5. facts' \in [Requests -> SUBSET AllControls]
    BY <1>1 DEF TypeOK, Authorize
  <2>6. HandlersTyped'
    BY <1>1, HandlersUnchanged DEF Authorize
  <2> QED
    BY <1>1, <2>1, <2>2, <2>3, <2>4, <2>5, <2>6
    DEF TypeOK, HandlersTyped, Authorize, clockVars, workerVars
<1>2. ASSUME NEW r \in Requests, NEW decision \in {"approve", "reject"}, Decide(r, decision)
      PROVE TypeOK'
  <2>1. LedgerTypeOK'
    BY <1>2, LedgerPart DEF Decide, ExpireRows, Outcome
  <2>2. status' \in [Requests -> Status]
    BY <1>2, StatusType DEF Decide, ExpireRows, Status, Final, Executable
  <2>3. approval' \in [Requests -> ApprovalState]
    BY <1>2 DEF TypeOK, Decide, ExpireRows, ApprovalState
  <2>4. trail' \in [Requests -> SUBSET EventType]
    <3>1. trail' = trail \/ Audit(r, "approval.decision")
      BY <1>2 DEF Decide
    <3> QED
      BY <3>1, AuditType DEF TypeOK, EventType
  <2>5. HandlersTyped'
    BY <1>2, HandlersUnchanged DEF Decide
  <2> QED
    BY <1>2, <2>1, <2>2, <2>3, <2>4, <2>5
    DEF TypeOK, HandlersTyped, Decide, clockVars, workerVars
<1>3. ASSUME NEW r \in Requests, ExpireApproval(r) PROVE TypeOK'
  <2>1. LedgerTypeOK'
    BY <1>3, LedgerPart DEF ExpireApproval, ExpireRows, Outcome
  <2>2. /\ status' \in [Requests -> Status]
        /\ approval' \in [Requests -> ApprovalState]
    BY <1>3, ExpireType DEF ExpireApproval, TypeOK
  <2>3. trail' \in [Requests -> SUBSET EventType]
    <3>1. trail' = trail \/ Audit(r, "approval.expired")
      BY <1>3 DEF ExpireApproval
    <3> QED
      BY <3>1, AuditType DEF TypeOK, EventType
  <2>4. HandlersTyped'
    BY <1>3, HandlersUnchanged DEF ExpireApproval
  <2> QED
    BY <1>3, <2>1, <2>2, <2>3, <2>4 DEF TypeOK, HandlersTyped, ExpireApproval, clockVars
<1>4. ASSUME NEW r \in Requests, Poll(r) PROVE TypeOK'
  <2>1. trail' \in [Requests -> SUBSET EventType]
    BY <1>4, AuditType DEF Poll, EventType
  <2>2. HandlersTyped'
    BY <1>4, HandlersUnchanged DEF Poll
  <2> QED
    BY <1>4, <2>1, <2>2, ExpireType DEF TypeOK, HandlersTyped, Poll, clockVars, workerVars
<1>5. ASSUME NEW r \in Requests, SetControls(r) PROVE TypeOK'
  <2>1. SUBSET Controls[r] \subseteq SUBSET AllControls
    OBVIOUS
  <2> QED
    BY <1>5, <2>1 DEF TypeOK, SetControls, LedgerTypeOK, ledgerVars, rowVars, clockVars, workerVars
<1>6. ASSUME NEW r \in Requests, RequestDeadline(r) \/ ApprovalDeadline(r) \/ ClaimDeadline(r)
      PROVE TypeOK'
  BY <1>6 DEF TypeOK, RequestDeadline, ApprovalDeadline, ClaimDeadline, LedgerTypeOK,
              ledgerVars, rowVars, clockVars, handlerVars, workerVars
<1>7. ASSUME NEW h \in Handlers, NEW r \in Requests, Arrive(h, r) PROVE TypeOK'
  <2>1. LedgerTypeOK'
    BY <1>7, LedgerPart DEF Arrive
  <2>2. HandlersTyped'
    BY <1>7 DEF Arrive, TypeOK, HandlersTyped, Label
  <2> QED
    BY <1>7, <2>1, <2>2 DEF TypeOK, HandlersTyped, Arrive, rowVars, clockVars, workerVars
<1>18. ASSUME NEW h \in Handlers, ReadUnlocked(h) \/ LoadTool(h) PROVE TypeOK'
  <2>1. LedgerTypeOK'
    BY <1>18 DEF ReadUnlocked, LoadTool, TypeOK, LedgerTypeOK, ledgerVars
  <2>2. CASE Return(h)
    BY <1>18, <2>1, <2>2, ReturnType
    DEF TypeOK, HandlersTyped, ReadUnlocked, LoadTool, rowVars, clockVars, workerVars
  <2>3. CASE ReadUnlocked(h) /\ GoTo(h, "found")
    <3>1. HandlersTyped'
      BY <2>3, GoToType DEF ReadUnlocked, Label
    <3> QED
      BY <2>1, <2>3, <3>1 DEF TypeOK, HandlersTyped, ReadUnlocked, rowVars, clockVars, workerVars
  <2>4. CASE LoadTool(h) /\ ~Return(h)
    <3>1. HandlersTyped'
      BY <2>4 DEF LoadTool, TypeOK, HandlersTyped, Label
    <3> QED
      BY <2>1, <2>4, <3>1 DEF TypeOK, HandlersTyped, LoadTool, rowVars, clockVars, workerVars
  <2> QED
    BY <1>18, <2>2, <2>3, <2>4 DEF ReadUnlocked
<1>8. ASSUME NEW h \in Handlers, NEW r \in Requests, ReportResult(h, r) PROVE TypeOK'
  <2>1. LedgerTypeOK'
    BY <1>8, LedgerPart DEF ReportResult, Outcome
  <2>2. status' \in [Requests -> Status]
    BY <1>8, StatusType DEF ReportResult, TypeOK, Status, Final
  <2>3. HandlersTyped'
    BY <1>8 DEF ReportResult, TypeOK, HandlersTyped, handlerVars, Label
  <2> QED
    BY <1>8, <2>1, <2>2, <2>3 DEF TypeOK, HandlersTyped, ReportResult, clockVars, workerVars
<1>9. ASSUME NEW h \in Handlers, CheckLoaded(h) PROVE TypeOK'
  <2> DEFINE view == seen[h] \cup (facts[req[h]] \cap {"kill"})
  <2>1. pc[h] # "idle" /\ Recheck(h, view, "cleared")
    BY <1>9 DEF CheckLoaded
  <2> HIDE DEF view
  <2>2. /\ LedgerTypeOK'
        /\ status' \in [Requests -> Status]
        /\ trail' \in [Requests -> SUBSET EventType]
        /\ HandlersTyped'
    BY <2>1, RecheckType
  <2> QED
    BY <1>9, <2>2 DEF TypeOK, HandlersTyped, CheckLoaded, clockVars, workerVars
<1>10. ASSUME NEW h \in Handlers, LockAndCheck(h) PROVE TypeOK'
  <2> DEFINE r == req[h]
             view == seen[h] \cup (facts[r] \ {"agent"})
  <2>1. pc[h] # "idle" /\ r \in Requests
    BY <1>10 DEF LockAndCheck, TypeOK
  <2>2. CASE ExpireRows(r) /\ Audit(r, "approval.expired") /\ Return(h)
    <3>1. trail' \in [Requests -> SUBSET EventType]
      BY <2>1, <2>2, AuditType DEF EventType
    <3> QED
      BY <1>10, <2>1, <2>2, <3>1, ExpireType, ReturnType
      DEF TypeOK, HandlersTyped, LockAndCheck, clockVars, workerVars
  <2>3. CASE Return(h) /\ UNCHANGED <<ledgerVars, status, approval, trail>>
    BY <1>10, <2>1, <2>3, ReturnType, LedgerPart
    DEF TypeOK, HandlersTyped, LockAndCheck, clockVars, workerVars
  <2>4. CASE Recheck(h, view, "locked") /\ UNCHANGED approval
    <3> HIDE DEF view
    <3>1. /\ LedgerTypeOK'
          /\ status' \in [Requests -> Status]
          /\ trail' \in [Requests -> SUBSET EventType]
          /\ HandlersTyped'
      BY <2>1, <2>4, RecheckType
    <3> QED
      BY <1>10, <2>4, <3>1 DEF TypeOK, HandlersTyped, LockAndCheck, clockVars, workerVars
  <2> QED
    BY <1>10, <2>2, <2>3, <2>4 DEF LockAndCheck
<1>11. ASSUME NEW h \in Handlers, BeginExecution(h) PROVE TypeOK'
  <2> DEFINE r == req[h]
  <2>1. pc[h] # "idle" /\ r \in Requests
    BY <1>11 DEF BeginExecution, TypeOK
  <2>2. status' \in [Requests -> Status]
    BY <1>11, <2>1, StatusType DEF BeginExecution, TypeOK, Status
  <2>3. trail' \in [Requests -> SUBSET EventType]
    <3>1. trail' = trail \/ Audit(r, "tool.execution_claimed")
      BY <1>11 DEF BeginExecution
    <3> QED
      BY <2>1, <3>1, AuditType DEF TypeOK, EventType
  <2>4. HandlersTyped'
    <3>1. Return(h) \/ GoTo(h, "calling")
      BY <1>11 DEF BeginExecution
    <3> QED
      BY <2>1, <3>1, ReturnType, GoToType DEF Label
  <2>5. starts' \in [Requests -> Nat] /\ claim' \in [Requests -> {"none", "live", "lapsed"}]
    BY <1>11, <2>1 DEF BeginExecution, TypeOK
  <2> QED
    BY <1>11, <2>1, <2>2, <2>3, <2>4, <2>5, LedgerPart
    DEF TypeOK, HandlersTyped, BeginExecution, clockVars, workerVars
<1>12. ASSUME NEW h \in Handlers, NEW outcome \in {"succeeded", "failed"},
              FinishRemote(h, outcome) \/ FinishReport(h, outcome)
       PROVE TypeOK'
  <2>1. req[h] \in Requests /\ Finalize(req[h], outcome) /\ Return(h)
    BY <1>12 DEF FinishRemote, FinishReport, TypeOK
  <2> QED
    BY <1>12, <2>1, FinalizeType, ReturnType
    DEF TypeOK, HandlersTyped, FinishRemote, FinishReport, clockVars, workerVars
<1>13. ASSUME NEW h \in Handlers, Crash(h) PROVE TypeOK'
  BY <1>13, ReturnType
  DEF TypeOK, HandlersTyped, Crash, LedgerTypeOK, ledgerVars, rowVars, clockVars, workerVars
<1>14. CASE QueryApprovals
  BY <1>14 DEF TypeOK, QueryApprovals, LateApprovals, LedgerTypeOK, ledgerVars, rowVars,
               clockVars, handlerVars
<1>15. CASE SweepRead \/ WorkerCrash
  BY <1>15 DEF TypeOK, SweepRead, WorkerCrash, LedgerTypeOK, ledgerVars, rowVars, clockVars,
               handlerVars
<1>16. CASE SweepWrite
  BY <1>16 DEF TypeOK, SweepWrite, Status, Final, EventType, LedgerTypeOK, ledgerVars,
               clockVars, handlerVars
<1>17. CASE UNCHANGED vars
  BY <1>17 DEF TypeOK, LedgerTypeOK, vars, ledgerVars, lifecycleVars
<1> QED
  BY <1>1, <1>2, <1>3, <1>4, <1>5, <1>6, <1>7, <1>8, <1>9, <1>10, <1>11, <1>12, <1>13,
     <1>14, <1>15, <1>16, <1>17, <1>18 DEF Next

\* Every variable keeps its type, whatever the handlers, the worker, the
\* administrators and the clock do in whatever order.
THEOREM LifecycleType == Spec => []TypeOK
<1>1. Init => TypeOK
  BY InitTypeOK
<1>2. TypeOK /\ [Next]_vars => TypeOK'
  BY NextType
<1> QED
  BY <1>1, <1>2, PTL DEF Spec

-----------------------------------------------------------------------------
(* The inductive invariant.  The code has no lock that spans a request's     *)
(* life; what keeps its rows consistent is that every writer either holds    *)
(* the row lock while it looks and writes, or can only have looked at a      *)
(* request that has left its approval behind for good.                       *)

\* The request is past its approval: both rows have left "pending" and will not
\* come back.
Passed(r) ==
  approval[r] \in {"none", "approved"} /\ status[r] \notin {"absent", "pending_approval"}

Locks(h) == pc[h] \in {"locked", "reporting"}

\* The execution of a claim is open, or a stale refusal has ended it and given the
\* budget back.
OpenOrRefused(r) ==
  \/ status[r] = "executing"
  \/ status[r] \in {"agent_disabled", "expired", "failed"} /\ Open(r) = {}

\* What holds of the rows of a request.
RowOK(r) ==
  /\ status[r] = "absent" => ~HasReservation(r) /\ approval[r] = "none"
  /\ approval[r] = "pending" <=> status[r] = "pending_approval"
  /\ approval[r] \in {"rejected", "expired"} => status[r] = approval[r]
  /\ starts[r] > 0 => Passed(r)
  /\ status[r] \in Executable => starts[r] = 0
  /\ r \in SdkRequests /\ status[r] = "executing" => claim[r] # "none"
  /\ claim[r] # "none" =>
       r \in SdkRequests /\ starts[r] > 0 /\ trail[r] \cap Outcomes = {} /\ OpenOrRefused(r)
  /\ trail[r] \cap Outcomes # {} => starts[r] > 0

\* What a handler that has looked at its request may rely on, however late it acts.
HandlerOK(h) ==
  /\ pc[h] \in {"found", "loaded", "cleared", "locked", "calling", "reporting"} => Passed(req[h])
  /\ pc[h] = "loaded" => ~Claimable(req[h], seen[h])
  /\ pc[h] \in {"cleared", "calling"} => req[h] \notin SdkRequests
  /\ pc[h] = "locked" => status[req[h]] \in Executable
  /\ pc[h] = "reporting" => claim[req[h]] # "none" /\ status[req[h]] = "executing"
  /\ pc[h] = "calling" => starts[req[h]] > 0 /\ trail[req[h]] \cap Outcomes = {}

\* A row lock, and a call to a provider, have one owner.
OneOwner ==
  \A h, k \in Handlers :
    h # k /\ req[h] = req[k] =>
      /\ ~(Locks(h) /\ Locks(k))
      /\ ~(pc[h] = "calling" /\ pc[k] = "calling")

SweptPassed == \A r \in swept : r \in SdkRequests /\ Passed(r) /\ starts[r] > 0

LifeInv ==
  /\ TypeOK
  /\ \A r \in Requests : RowOK(r)
  /\ \A h \in Handlers : HandlerOK(h)
  /\ OneOwner
  /\ SweptPassed

-----------------------------------------------------------------------------
(* What an action leaves to the others *)

\* Nothing changes in the rows of q that the invariant is about.
SameRow(q) ==
  /\ status'[q] = status[q]
  /\ approval'[q] = approval[q]
  /\ claim'[q] = claim[q]
  /\ starts'[q] = starts[q]
  /\ trail'[q] \cap Outcomes = trail[q] \cap Outcomes
  /\ HasReservation(q)' => HasReservation(q)
  /\ Open(q) = {} => Open(q)' = {}

OtherRows(r) == \A q \in Requests \ {r} : SameRow(q)

\* The approval of q, and the start of its execution, stay behind it.
StaysPassed(q) ==
  /\ Passed(q) => /\ approval'[q] \in {"none", "approved"}
                  /\ status'[q] \notin {"absent", "pending_approval"}
  /\ starts[q] > 0 => starts'[q] > 0

\* Handler k is not the one that acts.
SamePlace(k) == pc'[k] = pc[k] /\ req'[k] = req[k] /\ seen'[k] = seen[k]

\* Handlers move on only by ending their call.
SamePlaceOrDone == \A k \in Handlers : SamePlace(k) \/ pc'[k] = "idle"

\* What k relies on others to preserve about the request it serves.
Rely(k) ==
  LET q == req[k] IN
  /\ StaysPassed(q)
  /\ Locks(k) => /\ status'[q] = status[q]
                 /\ claim[q] # "none" => claim'[q] # "none"
  /\ pc[k] = "calling" => /\ starts[q] > 0 => starts'[q] > 0
                          /\ trail'[q] \cap Outcomes = trail[q] \cap Outcomes

\* A row that does not change stays consistent.
LEMMA SameRowOK ==
  ASSUME NEW q \in Requests, RowOK(q), SameRow(q)
  PROVE  RowOK(q)'
BY DEF RowOK, SameRow, Passed, OpenOrRefused

\* A handler relies on nothing more than that its row stays as it is.
LEMMA SameRowRely ==
  ASSUME NEW k \in Handlers, SameRow(req[k])
  PROVE  Rely(k)
BY DEF Rely, SameRow, StaysPassed, Passed

\* A handler that does not move keeps its invariant if its reliance is met.
LEMMA Bystander ==
  ASSUME NEW k \in Handlers, HandlerOK(k), SamePlace(k), Rely(k)
  PROVE  HandlerOK(k)'
BY DEF HandlerOK, SamePlace, Rely, Locks, StaysPassed, Passed, Claimable

\* A handler before its check has nothing to keep.
LEMMA IdleOK ==
  ASSUME NEW h \in Handlers, pc'[h] \in {"idle", "arrived"}
  PROVE  HandlerOK(h)'
BY DEF HandlerOK

\* Who ends his call, or enters a place without a lock or a provider, owns nothing.
LEMMA OwnersStay ==
  ASSUME OneOwner, SamePlaceOrDone
  PROVE  OneOwner'
BY DEF OneOwner, SamePlaceOrDone, SamePlace, Locks

\* Letting go of a row keeps one owner per row.
LEMMA OwnerLeaves ==
  ASSUME OneOwner, NEW h \in Handlers, pc'[h] \in {"idle", "arrived", "found", "loaded", "cleared"},
         \A k \in Handlers \ {h} : SamePlace(k)
  PROVE  OneOwner'
BY DEF OneOwner, SamePlace, Locks

\* A free row has one owner after it is locked.
LEMMA OwnerLocks ==
  ASSUME OneOwner, NEW h \in Handlers, pc'[h] \in {"locked", "reporting"},
         RowFree(req'[h]), \A k \in Handlers \ {h} : SamePlace(k)
  PROVE  OneOwner'
BY DEF OneOwner, SamePlace, Locks, RowFree

\* Settling never creates a reservation.
LEMMA SettleKeepsNone ==
  ASSUME TypeOK, NEW r \in Requests, NEW outcome \in Outcome, SettleBudgets(r, outcome),
         NEW q \in Requests
  PROVE  HasReservation(q)' => HasReservation(q)
<1>1. LedgerTypeOK
  BY DEF TypeOK
<1>2. \A u \in Usages : resv'[q][u] # "none" => resv[q][u] # "none"
  BY <1>1, SettleRow
<1> QED
  BY <1>2 DEF HasReservation

\* And what is settled stays so.
LEMMA SettleKeepsSettled ==
  ASSUME TypeOK, NEW r \in Requests, NEW outcome \in Outcome, SettleBudgets(r, outcome),
         NEW q \in Requests
  PROVE  /\ Open(q) = {} => Open(q)' = {}
         /\ outcome = "failed" => Open(r)' = {}
<1>1. LedgerTypeOK
  BY DEF TypeOK
<1>2. \A u \in Usages : resv'[q][u] = "reserved" => resv[q][u] = "reserved"
  BY <1>1, SettleRow
<1>3. outcome = "failed" => \A u \in Usages : resv'[r][u] # "reserved"
  BY <1>1, SettleRow
<1> QED
  BY <1>2, <1>3 DEF Open

\* An action of handler h, on request r at most, preserves the invariant when it
\* keeps what the other handlers and the worker rely on.
LEMMA ActBy ==
  ASSUME LifeInv, TypeOK', NEW h \in Handlers, NEW r \in Requests,
         OtherRows(r), RowOK(r)', StaysPassed(r),
         \A k \in Handlers \ {h} : SamePlace(k) /\ (pc[k] # "idle" /\ req[k] = r => Rely(k)),
         HandlerOK(h)', OneOwner', swept' \subseteq swept
  PROVE  LifeInv'
<1>1. \A q \in Requests : RowOK(q)'
  BY SameRowOK DEF LifeInv, OtherRows
<1>2. \A q \in Requests : StaysPassed(q)
  BY DEF OtherRows, SameRow, StaysPassed, Passed
<1>3. SweptPassed'
  BY <1>2 DEF LifeInv, TypeOK, SweptPassed, StaysPassed, Passed
<1>4. ASSUME NEW k \in Handlers PROVE HandlerOK(k)'
  <2>1. CASE k = h
    BY <2>1
  <2>2. CASE k # h /\ pc[k] = "idle"
    BY <2>2, IdleOK DEF SamePlace
  <2>3. CASE k # h /\ pc[k] # "idle"
    <3>1. req[k] \in Requests
      BY <2>3 DEF LifeInv, TypeOK
    <3>2. Rely(k)
      BY <2>3, <3>1, SameRowRely DEF OtherRows
    <3> QED
      BY <2>3, <3>2, Bystander DEF LifeInv
  <2> QED
    BY <2>1, <2>2, <2>3
<1> QED
  BY <1>1, <1>3, <1>4 DEF LifeInv

\* An action on no handler's place.
LEMMA ActAside ==
  ASSUME LifeInv, TypeOK', \A q \in Requests : RowOK(q)' /\ StaysPassed(q),
         \A k \in Handlers : SamePlace(k) /\ (pc[k] # "idle" => Rely(k)),
         SweptPassed'
  PROVE  LifeInv'
<1>1. ASSUME NEW k \in Handlers PROVE HandlerOK(k)'
  <2>1. CASE pc[k] = "idle"
    BY <2>1, IdleOK DEF SamePlace
  <2>2. CASE pc[k] # "idle"
    BY <2>2, Bystander DEF LifeInv
  <2> QED
    BY <2>1, <2>2
<1>2. OneOwner'
  BY OwnersStay DEF LifeInv, SamePlaceOrDone
<1> QED
  BY <1>1, <1>2 DEF LifeInv

\* An action on a request that still waits, or does not exist yet: no handler has
\* looked at it.
LEMMA ActOnWaiting ==
  ASSUME LifeInv, TypeOK', NEW r \in Requests, ~Passed(r), OtherRows(r), RowOK(r)',
         SamePlaceOrDone, swept' \subseteq swept
  PROVE  LifeInv'
<1>1. \A q \in Requests : RowOK(q)'
  BY SameRowOK DEF LifeInv, OtherRows
<1>2. SweptPassed'
  BY DEF LifeInv, TypeOK, SweptPassed, OtherRows, SameRow, Passed
<1>3. ASSUME NEW k \in Handlers PROVE HandlerOK(k)'
  <2>1. CASE pc'[k] \in {"idle", "arrived"}
    BY <2>1, IdleOK
  <2>2. CASE pc'[k] \notin {"idle", "arrived"}
    <3>1. SamePlace(k) /\ pc[k] \notin {"idle", "arrived"}
      BY <2>2 DEF SamePlaceOrDone, SamePlace
    <3>2. pc[k] \in Label /\ req[k] \in Requests
      BY <3>1 DEF LifeInv, TypeOK
    <3>3. Passed(req[k])
      BY <3>1, <3>2 DEF LifeInv, HandlerOK, Label
    <3>4. Rely(k)
      BY <3>2, <3>3, SameRowRely DEF OtherRows
    <3> QED
      BY <3>1, <3>4, Bystander DEF LifeInv
  <2> QED
    BY <2>1, <2>2
<1> QED
  BY <1>1, <1>2, <1>3, OwnersStay DEF LifeInv

\* A step that touches no row and moves handler h only.
LEMMA ActMove ==
  ASSUME LifeInv, TypeOK', NEW h \in Handlers, UNCHANGED <<ledgerVars, rowVars, trail, starts>>,
         \A k \in Handlers \ {h} : SamePlace(k),
         HandlerOK(h)', OneOwner', swept' = swept
  PROVE  LifeInv'
<1>1. \A q \in Requests : SameRow(q)
  BY DEF SameRow, rowVars, ledgerVars, HasReservation, Open
<1>2. \A q \in Requests : RowOK(q)' /\ StaysPassed(q)
  BY <1>1, SameRowOK DEF LifeInv, SameRow, StaysPassed, Passed
<1>3. ASSUME NEW k \in Handlers \ {h} PROVE HandlerOK(k)'
  <2>1. CASE pc[k] = "idle"
    BY <2>1, IdleOK DEF SamePlace
  <2>2. CASE pc[k] # "idle"
    BY <1>1, <2>2, SameRowRely, Bystander DEF LifeInv, TypeOK
  <2> QED
    BY <2>1, <2>2
<1>4. SweptPassed'
  BY <1>2 DEF LifeInv, TypeOK, SweptPassed, StaysPassed, Passed
<1> QED
  BY <1>2, <1>3, <1>4 DEF LifeInv

-----------------------------------------------------------------------------
(* What the actions do to the rows *)

\* The events that are not outcomes of an execution.
LEMMA PlainEvents ==
  \A event \in {"authorization.decision", "approval.decision", "approval.expired",
                "tool.execution_blocked", "tool.execution_claimed",
                "tool.execution_claim_expired"} :
    event \notin Outcomes
BY DEF Outcomes

\* Events other than outcomes record no outcome.
LEMMA AuditPlain ==
  ASSUME TypeOK, NEW r \in Requests, NEW event, event \notin Outcomes,
         trail' = trail \/ Audit(r, event), NEW q \in Requests
  PROVE  trail'[q] \cap Outcomes = trail[q] \cap Outcomes
BY DEF TypeOK, Audit

\* Writing a status, a claim and an audit event leaves the other requests alone.
LEMMA OthersAlone ==
  ASSUME TypeOK, NEW r \in Requests, NEW s, SetStatus(r, s),
         \A q \in Requests \ {r} : approval'[q] = approval[q] /\ claim'[q] = claim[q]
                                    /\ starts'[q] = starts[q],
         NEW event, trail' = trail \/ Audit(r, event),
         \/ UNCHANGED ledgerVars
         \/ \E outcome \in Outcome : SettleBudgets(r, outcome)
  PROVE  OtherRows(r) /\ status'[r] = s /\ (HasReservation(r)' => HasReservation(r))
<1>1. \A q \in Requests : HasReservation(q)' => HasReservation(q)
  BY SettleKeepsNone DEF ledgerVars, HasReservation
<1>4. \A q \in Requests : Open(q) = {} => Open(q)' = {}
  BY SettleKeepsSettled DEF ledgerVars, Open
<1>2. \A q \in Requests \ {r} : trail'[q] = trail[q]
  BY DEF TypeOK, Audit
<1>3. status'[r] = s /\ \A q \in Requests \ {r} : status'[q] = status[q]
  BY DEF TypeOK, SetStatus
<1> QED
  BY <1>1, <1>2, <1>3, <1>4 DEF OtherRows, SameRow

\* The expiry of a pending approval, by whomever.
LEMMA ExpiryRows ==
  ASSUME LifeInv, NEW r \in Requests, status[r] = "pending_approval", ExpireRows(r),
         trail' = trail \/ Audit(r, "approval.expired"), UNCHANGED <<claim, starts>>
  PROVE  ~Passed(r) /\ OtherRows(r) /\ RowOK(r)'
<1>1. TypeOK /\ RowOK(r)
  BY DEF LifeInv
<1>2. approval[r] = "pending" /\ ~Passed(r)
  BY <1>1 DEF RowOK, Passed
<1>3. approval'[r] = "expired" /\ \A q \in Requests \ {r} : approval'[q] = approval[q]
  BY <1>1, <1>2 DEF ExpireRows, TypeOK
<1>4. OtherRows(r) /\ status'[r] = "expired"
  BY <1>1, <1>3, OthersAlone DEF ExpireRows, Outcome
<1>5. trail'[r] \cap Outcomes = trail[r] \cap Outcomes
  BY <1>1, PlainEvents, AuditPlain
<1>6. claim'[r] = "none" /\ starts'[r] = starts[r] /\ ~(starts[r] > 0)
  BY <1>1, <1>2 DEF RowOK
<1> QED
  BY <1>1, <1>2, <1>3, <1>4, <1>5, <1>6 DEF RowOK, Passed, Executable

\* authorize inserts a consistent row that no handler serves.
LEMMA AuthorizeLife ==
  ASSUME LifeInv, TypeOK', NEW r \in Requests,
         NEW decision \in {"allow", "require_approval", "deny"}, Authorize(r, decision)
  PROVE  LifeInv'
<1>1. TypeOK /\ RowOK(r) /\ status[r] = "absent"
  BY DEF LifeInv, Authorize
<1>2. /\ ~Passed(r) /\ approval[r] = "none" /\ claim[r] = "none" /\ ~(starts[r] > 0)
      /\ trail[r] \cap Outcomes = {}
  BY <1>1 DEF RowOK, Passed
<1>3. starts[r] = 0
  BY <1>1, <1>2 DEF TypeOK
<1>4. trail'[r] \cap Outcomes = {}
  BY <1>1, <1>2, PlainEvents, AuditPlain DEF Authorize
<1>5. \/ status'[r] \in {"denied", "budget_exceeded", "authorized"} /\ approval'[r] = "none"
      \/ status'[r] = "pending_approval" /\ approval'[r] = "pending"
  BY <1>1, <1>2 DEF Authorize, SetStatus, TypeOK
<1>6. RowOK(r)'
  BY <1>2, <1>3, <1>4, <1>5 DEF Authorize, RowOK, Passed, Executable
<1>7. OtherRows(r)
  <2> SUFFICES ASSUME NEW q \in Requests \ {r} PROVE SameRow(q)
    BY DEF OtherRows
  <2>1. status'[q] = status[q] /\ approval'[q] = approval[q]
    BY <1>1 DEF Authorize, SetStatus, TypeOK
  <2>2. trail'[q] = trail[q]
    BY <1>1 DEF Authorize, Audit, TypeOK
  <2>3. HasReservation(q)' => HasReservation(q)
    <3>1. CASE UNCHANGED ledgerVars
      BY <3>1 DEF HasReservation, ledgerVars
    <3>2. CASE ReserveBudgets(r)
      <4>1. \A u \in Usages : resv'[q][u] = resv[q][u]
        <5>1. LedgerTypeOK
          BY <1>1 DEF TypeOK
        <5> QED
          BY <3>2, <5>1, ReserveRow
      <4> QED
        BY <4>1 DEF HasReservation
    <3> QED
      BY <3>1, <3>2 DEF Authorize
  <2>4. Open(q) = {} => Open(q)' = {}
    <3>1. CASE UNCHANGED ledgerVars
      BY <3>1 DEF Open, ledgerVars
    <3>2. CASE ReserveBudgets(r)
      <4>1. \A u \in Usages : resv'[q][u] = resv[q][u]
        <5>1. LedgerTypeOK
          BY <1>1 DEF TypeOK
        <5> QED
          BY <3>2, <5>1, ReserveRow
      <4> QED
        BY <4>1 DEF Open
    <3> QED
      BY <3>1, <3>2 DEF Authorize
  <2> QED
    BY <2>1, <2>2, <2>3, <2>4 DEF Authorize, SameRow
<1>8. SamePlaceOrDone /\ swept' = swept
  BY DEF Authorize, handlerVars, workerVars, SamePlaceOrDone, SamePlace
<1> QED
  BY <1>2, <1>6, <1>7, <1>8, ActOnWaiting

\* decide_approval resolves request and approval together.
LEMMA DecideLife ==
  ASSUME LifeInv, TypeOK', NEW r \in Requests, NEW decision \in {"approve", "reject"},
         Decide(r, decision)
  PROVE  LifeInv'
<1>1. /\ TypeOK /\ RowOK(r) /\ approval[r] = "pending" /\ status[r] = "pending_approval"
      /\ UNCHANGED <<claim, starts>>
  BY DEF LifeInv, Decide
<1>2. ~Passed(r) /\ claim[r] = "none" /\ ~(starts[r] > 0) /\ trail[r] \cap Outcomes = {}
  BY <1>1 DEF RowOK, Passed
<1>3. SamePlaceOrDone /\ swept' = swept
  BY DEF Decide, handlerVars, workerVars, SamePlaceOrDone, SamePlace
<1>4. CASE ExpireRows(r) /\ trail' = trail
  BY <1>1, <1>3, <1>4, ExpiryRows, ActOnWaiting
<1>5. ASSUME NEW s \in {"approved", "rejected"}, SetStatus(r, s),
             approval' = [approval EXCEPT ![r] = s], Audit(r, "approval.decision"),
             UNCHANGED ledgerVars \/ SettleBudgets(r, "failed")
      PROVE  LifeInv'
  <2>1. approval'[r] = s /\ \A q \in Requests \ {r} : approval'[q] = approval[q]
    BY <1>1, <1>5 DEF TypeOK
  <2>2. OtherRows(r) /\ status'[r] = s
    BY <1>1, <1>5, <2>1, OthersAlone DEF Outcome
  <2>3. trail'[r] \cap Outcomes = {}
    BY <1>1, <1>2, <1>5, PlainEvents, AuditPlain
  <2>4. starts'[r] = 0 /\ claim'[r] = "none"
    BY <1>1, <1>2 DEF TypeOK
  <2>5. RowOK(r)'
    BY <2>1, <2>2, <2>3, <2>4 DEF RowOK, Executable
  <2> QED
    BY <1>2, <1>3, <2>2, <2>5, ActOnWaiting
<1> QED
  BY <1>4, <1>5 DEF Decide

\* The poll and the worker expire request and approval together.
LEMMA ExpireLife ==
  ASSUME LifeInv, TypeOK', NEW r \in Requests, Poll(r) \/ ExpireApproval(r)
  PROVE  LifeInv'
<1>1. SamePlaceOrDone /\ swept' = swept /\ UNCHANGED <<claim, starts>>
  BY DEF Poll, ExpireApproval, handlerVars, workerVars, SamePlaceOrDone, SamePlace
<1>2. CASE status[r] = "pending_approval" /\ ExpireRows(r) /\ Audit(r, "approval.expired")
  BY <1>1, <1>2, ExpiryRows, ActOnWaiting
<1>3. CASE UNCHANGED <<ledgerVars, status, approval, trail>>
  <2>1. \A q \in Requests : SameRow(q)
    BY <1>1, <1>3 DEF SameRow, ledgerVars, HasReservation, Open
  <2>2. \A q \in Requests : RowOK(q)' /\ StaysPassed(q)
    BY <2>1, SameRowOK DEF LifeInv, SameRow, StaysPassed, Passed
  <2>3. \A k \in Handlers : SamePlace(k) /\ (pc[k] # "idle" => Rely(k))
    <3>1. \A k \in Handlers : SamePlace(k)
      BY DEF Poll, ExpireApproval, handlerVars, SamePlace
    <3> QED
      BY <2>1, <3>1, SameRowRely DEF LifeInv, TypeOK
  <2>4. SweptPassed'
    BY <1>1, <2>2 DEF LifeInv, TypeOK, SweptPassed, StaysPassed, Passed
  <2> QED
    BY <2>2, <2>3, <2>4, ActAside
<1> QED
  BY <1>2, <1>3 DEF Poll, PendingOverdue, ExpireApproval, StillPending

\* A request that may run is past its approval and has no claim.
LEMMA ExecutablePassed ==
  ASSUME LifeInv, NEW r \in Requests, status[r] \in Executable
  PROVE  Passed(r) /\ claim[r] = "none" /\ starts[r] = 0 /\ trail[r] \cap Outcomes = {}
<1>1. TypeOK /\ RowOK(r)
  BY DEF LifeInv
<1>2. approval[r] \in ApprovalState
  BY <1>1 DEF TypeOK
<1> QED
  BY <1>1, <1>2 DEF RowOK, Passed, ApprovalState, Executable, OpenOrRefused

\* So is one whose tool runs under a claim, and nothing is recorded of it yet.
LEMMA ClaimedPassed ==
  ASSUME LifeInv, NEW r \in Requests, claim[r] # "none"
  PROVE  r \in SdkRequests /\ Passed(r) /\ starts[r] > 0 /\ trail[r] \cap Outcomes = {}
BY DEF LifeInv, RowOK

\* The refusal by a check before the execution.
LEMMA RefuseLife ==
  ASSUME LifeInv, TypeOK', NEW h \in Handlers, NEW r \in Requests,
         Passed(r), RowFree(r),
         NEW s \in {"agent_disabled", "expired", "failed"},
         SetStatus(r, s), SettleBudgets(r, "failed"),
         trail' = trail \/ Audit(r, "tool.execution_blocked"),
         UNCHANGED <<approval, claim, starts, swept>>, Return(h)
  PROVE  LifeInv'
<1>1. TypeOK /\ RowOK(r)
  BY DEF LifeInv
<1>2. OtherRows(r) /\ status'[r] = s
  BY <1>1, OthersAlone DEF Outcome
<1>3. trail'[r] \cap Outcomes = trail[r] \cap Outcomes
  BY <1>1, PlainEvents, AuditPlain
<1>4. RowOK(r)'
  <2>1. Open(r)' = {}
    BY <1>1, SettleKeepsSettled DEF Outcome
  <2> QED
    BY <1>1, <1>2, <1>3, <2>1 DEF RowOK, Passed, Executable, OpenOrRefused
<1>5. StaysPassed(r)
  BY <1>2 DEF StaysPassed, Passed
<1>6. \A k \in Handlers \ {h} : SamePlace(k)
  BY <1>1 DEF Return, SamePlace, TypeOK
<1>7. \A k \in Handlers \ {h} : req[k] = r => Rely(k)
  BY <1>3, <1>5 DEF Rely, RowFree, Locks
<1>8. pc'[h] = "idle"
  BY <1>1 DEF Return, TypeOK
<1>9. HandlerOK(h)' /\ OneOwner'
  BY <1>6, <1>8, IdleOK, OwnerLeaves DEF LifeInv
<1> QED
  BY <1>2, <1>4, <1>5, <1>6, <1>7, <1>9, ActBy

\* Every outcome of the checks before the execution.
LEMMA RecheckLife ==
  ASSUME LifeInv, TypeOK', NEW h \in Handlers, NEW view, NEW passed \in {"cleared", "locked"},
         Recheck(h, view, passed), pc[h] \in {"loaded", "arrived"},
         Passed(req[h]),
         passed = "cleared" /\ Verdict(req[h], view) = "clear" => req[h] \notin SdkRequests,
         passed = "locked" => RowFree(req[h]) /\ status[req[h]] \in Executable,
         UNCHANGED <<approval, claim, starts, swept>>
  PROVE  LifeInv'
<1>1. TypeOK /\ req[h] \in Requests
  BY DEF LifeInv, TypeOK
<1>2. CASE Verdict(req[h], view) = "clear" /\ GoTo(h, passed) /\ UNCHANGED <<ledgerVars, status, trail>>
  <2>1. pc'[h] = passed /\ req'[h] = req[h] /\ \A k \in Handlers \ {h} : SamePlace(k)
    BY <1>1, <1>2 DEF GoTo, SamePlace, TypeOK
  <2>2. HandlerOK(h)'
    BY <1>2, <2>1 DEF HandlerOK, Passed
  <2>3. OneOwner'
    <3>1. CASE passed = "cleared"
      BY <2>1, <3>1, OwnerLeaves DEF LifeInv
    <3>2. CASE passed = "locked"
      BY <2>1, <3>2, OwnerLocks DEF LifeInv
    <3> QED
      BY <3>1, <3>2
  <2> QED
    BY <1>2, <2>1, <2>2, <2>3, ActMove DEF rowVars
<1>3. CASE Return(h) /\ UNCHANGED <<ledgerVars, status, trail>>
  <2>1. pc'[h] = "idle" /\ \A k \in Handlers \ {h} : SamePlace(k)
    BY <1>1, <1>3 DEF Return, SamePlace, TypeOK
  <2>2. HandlerOK(h)' /\ OneOwner'
    BY <2>1, IdleOK, OwnerLeaves DEF LifeInv
  <2> QED
    BY <1>3, <2>1, <2>2, ActMove DEF rowVars
<1>4. ASSUME NEW s \in {"agent_disabled", "expired", "failed"}, RowFree(req[h]),
             SetStatus(req[h], s), SettleBudgets(req[h], "failed"), Return(h),
             trail' = trail \/ Audit(req[h], "tool.execution_blocked")
      PROVE  LifeInv'
  BY <1>1, <1>4, RefuseLife
<1> QED
  BY <1>2, <1>3, <1>4 DEF Recheck

\* The unlocked check of POST /execute: a refusal never touches a pending approval, and a
\* clear verdict is not about a tool that has become the API's own to call.
LEMMA CheckLoadedLife ==
  ASSUME LifeInv, TypeOK', NEW h \in Handlers, CheckLoaded(h)
  PROVE  LifeInv'
<1> DEFINE view == seen[h] \cup (facts[req[h]] \cap {"kill"})
<1>1. pc[h] = "loaded" /\ Recheck(h, view, "cleared")
  BY DEF CheckLoaded
<1>2. UNCHANGED <<approval, claim, starts, swept>>
  BY DEF CheckLoaded, workerVars
<1>3. req[h] \in Requests
  BY <1>1 DEF LifeInv, TypeOK
<1>4. Passed(req[h]) /\ ~Claimable(req[h], seen[h])
  BY <1>1 DEF LifeInv, HandlerOK
<1>5. Verdict(req[h], view) = "clear" => req[h] \notin SdkRequests
  BY <1>4 DEF Verdict, Claimable, Changed
<1> HIDE DEF view
<1> QED
  BY <1>1, <1>2, <1>4, <1>5, RecheckLife

\* The locked check of the by-id endpoints.
LEMMA LockAndCheckLife ==
  ASSUME LifeInv, TypeOK', NEW h \in Handlers, LockAndCheck(h)
  PROVE  LifeInv'
<1>0. PICK r \in Requests : r = req[h]
  BY DEF LockAndCheck, LifeInv, TypeOK
<1> DEFINE view == seen[h] \cup (facts[r] \ {"agent"})
<1>1. pc[h] = "arrived" /\ RowFree(r) /\ UNCHANGED <<claim, starts, swept>>
  BY <1>0 DEF LockAndCheck, workerVars
<1>2. TypeOK
  BY DEF LifeInv
<1>3. CASE PendingOverdue(r) /\ ExpireRows(r) /\ Audit(r, "approval.expired") /\ Return(h)
  <2>1. ~Passed(r) /\ OtherRows(r) /\ RowOK(r)'
    BY <1>1, <1>2, <1>3, ExpiryRows DEF PendingOverdue
  <2>2. SamePlaceOrDone
    BY <1>2, <1>3 DEF Return, SamePlaceOrDone, SamePlace, TypeOK
  <2> QED
    BY <1>1, <1>2, <2>1, <2>2, ActOnWaiting
<1>4. CASE Return(h) /\ UNCHANGED <<ledgerVars, status, approval, trail>>
  <2>1. pc'[h] = "idle" /\ \A k \in Handlers \ {h} : SamePlace(k)
    BY <1>2, <1>4 DEF Return, SamePlace, TypeOK
  <2>2. HandlerOK(h)' /\ OneOwner'
    BY <2>1, IdleOK, OwnerLeaves DEF LifeInv
  <2> QED
    BY <1>1, <1>4, <2>1, <2>2, ActMove DEF rowVars
<1>5. CASE status[r] \in Executable /\ Recheck(h, view, "locked") /\ UNCHANGED approval
  <2>1. Passed(r)
    BY <1>2, <1>5, ExecutablePassed
  <2> HIDE DEF view
  <2> QED
    BY <1>0, <1>1, <1>5, <2>1, RecheckLife
<1> QED
  BY <1>0, <1>3, <1>4, <1>5 DEF LockAndCheck

\* The compare-and-set lets one handler through per permit.
LEMMA BeginExecutionLife ==
  ASSUME LifeInv, TypeOK', NEW h \in Handlers, BeginExecution(h)
  PROVE  LifeInv'
<1>1. PICK r \in Requests : r = req[h]
  BY DEF BeginExecution, LifeInv, TypeOK
<1>2. /\ pc[h] \in {"cleared", "locked"} /\ (pc[h] = "cleared" => RowFree(r))
      /\ UNCHANGED <<ledgerVars, approval, swept>>
  BY <1>1 DEF BeginExecution, workerVars
<1>3. TypeOK
  BY DEF LifeInv
<1>4. CASE Return(h) /\ UNCHANGED <<status, claim, trail, starts>>
  <2>1. pc'[h] = "idle" /\ \A k \in Handlers \ {h} : SamePlace(k)
    BY <1>3, <1>4 DEF Return, SamePlace, TypeOK
  <2>2. HandlerOK(h)' /\ OneOwner'
    BY <2>1, IdleOK, OwnerLeaves DEF LifeInv
  <2> QED
    BY <1>2, <1>4, <2>1, <2>2, ActMove DEF rowVars
<1>5. CASE /\ status[r] \in Executable /\ SetStatus(r, "executing")
           /\ starts' = [starts EXCEPT ![r] = @ + 1]
           /\ IF r \in SdkRequests
              THEN /\ claim' = [claim EXCEPT ![r] = "live"]
                   /\ Audit(r, "tool.execution_claimed")
                   /\ Return(h)
              ELSE /\ GoTo(h, "calling")
                   /\ UNCHANGED <<claim, trail>>
  <2>1. Passed(r) /\ claim[r] = "none" /\ starts[r] = 0 /\ trail[r] \cap Outcomes = {}
    BY <1>5, ExecutablePassed
  <2>2. starts'[r] = 1 /\ \A q \in Requests \ {r} : starts'[q] = starts[q]
    BY <1>3, <1>5, <2>1 DEF TypeOK
  <2>3. \A q \in Requests \ {r} : approval'[q] = approval[q] /\ claim'[q] = claim[q]
    BY <1>2, <1>3, <1>5 DEF TypeOK
  <2>4. trail' = trail \/ Audit(r, "tool.execution_claimed")
    BY <1>5
  <2>5. OtherRows(r) /\ status'[r] = "executing"
    BY <1>2, <1>3, <1>5, <2>2, <2>3, <2>4, OthersAlone
  <2>6. trail'[r] \cap Outcomes = {}
    BY <1>3, <2>1, <2>4, PlainEvents, AuditPlain
  <2>7. IF r \in SdkRequests THEN claim'[r] = "live" ELSE claim'[r] = "none"
    BY <1>3, <1>5, <2>1 DEF TypeOK
  <2>8. Passed(r)' /\ StaysPassed(r)
    BY <1>2, <2>1, <2>5 DEF Passed, StaysPassed
  <2>9. RowOK(r)'
    <3>1. claim'[r] # "none" => r \in SdkRequests
      BY <2>7
    <3>2. OpenOrRefused(r)'
      BY <2>5 DEF OpenOrRefused
    <3> QED
      BY <2>2, <2>5, <2>6, <2>7, <2>8, <3>1, <3>2 DEF RowOK, Passed, Executable
  <2>10. \A k \in Handlers \ {h} : SamePlace(k)
    BY <1>3, <1>5 DEF Return, GoTo, SamePlace, TypeOK
  <2>11. ASSUME NEW k \in Handlers \ {h}, req[k] = r PROVE ~Locks(k) /\ pc[k] # "calling"
    <3>1. ~Locks(k)
      BY <1>1, <1>2, <2>11 DEF RowFree, LifeInv, OneOwner, Locks
    <3>2. pc[k] = "calling" => starts[r] > 0
      BY <2>11 DEF LifeInv, HandlerOK
    <3> QED
      BY <2>1, <3>1, <3>2
  <2>12. \A k \in Handlers \ {h} : req[k] = r => Rely(k)
    BY <2>8, <2>11 DEF Rely
  <2>13. HandlerOK(h)' /\ OneOwner'
    <3>1. CASE r \in SdkRequests
      <4>1. pc'[h] = "idle"
        BY <1>3, <1>5, <3>1 DEF Return, TypeOK
      <4> QED
        BY <2>10, <4>1, IdleOK, OwnerLeaves DEF LifeInv
    <3>2. CASE r \notin SdkRequests
      <4>1. pc'[h] = "calling" /\ req'[h] = r
        BY <1>1, <1>3, <1>5, <3>2 DEF GoTo, TypeOK
      <4>2. HandlerOK(h)'
        BY <2>2, <2>6, <2>8, <3>2, <4>1 DEF HandlerOK
      <4>3. OneOwner'
        BY <2>10, <2>11, <4>1 DEF LifeInv, OneOwner, SamePlace, Locks
      <4> QED
        BY <4>2, <4>3
    <3> QED
      BY <3>1, <3>2
  <2> QED
    BY <1>2, <2>5, <2>8, <2>9, <2>10, <2>12, <2>13, ActBy
<1> QED
  BY <1>1, <1>4, <1>5 DEF BeginExecution, RowMatches

\* _finalize records one outcome and clears the claim.
LEMMA FinalizeLife ==
  ASSUME LifeInv, TypeOK', NEW h \in Handlers, NEW outcome \in {"succeeded", "failed"},
         FinishRemote(h, outcome) \/ FinishReport(h, outcome)
  PROVE  LifeInv'
<1>1. PICK r \in Requests : r = req[h]
  BY DEF FinishRemote, FinishReport, LifeInv, TypeOK
<1>2. /\ Finalize(r, outcome) /\ Return(h) /\ UNCHANGED <<approval, starts, swept>>
      /\ \/ pc[h] = "calling" /\ RowFree(r)
         \/ pc[h] = "reporting"
  BY <1>1 DEF FinishRemote, FinishReport, workerVars
<1>3. TypeOK /\ RowOK(r) /\ HandlerOK(h)
  BY DEF LifeInv
<1>4. Passed(r) /\ starts[r] > 0 /\ (pc[h] = "reporting" => r \in SdkRequests)
  BY <1>1, <1>2, <1>3, ClaimedPassed DEF HandlerOK
<1>5. /\ claim'[r] = "none" /\ status'[r] \in {"succeeded", "failed"}
      /\ \A q \in Requests \ {r} : claim'[q] = claim[q]
  BY <1>2, <1>3 DEF Finalize, SetStatus, TypeOK
<1>6. OtherRows(r)
  <2>1. SetStatus(r, outcome) /\ Audit(r, ExecutionEvent(outcome))
    BY <1>2 DEF Finalize
  <2>2. \E o \in Outcome : SettleBudgets(r, o)
    BY <1>2 DEF Finalize, Known, Outcome
  <2> QED
    BY <1>2, <1>3, <1>5, <2>1, <2>2, OthersAlone
<1>7. RowOK(r)' /\ StaysPassed(r)
  BY <1>2, <1>4, <1>5 DEF RowOK, StaysPassed, Passed, Executable
<1>8. pc'[h] = "idle" /\ \A k \in Handlers \ {h} : SamePlace(k)
  BY <1>2, <1>3 DEF Return, SamePlace, TypeOK
<1>9. HandlerOK(h)' /\ OneOwner'
  BY <1>8, IdleOK, OwnerLeaves DEF LifeInv
<1>10. ASSUME NEW k \in Handlers \ {h}, req[k] = r PROVE Rely(k)
  <2>1. ~Locks(k)
    BY <1>1, <1>2, <1>10 DEF RowFree, LifeInv, OneOwner, Locks
  <2>2. pc[k] # "calling"
    BY <1>1, <1>2, <1>4, <1>10 DEF LifeInv, OneOwner, HandlerOK
  <2> QED
    BY <1>7, <1>10, <2>1, <2>2 DEF Rely
<1> QED
  BY <1>2, <1>6, <1>7, <1>8, <1>9, <1>10, ActBy

\* A call that arrives, or reads the request or its tool, changes no row.
LEMMA StartLife ==
  ASSUME LifeInv, TypeOK', NEW h \in Handlers,
         (\E r \in Requests : Arrive(h, r)) \/ ReadUnlocked(h) \/ LoadTool(h)
  PROVE  LifeInv'
<1>1. TypeOK
  BY DEF LifeInv
<1>2. UNCHANGED <<ledgerVars, rowVars, trail, starts>> /\ swept' = swept
  BY DEF ReadUnlocked, LoadTool, Arrive, workerVars
<1>3. /\ pc'[h] \in {"idle", "found", "loaded", "arrived"}
      /\ \A k \in Handlers \ {h} : SamePlace(k)
  BY <1>1 DEF ReadUnlocked, LoadTool, Arrive, GoTo, Return, SamePlace, TypeOK
<1>4. OneOwner'
  BY <1>3, OwnerLeaves DEF LifeInv
<1>5. HandlerOK(h)'
  <2>1. CASE pc'[h] \in {"idle", "arrived"}
    BY <2>1, IdleOK
  <2>2. CASE pc'[h] = "found"
    <3>1. ReadUnlocked(h) /\ req[h] \in Requests /\ status[req[h]] \in Executable /\ req'[h] = req[h]
      BY <1>1, <2>2 DEF ReadUnlocked, LoadTool, Arrive, GoTo, Return, TypeOK
    <3>2. Passed(req[h])
      BY <3>1, ExecutablePassed
    <3> QED
      BY <1>2, <2>2, <3>1, <3>2 DEF HandlerOK, Passed, rowVars
  <2>3. CASE pc'[h] = "loaded"
    <3>1. /\ LoadTool(h) /\ pc[h] = "found" /\ req[h] \in Requests /\ req'[h] = req[h]
          /\ ~Claimable(req[h], seen'[h])
      BY <1>1, <2>3 DEF ReadUnlocked, LoadTool, Arrive, GoTo, Return, TypeOK
    <3>2. Passed(req[h])
      BY <3>1 DEF LifeInv, HandlerOK
    <3> QED
      BY <1>2, <2>3, <3>1, <3>2 DEF HandlerOK, Passed, Claimable, rowVars
  <2> QED
    BY <1>3, <2>1, <2>2, <2>3
<1> QED
  BY <1>2, <1>3, <1>4, <1>5, ActMove

\* A dying process frees its rows and changes none.
LEMMA CrashLife ==
  ASSUME LifeInv, TypeOK', NEW h \in Handlers, Crash(h)
  PROVE  LifeInv'
<1>1. UNCHANGED <<ledgerVars, rowVars, trail, starts>> /\ swept' = swept
  BY DEF Crash, workerVars
<1>2. pc'[h] = "idle" /\ \A k \in Handlers \ {h} : SamePlace(k)
  BY DEF Crash, Return, SamePlace, LifeInv, TypeOK
<1>3. HandlerOK(h)' /\ OneOwner'
  BY <1>2, IdleOK, OwnerLeaves DEF LifeInv
<1> QED
  BY <1>1, <1>2, <1>3, ActMove

\* A result is taken under the row's lock, while its claim is live.
LEMMA ReportResultLife ==
  ASSUME LifeInv, TypeOK', NEW h \in Handlers, NEW r \in Requests, ReportResult(h, r)
  PROVE  LifeInv'
<1>1. TypeOK /\ RowOK(r)
  BY DEF LifeInv
<1>2. /\ pc[h] = "idle" /\ RowFree(r) /\ claim[r] # "none"
      /\ UNCHANGED <<approval, trail, starts, swept>>
  BY DEF ReportResult, workerVars
<1>0. status[r] = "executing"
  BY DEF ReportResult
<1>3. r \in SdkRequests /\ Passed(r) /\ starts[r] > 0
  BY <1>2, ClaimedPassed
<1>4. CASE /\ pc' = [pc EXCEPT ![h] = "reporting"]
           /\ req' = [req EXCEPT ![h] = r]
           /\ UNCHANGED <<ledgerVars, status, claim, seen, standing>>
  <2>1. /\ pc'[h] = "reporting" /\ req'[h] = r
        /\ \A k \in Handlers \ {h} : SamePlace(k)
    BY <1>1, <1>4 DEF SamePlace, TypeOK
  <2>2. HandlerOK(h)'
    BY <1>0, <1>2, <1>3, <1>4, <2>1 DEF HandlerOK, Passed
  <2>3. OneOwner'
    BY <1>2, <2>1, OwnerLocks DEF LifeInv
  <2> QED
    BY <1>2, <1>4, <2>1, <2>2, <2>3, ActMove DEF rowVars
<1>5. CASE /\ SetStatus(r, "failed")
           /\ claim' = [claim EXCEPT ![r] = "none"]
           /\ SettleBudgets(r, "unknown")
           /\ UNCHANGED handlerVars
  <2>1. claim'[r] = "none" /\ \A q \in Requests \ {r} : claim'[q] = claim[q]
    BY <1>1, <1>5 DEF TypeOK
  <2>2. OtherRows(r) /\ status'[r] = "failed"
    BY <1>1, <1>2, <1>5, <2>1, OthersAlone DEF Outcome
  <2>3. RowOK(r)' /\ StaysPassed(r)
    BY <1>1, <1>2, <1>3, <2>1, <2>2 DEF RowOK, StaysPassed, Passed, Executable
  <2>4. \A k \in Handlers : SamePlace(k)
    BY <1>5 DEF handlerVars, SamePlace
  <2>5. HandlerOK(h)' /\ OneOwner'
    BY <1>2, <2>4, IdleOK, OwnersStay DEF LifeInv, SamePlace, SamePlaceOrDone
  <2>6. \A k \in Handlers \ {h} : req[k] = r => Rely(k)
    BY <1>2, <2>3 DEF Rely, RowFree, Locks
  <2> QED
    BY <1>2, <2>2, <2>3, <2>4, <2>5, <2>6, ActBy
<1> QED
  BY <1>4, <1>5 DEF ReportResult

\* No row, and no place of a handler.
LEMMA AsideLife ==
  ASSUME LifeInv, TypeOK', UNCHANGED <<ledgerVars, rowVars, pc, req, seen, trail, starts>>,
         \A q \in swept' : q \in SdkRequests /\ Passed(q) /\ starts[q] > 0
  PROVE  LifeInv'
<1>1. \A q \in Requests : SameRow(q)
  BY DEF SameRow, rowVars, ledgerVars, HasReservation, Open
<1>2. \A q \in Requests : RowOK(q)' /\ StaysPassed(q)
  BY <1>1, SameRowOK DEF LifeInv, SameRow, StaysPassed, Passed
<1>3. \A k \in Handlers : SamePlace(k) /\ (pc[k] # "idle" => Rely(k))
  BY <1>1, SameRowRely DEF SamePlace, LifeInv, TypeOK
<1>4. SweptPassed'
  BY DEF SweptPassed, Passed, rowVars
<1> QED
  BY <1>2, <1>3, <1>4, ActAside

\* The deadline of a claim ends no claim by itself.
LEMMA ClaimDeadlineLife ==
  ASSUME LifeInv, TypeOK', NEW r \in Requests, ClaimDeadline(r)
  PROVE  LifeInv'
<1>1. TypeOK /\ claim[r] = "live"
  BY DEF LifeInv, ClaimDeadline
<1>2. UNCHANGED <<ledgerVars, status, approval, handlerVars, trail, starts, swept>>
  BY DEF ClaimDeadline, workerVars
<1>3. claim'[r] = "lapsed" /\ \A q \in Requests \ {r} : claim'[q] = claim[q]
  BY <1>1 DEF ClaimDeadline, TypeOK
<1>4. \A q \in Requests : RowOK(q)' /\ StaysPassed(q)
  <2>1. \A q \in Requests \ {r} : SameRow(q)
    BY <1>2, <1>3 DEF SameRow, ledgerVars, HasReservation, Open
  <2>2. \A q \in Requests : StaysPassed(q)
    BY <1>2 DEF StaysPassed, Passed
  <2>3. RowOK(r)'
    BY <1>1, <1>2, <1>3 DEF LifeInv, RowOK, Passed, OpenOrRefused, Open, ledgerVars, HasReservation
  <2> QED
    BY <2>1, <2>2, <2>3, SameRowOK DEF LifeInv
<1>5. \A k \in Handlers : SamePlace(k) /\ (pc[k] # "idle" => Rely(k))
  BY <1>1, <1>2, <1>3, <1>4 DEF SamePlace, Rely, handlerVars, LifeInv, TypeOK
<1>6. SweptPassed'
  BY <1>2 DEF LifeInv, SweptPassed, Passed
<1> QED
  BY <1>4, <1>5, <1>6, ActAside

\* The sweep ends the claims it selected, whatever their rows say by now.
LEMMA SweepWriteLife ==
  ASSUME LifeInv, TypeOK', SweepWrite
  PROVE  LifeInv'
<1>1. TypeOK
  BY DEF LifeInv
<1>2. UNCHANGED <<ledgerVars, approval, handlerVars, starts>> /\ swept' = {}
  BY DEF SweepWrite
<1>3. ASSUME NEW q \in Requests \ swept PROVE SameRow(q)
  BY <1>2 DEF SweepWrite, SameRow, ledgerVars, HasReservation, Open
<1>4. ASSUME NEW q \in swept
      PROVE  /\ q \in Requests /\ Passed(q) /\ q \in SdkRequests /\ RowFree(q)
             /\ status'[q] = "failed" /\ claim'[q] = "none"
             /\ trail'[q] \cap Outcomes = trail[q] \cap Outcomes
  <2>1. q \in Requests /\ Passed(q) /\ q \in SdkRequests /\ RowFree(q)
    BY <1>1 DEF TypeOK, LifeInv, SweptPassed, SweepWrite
  <2>2. trail'[q] = trail[q] \cup {"tool.execution_claim_expired"}
    BY <2>1 DEF SweepWrite
  <2> QED
    BY <2>1, <2>2, PlainEvents DEF SweepWrite
<1>5. \A q \in Requests : RowOK(q)' /\ StaysPassed(q)
  <2>1. ASSUME NEW q \in swept PROVE RowOK(q)' /\ StaysPassed(q)
    BY <1>2, <1>4, <2>1 DEF LifeInv, RowOK, StaysPassed, Passed, Executable
  <2>2. ASSUME NEW q \in Requests \ swept PROVE RowOK(q)' /\ StaysPassed(q)
    BY <1>3, SameRowOK DEF LifeInv, SameRow, StaysPassed, Passed
  <2> QED
    BY <2>1, <2>2
<1>6. ASSUME NEW k \in Handlers PROVE SamePlace(k) /\ (pc[k] # "idle" => Rely(k))
  <2>1. SamePlace(k)
    BY <1>2 DEF handlerVars, SamePlace
  <2>2. CASE pc[k] # "idle" /\ req[k] \in swept
    <3>1. ~Locks(k) /\ StaysPassed(req[k])
      BY <1>4, <1>5, <2>2 DEF RowFree, Locks
    <3>2. pc[k] # "calling"
      BY <1>4, <2>2 DEF LifeInv, HandlerOK
    <3> QED
      BY <2>1, <3>1, <3>2 DEF Rely
  <2>3. CASE pc[k] # "idle" /\ req[k] \notin swept
    BY <1>1, <1>3, <2>1, <2>3, SameRowRely DEF TypeOK
  <2> QED
    BY <2>1, <2>2, <2>3
<1>7. SweptPassed'
  BY <1>2 DEF SweptPassed
<1> QED
  BY <1>5, <1>6, <1>7, ActAside

-----------------------------------------------------------------------------
\* No rows and no handlers satisfy the invariant.
LEMMA InitLife == Init => LifeInv
<1> SUFFICES ASSUME Init PROVE LifeInv
  OBVIOUS
<1>1. \A r \in Requests : ~HasReservation(r)
  BY DEF Init, LedgerInit, HasReservation
<1>2. \A r \in Requests : RowOK(r)
  BY <1>1 DEF Init, RowOK, Passed, Executable
<1>3. \A h \in Handlers : HandlerOK(h)
  BY DEF Init, HandlerOK
<1>4. OneOwner /\ SweptPassed
  BY DEF Init, OneOwner, Locks, SweptPassed
<1> QED
  BY <1>2, <1>3, <1>4, InitTypeOK DEF LifeInv

\* One step per action.
LEMMA StepLife == LifeInv /\ [Next]_vars => LifeInv'
<1> SUFFICES ASSUME LifeInv, [Next]_vars PROVE LifeInv'
  OBVIOUS
<1>0. TypeOK /\ TypeOK' /\ SweptPassed
  BY NextType DEF LifeInv
<1>1. ASSUME NEW r \in Requests, NEW decision \in {"allow", "require_approval", "deny"},
             Authorize(r, decision)
      PROVE LifeInv'
  BY <1>0, <1>1, AuthorizeLife
<1>2. ASSUME NEW r \in Requests, NEW decision \in {"approve", "reject"}, Decide(r, decision)
      PROVE LifeInv'
  BY <1>0, <1>2, DecideLife
<1>3. ASSUME NEW r \in Requests, ExpireApproval(r) \/ Poll(r) PROVE LifeInv'
  BY <1>0, <1>3, ExpireLife
<1>4. ASSUME NEW r \in Requests, SetControls(r) \/ RequestDeadline(r) \/ ApprovalDeadline(r)
      PROVE LifeInv'
  <2>1. UNCHANGED <<ledgerVars, rowVars, pc, req, seen, trail, starts, swept>>
    BY <1>4 DEF SetControls, RequestDeadline, ApprovalDeadline, handlerVars, workerVars
  <2> QED
    BY <1>0, <2>1, AsideLife DEF SweptPassed
<1>5. ASSUME NEW r \in Requests, ClaimDeadline(r) PROVE LifeInv'
  BY <1>0, <1>5, ClaimDeadlineLife
<1>6. ASSUME NEW h \in Handlers,
             (\E r \in Requests : Arrive(h, r)) \/ ReadUnlocked(h) \/ LoadTool(h)
      PROVE LifeInv'
  BY <1>0, <1>6, StartLife
<1>7. ASSUME NEW h \in Handlers, NEW r \in Requests, ReportResult(h, r) PROVE LifeInv'
  BY <1>0, <1>7, ReportResultLife
<1>8. ASSUME NEW h \in Handlers, CheckLoaded(h) PROVE LifeInv'
  BY <1>0, <1>8, CheckLoadedLife
<1>9. ASSUME NEW h \in Handlers, LockAndCheck(h) PROVE LifeInv'
  BY <1>0, <1>9, LockAndCheckLife
<1>10. ASSUME NEW h \in Handlers, BeginExecution(h) PROVE LifeInv'
  BY <1>0, <1>10, BeginExecutionLife
<1>11. ASSUME NEW h \in Handlers, NEW outcome \in {"succeeded", "failed"},
              FinishRemote(h, outcome) \/ FinishReport(h, outcome)
       PROVE LifeInv'
  BY <1>0, <1>11, FinalizeLife
<1>12. ASSUME NEW h \in Handlers, Crash(h) PROVE LifeInv'
  BY <1>0, <1>12, CrashLife
<1>13. CASE QueryApprovals \/ WorkerCrash \/ UNCHANGED vars
  <2>1. UNCHANGED <<ledgerVars, rowVars, pc, req, seen, trail, starts>> /\ swept' \subseteq swept
    BY <1>13 DEF QueryApprovals, WorkerCrash, vars, lifecycleVars, rowVars, handlerVars
  <2> QED
    BY <1>0, <2>1, AsideLife DEF SweptPassed
<1>14. CASE SweepRead
  <2>1. UNCHANGED <<ledgerVars, rowVars, pc, req, seen, trail, starts>>
    BY <1>14 DEF SweepRead, handlerVars
  <2>2. \A q \in swept' : q \in Requests /\ claim[q] # "none"
    BY <1>14 DEF SweepRead, Lapsed
  <2>3. \A q \in swept' : q \in SdkRequests /\ Passed(q) /\ starts[q] > 0
    BY <2>2, ClaimedPassed
  <2> QED
    BY <1>0, <2>1, <2>3, AsideLife
<1>15. CASE SweepWrite
  BY <1>0, <1>15, SweepWriteLife
<1> QED
  BY <1>1, <1>2, <1>3, <1>4, <1>5, <1>6, <1>7, <1>8, <1>9, <1>10, <1>11, <1>12, <1>13,
     <1>14, <1>15 DEF Next

\* The invariant of the runtime plane.
LEMMA LifeInvariant == Spec => []LifeInv
<1>1. Init => LifeInv
  BY InitLife
<1>2. LifeInv /\ [Next]_vars => LifeInv'
  BY StepLife
<1> QED
  BY <1>1, <1>2, PTL DEF Spec

\* The request and its approval row never disagree, and nothing runs that was
\* refused or still waits.
THEOREM ApprovalsAgree == Spec => []ApprovalAgreement
<1>1. LifeInv => ApprovalAgreement
  BY DEF LifeInv, RowOK, Passed, ApprovalAgreement
<1> QED
  BY <1>1, LifeInvariant, PTL

\* An open SDK execution has its claim, and a claim has its open execution, or was left
\* over by the stale refusal of a POST /execute that also gave the budget back.
THEOREM ClaimsAgree == Spec => []ClaimAgreement
<1>1. LifeInv => ClaimAgreement
  BY DEF LifeInv, RowOK, OpenOrRefused, ClaimAgreement
<1> QED
  BY <1>1, LifeInvariant, PTL

-----------------------------------------------------------------------------
(* The request's life settles budgets through the ledger only.               *)

\* Every handler touches the ledger by one of its two operations, or not at all.
LEMMA LedgerStep == LifeInv /\ [Next]_vars => [LedgerNext]_ledgerVars
<1> SUFFICES ASSUME LifeInv, [Next]_vars PROVE LedgerNext \/ UNCHANGED ledgerVars
  OBVIOUS
<1> DEFINE Settles(r) == \E outcome \in Outcome : SettleBudgets(r, outcome)
<1>1. ASSUME NEW r \in Requests, NEW decision \in {"allow", "require_approval", "deny"},
             Authorize(r, decision)
      PROVE Reserve(r) \/ UNCHANGED ledgerVars
  <2>1. ~HasReservation(r)
    BY <1>1 DEF Authorize, LifeInv, RowOK
  <2> QED
    BY <1>1, <2>1 DEF Authorize, Refused, Reserve
<1>2. ASSUME NEW r \in Requests, NEW decision \in {"approve", "reject"}, Decide(r, decision)
      PROVE Settles(r) \/ UNCHANGED ledgerVars
  BY <1>2 DEF Decide, ExpireRows, Outcome
<1>3. ASSUME NEW r \in Requests, ExpireApproval(r) \/ Poll(r)
      PROVE Settles(r) \/ UNCHANGED ledgerVars
  BY <1>3 DEF ExpireApproval, Poll, ExpireRows, Outcome
<1>4. ASSUME NEW r \in Requests,
             SetControls(r) \/ RequestDeadline(r) \/ ApprovalDeadline(r) \/ ClaimDeadline(r)
      PROVE UNCHANGED ledgerVars
  BY <1>4 DEF SetControls, RequestDeadline, ApprovalDeadline, ClaimDeadline
<1>5. ASSUME NEW h \in Handlers, NEW r \in Requests,
             Arrive(h, r) \/ ReportResult(h, r)
      PROVE Settles(r) \/ UNCHANGED ledgerVars
  BY <1>5 DEF Arrive, ReportResult, Outcome
<1>6. ASSUME NEW h \in Handlers,
             \/ CheckLoaded(h)
             \/ LockAndCheck(h)
             \/ \E outcome \in {"succeeded", "failed"} :
                  FinishRemote(h, outcome) \/ FinishReport(h, outcome)
      PROVE req[h] \in Requests /\ (Settles(req[h]) \/ UNCHANGED ledgerVars)
  <2>1. req[h] \in Requests
    BY <1>6 DEF CheckLoaded, LockAndCheck, FinishRemote, FinishReport, LifeInv, TypeOK
  <2>2. CASE CheckLoaded(h) \/ LockAndCheck(h)
    BY <2>1, <2>2 DEF CheckLoaded, LockAndCheck, Recheck, ExpireRows, Outcome
  <2>3. ASSUME NEW outcome \in {"succeeded", "failed"},
               FinishRemote(h, outcome) \/ FinishReport(h, outcome)
        PROVE Settles(req[h])
    BY <2>3 DEF FinishRemote, FinishReport, Finalize, Known, Outcome
  <2> QED
    BY <1>6, <2>1, <2>2, <2>3
<1>7. ASSUME NEW h \in Handlers, ReadUnlocked(h) \/ LoadTool(h) \/ BeginExecution(h) \/ Crash(h)
      PROVE UNCHANGED ledgerVars
  BY <1>7 DEF ReadUnlocked, LoadTool, BeginExecution, Crash
<1>8. CASE QueryApprovals \/ SweepRead \/ SweepWrite \/ WorkerCrash \/ UNCHANGED vars
  BY <1>8 DEF QueryApprovals, SweepRead, SweepWrite, WorkerCrash, vars
<1> QED
  BY <1>1, <1>2, <1>3, <1>4, <1>5, <1>6, <1>7, <1>8 DEF Next, LedgerNext

\* The handlers and the worker implement the ledger: no step reserves twice for a
\* request or changes a budget in any way the ledger does not have.
THEOREM LedgerImplemented == Spec => ImplementsLedger
<1>1. Init => LedgerInit
  BY DEF Init
<1>2. LifeInv /\ [Next]_vars => [LedgerNext]_ledgerVars
  BY LedgerStep
<1> QED
  BY <1>1, <1>2, LifeInvariant, PTL DEF Spec, LedgerSpec, ImplementsLedger

\* So what is proved of the ledger holds of every life of every request: the budgets
\* are never exceeded, and their counters are what the reservations add up to.
THEOREM BudgetsHoldInLife == Spec => [](Ceiling /\ Conservation /\ AllOrNothing)
BY LedgerImplemented, BudgetsHold, CountersAddUp, ReservationsTogether, PTL DEF ImplementsLedger

-----------------------------------------------------------------------------
(* The request's life keeps the promise of Permit.                           *)

\* What the phase of q depends on.
SamePhase(q) ==
  /\ starts'[q] = starts[q]
  /\ trail'[q] \cap Outcomes = trail[q] \cap Outcomes
  /\ status'[q] = status[q] \/ starts[q] > 0

\* The permit's phase depends on status, starts and outcomes only.
LEMMA PhaseStays ==
  ASSUME NEW q \in Requests, SamePhase(q)
  PROVE  PermitPhase'[q] = PermitPhase[q]
BY DEF SamePhase, PermitPhase

\* Steps that keep every phase are stutters of the permit.
LEMMA PhasesStay ==
  ASSUME TypeOK, TypeOK', \A q \in Requests : SamePhase(q)
  PROVE  UNCHANGED Permits!permitVars
<1>1. PermitPhase' = PermitPhase
  <2>1. /\ PermitPhase = [q \in Requests |-> PermitPhase[q]]
        /\ PermitPhase' = [q \in Requests |-> PermitPhase'[q]]
    BY DEF PermitPhase
  <2> QED
    BY <2>1, PhaseStays
<1>2. starts' = starts
  BY DEF TypeOK, SamePhase
<1> QED
  BY <1>1, <1>2 DEF Permits!permitVars

\* One request moves to another phase.
LEMMA PhaseMoves ==
  ASSUME NEW r \in Requests, \A q \in Requests \ {r} : SamePhase(q),
         NEW from, NEW to, PermitPhase[r] = from, PermitPhase'[r] = to
  PROVE  Permits!Move(r, from, to)
<1>1. PermitPhase' = [PermitPhase EXCEPT ![r] = to]
  <2>1. /\ PermitPhase = [q \in Requests |-> PermitPhase[q]]
        /\ PermitPhase' = [q \in Requests |-> PermitPhase'[q]]
    BY DEF PermitPhase
  <2>2. \A q \in Requests \ {r} : PermitPhase'[q] = PermitPhase[q]
    BY PhaseStays
  <2> QED
    BY <2>1, <2>2
<1> QED
  BY <1>1 DEF Permits!Move

\* The phases before the start, and those after it.
LEMMA PhaseIs ==
  ASSUME LifeInv, NEW r \in Requests
  PROVE  /\ status[r] = "absent" => PermitPhase[r] = "new" /\ starts[r] = 0
         /\ status[r] = "pending_approval" => PermitPhase[r] = "waiting" /\ starts[r] = 0
         /\ status[r] \in Executable => PermitPhase[r] = "permitted" /\ starts[r] = 0
<1>1. TypeOK /\ RowOK(r)
  BY DEF LifeInv
<1>2. starts[r] \in Nat
  BY <1>1 DEF TypeOK
<1>3. starts[r] > 0 => status[r] \notin Executable \cup {"absent", "pending_approval"}
  BY <1>1, <1>2 DEF RowOK, Passed
<1> QED
  BY <1>2, <1>3 DEF PermitPhase, Executable

\* The phase of a request that has not been started.
LEMMA PhaseUnstarted ==
  ASSUME NEW r \in Requests, starts'[r] = 0
  PROVE  /\ status'[r] = "pending_approval" => PermitPhase'[r] = "waiting"
         /\ status'[r] \in Executable => PermitPhase'[r] = "permitted"
         /\ status'[r] \notin Executable \cup {"absent", "pending_approval"} =>
              PermitPhase'[r] = "refused"
BY DEF PermitPhase, Executable

\* Only the rows of r change, and no execution starts or ends.
OnlyRow(r) ==
  /\ \A q \in Requests \ {r} : SamePhase(q)
  /\ starts' = starts
  /\ trail'[r] \cap Outcomes = trail[r] \cap Outcomes

\* A step that writes one status and no outcome concerns one permit.
LEMMA PlainRow ==
  ASSUME TypeOK, NEW r \in Requests, NEW s, SetStatus(r, s), starts' = starts,
         NEW event, event \notin Outcomes, trail' = trail \/ Audit(r, event)
  PROVE  OnlyRow(r) /\ status'[r] = s
<1>1. \A q \in Requests : trail'[q] \cap Outcomes = trail[q] \cap Outcomes
  BY AuditPlain
<1>2. status'[r] = s /\ \A q \in Requests \ {r} : status'[q] = status[q]
  BY DEF TypeOK, SetStatus
<1> QED
  BY <1>1, <1>2 DEF OnlyRow, SamePhase

\* The approval of r ends, one way or another.
LEMMA PermitResolves ==
  ASSUME LifeInv, NEW r \in Requests, status[r] = "pending_approval", OnlyRow(r),
         status'[r] \in {"approved", "rejected", "expired"}
  PROVE  Permits!PermitNext
<1>1. PermitPhase[r] = "waiting" /\ starts'[r] = 0
  BY PhaseIs DEF OnlyRow
<1>2. PermitPhase'[r] \in {"permitted", "refused"}
  BY <1>1, PhaseUnstarted DEF Executable
<1>3. \E to \in {"permitted", "refused"} : Permits!Move(r, "waiting", to)
  BY <1>1, <1>2, PhaseMoves DEF OnlyRow
<1> QED
  BY <1>3 DEF Permits!Resolve, Permits!PermitNext, OnlyRow

\* A refusal by a check, however stale what it had read of the request.
LEMMA PermitRefuses ==
  ASSUME LifeInv, TypeOK', NEW r \in Requests, Passed(r), OnlyRow(r),
         status'[r] \in {"agent_disabled", "expired", "failed"}
  PROVE  Permits!PermitNext \/ UNCHANGED Permits!permitVars
<1>1. TypeOK /\ starts[r] \in Nat
  BY DEF LifeInv, TypeOK
<1>2. CASE starts[r] > 0
  <2>1. \A q \in Requests : SamePhase(q)
    BY <1>2 DEF OnlyRow, SamePhase
  <2> QED
    BY <1>1, <2>1, PhasesStay
<1>3. CASE starts[r] = 0
  <2>1. PermitPhase'[r] = "refused"
    BY <1>3, PhaseUnstarted DEF OnlyRow, Executable
  <2>2. CASE status[r] \in Executable
    <3>1. Permits!Move(r, "permitted", "refused")
      BY <2>1, <2>2, PhaseIs, PhaseMoves DEF OnlyRow
    <3> QED
      BY <3>1 DEF Permits!Withdraw, Permits!PermitNext, OnlyRow
  <2>3. CASE status[r] \notin Executable
    <3>1. PermitPhase[r] = "refused"
      BY <1>3, <2>3 DEF PermitPhase, Passed, Executable
    <3>2. \A q \in Requests : PermitPhase'[q] = PermitPhase[q]
      BY <2>1, <3>1, PhaseStays DEF OnlyRow
    <3>3. PermitPhase' = PermitPhase
      <4>1. /\ PermitPhase = [q \in Requests |-> PermitPhase[q]]
            /\ PermitPhase' = [q \in Requests |-> PermitPhase'[q]]
        BY DEF PermitPhase
      <4> QED
        BY <3>2, <4>1
    <3> QED
      BY <3>3 DEF Permits!permitVars, OnlyRow
  <2> QED
    BY <2>2, <2>3
<1> QED
  BY <1>1, <1>2, <1>3

\* authorize is the permit's submission.
LEMMA PermitSubmits ==
  ASSUME LifeInv, NEW r \in Requests, NEW decision \in {"allow", "require_approval", "deny"},
         Authorize(r, decision)
  PROVE  Permits!PermitNext
<1>1. TypeOK /\ status[r] = "absent" /\ starts' = starts
  BY DEF LifeInv, Authorize
<1>2. PermitPhase[r] = "new" /\ starts'[r] = 0
  BY <1>1, PhaseIs
<1>3. PICK s \in {"denied", "budget_exceeded", "authorized", "pending_approval"} : SetStatus(r, s)
  BY DEF Authorize
<1>4. OnlyRow(r) /\ status'[r] = s
  BY <1>1, <1>3, PlainEvents, PlainRow DEF Authorize
<1>5. PermitPhase'[r] \in {"waiting", "permitted", "refused"}
  BY <1>2, <1>4, PhaseUnstarted DEF Executable
<1>6. \E to \in {"waiting", "permitted", "refused"} : Permits!Move(r, "new", to)
  BY <1>2, <1>4, <1>5, PhaseMoves DEF OnlyRow
<1> QED
  BY <1>1, <1>6 DEF Permits!Submit, Permits!PermitNext

\* The compare-and-set is the permit's start.
LEMMA PermitStarts ==
  ASSUME LifeInv, TypeOK', NEW h \in Handlers, BeginExecution(h)
  PROVE  Permits!PermitNext \/ UNCHANGED Permits!permitVars
<1>1. PICK r \in Requests : r = req[h]
  BY DEF BeginExecution, LifeInv, TypeOK
<1>2. TypeOK
  BY DEF LifeInv
<1>3. CASE UNCHANGED <<status, trail, starts>>
  BY <1>2, <1>3, PhasesStay DEF SamePhase
<1>4. CASE /\ status[r] \in Executable /\ SetStatus(r, "executing")
           /\ starts' = [starts EXCEPT ![r] = @ + 1]
           /\ trail' = trail \/ Audit(r, "tool.execution_claimed")
  <2>1. PermitPhase[r] = "permitted" /\ starts[r] = 0 /\ trail[r] \cap Outcomes = {}
    BY <1>4, PhaseIs, ExecutablePassed
  <2>2. starts'[r] = 1 /\ \A q \in Requests \ {r} : starts'[q] = starts[q]
    BY <1>2, <1>4, <2>1 DEF TypeOK
  <2>3. \A q \in Requests : trail'[q] \cap Outcomes = trail[q] \cap Outcomes
    BY <1>2, <1>4, PlainEvents, AuditPlain
  <2>4. \A q \in Requests \ {r} : status'[q] = status[q]
    BY <1>2, <1>4 DEF SetStatus, TypeOK
  <2>5. PermitPhase'[r] = "started"
    BY <2>1, <2>2, <2>3 DEF PermitPhase
  <2>6. Permits!Move(r, "permitted", "started")
    BY <2>1, <2>2, <2>3, <2>4, <2>5, PhaseMoves DEF SamePhase
  <2> QED
    BY <1>4, <2>6 DEF Permits!Start, Permits!PermitNext
<1> QED
  BY <1>1, <1>3, <1>4 DEF BeginExecution, RowMatches

\* _finalize is the permit's close.
LEMMA PermitCloses ==
  ASSUME LifeInv, NEW h \in Handlers, NEW outcome \in {"succeeded", "failed"},
         FinishRemote(h, outcome) \/ FinishReport(h, outcome)
  PROVE  Permits!PermitNext
<1>1. PICK r \in Requests : r = req[h]
  BY DEF FinishRemote, FinishReport, LifeInv, TypeOK
<1>2. /\ SetStatus(r, outcome) /\ Audit(r, ExecutionEvent(outcome)) /\ starts' = starts
      /\ pc[h] \in {"calling", "reporting"}
  BY <1>1 DEF FinishRemote, FinishReport, Finalize
<1>3. TypeOK
  BY DEF LifeInv
<1>4. starts[r] > 0 /\ trail[r] \cap Outcomes = {}
  BY <1>1, <1>2, ClaimedPassed DEF LifeInv, HandlerOK
<1>5. trail'[r] = trail[r] \cup {ExecutionEvent(outcome)}
  BY <1>2, <1>3 DEF Audit, TypeOK
<1>6. trail'[r] \cap Outcomes = {ExecutionEvent(outcome)}
  BY <1>4, <1>5 DEF ExecutionEvent, Outcomes
<1>7. PermitPhase[r] = "started" /\ PermitPhase'[r] = outcome
  BY <1>2, <1>4, <1>6 DEF PermitPhase, ExecutionEvent
<1>8. \A q \in Requests \ {r} : SamePhase(q)
  BY <1>2, <1>3 DEF SamePhase, SetStatus, Audit, TypeOK
<1>9. \E to \in Permits!Ended : Permits!Move(r, "started", to)
  BY <1>7, <1>8, PhaseMoves DEF Permits!Ended
<1> QED
  BY <1>2, <1>9 DEF Permits!Close, Permits!PermitNext

\* A failed check is a refusal, or a stutter of a permit already used.
LEMMA PermitRechecks ==
  ASSUME LifeInv, TypeOK', NEW h \in Handlers, CheckLoaded(h) \/ LockAndCheck(h)
  PROVE  Permits!PermitNext \/ UNCHANGED Permits!permitVars
<1>1. PICK r \in Requests : r = req[h]
  BY DEF CheckLoaded, LockAndCheck, LifeInv, TypeOK
<1>2. TypeOK /\ starts' = starts
  BY DEF CheckLoaded, LockAndCheck, LifeInv
<1>3. CASE UNCHANGED <<status, trail>>
  BY <1>2, <1>3, PhasesStay DEF SamePhase
<1>4. CASE /\ status[r] = "pending_approval" /\ SetStatus(r, "expired")
           /\ Audit(r, "approval.expired")
  BY <1>2, <1>4, PlainEvents, PlainRow, PermitResolves
<1>5. ASSUME NEW s \in {"agent_disabled", "expired", "failed"}, SetStatus(r, s),
             trail' = trail \/ Audit(r, "tool.execution_blocked"), Passed(r)
      PROVE  Permits!PermitNext \/ UNCHANGED Permits!permitVars
  BY <1>2, <1>5, PlainEvents, PlainRow, PermitRefuses
<1>6. CASE CheckLoaded(h)
  <2>1. Passed(r)
    BY <1>1, <1>6 DEF CheckLoaded, LifeInv, HandlerOK
  <2> QED
    BY <1>1, <1>3, <1>5, <1>6, <2>1 DEF CheckLoaded, Recheck
<1>7. CASE LockAndCheck(h)
  <2>1. status[r] \in Executable => Passed(r)
    BY ExecutablePassed
  <2> QED
    BY <1>1, <1>3, <1>4, <1>5, <1>7, <2>1
    DEF LockAndCheck, Recheck, PendingOverdue, ExpireRows
<1> QED
  BY <1>6, <1>7

\* Every step of the runtime plane is a step of the permit or a stutter.
LEMMA PermitStep ==
  LifeInv /\ TypeOK' /\ [Next]_vars => [Permits!PermitNext]_(Permits!permitVars)
<1> SUFFICES ASSUME LifeInv, TypeOK', [Next]_vars
             PROVE  Permits!PermitNext \/ UNCHANGED Permits!permitVars
  OBVIOUS
<1>0. TypeOK
  BY DEF LifeInv
<1>1. ASSUME NEW r \in Requests, NEW decision \in {"allow", "require_approval", "deny"},
             Authorize(r, decision)
      PROVE  Permits!PermitNext
  BY <1>1, PermitSubmits
<1>2. ASSUME NEW r \in Requests, NEW decision \in {"approve", "reject"}, Decide(r, decision)
      PROVE  Permits!PermitNext
  <2>1. PICK s \in {"approved", "rejected", "expired"} : SetStatus(r, s)
    BY <1>2 DEF Decide, ExpireRows
  <2>2. OnlyRow(r) /\ status'[r] = s
    BY <1>0, <1>2, <2>1, PlainEvents, PlainRow DEF Decide
  <2> QED
    BY <1>2, <2>2, PermitResolves DEF Decide
<1>3. ASSUME NEW r \in Requests, ExpireApproval(r) \/ Poll(r)
      PROVE  Permits!PermitNext \/ UNCHANGED Permits!permitVars
  <2>1. starts' = starts
    BY <1>3 DEF ExpireApproval, Poll
  <2>2. CASE UNCHANGED <<status, trail>>
    BY <1>0, <2>1, <2>2, PhasesStay DEF SamePhase
  <2>3. CASE /\ status[r] = "pending_approval" /\ SetStatus(r, "expired")
             /\ Audit(r, "approval.expired")
    BY <1>0, <2>1, <2>3, PlainEvents, PlainRow, PermitResolves
  <2> QED
    BY <1>3, <2>2, <2>3 DEF ExpireApproval, Poll, ExpireRows, StillPending, PendingOverdue
<1>4. ASSUME NEW h \in Handlers, CheckLoaded(h) \/ LockAndCheck(h)
      PROVE  Permits!PermitNext \/ UNCHANGED Permits!permitVars
  BY <1>4, PermitRechecks
<1>5. ASSUME NEW h \in Handlers, BeginExecution(h)
      PROVE  Permits!PermitNext \/ UNCHANGED Permits!permitVars
  BY <1>5, PermitStarts
<1>6. ASSUME NEW h \in Handlers, NEW outcome \in {"succeeded", "failed"},
             FinishRemote(h, outcome) \/ FinishReport(h, outcome)
      PROVE  Permits!PermitNext
  BY <1>6, PermitCloses
<1>7. ASSUME NEW h \in Handlers, NEW r \in Requests, ReportResult(h, r)
      PROVE  UNCHANGED Permits!permitVars
  <2>1. starts[r] > 0 /\ UNCHANGED <<trail, starts>>
    BY <1>7, ClaimedPassed DEF ReportResult
  <2>2. \A q \in Requests \ {r} : status'[q] = status[q]
    BY <1>0, <1>7 DEF ReportResult, SetStatus, TypeOK
  <2> QED
    BY <1>0, <2>1, <2>2, PhasesStay DEF SamePhase
<1>8. CASE SweepWrite
  <2>1. starts' = starts /\ \A q \in Requests \ swept : status'[q] = status[q]
    BY <1>8 DEF SweepWrite
  <2>2. ASSUME NEW q \in Requests PROVE trail'[q] \cap Outcomes = trail[q] \cap Outcomes
    <3>1. trail'[q] = trail[q] \/ trail'[q] = trail[q] \cup {"tool.execution_claim_expired"}
      BY <1>8 DEF SweepWrite
    <3> QED
      BY <3>1, PlainEvents
  <2>3. \A q \in swept : starts[q] > 0
    BY DEF LifeInv, SweptPassed
  <2> QED
    BY <1>0, <2>1, <2>2, <2>3, PhasesStay DEF SamePhase
<1>9. ASSUME UNCHANGED <<status, trail, starts>> PROVE UNCHANGED Permits!permitVars
  BY <1>0, <1>9, PhasesStay DEF SamePhase
<1>10. ASSUME NEW r \in Requests,
              SetControls(r) \/ RequestDeadline(r) \/ ApprovalDeadline(r) \/ ClaimDeadline(r)
       PROVE  UNCHANGED <<status, trail, starts>>
  BY <1>10 DEF SetControls, RequestDeadline, ApprovalDeadline, ClaimDeadline, rowVars
<1>11. ASSUME NEW h \in Handlers,
              (\E r \in Requests : Arrive(h, r)) \/ ReadUnlocked(h) \/ LoadTool(h)
       PROVE  UNCHANGED <<status, trail, starts>>
  BY <1>11 DEF Arrive, ReadUnlocked, LoadTool, rowVars
<1>12. ASSUME NEW h \in Handlers, Crash(h) PROVE UNCHANGED <<status, trail, starts>>
  BY <1>12 DEF Crash, rowVars
<1>13. CASE QueryApprovals \/ SweepRead \/ WorkerCrash \/ UNCHANGED vars
  <2>1. UNCHANGED <<status, trail, starts>>
    BY <1>13 DEF QueryApprovals, SweepRead, WorkerCrash, vars, lifecycleVars, rowVars
  <2> QED
    BY <1>9, <2>1
<1> QED
  BY <1>1, <1>2, <1>3, <1>4, <1>5, <1>6, <1>7, <1>8, <1>9, <1>10, <1>11, <1>12, <1>13 DEF Next

\* Every execution uses up one permit, at most one is let through, at most one
\* outcome is recorded and a refusal before the start is final, whatever stale
\* handlers and sweeps do to the status afterwards.
THEOREM PermitImplemented == Spec => ImplementsPermit
<1>1. Init => Permits!PermitInit
  BY DEF Init, Permits!PermitInit, PermitPhase
<1>2. LifeInv /\ TypeOK' /\ [Next]_vars => [Permits!PermitNext]_(Permits!permitVars)
  BY PermitStep
<1> QED
  BY <1>1, <1>2, LifeInvariant, LifecycleType, PTL
  DEF Spec, Permits!PermitSpec, ImplementsPermit

\* What Permit promises of the runs themselves.
LEMMA AtMostOnceStep ==
  ASSUME TypeOK, TypeOK', Permits!AtMostOnce, [Permits!PermitNext]_(Permits!permitVars)
  PROVE  Permits!AtMostOnce'
<1>1. CASE UNCHANGED Permits!permitVars
  BY <1>1 DEF Permits!permitVars, Permits!AtMostOnce
<1>2. ASSUME NEW r \in Requests, NEW from, NEW to, Permits!Move(r, from, to)
      PROVE  /\ PermitPhase[r] = from /\ PermitPhase'[r] = to
             /\ \A q \in Requests \ {r} : PermitPhase'[q] = PermitPhase[q]
  <2>1. PermitPhase = [q \in Requests |-> PermitPhase[q]]
    BY DEF PermitPhase
  <2> QED
    BY <1>2, <2>1 DEF Permits!Move
<1>3. ASSUME NEW r \in Requests, Permits!Start(r) PROVE Permits!AtMostOnce'
  <2>1. /\ PermitPhase[r] = "permitted" /\ PermitPhase'[r] = "started"
        /\ \A q \in Requests \ {r} : PermitPhase'[q] = PermitPhase[q]
    BY <1>2, <1>3 DEF Permits!Start
  <2>2. starts[r] = 0
    BY <2>1 DEF Permits!AtMostOnce, Permits!Ended
  <2>3. starts'[r] = 1 /\ \A q \in Requests \ {r} : starts'[q] = starts[q]
    BY <1>3, <2>2 DEF Permits!Start, TypeOK
  <2> QED
    BY <2>1, <2>3 DEF Permits!AtMostOnce
<1>4. ASSUME NEW r \in Requests,
             Permits!Submit(r) \/ Permits!Resolve(r) \/ Permits!Withdraw(r) \/ Permits!Close(r)
      PROVE  Permits!AtMostOnce'
  <2> DEFINE before == {"new", "waiting", "permitted", "refused"}
             after == {"started", "succeeded", "failed"}
  <2>1. starts' = starts
    BY <1>4 DEF Permits!Submit, Permits!Resolve, Permits!Withdraw, Permits!Close
  <2>2. PICK from, to : /\ Permits!Move(r, from, to)
                        /\ \/ from \in before /\ to \in before
                           \/ from \in after /\ to \in after
    BY <1>4 DEF Permits!Submit, Permits!Resolve, Permits!Withdraw, Permits!Close, Permits!Ended
  <2>3. PermitPhase'[r] \in after <=> PermitPhase[r] \in after
    BY <1>2, <2>2
  <2>4. \A q \in Requests \ {r} : PermitPhase'[q] = PermitPhase[q]
    BY <1>2, <2>2
  <2> QED
    BY <2>1, <2>3, <2>4 DEF Permits!AtMostOnce, Permits!Ended
<1> QED
  BY <1>1, <1>3, <1>4 DEF Permits!PermitNext

\* No tool call is let through twice, and none that was refused or still waits.
THEOREM RunsAtMostOnce == Spec => []Permits!AtMostOnce
<1>1. Permits!PermitInit => Permits!AtMostOnce
  BY DEF Permits!PermitInit, Permits!AtMostOnce, Permits!Ended
<1>2. TypeOK /\ TypeOK' /\ Permits!AtMostOnce /\ [Permits!PermitNext]_(Permits!permitVars)
        => Permits!AtMostOnce'
  BY AtMostOnceStep
<1> QED
  BY <1>1, <1>2, PermitImplemented, LifecycleType, PTL
  DEF Permits!PermitSpec, ImplementsPermit

-----------------------------------------------------------------------------
(* Settlements *)

\* What a settlement does to one reservation, whatever its outcome.
LEMMA Settled ==
  ASSUME TypeOK, NEW r \in Requests, NEW outcome, SettleBudgets(r, outcome),
         NEW q \in Requests, NEW u \in Usages
  PROVE  \/ resv'[q][u] = resv[q][u]
         \/ /\ q = r /\ resv[q][u] = "reserved" /\ outcome # "unknown"
            /\ resv'[q][u] = IF outcome = "succeeded" THEN "spent" ELSE "released"
<1>1. LedgerTypeOK
  BY DEF TypeOK
<1> QED
  BY <1>1, SettleRow

\* The reservations a step releases, by the request it works on.
ReleasesOf(r) ==
  \A q \in Requests, u \in Usages :
    resv[q][u] = "reserved" /\ resv'[q][u] = "released" => q = r

\* No execution is ended without its claim.
KeepsClaims ==
  \A q \in Requests : status[q] = "executing" => status'[q] = "executing" \/ claim'[q] = "none"

LEMMA KeepsSame == UNCHANGED status => KeepsClaims
BY DEF KeepsClaims

LEMMA KeepsWritten ==
  ASSUME TypeOK, NEW r \in Requests, NEW s, SetStatus(r, s), status[r] # "executing"
  PROVE  KeepsClaims
BY DEF KeepsClaims, SetStatus, TypeOK

\* Releasing the budget of a request that was not started is unrestricted.
LEMMA ReleaseByUnstarted ==
  ASSUME LifeInv, NEW r \in Requests, KeepsClaims,
         status[r] \in Executable \cup {"absent", "pending_approval"}, ReleasesOf(r)
  PROVE  ReplayAloneReleases
<1>1. TypeOK /\ RowOK(r)
  BY DEF LifeInv
<1>2. ~(starts[r] > 0)
  <2>1. starts[r] \in Nat
    BY <1>1 DEF TypeOK
  <2> QED
    BY <1>1, <2>1 DEF RowOK, Passed
<1> QED
  BY <1>2 DEF ReplayAloneReleases, TakesBack, ReleasesOf, KeepsClaims

\* A step that releases nothing satisfies the property.
LEMMA NoRelease ==
  ASSUME KeepsClaims,
         \A q \in Requests, u \in Usages :
           resv[q][u] = "reserved" => resv'[q][u] # "released"
  PROVE  ReplayAloneReleases
BY DEF ReplayAloneReleases, TakesBack, KeepsClaims

\* So does one that leaves the ledger alone.
LEMMA UnchangedNoRelease == UNCHANGED ledgerVars /\ KeepsClaims => ReplayAloneReleases
BY NoRelease DEF ledgerVars

\* One step per action that settles.
LEMMA ReleaseStep == LifeInv /\ Next => ReplayAloneReleases
<1> SUFFICES ASSUME LifeInv, Next PROVE ReplayAloneReleases
  OBVIOUS
<1>0. TypeOK
  BY DEF LifeInv
<1>1. ASSUME NEW r \in Requests, NEW decision \in {"allow", "require_approval", "deny"},
             Authorize(r, decision)
      PROVE  ReplayAloneReleases
  <2>1. KeepsClaims
    BY <1>0, <1>1, KeepsWritten DEF Authorize
  <2>2. CASE ReserveBudgets(r)
    <3>1. LedgerTypeOK
      BY <1>0 DEF TypeOK
    <3> QED
      BY <2>1, <2>2, <3>1, ReserveRow, NoRelease
  <2> QED
    BY <1>1, <2>1, <2>2, UnchangedNoRelease DEF Authorize
<1>2. ASSUME NEW r \in Requests,
             status[r] \in Executable \cup {"pending_approval"},
             UNCHANGED ledgerVars \/ SettleBudgets(r, "failed"),
             UNCHANGED status \/ \E s \in Status : SetStatus(r, s)
      PROVE  ReplayAloneReleases
  <2>1. KeepsClaims
    BY <1>0, <1>2, KeepsSame, KeepsWritten DEF Executable
  <2>2. CASE SettleBudgets(r, "failed")
    <3>1. ReleasesOf(r)
      BY <1>0, <2>2, Settled DEF ReleasesOf
    <3> QED
      BY <1>2, <2>1, <3>1, ReleaseByUnstarted
  <2> QED
    BY <1>2, <2>1, <2>2, UnchangedNoRelease
<1>3. ASSUME NEW r \in Requests, NEW decision \in {"approve", "reject"}, Decide(r, decision)
      PROVE  ReplayAloneReleases
  BY <1>2, <1>3 DEF Decide, ExpireRows, Status, Final, Executable
<1>4. ASSUME NEW r \in Requests, ExpireApproval(r) \/ Poll(r) PROVE ReplayAloneReleases
  BY <1>2, <1>4, UnchangedNoRelease, KeepsSame
  DEF ExpireApproval, Poll, ExpireRows, StillPending, PendingOverdue, Status, Final
<1>5. ASSUME NEW r \in Requests,
             SetControls(r) \/ RequestDeadline(r) \/ ApprovalDeadline(r) \/ ClaimDeadline(r)
      PROVE  ReplayAloneReleases
  BY <1>5, UnchangedNoRelease, KeepsSame
  DEF SetControls, RequestDeadline, ApprovalDeadline, ClaimDeadline, rowVars
<1>6. ASSUME NEW h \in Handlers, NEW r \in Requests, ReportResult(h, r)
      PROVE  ReplayAloneReleases
  <2>1. KeepsClaims
    BY <1>0, <1>6 DEF ReportResult, SetStatus, KeepsClaims, TypeOK
  <2> QED
    BY <1>6, <2>1, UnchangedNoRelease DEF ReportResult, SettleBudgets
<1>7. ASSUME NEW h \in Handlers, CheckLoaded(h) PROVE ReplayAloneReleases
  <2>1. PICK r \in Requests : r = req[h]
    BY <1>0, <1>7 DEF CheckLoaded, TypeOK
  <2>2. \/ UNCHANGED <<ledgerVars, status>>
        \/ SettleBudgets(r, "failed") /\ Return(h) /\ \E s : SetStatus(r, s)
    BY <1>7, <2>1 DEF CheckLoaded, Recheck
  <2>3. CASE SettleBudgets(r, "failed") /\ Return(h) /\ \E s : SetStatus(r, s)
    <3>1. ReplayEnds(h, r)
      BY <1>0, <1>7, <2>1, <2>3 DEF CheckLoaded, Return, ReplayEnds, TypeOK
    <3>2. ReleasesOf(r)
      BY <1>0, <2>3, Settled DEF ReleasesOf
    <3>3. \A q \in Requests \ {r} : status'[q] = status[q]
      BY <1>0, <2>3 DEF SetStatus, TypeOK
    <3> QED
      BY <3>1, <3>2, <3>3 DEF ReleasesOf, ReplayAloneReleases, TakesBack
  <2> QED
    BY <2>2, <2>3, UnchangedNoRelease, KeepsSame
<1>8. ASSUME NEW h \in Handlers, LockAndCheck(h) PROVE ReplayAloneReleases
  <2>1. PICK r \in Requests : r = req[h]
    BY <1>0, <1>8 DEF LockAndCheck, TypeOK
  <2>2. \/ UNCHANGED <<ledgerVars, status>>
        \/ /\ status[r] \in Executable \cup {"pending_approval"}
           /\ SettleBudgets(r, "failed")
           /\ \E s \in Status : SetStatus(r, s)
    BY <1>8, <2>1 DEF LockAndCheck, Recheck, ExpireRows, PendingOverdue, Status, Final
  <2> QED
    BY <1>2, <2>2, UnchangedNoRelease, KeepsSame
<1>9. ASSUME NEW h \in Handlers, BeginExecution(h) PROVE ReplayAloneReleases
  <2>1. req[h] \in Requests
    BY <1>0, <1>9 DEF BeginExecution, TypeOK
  <2>2. KeepsClaims
    BY <1>0, <1>9, <2>1, KeepsSame DEF BeginExecution, SetStatus, KeepsClaims, TypeOK
  <2> QED
    BY <1>9, <2>2, UnchangedNoRelease DEF BeginExecution
<1>10. ASSUME NEW h \in Handlers, NEW outcome \in {"succeeded", "failed"},
              FinishRemote(h, outcome) \/ FinishReport(h, outcome)
       PROVE  ReplayAloneReleases
  <2>1. PICK r \in Requests : r = req[h]
    BY <1>0, <1>10 DEF FinishRemote, FinishReport, TypeOK
  <2>2. SettleBudgets(r, "succeeded") \/ SettleBudgets(r, "unknown")
    BY <1>10, <2>1 DEF FinishRemote, FinishReport, Finalize, Known
  <2>3. KeepsClaims
    BY <1>0, <1>10, <2>1 DEF FinishRemote, FinishReport, Finalize, SetStatus, KeepsClaims, TypeOK
  <2>4. CASE SettleBudgets(r, "unknown")
    BY <2>3, <2>4, UnchangedNoRelease DEF SettleBudgets
  <2>5. CASE SettleBudgets(r, "succeeded")
    BY <1>0, <2>3, <2>5, Settled, NoRelease
  <2> QED
    BY <2>2, <2>4, <2>5
<1>11. CASE QueryApprovals \/ SweepRead \/ WorkerCrash
  BY <1>11, UnchangedNoRelease, KeepsSame DEF QueryApprovals, SweepRead, WorkerCrash, rowVars
<1>12. CASE SweepWrite
  <2>1. KeepsClaims
    BY <1>12 DEF SweepWrite, KeepsClaims
  <2> QED
    BY <1>12, <2>1, UnchangedNoRelease DEF SweepWrite
<1>13. ASSUME NEW h \in Handlers,
              Crash(h) \/ (\E r \in Requests : Arrive(h, r)) \/ ReadUnlocked(h) \/ LoadTool(h)
       PROVE  ReplayAloneReleases
  BY <1>13, UnchangedNoRelease, KeepsSame DEF Crash, Arrive, ReadUnlocked, LoadTool, rowVars
<1> QED
  BY <1>1, <1>3, <1>4, <1>5, <1>6, <1>7, <1>8, <1>9, <1>10, <1>11, <1>12, <1>13 DEF Next

\* Once an execution was let through, only the stale check of a concurrent POST
\* /execute gives its reservation back, or takes the request from under its claim.
THEOREM StartedReleases == Spec => OnlyReplayReleasesStarted
<1>1. LifeInv /\ [Next]_vars => [ReplayAloneReleases]_vars
  BY ReleaseStep
<1> QED
  BY <1>1, LifeInvariant, PTL DEF Spec, OnlyReplayReleasesStarted

-----------------------------------------------------------------------------
(* Final statuses *)

\* Writing one status that is not final yet.
LEMMA WritesOpen ==
  ASSUME TypeOK, NEW r \in Requests, status[r] \notin Final, NEW s, SetStatus(r, s)
  PROVE  StaleWritersAloneReopen
BY DEF TypeOK, SetStatus, StaleWritersAloneReopen

\* A step that writes no status reopens none.
LEMMA WritesNone == UNCHANGED status => StaleWritersAloneReopen
BY DEF StaleWritersAloneReopen

\* The statuses that are not final.
LEMMA OpenStatuses ==
  \A s \in Executable \cup {"absent", "pending_approval", "executing"} : s \notin Final
BY DEF Executable, Final

\* Action by action: who may overwrite a final status.
LEMMA ReopenStep == LifeInv /\ Next => StaleWritersAloneReopen
<1> SUFFICES ASSUME LifeInv, Next PROVE StaleWritersAloneReopen
  OBVIOUS
<1>0. TypeOK
  BY DEF LifeInv
<1>1. ASSUME NEW r \in Requests,
             status[r] \in Executable \cup {"absent", "pending_approval", "executing"},
             UNCHANGED status \/ \E s \in Status : SetStatus(r, s)
      PROVE  StaleWritersAloneReopen
  BY <1>0, <1>1, WritesOpen, WritesNone, OpenStatuses
<1>2. ASSUME NEW r \in Requests, NEW decision \in {"allow", "require_approval", "deny"},
             Authorize(r, decision)
      PROVE  StaleWritersAloneReopen
  BY <1>1, <1>2 DEF Authorize, Status, Final, Executable
<1>3. ASSUME NEW r \in Requests, NEW decision \in {"approve", "reject"}, Decide(r, decision)
      PROVE  StaleWritersAloneReopen
  BY <1>1, <1>3 DEF Decide, ExpireRows, Status, Final, Executable
<1>4. ASSUME NEW r \in Requests, ExpireApproval(r) \/ Poll(r) PROVE StaleWritersAloneReopen
  BY <1>1, <1>4, WritesNone
  DEF ExpireApproval, Poll, ExpireRows, StillPending, PendingOverdue, Status, Final
<1>5. ASSUME NEW r \in Requests,
             SetControls(r) \/ RequestDeadline(r) \/ ApprovalDeadline(r) \/ ClaimDeadline(r)
      PROVE  StaleWritersAloneReopen
  BY <1>5, WritesNone DEF SetControls, RequestDeadline, ApprovalDeadline, ClaimDeadline, rowVars
<1>6. ASSUME NEW h \in Handlers, NEW r \in Requests,
             Arrive(h, r) \/ ReportResult(h, r)
      PROVE  StaleWritersAloneReopen
  BY <1>1, <1>6, WritesNone DEF Arrive, ReportResult, rowVars, Status, Final
<1>7. ASSUME NEW h \in Handlers, CheckLoaded(h) PROVE StaleWritersAloneReopen
  <2>1. PICK r \in Requests : r = req[h]
    BY <1>0, <1>7 DEF CheckLoaded, TypeOK
  <2>2. UNCHANGED status \/ (Return(h) /\ \E s \in Status : SetStatus(r, s))
    BY <1>7, <2>1 DEF CheckLoaded, Recheck, Status, Final
  <2>3. CASE Return(h) /\ \E s \in Status : SetStatus(r, s)
    <3>1. ReplayEnds(h, r)
      BY <1>0, <1>7, <2>1, <2>3 DEF CheckLoaded, Return, ReplayEnds, TypeOK
    <3>2. \A q \in Requests \ {r} : status'[q] = status[q]
      BY <1>0, <2>3 DEF SetStatus, TypeOK
    <3> QED
      BY <3>1, <3>2 DEF StaleWritersAloneReopen
  <2> QED
    BY <2>2, <2>3, WritesNone
<1>8. ASSUME NEW h \in Handlers, LockAndCheck(h) \/ BeginExecution(h)
      PROVE  StaleWritersAloneReopen
  <2>1. PICK r \in Requests : r = req[h]
    BY <1>0, <1>8 DEF LockAndCheck, BeginExecution, TypeOK
  <2>2. \/ UNCHANGED status
        \/ /\ status[r] \in Executable \cup {"pending_approval"}
           /\ \E s \in Status : SetStatus(r, s)
    BY <1>8, <2>1 DEF LockAndCheck, BeginExecution, Recheck, ExpireRows, PendingOverdue,
                      RowMatches, Status, Final
  <2> QED
    BY <1>1, <2>2, WritesNone
<1>9. ASSUME NEW h \in Handlers, Crash(h) \/ ReadUnlocked(h) \/ LoadTool(h)
      PROVE  StaleWritersAloneReopen
  BY <1>9, WritesNone DEF Crash, ReadUnlocked, LoadTool, rowVars
<1>10. ASSUME NEW h \in Handlers, NEW outcome \in {"succeeded", "failed"},
              FinishRemote(h, outcome)
       PROVE  StaleWritersAloneReopen
  <2>1. \A q \in Requests \ {req[h]} : status'[q] = status[q]
    BY <1>0, <1>10 DEF FinishRemote, Finalize, SetStatus, TypeOK
  <2> QED
    BY <1>10, <2>1 DEF FinishRemote, StaleWritersAloneReopen
<1>11. ASSUME NEW h \in Handlers, NEW outcome \in {"succeeded", "failed"},
              FinishReport(h, outcome)
       PROVE  StaleWritersAloneReopen
  <2>1. PICK r \in Requests : r = req[h]
    BY <1>0, <1>11 DEF FinishReport, TypeOK
  <2>2. status[r] = "executing"
    BY <1>11, <2>1 DEF FinishReport, LifeInv, HandlerOK
  <2>3. SetStatus(r, outcome)
    BY <1>11, <2>1 DEF FinishReport, Finalize
  <2> QED
    BY <1>1, <2>2, <2>3 DEF Status, Final
<1>12. CASE QueryApprovals \/ SweepRead \/ WorkerCrash
  BY <1>12, WritesNone DEF QueryApprovals, SweepRead, WorkerCrash, rowVars
<1>13. CASE SweepWrite
  BY <1>13 DEF SweepWrite, StaleWritersAloneReopen
<1> QED
  BY <1>2, <1>3, <1>4, <1>5, <1>6, <1>7, <1>8, <1>9, <1>10, <1>11, <1>12, <1>13 DEF Next

\* A final status changes only at the hands of an unlocked replay, of the sweep or
\* of the handler that called the provider.
THEOREM FinalStatusesReopened == Spec => OnlyStaleWritersReopen
<1>1. LifeInv /\ [Next]_vars => [StaleWritersAloneReopen]_vars
  BY ReopenStep
<1> QED
  BY <1>1, LifeInvariant, PTL DEF Spec, OnlyStaleWritersReopen

-----------------------------------------------------------------------------
(* Spending *)

Succeeded(q) == "tool.execution succeeded" \in trail[q]

\* What the spending of q says of its trail, in a form that a step preserves.
SpentOK(q) ==
  /\ Succeeded(q) => Open(q) = {}
  /\ (\E u \in Usages : resv[q][u] = "spent") => Succeeded(q)

\* A step that records no success and spends nothing of q.
NoSuccess(q) ==
  /\ Succeeded(q)' <=> Succeeded(q)
  /\ \A u \in Usages : resv'[q][u] # resv[q][u] =>
        resv'[q][u] # "spent" /\ (resv'[q][u] = "reserved" => ~Succeeded(q))

\* Without a new success or spending the clause is kept.
LEMMA NoSuccessOK ==
  ASSUME NEW q \in Requests, SpentOK(q), NoSuccess(q)
  PROVE  SpentOK(q)'
BY DEF SpentOK, NoSuccess, Succeeded, Open

\* A settlement for failure spends nothing.
LEMMA FailureReleases ==
  ASSUME TypeOK, NEW r \in Requests, SettleBudgets(r, "failed"),
         NEW q \in Requests, NEW u \in Usages
  PROVE  resv'[q][u] = resv[q][u] \/ resv'[q][u] = "released"
<1>1. resv' = [resv EXCEPT ![r] = [v \in Usages |->
                  IF v \in Open(r) THEN "released" ELSE resv[r][v]]]
  BY DEF SettleBudgets
<1>2. resv \in [Requests -> [Usages -> ReservationState]]
  BY DEF TypeOK, LedgerTypeOK
<1> QED
  BY <1>1, <1>2

\* A refusal, an expiry or an unknown outcome.
LEMMA QuietStep ==
  ASSUME TypeOK, NEW r \in Requests,
         \/ UNCHANGED ledgerVars
         \/ SettleBudgets(r, "failed")
         \/ SettleBudgets(r, "unknown"),
         NEW event, event # "tool.execution succeeded", trail' = trail \/ Audit(r, event)
  PROVE  \A q \in Requests : NoSuccess(q)
<1> SUFFICES ASSUME NEW q \in Requests PROVE NoSuccess(q)
  OBVIOUS
<1>1. Succeeded(q)' <=> Succeeded(q)
  <2>1. trail'[q] = trail[q] \/ trail'[q] = trail[q] \cup {event}
    BY DEF TypeOK, Audit
  <2> QED
    BY <2>1 DEF Succeeded
<1>2. ASSUME NEW u \in Usages, resv'[q][u] # resv[q][u]
      PROVE  resv'[q][u] \notin {"spent", "reserved"}
  <2>1. resv' # resv
    BY <1>2
  <2>2. SettleBudgets(r, "failed")
    BY <2>1 DEF ledgerVars, SettleBudgets
  <2>3. resv'[q][u] = resv[q][u] \/ resv'[q][u] = "released"
    BY <2>2, FailureReleases
  <2> QED
    BY <1>2, <2>3
<1> QED
  BY <1>1, <1>2 DEF NoSuccess

\* A step that changes neither ledger nor events brings no success.
LEMMA SameSuccess ==
  ASSUME UNCHANGED <<ledgerVars, trail>>
  PROVE  \A q \in Requests : NoSuccess(q)
BY DEF NoSuccess, Succeeded, ledgerVars

\* Every step keeps what spending and success say of each other.
LEMMA SpentStep ==
  ASSUME LifeInv, \A q \in Requests : SpentOK(q), [Next]_vars
  PROVE  \A q \in Requests : SpentOK(q)'
<1>0. TypeOK
  BY DEF LifeInv
<1> SUFFICES \/ \A q \in Requests : NoSuccess(q)
             \/ \A q \in Requests : SpentOK(q)'
  BY NoSuccessOK
<1>1. ASSUME NEW r \in Requests, NEW decision \in {"allow", "require_approval", "deny"},
             Authorize(r, decision)
      PROVE  \A q \in Requests : NoSuccess(q)
  <2>1. trail[r] \cap Outcomes = {}
    BY <1>0, <1>1 DEF Authorize, LifeInv, RowOK, Passed
  <2>2. ~Succeeded(r)
    BY <2>1 DEF Succeeded, Outcomes
  <2>3. CASE UNCHANGED ledgerVars
    BY <1>0, <1>1, <2>3, QuietStep DEF Authorize
  <2>4. CASE ReserveBudgets(r)
    <3>1. LedgerTypeOK
      BY <1>0 DEF TypeOK
    <3>2. \A q \in Requests : Succeeded(q)' <=> Succeeded(q)
      BY <1>0, <1>1 DEF Authorize, Audit, Succeeded, TypeOK
    <3>3. \A q \in Requests, u \in Usages :
            resv'[q][u] # resv[q][u] => q = r /\ resv'[q][u] = "reserved"
      BY <2>4, <3>1, ReserveRow
    <3> QED
      BY <2>2, <3>2, <3>3 DEF NoSuccess
  <2> QED
    BY <1>1, <2>3, <2>4 DEF Authorize
<1>2. ASSUME NEW r \in Requests, NEW decision \in {"approve", "reject"}, Decide(r, decision)
      PROVE  \A q \in Requests : NoSuccess(q)
  <2>1. /\ UNCHANGED ledgerVars \/ SettleBudgets(r, "failed")
        /\ trail' = trail \/ Audit(r, "approval.decision")
    BY <1>2 DEF Decide, ExpireRows
  <2> QED
    BY <1>0, <2>1, QuietStep
<1>3. ASSUME NEW r \in Requests, ExpireApproval(r) \/ Poll(r)
      PROVE  \A q \in Requests : NoSuccess(q)
  <2>1. /\ UNCHANGED ledgerVars \/ SettleBudgets(r, "failed")
        /\ trail' = trail \/ Audit(r, "approval.expired")
    BY <1>3 DEF ExpireApproval, Poll, ExpireRows
  <2> QED
    BY <1>0, <2>1, QuietStep
<1>4. ASSUME NEW r \in Requests,
             SetControls(r) \/ RequestDeadline(r) \/ ApprovalDeadline(r) \/ ClaimDeadline(r)
      PROVE  \A q \in Requests : NoSuccess(q)
  BY <1>4, SameSuccess DEF SetControls, RequestDeadline, ApprovalDeadline, ClaimDeadline
<1>5. ASSUME NEW h \in Handlers,
             \/ \E r \in Requests : Arrive(h, r) \/ ReportResult(h, r)
             \/ ReadUnlocked(h)
             \/ LoadTool(h)
      PROVE  \A q \in Requests : NoSuccess(q)
  BY <1>5, SameSuccess DEF Arrive, ReportResult, ReadUnlocked, LoadTool, SettleBudgets
<1>6. ASSUME NEW h \in Handlers, CheckLoaded(h) \/ LockAndCheck(h)
      PROVE  \A q \in Requests : NoSuccess(q)
  <2>1. PICK r \in Requests : r = req[h]
    BY <1>0, <1>6 DEF CheckLoaded, LockAndCheck, TypeOK
  <2>2. PICK event \in {"approval.expired", "tool.execution_blocked"} :
          trail' = trail \/ Audit(r, event)
    BY <1>6, <2>1 DEF CheckLoaded, LockAndCheck, Recheck
  <2>3. UNCHANGED ledgerVars \/ SettleBudgets(r, "failed")
    BY <1>6, <2>1 DEF CheckLoaded, LockAndCheck, Recheck, ExpireRows
  <2> QED
    BY <1>0, <2>2, <2>3, QuietStep
<1>7. ASSUME NEW h \in Handlers, BeginExecution(h) \/ Crash(h)
      PROVE  \A q \in Requests : NoSuccess(q)
  <2>1. CASE UNCHANGED <<ledgerVars, trail>>
    BY <2>1, SameSuccess
  <2>2. CASE UNCHANGED ledgerVars /\ Audit(req[h], "tool.execution_claimed") /\ BeginExecution(h)
    <3>1. req[h] \in Requests
      BY <1>0, <2>2 DEF BeginExecution, TypeOK
    <3> QED
      BY <1>0, <2>2, <3>1, QuietStep
  <2> QED
    BY <1>7, <2>1, <2>2 DEF BeginExecution, Crash
<1>8. ASSUME NEW h \in Handlers, NEW outcome \in {"succeeded", "failed"},
             FinishRemote(h, outcome) \/ FinishReport(h, outcome)
      PROVE  \/ \A q \in Requests : NoSuccess(q)
             \/ \A q \in Requests : SpentOK(q)'
  <2>1. PICK r \in Requests : r = req[h]
    BY <1>0, <1>8 DEF FinishRemote, FinishReport, TypeOK
  <2>2. SettleBudgets(r, Known(outcome)) /\ Audit(r, ExecutionEvent(outcome))
    BY <1>8, <2>1 DEF FinishRemote, FinishReport, Finalize
  <2>3. CASE outcome = "failed"
    BY <1>0, <2>2, <2>3, QuietStep DEF Known, ExecutionEvent
  <2>4. CASE outcome = "succeeded"
    <3>1. SettleBudgets(r, "succeeded") /\ Audit(r, "tool.execution succeeded")
      BY <2>2, <2>4 DEF Known, ExecutionEvent
    <3>2. Succeeded(r)' /\ \A q \in Requests \ {r} : Succeeded(q)' <=> Succeeded(q)
      BY <1>0, <3>1 DEF Audit, Succeeded, TypeOK
    <3>3. \A u \in Usages : resv'[r][u] # "reserved"
      <4>1. LedgerTypeOK
        BY <1>0 DEF TypeOK
      <4> QED
        BY <3>1, <4>1, SettleRow
    <3>4. \A q \in Requests \ {r}, u \in Usages : resv'[q][u] = resv[q][u]
      <4> SUFFICES ASSUME NEW q \in Requests \ {r}, NEW u \in Usages
                   PROVE  resv'[q][u] = resv[q][u]
        OBVIOUS
      <4>1. SettleBudgets(r, "succeeded") /\ q \in Requests /\ q # r
        BY <3>1
      <4> QED
        BY <1>0, <4>1, Settled
    <3>5. SpentOK(r)'
      BY <3>2, <3>3 DEF SpentOK, Open
    <3>6. \A q \in Requests \ {r} : SpentOK(q)'
      BY <3>2, <3>4 DEF SpentOK, Open
    <3> QED
      BY <3>5, <3>6
  <2> QED
    BY <2>3, <2>4
<1>9. CASE QueryApprovals \/ SweepRead \/ WorkerCrash \/ UNCHANGED vars
  BY <1>9, SameSuccess DEF QueryApprovals, SweepRead, WorkerCrash, vars, lifecycleVars
<1>10. CASE SweepWrite
  <2>1. \A q \in Requests : Succeeded(q)' <=> Succeeded(q)
    BY <1>10 DEF SweepWrite, Succeeded
  <2> QED
    BY <1>10, <2>1 DEF SweepWrite, NoSuccess, ledgerVars
<1> QED
  BY <1>1, <1>2, <1>3, <1>4, <1>5, <1>6, <1>7, <1>8, <1>9, <1>10 DEF Next

\* A recorded success leaves nothing reserved, and budget is spent only for the
\* recorded success of a call that was let through.
THEOREM SpendingJustified == Spec => []SpendingFollowsSuccess
<1> DEFINE Inv == \A q \in Requests : SpentOK(q)
<1>1. Init => Inv
  BY DEF Init, LedgerInit, SpentOK, Succeeded, Open
<1>2. LifeInv /\ Inv /\ [Next]_vars => Inv'
  BY SpentStep
<1>3. LifeInv /\ Inv => SpendingFollowsSuccess
  <2> SUFFICES ASSUME LifeInv, Inv, NEW q \in Requests
               PROVE  /\ "tool.execution succeeded" \in trail[q] => Open(q) = {}
                      /\ (\E u \in Usages : resv[q][u] = "spent") =>
                           "tool.execution succeeded" \in trail[q] /\ starts[q] > 0
    BY DEF SpendingFollowsSuccess
  <2>1. Succeeded(q) => starts[q] > 0
    BY DEF LifeInv, RowOK, Succeeded, Outcomes
  <2> QED
    BY <2>1 DEF SpentOK, Succeeded
<1> QED
  BY <1>1, <1>2, <1>3, LifeInvariant, PTL DEF Spec

-----------------------------------------------------------------------------
(* What the checks before an execution see *)

\* The controls that stood at the arrival of h and still stand are among those its
\* check will look at, and an execution is let through only when there are none.
SightOK(h) ==
  /\ pc[h] = "idle" => standing[h] = {}
  /\ pc[h] # "idle" => standing[h] \subseteq facts[req[h]] /\ status[req[h]] # "absent"
  /\ pc[h] = "loaded" => standing[h] \subseteq seen[h] \cup {"kill"}
  /\ pc[h] \in {"arrived", "found"} => standing[h] \cap {"agent"} \subseteq seen[h]
  /\ pc[h] \in {"cleared", "locked", "calling"} => standing[h] = {}

\* No step makes a stored request absent again.
Stored == \A q \in Requests : status[q] # "absent" => status'[q] # "absent"

\* Handler k neither moves nor loses sight of anything.
Waits(k) == pc'[k] = pc[k] /\ req'[k] = req[k] /\ seen'[k] = seen[k] /\ standing'[k] = standing[k]

\* Writing a status keeps the row.
LEMMA StoredStep ==
  ASSUME TypeOK, NEW r \in Requests, NEW s \in Status \ {"absent"}, SetStatus(r, s)
  PROVE  Stored
BY DEF TypeOK, SetStatus, Stored

\* So does a step that writes none.
LEMMA StoredSame == UNCHANGED status => Stored
BY DEF Stored

\* A handler that does not move keeps its sight while no control changes.
LEMMA WaitsOK ==
  ASSUME TypeOK, NEW k \in Handlers, SightOK(k), Waits(k), Stored, UNCHANGED facts
  PROVE  SightOK(k)'
BY DEF TypeOK, SightOK, Waits, Stored

\* A handler that answers needs no sight.
LEMMA ReturnSight ==
  ASSUME TypeOK, NEW h \in Handlers, Return(h)
  PROVE  SightOK(h)' /\ \A k \in Handlers \ {h} : Waits(k)
BY DEF TypeOK, Return, SightOK, Waits

\* A clear verdict leaves no control standing.
LEMMA ClearSight ==
  ASSUME TypeOK, NEW h \in Handlers, NEW r \in Requests, NEW view,
         Verdict(r, view) = "clear", standing[h] \subseteq view
  PROVE  standing[h] = {}
<1>1. view \cap Emergency = {} /\ view \cap Changed = {}
  BY DEF Verdict
<1>2. standing[h] \subseteq AllControls
  BY DEF TypeOK
<1> QED
  BY <1>1, <1>2 DEF Emergency

\* The check looks at every control that stood on arrival.
LEMMA RecheckSight ==
  ASSUME TypeOK, NEW h \in Handlers, SightOK(h), pc[h] # "idle", NEW view,
         NEW passed \in {"cleared", "locked"},
         Recheck(h, view, passed), standing[h] \subseteq view, UNCHANGED facts
  PROVE  SightOK(h)' /\ Stored /\ \A k \in Handlers \ {h} : Waits(k)
<1>1. req[h] \in Requests
  BY DEF TypeOK
<1>2. Stored
  <2>1. UNCHANGED status \/ \E s \in Status \ {"absent"} : SetStatus(req[h], s)
    BY DEF Recheck, Status, Final
  <2> QED
    BY <1>1, <2>1, StoredStep, StoredSame
<1>3. CASE Return(h)
  BY <1>2, <1>3, ReturnSight
<1>4. CASE Verdict(req[h], view) = "clear" /\ GoTo(h, passed) /\ UNCHANGED status
  <2>1. standing[h] = {}
    BY <1>1, <1>4, ClearSight
  <2>2. /\ pc'[h] = passed /\ standing'[h] = {} /\ req'[h] = req[h]
        /\ \A k \in Handlers \ {h} : Waits(k)
    BY <1>4, <2>1 DEF TypeOK, GoTo, Waits
  <2>3. SightOK(h)'
    BY <1>4, <2>2 DEF SightOK
  <2> QED
    BY <1>2, <2>2, <2>3
<1> QED
  BY <1>3, <1>4 DEF Recheck

\* Every step keeps what stood on arrival within the handler's sight.
LEMMA SightStep ==
  ASSUME TypeOK, \A h \in Handlers : SightOK(h), [Next]_vars
  PROVE  \A h \in Handlers : SightOK(h)'
<1>1. ASSUME UNCHANGED <<facts, handlerVars>>, Stored PROVE \A h \in Handlers : SightOK(h)'
  BY <1>1, WaitsOK DEF handlerVars, Waits
<1>2. ASSUME NEW h \in Handlers, SightOK(h)', UNCHANGED facts, Stored,
             \A k \in Handlers \ {h} : Waits(k)
      PROVE  \A k \in Handlers : SightOK(k)'
  BY <1>2, WaitsOK
<1>3. ASSUME NEW r \in Requests, NEW decision \in {"allow", "require_approval", "deny"},
             Authorize(r, decision)
      PROVE  \A h \in Handlers : SightOK(h)'
  <2>1. status[r] = "absent" /\ UNCHANGED handlerVars
    BY <1>3 DEF Authorize
  <2>2. \A q \in Requests \ {r} : facts'[q] = facts[q] /\ status'[q] = status[q]
    BY <1>3 DEF Authorize, SetStatus, TypeOK
  <2> QED
    BY <2>1, <2>2 DEF SightOK, handlerVars, TypeOK
<1>4. ASSUME NEW r \in Requests, NEW decision \in {"approve", "reject"}, Decide(r, decision)
      PROVE  \A h \in Handlers : SightOK(h)'
  <2>1. \E s \in Status \ {"absent"} : SetStatus(r, s)
    BY <1>4 DEF Decide, ExpireRows, Status, Final, Executable
  <2> QED
    BY <1>1, <1>4, <2>1, StoredStep DEF Decide
<1>5. ASSUME NEW r \in Requests, ExpireApproval(r) \/ Poll(r)
      PROVE  \A h \in Handlers : SightOK(h)'
  <2>1. UNCHANGED status \/ \E s \in Status \ {"absent"} : SetStatus(r, s)
    BY <1>5 DEF ExpireApproval, Poll, ExpireRows, Status, Final
  <2>2. UNCHANGED <<facts, handlerVars>>
    BY <1>5 DEF ExpireApproval, Poll
  <2> QED
    BY <1>1, <2>1, <2>2, StoredStep, StoredSame
<1>6. ASSUME NEW r \in Requests, SetControls(r) PROVE \A h \in Handlers : SightOK(h)'
  <2>1. PICK F \in SUBSET Controls[r] :
          /\ facts' = [facts EXCEPT ![r] = F]
          /\ standing' = [h \in Handlers |->
                            IF req[h] = r THEN standing[h] \cap F ELSE standing[h]]
    BY <1>6 DEF SetControls
  <2>2. UNCHANGED <<status, pc, req, seen>>
    BY <1>6 DEF SetControls, rowVars
  <2>3. ASSUME NEW h \in Handlers
        PROVE  /\ standing'[h] \subseteq standing[h]
               /\ pc[h] # "idle" => standing'[h] \subseteq facts'[req[h]]
    BY <2>1 DEF TypeOK, SightOK
  <2> QED
    BY <2>2, <2>3 DEF SightOK
<1>7. ASSUME NEW r \in Requests, RequestDeadline(r) \/ ApprovalDeadline(r) \/ ClaimDeadline(r)
      PROVE  \A h \in Handlers : SightOK(h)'
  BY <1>1, <1>7, StoredSame DEF RequestDeadline, ApprovalDeadline, ClaimDeadline, rowVars
<1>8. ASSUME NEW h \in Handlers,
             (\E r \in Requests : Arrive(h, r)) \/ ReadUnlocked(h) \/ LoadTool(h)
      PROVE  \A k \in Handlers : SightOK(k)'
  <2>1. UNCHANGED <<status, facts>>
    BY <1>8 DEF Arrive, ReadUnlocked, LoadTool, rowVars
  <2>2. CASE Return(h)
    BY <1>2, <2>1, <2>2, StoredSame, ReturnSight
  <2>3. ASSUME NEW r \in Requests, Arrive(h, r)
        PROVE  SightOK(h)' /\ \A k \in Handlers \ {h} : Waits(k)
    <3>1. status[r] # "absent"
      BY <2>3 DEF Arrive, Executable
    <3>2. /\ req'[h] = r /\ standing'[h] = facts[r] /\ pc'[h] = "arrived"
          /\ seen'[h] = facts[r] \cap {"agent"}
          /\ \A k \in Handlers \ {h} : Waits(k)
      BY <2>3 DEF Arrive, Waits, TypeOK
    <3>3. SightOK(h)'
      BY <2>1, <3>1, <3>2 DEF SightOK
    <3> QED
      BY <3>2, <3>3
  <2>4. ASSUME pc[h] = "arrived", GoTo(h, "found")
        PROVE  SightOK(h)' /\ \A k \in Handlers \ {h} : Waits(k)
    <3>1. /\ pc'[h] = "found" /\ UNCHANGED <<req, seen, standing>>
          /\ \A k \in Handlers \ {h} : Waits(k)
      BY <2>4 DEF GoTo, Waits, TypeOK
    <3>2. SightOK(h)'
      BY <2>1, <2>4, <3>1 DEF SightOK
    <3> QED
      BY <3>1, <3>2
  <2>5. ASSUME LoadTool(h), ~Return(h)
        PROVE  SightOK(h)' /\ \A k \in Handlers \ {h} : Waits(k)
    <3>1. /\ pc[h] = "found" /\ pc'[h] = "loaded" /\ UNCHANGED <<req, standing>>
          /\ seen'[h] = seen[h] \cup (facts[req[h]] \cap {"disabled", "drift", "adapter"})
          /\ \A k \in Handlers \ {h} : Waits(k)
      BY <2>5 DEF LoadTool, Waits, TypeOK
    <3>2. standing[h] \subseteq AllControls
      BY DEF TypeOK
    <3>3. SightOK(h)'
      BY <2>1, <3>1, <3>2 DEF SightOK, AllControls
    <3> QED
      BY <3>1, <3>3
  <2> QED
    BY <1>2, <1>8, <2>1, <2>2, <2>3, <2>4, <2>5, StoredSame DEF ReadUnlocked
<1>9. ASSUME NEW h \in Handlers, NEW r \in Requests, ReportResult(h, r)
      PROVE  \A k \in Handlers : SightOK(k)'
  <2>1. CASE UNCHANGED handlerVars /\ SetStatus(r, "failed")
    <3>1. Stored
      BY <2>1, StoredStep DEF Status, Final
    <3> QED
      BY <1>1, <1>9, <2>1, <3>1 DEF ReportResult
  <2>2. CASE /\ pc' = [pc EXCEPT ![h] = "reporting"]
             /\ req' = [req EXCEPT ![h] = r]
             /\ UNCHANGED <<ledgerVars, status, claim, seen, standing>>
    <3>1. /\ pc'[h] = "reporting" /\ req'[h] = r /\ standing'[h] = {}
          /\ \A k \in Handlers \ {h} : Waits(k)
      BY <1>9, <2>2 DEF ReportResult, Waits, TypeOK, SightOK
    <3>2. UNCHANGED <<status, facts>> /\ status[r] = "executing"
      BY <1>9, <2>2 DEF ReportResult
    <3>3. SightOK(h)'
      BY <3>1, <3>2 DEF SightOK
    <3> QED
      BY <1>2, <3>1, <3>2, <3>3, StoredSame
  <2> QED
    BY <1>9, <2>1, <2>2 DEF ReportResult
<1>10. ASSUME NEW h \in Handlers, CheckLoaded(h) PROVE \A k \in Handlers : SightOK(k)'
  <2> DEFINE view == seen[h] \cup (facts[req[h]] \cap {"kill"})
  <2>1. pc[h] = "loaded" /\ Recheck(h, view, "cleared") /\ UNCHANGED facts
    BY <1>10 DEF CheckLoaded
  <2>2. standing[h] \subseteq view
    BY <2>1 DEF SightOK
  <2> HIDE DEF view
  <2> QED
    BY <1>2, <2>1, <2>2, RecheckSight
<1>11. ASSUME NEW h \in Handlers, LockAndCheck(h) PROVE \A k \in Handlers : SightOK(k)'
  <2>1. pc[h] = "arrived" /\ UNCHANGED facts /\ req[h] \in Requests
    BY <1>11 DEF LockAndCheck, TypeOK
  <2>2. CASE Return(h) /\ (UNCHANGED status \/ SetStatus(req[h], "expired"))
    <3>1. Stored
      BY <2>1, <2>2, StoredStep, StoredSame DEF Status, Final
    <3> QED
      BY <1>2, <2>1, <2>2, <3>1, ReturnSight
  <2>3. CASE Recheck(h, seen[h] \cup (facts[req[h]] \ {"agent"}), "locked")
    <3> DEFINE view == seen[h] \cup (facts[req[h]] \ {"agent"})
    <3>1. standing[h] \subseteq view /\ Recheck(h, view, "locked")
      BY <2>1, <2>3 DEF SightOK
    <3> HIDE DEF view
    <3> QED
      BY <1>2, <2>1, <3>1, RecheckSight
  <2> QED
    BY <1>11, <2>2, <2>3 DEF LockAndCheck, ExpireRows
<1>12. ASSUME NEW h \in Handlers, BeginExecution(h) PROVE \A k \in Handlers : SightOK(k)'
  <2>1. /\ pc[h] \in {"cleared", "locked"} /\ req[h] \in Requests /\ UNCHANGED facts
        /\ UNCHANGED status \/ SetStatus(req[h], "executing")
        /\ Return(h) \/ GoTo(h, "calling")
    BY <1>12 DEF BeginExecution, TypeOK
  <2>2. Stored
    BY <2>1, StoredStep, StoredSame DEF Status
  <2>3. CASE Return(h)
    BY <1>2, <2>1, <2>2, <2>3, ReturnSight
  <2>4. CASE GoTo(h, "calling")
    <3>1. /\ pc'[h] = "calling" /\ standing'[h] = {} /\ req'[h] = req[h]
          /\ \A k \in Handlers \ {h} : Waits(k)
      BY <2>1, <2>4 DEF GoTo, Waits, TypeOK, SightOK
    <3>2. SightOK(h)'
      BY <2>1, <2>2, <3>1 DEF SightOK, Stored
    <3> QED
      BY <1>2, <2>1, <2>2, <3>1, <3>2
  <2> QED
    BY <2>1, <2>3, <2>4
<1>13. ASSUME NEW h \in Handlers, NEW outcome \in {"succeeded", "failed"},
              FinishRemote(h, outcome) \/ FinishReport(h, outcome)
       PROVE  \A k \in Handlers : SightOK(k)'
  <2>1. /\ Return(h) /\ UNCHANGED facts /\ req[h] \in Requests /\ SetStatus(req[h], outcome)
    BY <1>13 DEF FinishRemote, FinishReport, Finalize, TypeOK
  <2>2. Stored
    BY <2>1, StoredStep DEF Status, Final
  <2> QED
    BY <1>2, <2>1, <2>2, ReturnSight
<1>14. ASSUME NEW h \in Handlers, Crash(h) PROVE \A k \in Handlers : SightOK(k)'
  <2>1. Return(h) /\ UNCHANGED <<facts, status>>
    BY <1>14 DEF Crash, rowVars
  <2> QED
    BY <1>2, <2>1, StoredSame, ReturnSight
<1>15. CASE QueryApprovals \/ SweepRead \/ WorkerCrash \/ UNCHANGED vars
  BY <1>1, <1>15, StoredSame
  DEF QueryApprovals, SweepRead, WorkerCrash, vars, lifecycleVars, rowVars, handlerVars
<1>16. CASE SweepWrite
  BY <1>1, <1>16 DEF SweepWrite, Stored
<1> QED
  BY <1>3, <1>4, <1>5, <1>6, <1>7, <1>8, <1>9, <1>10, <1>11, <1>12, <1>13, <1>14, <1>15,
     <1>16 DEF Next

\* A control that stood when the call arrived and still stands is never missed.
THEOREM ControlsStop == Spec => []StandingControlsStop
<1> DEFINE Inv == \A h \in Handlers : SightOK(h)
<1>1. Init => Inv
  BY DEF Init, SightOK
<1>2. TypeOK /\ Inv /\ [Next]_vars => Inv'
  BY SightStep
<1>3. Inv => StandingControlsStop
  BY DEF SightOK, StandingControlsStop
<1> QED
  BY <1>1, <1>2, <1>3, LifecycleType, PTL DEF Spec
=============================================================================
