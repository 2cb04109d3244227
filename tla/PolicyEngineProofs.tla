------------------------- MODULE PolicyEngineProofs -------------------------
(* Theorems about PolicyEngine: what _when answers for conditions nested to any     *)
(* depth, and that a decision is the one the policies gave when their rows were     *)
(* read, for any policies, documents, conditions, facts and edits.                  *)
EXTENDS PolicyEngine, TLAPS, FiniteSetTheorems, WellFoundedInduction, SequenceTheorems

\* A finite set that is not empty has a first element in an order that compares any two.
LEMMA FirstOf ==
  ASSUME NEW S, IsFiniteSet(S), S # {}, NEW R,
         \A x, y \in S : <<x, y>> \in R \/ <<y, x>> \in R,
         \A x, y, z \in S : <<x, y>> \in R /\ <<y, z>> \in R => <<x, z>> \in R
  PROVE  \E x \in S : \A y \in S : <<x, y>> \in R
  <1> DEFINE FirstIn(T) == \E x \in T : \A y \in T : <<x, y>> \in R
             Bad == {T \in FiniteSubsetsOf(S) : T # {} /\ ~FirstIn(T)}
  <1> SUFFICES ASSUME ~FirstIn(S) PROVE FALSE
    OBVIOUS
  <1>1. S \in Bad
    BY DEF FiniteSubsetsOf
  <1>2. PICK T \in Bad : \A U \in Bad : ~(<<U, T>> \in StrictSubsetOrdering(S))
    <2>1. Bad \subseteq FiniteSubsetsOf(S) /\ Bad # {}
      BY <1>1
    <2> HIDE DEF Bad
    <2> QED
      BY <2>1, FS_StrictSubsetOrderingWellFounded, WFMin
  <1>3. T \in SUBSET S /\ IsFiniteSet(T) /\ T # {} /\ ~FirstIn(T)
    BY DEF FiniteSubsetsOf
  <1>4. PICK x \in T : TRUE
    BY <1>3
  <1> DEFINE U == T \ {x}
  <1>5. U \in SUBSET S /\ IsFiniteSet(U) /\ U # T /\ U \subseteq T
    BY <1>3, FS_RemoveElement
  <1>6. <<U, T>> \in StrictSubsetOrdering(S)
    BY <1>3, <1>5 DEF StrictSubsetOrdering
  <1>7. U = {} \/ FirstIn(U)
    BY <1>2, <1>5, <1>6 DEF FiniteSubsetsOf
  <1>8. CASE U = {}
    BY <1>3, <1>8
  <1>9. ASSUME NEW u \in U, \A y \in U : <<u, y>> \in R PROVE FALSE
    <2>1. CASE <<x, u>> \in R
      <3>1. \A y \in T : <<x, y>> \in R
        BY <1>3, <1>9, <2>1
      <3> QED
        BY <1>3, <3>1
    <2>2. CASE <<u, x>> \in R
      <3>1. \A y \in T : <<u, y>> \in R
        BY <1>9, <2>2
      <3> QED
        BY <1>3, <3>1
    <2> QED
      BY <1>3, <2>1, <2>2
  <1> QED
    BY <1>7, <1>8, <1>9

-----------------------------------------------------------------------------
(* Recursion over nested data *)

\* A set of numbers that is not empty has a least element.
LEMMA Least ==
  ASSUME NEW T, T \subseteq Nat, T # {} PROVE \E n \in T : \A m \in T : n <= m
  <1>1. PICK x \in T : TRUE
    OBVIOUS
  <1> DEFINE L == T \cap 0 .. x
             R == {r \in Nat \X Nat : r[1] <= r[2]}
  <1>2. IsFiniteSet(L) /\ L # {} /\ L \subseteq Nat
    <2>1. x \in Nat /\ IsFiniteSet(0 .. x)
      BY FS_Interval
    <2>2. x \in L
      BY <2>1
    <2> QED
      BY <2>1, <2>2, FS_Intersection
  <1>3. \A a, b \in L : <<a, b>> \in R \/ <<b, a>> \in R
    OBVIOUS
  <1>4. \A a, b, c \in L : <<a, b>> \in R /\ <<b, c>> \in R => <<a, c>> \in R
    OBVIOUS
  <1>5. \E n \in L : \A m \in L : <<n, m>> \in R
    <2> HIDE DEF L, R
    <2> QED
      BY <1>2, <1>3, <1>4, FirstOf
  <1>6. PICK n \in L : \A m \in L : n <= m
    BY <1>5
  <1>7. ASSUME NEW m \in T PROVE n <= m
    <2>1. x \in Nat /\ m \in Nat /\ n \in Nat /\ n <= x
      BY <1>6
    <2>2. CASE m <= x
      BY <1>6, <2>1, <2>2
    <2>3. CASE ~(m <= x)
      BY <2>1, <2>3
    <2> QED
      BY <2>2, <2>3
  <1> QED
    BY <1>6, <1>7

\* Of some things, one is nested least.
LEMMA Shallowest ==
  ASSUME NEW C, NEW D \in [C -> Nat], NEW B, B \subseteq C, B # {}
  PROVE  \E c \in B : \A d \in B : D[c] <= D[d]
  <1> DEFINE T == {D[c] : c \in B}
  <1>1. T \subseteq Nat /\ T # {}
    OBVIOUS
  <1>2. PICK n \in T : \A m \in T : n <= m
    <2> HIDE DEF T
    <2> QED
      BY <1>1, Least
  <1> QED
    BY <1>2

\* G gives the value of every thing of C from the values of its parts, which are nested less.
FromParts(C, V, D, P, G) ==
  /\ V # {} /\ D \in [C -> Nat] /\ P \in [C -> SUBSET C]
  /\ \A c \in C : \A d \in P[c] : D[d] < D[c]
  /\ G \in [[C -> V] \X C -> V]
  /\ \A u, w \in [C -> V] : \A c \in C : (\A d \in P[c] : u[d] = w[d]) => G[<<u, c>>] = G[<<w, c>>]

\* The values w are those that G gives.
Solves(w, C, V, G) == w \in [C -> V] /\ \A c \in C : w[c] = G[<<w, c>>]

\* What is defined from its parts is defined.
LEMMA Recursion ==
  ASSUME NEW C, NEW V, NEW D, NEW P, NEW G, FromParts(C, V, D, P, G)
  PROVE  \E w : Solves(w, C, V, G)
  <1>0. /\ V # {} /\ D \in [C -> Nat] /\ P \in [C -> SUBSET C]
        /\ \A c \in C : \A d \in P[c] : D[d] < D[c]
        /\ G \in [[C -> V] \X C -> V]
        /\ \A u, w \in [C -> V] : \A c \in C : (\A d \in P[c] : u[d] = w[d]) => G[<<u, c>>] = G[<<w, c>>]
    BY DEF FromParts
  <1> USE <1>0
  <1> DEFINE Right(w, n) == \A c \in C : D[c] < n => w[c] = G[<<w, c>>]
  <1>1. ASSUME NEW n \in Nat PROVE \E w \in [C -> V] : Right(w, n)
    <2> DEFINE Bad == {k \in Nat : \A w \in [C -> V] : ~Right(w, k)}
    <2> SUFFICES ASSUME Bad # {} PROVE FALSE
      OBVIOUS
    <2>1. PICK k \in Bad : \A m \in Bad : k <= m
      <3>1. Bad \subseteq Nat
        OBVIOUS
      <3> HIDE DEF Bad
      <3> QED
        BY <3>1, Least
    <2>2. CASE k = 0
      <3>1. PICK v \in V : TRUE
        OBVIOUS
      <3>2. Right([c \in C |-> v], 0)
        OBVIOUS
      <3> QED
        BY <2>1, <2>2, <3>2
    <2>3. CASE k # 0
      <3>1. k - 1 \in Nat /\ k - 1 \notin Bad
        <4>1. k \in Nat /\ k - 1 \in Nat /\ ~(k <= k - 1)
          BY <2>1, <2>3
        <4> HIDE DEF Bad
        <4> QED
          BY <2>1, <4>1
      <3>2. PICK w \in [C -> V] : Right(w, k - 1)
        BY <3>1
      <3> DEFINE u == [c \in C |-> G[<<w, c>>]]
      <3>3. u \in [C -> V]
        OBVIOUS
      <3>4. ASSUME NEW c \in C, D[c] < k PROVE u[c] = G[<<u, c>>]
        <4>1. ASSUME NEW d \in P[c] PROVE u[d] = w[d]
          <5>1. d \in C /\ D[d] < D[c] /\ D[d] \in Nat /\ D[c] \in Nat
            OBVIOUS
          <5>2. D[d] < k - 1
            BY <5>1, <3>4, <2>1
          <5> QED
            BY <3>2, <5>1, <5>2
        <4>2. G[<<u, c>>] = G[<<w, c>>]
          <5> HIDE DEF u
          <5> QED
            BY <3>3, <4>1
        <4> QED
          BY <4>2
      <3>5. Right(u, k)
        <4> HIDE DEF u
        <4> QED
          BY <3>4
      <3> QED
        BY <2>1, <3>3, <3>5
    <2> QED
      BY <2>2, <2>3
  <1>2. ASSUME NEW n \in Nat, NEW u \in [C -> V], NEW w \in [C -> V], Right(u, n), Right(w, n)
        PROVE  \A c \in C : D[c] < n => u[c] = w[c]
    <2> DEFINE Bad == {c \in C : D[c] < n /\ u[c] # w[c]}
    <2> SUFFICES ASSUME Bad # {} PROVE FALSE
      OBVIOUS
    <2>1. PICK c \in Bad : \A d \in Bad : D[c] <= D[d]
      <3>1. Bad \subseteq C
        OBVIOUS
      <3> HIDE DEF Bad
      <3> QED
        BY <3>1, Shallowest
    <2>2. ASSUME NEW d \in P[c] PROVE u[d] = w[d]
      <3>1. d \in C /\ D[d] < D[c] /\ D[d] \in Nat /\ D[c] \in Nat /\ D[c] < n
        BY <2>1
      <3>2. d \notin Bad
        BY <2>1, <3>1
      <3> QED
        BY <3>1, <3>2
    <2>3. G[<<u, c>>] = G[<<w, c>>]
      BY <2>2
    <2> QED
      BY <1>2, <2>1, <2>3
  <1> DEFINE At(n) == CHOOSE w \in [C -> V] : Right(w, n)
             W == [c \in C |-> At(D[c] + 1)[c]]
  <1>3. ASSUME NEW n \in Nat PROVE At(n) \in [C -> V] /\ Right(At(n), n)
    BY <1>1
  <1> HIDE DEF At
  <1>4. W \in [C -> V]
    <2>1. ASSUME NEW c \in C PROVE At(D[c] + 1)[c] \in V
      <3>1. D[c] + 1 \in Nat
        OBVIOUS
      <3> QED
        BY <1>3, <3>1
    <2> QED
      BY <2>1
  <1>5. ASSUME NEW c \in C PROVE W[c] = G[<<W, c>>]
    <2> DEFINE n == D[c] + 1
               w == At(n)
    <2>1. n \in Nat /\ w \in [C -> V] /\ Right(w, n) /\ D[c] < n
      <3>1. n \in Nat /\ D[c] < n
        OBVIOUS
      <3> QED
        BY <1>3, <3>1
    <2>2. ASSUME NEW d \in P[c] PROVE W[d] = w[d]
      <3> DEFINE k == D[d] + 1
      <3>1. d \in C /\ D[d] \in Nat /\ D[c] \in Nat /\ D[d] < D[c]
        OBVIOUS
      <3>2. k \in Nat /\ D[d] < k /\ k <= n
        BY <3>1
      <3>3. At(k) \in [C -> V] /\ Right(At(k), k)
        BY <1>3, <3>2
      <3>4. Right(w, k)
        <4>1. n \in Nat
          OBVIOUS
        <4>2. ASSUME NEW a \in C, D[a] < k PROVE D[a] < n
          <5>1. D[a] \in Nat
            OBVIOUS
          <5> HIDE DEF k, n
          <5> QED
            BY <3>2, <4>1, <4>2, <5>1
        <4> HIDE DEF k, n, w
        <4> QED
          BY <2>1, <4>2
      <3> HIDE DEF k, w, n
      <3>5. At(k)[d] = w[d]
        BY <1>2, <2>1, <3>1, <3>2, <3>3, <3>4
      <3> QED
        BY <3>1, <3>5 DEF k
    <2> HIDE DEF n, w
    <2>3. G[<<W, c>>] = G[<<w, c>>]
      <3> HIDE DEF W
      <3> QED
        BY <1>4, <2>1, <2>2
    <2>4. W[c] = w[c]
      BY DEF w, n
    <2>5. w[c] = G[<<w, c>>]
      BY <2>1
    <2> QED
      BY <2>3, <2>4, <2>5
  <1> HIDE DEF W
  <1> QED
    BY <1>4, <1>5 DEF Solves

-----------------------------------------------------------------------------
(* What _when answers, from what it answers for the nested conditions *)

Verdicts == {"yes", "no", "raise"}

LEMMA PartsIs ==
  ASSUME NEW c \in Conditions
  PROVE  /\ Parts(c) \in SUBSET Conditions
         /\ \A d \in Parts(c) : Nesting[d] < Nesting[c]
         /\ \A i \in DOMAIN c : c[i].key # "field" => \A k \in DOMAIN c[i].of : c[i].of[k] \in Parts(c)
         /\ \A d \in Parts(c) : \E i \in DOMAIN c : c[i].key # "field" /\ \E k \in DOMAIN c[i].of : d = c[i].of[k]
  <1>1. ASSUME NEW d \in Parts(c)
        PROVE  \E i \in DOMAIN c : c[i].key # "field" /\ \E k \in DOMAIN c[i].of : d = c[i].of[k]
    BY DEF Parts, ToSet
  <1>2. ASSUME NEW i \in DOMAIN c, c[i].key # "field", NEW k \in DOMAIN c[i].of
        PROVE  c[i].of[k] \in Parts(c)
    BY <1>2 DEF Parts, ToSet
  <1>3. ASSUME NEW d \in Parts(c) PROVE d \in Conditions /\ Nesting[d] < Nesting[c]
    BY <1>1, ConditionsAssumption
  <1> QED
    BY <1>1, <1>2, <1>3

\* The clauses a condition may have.
LEMMA ClauseIs ==
  ASSUME NEW c \in Conditions, NEW i \in DOMAIN c
  PROVE  \/ c[i].key = "field" /\ c[i].op \in Comparisons
         \/ /\ c[i].key \in {"all", "any"} /\ Len(c[i].of) \in Nat /\ DOMAIN c[i].of = 1 .. Len(c[i].of)
            /\ \A k \in DOMAIN c[i].of : c[i].of[k] \in Parts(c)
         \/ /\ c[i].key = "not" /\ 1 \in DOMAIN c[i].of /\ DOMAIN c[i].of = {1}
            /\ c[i].of[1] \in Parts(c)
  <1>1. CASE c[i].key = "field"
    BY <1>1, ConditionsAssumption
  <1>2. CASE c[i].key # "field"
    <2>1. /\ c[i].key \in {"all", "any", "not"} /\ Len(c[i].of) \in Nat /\ DOMAIN c[i].of = 1 .. Len(c[i].of)
          /\ c[i].key = "not" => Len(c[i].of) = 1
      BY <1>2, ConditionsAssumption
    <2>2. \A k \in DOMAIN c[i].of : c[i].of[k] \in Parts(c)
      BY <1>2, PartsIs
    <2>3. c[i].key = "not" => DOMAIN c[i].of = {1}
      <3>1. 1 .. 1 = {1}
        OBVIOUS
      <3> QED
        BY <2>1, <3>1
    <2> QED
      BY <2>1, <2>2, <2>3
  <1> QED
    BY <1>1, <1>2

\* FirstOther gives the verdict asked about, or one of the others.
LEMMA FirstOtherIs ==
  ASSUME NEW n \in Nat, NEW vs, DOMAIN vs = 1 .. n, NEW v
  PROVE  \/ FirstOther(vs, v) = v /\ \A i \in DOMAIN vs : vs[i] = v
         \/ FirstOther(vs, v) # v /\ \E i \in DOMAIN vs : vs[i] = FirstOther(vs, v)
  <1> DEFINE other == {i \in DOMAIN vs : vs[i] # v}
             first == CHOOSE i \in other : \A j \in other : i <= j
  <1>1. CASE other = {}
    BY <1>1 DEF FirstOther
  <1>2. CASE other # {}
    <2>1. other \subseteq Nat
      OBVIOUS
    <2>2. \E i \in other : \A j \in other : i <= j
      <3> HIDE DEF other
      <3> QED
        BY <1>2, <2>1, Least
    <2>3. first \in other
      <3> HIDE DEF other
      <3> QED
        BY <2>2
    <2>4. FirstOther(vs, v) = vs[first]
      BY <1>2 DEF FirstOther
    <2> HIDE DEF first
    <2> QED
      BY <2>3, <2>4
  <1> QED
    BY <1>1, <1>2

LEMMA FieldTyped ==
  ASSUME NEW clause, clause.op \in Comparisons, NEW facts PROVE FieldVerdict(clause, facts) \in Verdicts
  <1> DEFINE x == Get(facts, clause.path)
             e == EqualVerdict(clause.path, x, clause.value)
  <1>1. e \in Verdicts /\ Negate(e) \in Verdicts
    BY DEF EqualVerdict, Negate, Verdict, Verdicts
  <1> HIDE DEF x
  <1> QED
    BY <1>1 DEF FieldVerdict, Comparisons, Order, Verdict, Verdicts, x

\* The verdict of a condition, when those nested in it have the verdicts w.
Step(w, c, facts) == FirstOther([i \in DOMAIN c |-> ClauseVerdict(c[i], w, facts)], "yes")

LEMMA ClauseTyped ==
  ASSUME NEW facts, NEW c \in Conditions, NEW i \in DOMAIN c, NEW w, \A d \in Parts(c) : w[d] \in Verdicts
  PROVE  ClauseVerdict(c[i], w, facts) \in Verdicts
  <1> DEFINE vs == [k \in DOMAIN c[i].of |-> w[c[i].of[k]]]
  <1>1. CASE c[i].key = "field" /\ c[i].op \in Comparisons
    BY <1>1, FieldTyped DEF ClauseVerdict
  <1>2. ASSUME c[i].key \in {"all", "any"}, Len(c[i].of) \in Nat, DOMAIN c[i].of = 1 .. Len(c[i].of),
               \A k \in DOMAIN c[i].of : c[i].of[k] \in Parts(c)
        PROVE  ClauseVerdict(c[i], w, facts) \in Verdicts
    <2>1. DOMAIN vs = 1 .. Len(c[i].of) /\ \A k \in DOMAIN vs : vs[k] \in Verdicts
      BY <1>2
    <2> HIDE DEF vs
    <2>2. FirstOther(vs, "yes") \in Verdicts /\ FirstOther(vs, "no") \in Verdicts
      BY <1>2, <2>1, FirstOtherIs DEF Verdicts
    <2> QED
      BY <1>2, <2>2 DEF ClauseVerdict, vs
  <1>3. CASE c[i].key = "not" /\ c[i].of[1] \in Parts(c)
    BY <1>3 DEF ClauseVerdict, Negate, Verdict, Verdicts
  <1> QED
    BY <1>1, <1>2, <1>3, ClauseIs

LEMMA StepTyped ==
  ASSUME NEW facts, NEW c \in Conditions, NEW w, \A d \in Parts(c) : w[d] \in Verdicts
  PROVE  Step(w, c, facts) \in Verdicts
  <1> DEFINE vs == [i \in DOMAIN c |-> ClauseVerdict(c[i], w, facts)]
  <1>1. Len(c) \in Nat /\ DOMAIN c = 1 .. Len(c)
    BY ConditionsAssumption
  <1>2. \A i \in DOMAIN c : vs[i] \in Verdicts
    BY ClauseTyped
  <1>3. DOMAIN vs = DOMAIN c
    OBVIOUS
  <1> HIDE DEF vs
  <1>4. FirstOther(vs, "yes") \in Verdicts
    BY <1>1, <1>2, <1>3, FirstOtherIs DEF Verdicts
  <1> QED
    BY <1>4 DEF Step, vs

\* Only the verdicts of the parts count.
LEMMA StepLooksAtParts ==
  ASSUME NEW facts, NEW c \in Conditions, NEW u, NEW w, \A d \in Parts(c) : u[d] = w[d]
  PROVE  Step(u, c, facts) = Step(w, c, facts)
  <1>1. ASSUME NEW i \in DOMAIN c PROVE ClauseVerdict(c[i], u, facts) = ClauseVerdict(c[i], w, facts)
    <2>1. CASE c[i].key = "field"
      BY <2>1 DEF ClauseVerdict
    <2>2. CASE c[i].key # "field" /\ c[i].key # "not"
      <3>1. [k \in DOMAIN c[i].of |-> u[c[i].of[k]]] = [k \in DOMAIN c[i].of |-> w[c[i].of[k]]]
        BY <2>2, PartsIs
      <3>2. c[i].key \in {"all", "any"}
        BY <2>2, ClauseIs
      <3> QED
        BY <3>1, <3>2 DEF ClauseVerdict
    <2>3. CASE c[i].key = "not"
      <3>1. u[c[i].of[1]] = w[c[i].of[1]]
        BY <2>3, ClauseIs
      <3> QED
        BY <2>3, <3>1 DEF ClauseVerdict
    <2> QED
      BY <2>1, <2>2, <2>3
  <1> QED
    BY <1>1 DEF Step

\* The answers for all conditions.
Answers(facts) == [c \in Conditions |-> When(c, facts)]

\* _when answers for every condition, by its clauses and the answers for the nested ones.
LEMMA WhenIs ==
  ASSUME NEW facts
  PROVE  /\ Answers(facts) \in [Conditions -> Verdicts]
         /\ \A c \in Conditions : When(c, facts) = Step(Answers(facts), c, facts)
  <1> DEFINE G == [x \in [Conditions -> Verdicts] \X Conditions |-> Step(x[1], x[2], facts)]
             P == [c \in Conditions |-> Parts(c)]
             IsTable(u) == u = [c \in Conditions |-> Step(u, c, facts)]
             t == CHOOSE u : IsTable(u)
  <1>1. \E w : Solves(w, Conditions, Verdicts, G)
    <2>1. P \in [Conditions -> SUBSET Conditions] /\ \A c \in Conditions : \A d \in P[c] : Nesting[d] < Nesting[c]
      BY PartsIs
    <2>2. G \in [[Conditions -> Verdicts] \X Conditions -> Verdicts]
      <3>1. ASSUME NEW w \in [Conditions -> Verdicts], NEW c \in Conditions PROVE Step(w, c, facts) \in Verdicts
        BY PartsIs, StepTyped
      <3> QED
        BY <3>1
    <2>3. ASSUME NEW u \in [Conditions -> Verdicts], NEW w \in [Conditions -> Verdicts],
                 NEW c \in Conditions, \A d \in P[c] : u[d] = w[d]
          PROVE  G[<<u, c>>] = G[<<w, c>>]
      <3>1. Step(u, c, facts) = Step(w, c, facts)
        BY <2>3, StepLooksAtParts
      <3> QED
        BY <3>1
    <2>4. Verdicts # {} /\ Nesting \in [Conditions -> Nat]
      BY ConditionsAssumption DEF Verdicts
    <2> HIDE DEF G, P
    <2>5. \A u, v \in [Conditions -> Verdicts] : \A c \in Conditions :
            (\A d \in P[c] : u[d] = v[d]) => G[<<u, c>>] = G[<<v, c>>]
      BY <2>3
    <2>6. FromParts(Conditions, Verdicts, Nesting, P, G)
      BY <2>1, <2>2, <2>4, <2>5 DEF FromParts
    <2> QED
      BY <2>6, Recursion
  <1>2. PICK w \in [Conditions -> Verdicts] : \A c \in Conditions : w[c] = Step(w, c, facts)
    <2>1. PICK w : Solves(w, Conditions, Verdicts, G)
      <3> HIDE DEF G
      <3> QED
        BY <1>1
    <2>2. w \in [Conditions -> Verdicts] /\ \A c \in Conditions : w[c] = G[<<w, c>>]
      <3> HIDE DEF G
      <3> QED
        BY <2>1 DEF Solves
    <2> QED
      BY <2>2
  <1>3. IsTable(w)
    BY <1>2
  <1>4. IsTable(t)
    <2> HIDE DEF IsTable
    <2> QED
      BY <1>3
  <1>5. \A c \in Conditions : When(c, facts) = t[c]
    BY DEF When, Step
  <1> HIDE DEF t
  <1>6. t = Answers(facts)
    BY <1>4, <1>5 DEF Answers
  <1>7. ASSUME NEW c \in Conditions PROVE t[c] \in Verdicts
    <2> DEFINE Bad == {d \in Conditions : t[d] \notin Verdicts}
    <2> SUFFICES ASSUME Bad # {} PROVE FALSE
      OBVIOUS
    <2>1. PICK b \in Bad : \A d \in Bad : Nesting[b] <= Nesting[d]
      <3>1. Bad \subseteq Conditions /\ Nesting \in [Conditions -> Nat]
        BY ConditionsAssumption
      <3> HIDE DEF Bad
      <3> QED
        BY <3>1, Shallowest
    <2>2. ASSUME NEW d \in Parts(b) PROVE t[d] \in Verdicts
      <3>1. d \in Conditions /\ Nesting[d] < Nesting[b]
        BY PartsIs
      <3>2. Nesting[d] \in Nat /\ Nesting[b] \in Nat
        BY <3>1, ConditionsAssumption
      <3>3. d \notin Bad
        <4> HIDE DEF Bad
        <4> QED
          BY <2>1, <3>1, <3>2
      <3> QED
        BY <3>1, <3>3
    <2>3. Step(t, b, facts) \in Verdicts
      BY <2>2, StepTyped
    <2>4. t[b] = Step(t, b, facts)
      BY <1>4
    <2> QED
      BY <2>3, <2>4
  <1>8. t \in [Conditions -> Verdicts]
    BY <1>4, <1>7
  <1>9. \A c \in Conditions : When(c, facts) = Step(t, c, facts)
    BY <1>4, <1>5
  <1> QED
    BY <1>6, <1>8, <1>9

\* How _when puts the verdicts of the clauses together, and those of nested conditions.
LEMMA ClausesSettle ==
  ASSUME NEW facts, NEW c \in Conditions
  PROVE  /\ When(c, facts) \in Verdicts
         /\ When(c, facts) = "yes" => \A i \in DOMAIN c : ClauseVerdict(c[i], Answers(facts), facts) = "yes"
         /\ When(c, facts) # "yes" =>
              \E i \in DOMAIN c : ClauseVerdict(c[i], Answers(facts), facts) = When(c, facts)
  <1> DEFINE vs == [i \in DOMAIN c |-> ClauseVerdict(c[i], Answers(facts), facts)]
  <1>1. Len(c) \in Nat /\ DOMAIN c = 1 .. Len(c) /\ DOMAIN vs = DOMAIN c
    BY ConditionsAssumption
  <1>2. \A i \in DOMAIN c : vs[i] = ClauseVerdict(c[i], Answers(facts), facts)
    OBVIOUS
  <1>3. When(c, facts) = FirstOther(vs, "yes")
    BY WhenIs DEF Step
  <1>4. When(c, facts) \in Verdicts
    BY WhenIs DEF Answers
  <1> HIDE DEF vs
  <1> QED
    BY <1>1, <1>2, <1>3, <1>4, FirstOtherIs

LEMMA PartsSettle ==
  ASSUME NEW facts, NEW c \in Conditions, NEW i \in DOMAIN c,
         Len(c[i].of) \in Nat, DOMAIN c[i].of = 1 .. Len(c[i].of),
         \A k \in DOMAIN c[i].of : c[i].of[k] \in Parts(c),
         NEW v, NEW u, v = FirstOther([k \in DOMAIN c[i].of |-> Answers(facts)[c[i].of[k]]], u)
  PROVE  /\ v = u => \A d \in ToSet(c[i].of) : When(d, facts) = u
         /\ v # u => \E d \in ToSet(c[i].of) : When(d, facts) = v
  <1> DEFINE vs == [k \in DOMAIN c[i].of |-> Answers(facts)[c[i].of[k]]]
  <1>1. \A k \in DOMAIN c[i].of : vs[k] = When(c[i].of[k], facts)
    BY PartsIs DEF Answers
  <1>2. DOMAIN vs = 1 .. Len(c[i].of)
    OBVIOUS
  <1>3. v = FirstOther(vs, u)
    OBVIOUS
  <1> HIDE DEF vs
  <1>4. v = u => \A k \in DOMAIN c[i].of : When(c[i].of[k], facts) = u
    BY <1>1, <1>2, <1>3, FirstOtherIs
  <1>5. ASSUME v # u PROVE \E k \in DOMAIN c[i].of : When(c[i].of[k], facts) = v
    <2>1. PICK k \in DOMAIN vs : vs[k] = v
      BY <1>2, <1>3, <1>5, FirstOtherIs
    <2> QED
      BY <1>1, <1>2, <2>1
  <1> QED
    BY <1>4, <1>5 DEF ToSet

\* The verdict of a clause, from the answers for the conditions directly in it.
LEMMA ClauseSettles ==
  ASSUME NEW facts, NEW c \in Conditions, NEW i \in DOMAIN c,
         NEW v, v = ClauseVerdict(c[i], Answers(facts), facts)
  PROVE  \/ c[i].key = "field" /\ c[i].op \in Comparisons /\ v = FieldVerdict(c[i], facts)
         \/ /\ c[i].key = "all" /\ ToSet(c[i].of) \subseteq Parts(c)
            /\ v = "yes" => \A d \in ToSet(c[i].of) : When(d, facts) = "yes"
            /\ v # "yes" => \E d \in ToSet(c[i].of) : When(d, facts) = v
         \/ /\ c[i].key = "any" /\ ToSet(c[i].of) \subseteq Parts(c)
            /\ v = "no" => \A d \in ToSet(c[i].of) : When(d, facts) = "no"
            /\ v # "no" => \E d \in ToSet(c[i].of) : When(d, facts) = v
         \/ /\ c[i].key = "not" /\ c[i].of[1] \in Parts(c)
            /\ v = Negate(When(c[i].of[1], facts))
  <1>1. CASE c[i].key = "field" /\ c[i].op \in Comparisons
    BY <1>1 DEF ClauseVerdict
  <1>2. ASSUME c[i].key \in {"all", "any"}, Len(c[i].of) \in Nat, DOMAIN c[i].of = 1 .. Len(c[i].of),
               \A k \in DOMAIN c[i].of : c[i].of[k] \in Parts(c)
        PROVE  \/ /\ c[i].key = "all" /\ ToSet(c[i].of) \subseteq Parts(c)
                  /\ v = "yes" => \A d \in ToSet(c[i].of) : When(d, facts) = "yes"
                  /\ v # "yes" => \E d \in ToSet(c[i].of) : When(d, facts) = v
               \/ /\ c[i].key = "any" /\ ToSet(c[i].of) \subseteq Parts(c)
                  /\ v = "no" => \A d \in ToSet(c[i].of) : When(d, facts) = "no"
                  /\ v # "no" => \E d \in ToSet(c[i].of) : When(d, facts) = v
    <2>1. ToSet(c[i].of) \subseteq Parts(c)
      BY <1>2 DEF ToSet
    <2>2. CASE c[i].key = "all"
      <3>1. v = FirstOther([k \in DOMAIN c[i].of |-> Answers(facts)[c[i].of[k]]], "yes")
        BY <2>2 DEF ClauseVerdict
      <3> QED
        BY <1>2, <2>1, <2>2, <3>1, PartsSettle
    <2>3. CASE c[i].key = "any"
      <3>1. v = FirstOther([k \in DOMAIN c[i].of |-> Answers(facts)[c[i].of[k]]], "no")
        BY <2>3 DEF ClauseVerdict
      <3> QED
        BY <1>2, <2>1, <2>3, <3>1, PartsSettle
    <2> QED
      BY <1>2, <2>2, <2>3
  <1>3. CASE c[i].key = "not" /\ c[i].of[1] \in Parts(c)
    <2>1. Answers(facts)[c[i].of[1]] = When(c[i].of[1], facts)
      BY <1>3, PartsIs DEF Answers
    <2> QED
      BY <1>3, <2>1 DEF ClauseVerdict
  <1> QED
    BY <1>1, <1>2, <1>3, ClauseIs

-----------------------------------------------------------------------------
(* The other definitions by recursion *)

\* The meanings of all conditions.
Readings(facts) == [c \in Conditions |-> Meaning(c, facts)]

Means(m, c, facts) == Both({ClauseMeaning(clause, m, facts) : clause \in ToSet(c)})

LEMMA ReadsParts ==
  ASSUME NEW facts, NEW c \in Conditions, NEW u, NEW w, \A d \in Parts(c) : u[d] = w[d]
  PROVE  Means(u, c, facts) = Means(w, c, facts)
  <1>1. ASSUME NEW i \in DOMAIN c PROVE ClauseMeaning(c[i], u, facts) = ClauseMeaning(c[i], w, facts)
    <2>1. CASE c[i].key = "field"
      BY <2>1 DEF ClauseMeaning
    <2>2. CASE c[i].key \in {"all", "any"}
      <3>1. \A d \in ToSet(c[i].of) : u[d] = w[d]
        BY <2>2, PartsIs DEF ToSet
      <3>2. {u[d] : d \in ToSet(c[i].of)} = {w[d] : d \in ToSet(c[i].of)}
        BY <3>1
      <3> QED
        BY <2>2, <3>2 DEF ClauseMeaning
    <2>3. CASE c[i].key = "not" /\ c[i].of[1] \in Parts(c)
      <3>1. u[c[i].of[1]] = w[c[i].of[1]]
        BY <2>3
      <3> QED
        BY <2>3, <3>1 DEF ClauseMeaning
    <2> QED
      BY <2>1, <2>2, <2>3, ClauseIs
  <1>2. \A clause \in ToSet(c) : ClauseMeaning(clause, u, facts) = ClauseMeaning(clause, w, facts)
    BY <1>1 DEF ToSet
  <1>3. {ClauseMeaning(clause, u, facts) : clause \in ToSet(c)} = {ClauseMeaning(clause, w, facts) : clause \in ToSet(c)}
    BY <1>2
  <1> QED
    BY <1>3 DEF Means

LEMMA MeaningIs ==
  ASSUME NEW facts
  PROVE  \A c \in Conditions : Meaning(c, facts) = Means(Readings(facts), c, facts)
  <1> DEFINE G == [x \in [Conditions -> Verdicts] \X Conditions |-> Means(x[1], x[2], facts)]
             P == [c \in Conditions |-> Parts(c)]
             IsTable(u) == u = [c \in Conditions |-> Means(u, c, facts)]
             t == CHOOSE u : IsTable(u)
  <1>1. \E w : Solves(w, Conditions, Verdicts, G)
    <2>1. P \in [Conditions -> SUBSET Conditions] /\ \A c \in Conditions : \A d \in P[c] : Nesting[d] < Nesting[c]
      BY PartsIs
    <2>2. G \in [[Conditions -> Verdicts] \X Conditions -> Verdicts]
      <3>1. ASSUME NEW w \in [Conditions -> Verdicts], NEW c \in Conditions PROVE Means(w, c, facts) \in Verdicts
        BY DEF Means, Both, Verdicts
      <3> QED
        BY <3>1
    <2>3. ASSUME NEW u \in [Conditions -> Verdicts], NEW w \in [Conditions -> Verdicts],
                 NEW c \in Conditions, \A d \in P[c] : u[d] = w[d]
          PROVE  G[<<u, c>>] = G[<<w, c>>]
      <3>1. Means(u, c, facts) = Means(w, c, facts)
        BY <2>3, ReadsParts
      <3> QED
        BY <3>1
    <2>4. Verdicts # {} /\ Nesting \in [Conditions -> Nat]
      BY ConditionsAssumption DEF Verdicts
    <2> HIDE DEF G, P
    <2>5. \A u, v \in [Conditions -> Verdicts] : \A c \in Conditions :
            (\A d \in P[c] : u[d] = v[d]) => G[<<u, c>>] = G[<<v, c>>]
      BY <2>3
    <2>6. FromParts(Conditions, Verdicts, Nesting, P, G)
      BY <2>1, <2>2, <2>4, <2>5 DEF FromParts
    <2> QED
      BY <2>6, Recursion
  <1>2. PICK w \in [Conditions -> Verdicts] : \A c \in Conditions : w[c] = Means(w, c, facts)
    <2>1. PICK w : Solves(w, Conditions, Verdicts, G)
      <3> HIDE DEF G
      <3> QED
        BY <1>1
    <2>2. w \in [Conditions -> Verdicts] /\ \A c \in Conditions : w[c] = G[<<w, c>>]
      <3> HIDE DEF G
      <3> QED
        BY <2>1 DEF Solves
    <2> QED
      BY <2>2
  <1>3. IsTable(w)
    BY <1>2
  <1>4. IsTable(t)
    <2> HIDE DEF IsTable
    <2> QED
      BY <1>3
  <1>5. \A c \in Conditions : Meaning(c, facts) = t[c]
    BY DEF Meaning, Means
  <1> HIDE DEF t
  <1>6. t = Readings(facts)
    BY <1>4, <1>5 DEF Readings
  <1>7. \A c \in Conditions : Meaning(c, facts) = Means(t, c, facts)
    BY <1>4, <1>5
  <1> QED
    BY <1>6, <1>7

\* A condition's clauses are its own and those of the conditions nested in it.
LEMMA ClausesAre ==
  ASSUME NEW c \in Conditions
  PROVE  /\ \A i \in DOMAIN c : c[i] \in Clauses(c)
         /\ \A d \in Parts(c) : Clauses(d) \subseteq Clauses(c)
  <1> DEFINE V == SUBSET Conditions
             All(u, b) == {b} \cup (UNION {u[d] : d \in Parts(b)})
             G == [x \in [Conditions -> V] \X Conditions |-> All(x[1], x[2])]
             P == [b \in Conditions |-> Parts(b)]
             IsTable(u) == u = [b \in Conditions |-> All(u, b)]
  <1>1. \E w : Solves(w, Conditions, V, G)
    <2>1. P \in [Conditions -> SUBSET Conditions] /\ \A b \in Conditions : \A d \in P[b] : Nesting[d] < Nesting[b]
      BY PartsIs
    <2>2. G \in [[Conditions -> V] \X Conditions -> V]
      <3>1. ASSUME NEW w \in [Conditions -> V], NEW b \in Conditions PROVE All(w, b) \in V
        BY PartsIs
      <3> HIDE DEF V, All
      <3> QED
        BY <3>1
    <2>3. ASSUME NEW u \in [Conditions -> V], NEW w \in [Conditions -> V],
                 NEW b \in Conditions, \A d \in P[b] : u[d] = w[d]
          PROVE  G[<<u, b>>] = G[<<w, b>>]
      <3>1. \A d \in Parts(b) : u[d] = w[d]
        BY <2>3
      <3>2. {u[d] : d \in Parts(b)} = {w[d] : d \in Parts(b)}
        BY <3>1
      <3>3. All(u, b) = All(w, b)
        BY <3>2
      <3> HIDE DEF V, All
      <3> QED
        BY <3>3
    <2>4. V # {} /\ Nesting \in [Conditions -> Nat]
      BY ConditionsAssumption
    <2> HIDE DEF G, P, V
    <2>5. \A u, v \in [Conditions -> V] : \A b \in Conditions :
            (\A d \in P[b] : u[d] = v[d]) => G[<<u, b>>] = G[<<v, b>>]
      BY <2>3
    <2>6. FromParts(Conditions, V, Nesting, P, G)
      BY <2>1, <2>2, <2>4, <2>5 DEF FromParts
    <2> QED
      BY <2>6, Recursion
  <1>2. PICK w \in [Conditions -> V] : \A b \in Conditions : w[b] = All(w, b)
    <2>1. PICK w : Solves(w, Conditions, V, G)
      <3> HIDE DEF G, V
      <3> QED
        BY <1>1
    <2>2. w \in [Conditions -> V] /\ \A b \in Conditions : w[b] = G[<<w, b>>]
      <3> HIDE DEF G, V
      <3> QED
        BY <2>1 DEF Solves
    <2> HIDE DEF V, All
    <2> QED
      BY <2>2
  <1>3. IsTable(w)
    <2> HIDE DEF V, All
    <2> QED
      BY <1>2
  <1>4. IsTable(Inside)
    <2>1. Inside = CHOOSE u : IsTable(u)
      BY DEF Inside
    <2> HIDE DEF IsTable
    <2> QED
      BY <1>3, <2>1
  <1>5. Inside[c] = {c} \cup (UNION {Inside[d] : d \in Parts(c)})
    BY <1>4
  <1>6. ASSUME NEW i \in DOMAIN c PROVE c[i] \in Clauses(c)
    BY <1>5 DEF Clauses, ToSet
  <1>7. ASSUME NEW d \in Parts(c) PROVE Clauses(d) \subseteq Clauses(c)
    <2>1. Inside[d] \subseteq Inside[c]
      BY <1>5
    <2> QED
      BY <2>1 DEF Clauses
  <1> QED
    BY <1>6, <1>7

\* A validated condition has validated clauses, and validated conditions in them.
LEMMA ValidIs ==
  ASSUME NEW c \in Conditions, NEW n \in Nat, ValidAt[<<c, n>>]
  PROVE  /\ \A i \in DOMAIN c : c[i].key = "field" => ValidField(c[i])
         /\ \A d \in Parts(c) : ValidAt[<<d, n + 1>>]
  <1> DEFINE C == Conditions \X Nat
             Allows(u, x) == /\ x[2] <= MaxDepth
                             /\ \A clause \in ToSet(x[1]) :
                                  IF clause.key = "field" THEN ValidField(clause)
                                  ELSE clause.of # << >> /\ \A b \in ToSet(clause.of) : u[<<b, x[2] + 1>>]
             D == [x \in C |-> Nesting[x[1]]]
             P == [x \in C |-> {<<d, x[2] + 1>> : d \in Parts(x[1])}]
             G == [x \in [C -> BOOLEAN] \X C |-> Allows(x[1], x[2])]
             IsTable(u) == u = [x \in C |-> Allows(u, x)]
  <1>1. \E w : Solves(w, C, BOOLEAN, G)
    <2>1. ASSUME NEW x \in C, NEW y \in P[x]
          PROVE  y \in C /\ D[y] < D[x]
      <3>1. PICK d \in Parts(x[1]) : y = <<d, x[2] + 1>>
        OBVIOUS
      <3>2. x[1] \in Conditions /\ x[2] \in Nat
        OBVIOUS
      <3>3. d \in Conditions /\ Nesting[d] < Nesting[x[1]] /\ x[2] + 1 \in Nat
        BY <3>2, PartsIs
      <3> QED
        BY <3>1, <3>3
    <2>2. G \in [[C -> BOOLEAN] \X C -> BOOLEAN]
      OBVIOUS
    <2>3. ASSUME NEW u \in [C -> BOOLEAN], NEW w \in [C -> BOOLEAN], NEW x \in C, \A y \in P[x] : u[y] = w[y]
          PROVE  G[<<u, x>>] = G[<<w, x>>]
      <3>1. x[1] \in Conditions /\ x[2] \in Nat
        OBVIOUS
      <3>2. \A d \in Parts(x[1]) : u[<<d, x[2] + 1>>] = w[<<d, x[2] + 1>>]
        BY <2>3
      <3>3. \A clause \in ToSet(x[1]) : clause.key # "field" => ToSet(clause.of) \subseteq Parts(x[1])
        BY DEF Parts
      <3> HIDE DEF C, P
      <3>4. Allows(u, x) <=> Allows(w, x)
        BY <3>2, <3>3
      <3> QED
        BY <3>4
    <2>4. BOOLEAN # {} /\ D \in [C -> Nat]
      BY ConditionsAssumption
    <2>5. P \in [C -> SUBSET C]
      <3>1. \A x \in C : P[x] \subseteq C
        BY <2>1
      <3> QED
        BY <3>1
    <2> HIDE DEF G, P, D, C
    <2>6. \A u, v \in [C -> BOOLEAN] : \A x \in C : (\A y \in P[x] : u[y] = v[y]) => G[<<u, x>>] = G[<<v, x>>]
      BY <2>3
    <2>7. FromParts(C, BOOLEAN, D, P, G)
      BY <2>1, <2>2, <2>4, <2>5, <2>6 DEF FromParts
    <2> QED
      BY <2>7, Recursion
  <1>2. \E w : IsTable(w)
    <2>1. PICK w : Solves(w, C, BOOLEAN, G)
      <3> HIDE DEF G, C
      <3> QED
        BY <1>1
    <2>2. w \in [C -> BOOLEAN] /\ \A x \in C : w[x] = G[<<w, x>>]
      <3> HIDE DEF G, C
      <3> QED
        BY <2>1 DEF Solves
    <2>3. \A x \in C : w[x] = Allows(w, x)
      <3> HIDE DEF C, Allows
      <3> QED
        BY <2>2
    <2> HIDE DEF C, Allows
    <2> QED
      BY <2>2, <2>3
  <1>3. IsTable(ValidAt)
    <2>1. ValidAt = CHOOSE u : IsTable(u)
      BY DEF ValidAt
    <2> HIDE DEF IsTable
    <2> QED
      BY <1>2, <2>1
  <1>4. Allows(ValidAt, <<c, n>>)
    <2>1. <<c, n>> \in C
      OBVIOUS
    <2> HIDE DEF C, Allows
    <2> QED
      BY <1>3, <2>1
  <1>5. \A clause \in ToSet(c) : IF clause.key = "field" THEN ValidField(clause)
                                 ELSE \A b \in ToSet(clause.of) : ValidAt[<<b, n + 1>>]
    BY <1>4
  <1>6. \A i \in DOMAIN c : c[i].key = "field" => ValidField(c[i])
    BY <1>5 DEF ToSet
  <1>7. ASSUME NEW d \in Parts(c) PROVE ValidAt[<<d, n + 1>>]
    BY <1>5 DEF Parts
  <1> QED
    BY <1>6, <1>7

-----------------------------------------------------------------------------
(* What ConditionsFailClosed says *)

\* The answers agree with the three-valued reading, by the least nested that does not.
LEMMA AnswersAgree ==
  ASSUME NEW facts PROVE \A c \in Conditions : AnswersMeaning(c, facts)
  <1> DEFINE Bad == {c \in Conditions : ~AnswersMeaning(c, facts)}
  <1> SUFFICES ASSUME Bad # {} PROVE FALSE
    OBVIOUS
  <1>1. PICK c \in Bad : \A d \in Bad : Nesting[c] <= Nesting[d]
    <2>1. Bad \subseteq Conditions /\ Nesting \in [Conditions -> Nat]
      BY ConditionsAssumption
    <2> HIDE DEF Bad
    <2> QED
      BY <2>1, Shallowest
  <1>2. c \in Conditions /\ ~AnswersMeaning(c, facts)
    OBVIOUS
  <1>3. ASSUME NEW d \in Parts(c)
        PROVE  /\ When(d, facts) = "raise" => \E l \in Fields(c) : FieldVerdict(l, facts) = "raise"
               /\ When(d, facts) # "raise" => When(d, facts) = Readings(facts)[d]
    <2>1. d \in Conditions /\ Nesting[d] < Nesting[c]
      BY <1>2, PartsIs
    <2>2. Nesting[d] \in Nat /\ Nesting[c] \in Nat
      BY <1>2, <2>1, ConditionsAssumption
    <2>3. d \notin Bad
      <3> HIDE DEF Bad
      <3> QED
        BY <1>1, <2>1, <2>2
    <2>4. AnswersMeaning(d, facts)
      BY <2>1, <2>3
    <2>5. Fields(d) \subseteq Fields(c)
      BY <1>2, ClausesAre DEF Fields
    <2> QED
      BY <2>1, <2>4, <2>5 DEF AnswersMeaning, Readings
  <1> HIDE DEF Bad
  <1>4. ASSUME NEW i \in DOMAIN c, NEW v, v = ClauseVerdict(c[i], Answers(facts), facts)
        PROVE  /\ v = "raise" => \E l \in Fields(c) : FieldVerdict(l, facts) = "raise"
               /\ v # "raise" => v = ClauseMeaning(c[i], Readings(facts), facts)
    <2>0. \A d \in Parts(c) : When(d, facts) \in Verdicts
      BY <1>2, PartsIs, ClausesSettle
    <2>1. CASE c[i].key = "field" /\ v = FieldVerdict(c[i], facts)
      <3>1. c[i] \in Fields(c)
        BY <1>2, <2>1, ClausesAre DEF Fields
      <3> QED
        BY <2>1, <3>1 DEF ClauseMeaning
    <2>2. ASSUME c[i].key = "all", ToSet(c[i].of) \subseteq Parts(c),
                 v = "yes" => \A d \in ToSet(c[i].of) : When(d, facts) = "yes",
                 v # "yes" => \E d \in ToSet(c[i].of) : When(d, facts) = v
          PROVE  /\ v = "raise" => \E l \in Fields(c) : FieldVerdict(l, facts) = "raise"
                 /\ v # "raise" => v = ClauseMeaning(c[i], Readings(facts), facts)
      <3> DEFINE S == {Readings(facts)[d] : d \in ToSet(c[i].of)}
      <3>1. v \in Verdicts
        BY <2>0, <2>2 DEF Verdicts
      <3>2. v = "yes" => S \subseteq {"yes"}
        BY <1>3, <2>2
      <3>3. v = "no" => "no" \in S
        BY <1>3, <2>2
      <3>4. v = "raise" => \E l \in Fields(c) : FieldVerdict(l, facts) = "raise"
        BY <1>3, <2>2
      <3>5. ClauseMeaning(c[i], Readings(facts), facts) = Both(S)
        BY <2>2 DEF ClauseMeaning
      <3> HIDE DEF S
      <3>6. v # "raise" => v = Both(S)
        BY <3>1, <3>2, <3>3 DEF Both, Verdicts
      <3> QED
        BY <3>4, <3>5, <3>6
    <2>3. ASSUME c[i].key = "any", ToSet(c[i].of) \subseteq Parts(c),
                 v = "no" => \A d \in ToSet(c[i].of) : When(d, facts) = "no",
                 v # "no" => \E d \in ToSet(c[i].of) : When(d, facts) = v
          PROVE  /\ v = "raise" => \E l \in Fields(c) : FieldVerdict(l, facts) = "raise"
                 /\ v # "raise" => v = ClauseMeaning(c[i], Readings(facts), facts)
      <3> DEFINE S == {Readings(facts)[d] : d \in ToSet(c[i].of)}
      <3>1. v \in Verdicts
        BY <2>0, <2>3 DEF Verdicts
      <3>2. v = "no" => S \subseteq {"no"}
        BY <1>3, <2>3
      <3>3. v = "yes" => "yes" \in S
        BY <1>3, <2>3
      <3>4. v = "raise" => \E l \in Fields(c) : FieldVerdict(l, facts) = "raise"
        BY <1>3, <2>3
      <3>5. ClauseMeaning(c[i], Readings(facts), facts) = Either(S)
        BY <2>3 DEF ClauseMeaning
      <3> HIDE DEF S
      <3>6. v # "raise" => v = Either(S)
        BY <3>1, <3>2, <3>3 DEF Either, Verdicts
      <3> QED
        BY <3>4, <3>5, <3>6
    <2>4. CASE c[i].key = "not" /\ c[i].of[1] \in Parts(c) /\ v = Negate(When(c[i].of[1], facts))
      <3>1. ClauseMeaning(c[i], Readings(facts), facts) = Opposite(Readings(facts)[c[i].of[1]])
        BY <2>4 DEF ClauseMeaning
      <3>2. When(c[i].of[1], facts) \in Verdicts
        BY <2>0, <2>4
      <3> QED
        BY <1>3, <2>4, <3>1, <3>2 DEF Negate, Opposite, Verdict, Verdicts
    <2> QED
      BY <1>2, <1>4, <2>1, <2>2, <2>3, <2>4, ClauseSettles
  <1> DEFINE S == {ClauseMeaning(clause, Readings(facts), facts) : clause \in ToSet(c)}
  <1>5. \A i \in DOMAIN c : ClauseMeaning(c[i], Readings(facts), facts) \in S
    BY DEF ToSet
  <1>6. ASSUME NEW s \in S PROVE \E i \in DOMAIN c : s = ClauseMeaning(c[i], Readings(facts), facts)
    BY DEF ToSet
  <1>7. Meaning(c, facts) = Both(S)
    BY <1>2, MeaningIs DEF Means
  <1> HIDE DEF S
  <1>8. CASE When(c, facts) = "raise"
    <2>1. PICK i \in DOMAIN c : ClauseVerdict(c[i], Answers(facts), facts) = "raise"
      BY <1>2, <1>8, ClausesSettle
    <2>2. \E l \in Fields(c) : FieldVerdict(l, facts) = "raise"
      BY <1>4, <2>1
    <2> QED
      BY <1>2, <1>8, <2>2 DEF AnswersMeaning
  <1>9. CASE When(c, facts) = "yes"
    <2>1. \A i \in DOMAIN c : ClauseVerdict(c[i], Answers(facts), facts) = "yes"
      BY <1>2, <1>9, ClausesSettle
    <2>2. \A s \in S : s = "yes"
      BY <1>4, <1>6, <2>1
    <2>3. Both(S) = "yes"
      BY <2>2 DEF Both
    <2> QED
      BY <1>2, <1>7, <1>9, <2>3 DEF AnswersMeaning
  <1>10. CASE When(c, facts) = "no"
    <2>1. PICK i \in DOMAIN c : ClauseVerdict(c[i], Answers(facts), facts) = "no"
      BY <1>2, <1>10, ClausesSettle
    <2>2. "no" \in S
      BY <1>4, <1>5, <2>1
    <2>3. Both(S) = "no"
      BY <2>2 DEF Both
    <2> QED
      BY <1>2, <1>7, <1>10, <2>3 DEF AnswersMeaning
  <1> QED
    BY <1>2, <1>8, <1>9, <1>10, ClausesSettle DEF Verdicts

\* A comparison that is not "exists: false" does not say yes only because a fact is missing.
LEMMA FieldNeverOpens ==
  ASSUME NEW f, NEW p \in DOMAIN f, NEW clause, clause.op \in Comparisons,
         ~(clause.op = "exists" /\ clause.value.v = FALSE),
         FieldVerdict(clause, Forget(f, p)) = "yes"
  PROVE  FieldVerdict(clause, f) # "no"
  <1>1. CASE clause.path # p
    <2>1. Get(Forget(f, p), clause.path) = Get(f, clause.path)
      BY <1>1 DEF Get, Forget
    <2> QED
      BY <2>1 DEF FieldVerdict
  <1>2. CASE clause.path = p
    <2>1. Get(Forget(f, p), clause.path) = Missing
      BY <1>2 DEF Get, Forget
    <2>2. clause.op # "exists" => FieldVerdict(clause, Forget(f, p)) = "no"
      BY <2>1 DEF FieldVerdict, Comparisons, Order
    <2>3. clause.op = "exists" => clause.value.v = FALSE
      BY <2>1 DEF FieldVerdict, Verdict
    <2> QED
      BY <2>2, <2>3
  <1> QED
    BY <1>1, <1>2

LEMMA PositiveParts ==
  ASSUME NEW c \in Conditions, Positive(c)
  PROVE  /\ \A d \in Parts(c) : Positive(d)
         /\ \A i \in DOMAIN c : /\ c[i].key # "not"
                                /\ c[i].key = "field" => ~(c[i].op = "exists" /\ c[i].value.v = FALSE)
  BY ClausesAre DEF Positive

LEMMA NothingOpens ==
  ASSUME NEW f PROVE \A c \in Conditions : MissingNeverOpens(c, f)
  <1> SUFFICES ASSUME NEW p \in DOMAIN f
               PROVE  \A c \in Conditions : Positive(c) /\ When(c, Forget(f, p)) = "yes" => When(c, f) # "no"
    BY DEF MissingNeverOpens
  <1> DEFINE g == Forget(f, p)
             Opens(c) == Positive(c) /\ When(c, g) = "yes" /\ When(c, f) = "no"
             Bad == {c \in Conditions : Opens(c)}
  <1> SUFFICES ASSUME Bad # {} PROVE FALSE
    OBVIOUS
  <1>1. PICK c \in Bad : \A d \in Bad : Nesting[c] <= Nesting[d]
    <2>1. Bad \subseteq Conditions /\ Nesting \in [Conditions -> Nat]
      BY ConditionsAssumption
    <2> HIDE DEF Bad
    <2> QED
      BY <2>1, Shallowest
  <1>2. c \in Conditions /\ Opens(c)
    OBVIOUS
  <1>3. ASSUME NEW d \in Parts(c), When(d, g) = "yes" PROVE When(d, f) # "no"
    <2>1. d \in Conditions /\ Nesting[d] < Nesting[c] /\ Positive(d)
      BY <1>2, PartsIs, PositiveParts
    <2>2. Nesting[d] \in Nat /\ Nesting[c] \in Nat
      BY <1>2, <2>1, ConditionsAssumption
    <2>3. d \notin Bad
      <3> HIDE DEF Bad
      <3> QED
        BY <1>1, <2>1, <2>2
    <2> QED
      BY <1>3, <2>1, <2>3
  <1> HIDE DEF Bad, g
  <1>4. PICK i \in DOMAIN c : ClauseVerdict(c[i], Answers(f), f) = "no"
    BY <1>2, ClausesSettle
  <1>5. ClauseVerdict(c[i], Answers(g), g) = "yes"
    BY <1>2, ClausesSettle
  <1>6. CASE c[i].key = "field"
    <2>1. c[i].op \in Comparisons
      BY <1>2, <1>6, ClauseIs
    <2>2. FieldVerdict(c[i], f) = "no" /\ FieldVerdict(c[i], g) = "yes"
      BY <1>4, <1>5, <1>6 DEF ClauseVerdict
    <2>3. ~(c[i].op = "exists" /\ c[i].value.v = FALSE)
      BY <1>2, <1>6, PositiveParts
    <2> QED
      BY <2>1, <2>2, <2>3, FieldNeverOpens DEF g
  <1>7. CASE c[i].key = "all"
    <2>1. ToSet(c[i].of) \subseteq Parts(c) /\ \E d \in ToSet(c[i].of) : When(d, f) = "no"
      BY <1>2, <1>4, <1>7, ClauseSettles
    <2>2. \A d \in ToSet(c[i].of) : When(d, g) = "yes"
      BY <1>2, <1>5, <1>7, ClauseSettles
    <2> QED
      BY <1>3, <2>1, <2>2
  <1>8. CASE c[i].key = "any"
    <2>1. ToSet(c[i].of) \subseteq Parts(c) /\ \A d \in ToSet(c[i].of) : When(d, f) = "no"
      BY <1>2, <1>4, <1>8, ClauseSettles
    <2>2. \E d \in ToSet(c[i].of) : When(d, g) = "yes"
      BY <1>2, <1>5, <1>8, ClauseSettles
    <2> QED
      BY <1>3, <2>1, <2>2
  <1> QED
    BY <1>2, <1>6, <1>7, <1>8, ClauseIs, PositiveParts

\* Why a validated comparison raises.
LEMMA FieldRaises ==
  ASSUME NEW f, NEW l, l.op \in Comparisons, ValidField(l), FieldVerdict(l, f) = "raise"
  PROVE  /\ l.path \in DOMAIN f
         /\ l.path = "amount" \/ l.op = "contains" \/ ~Numeric(Get(f, l.path))
  <1> DEFINE x == Get(f, l.path)
  <1>1. \A b : Verdict(b) # "raise"
    BY DEF Verdict
  <1>2. l.op # "exists" /\ x # Missing
    <2>1. CASE l.op = "exists"
      <3>1. FieldVerdict(l, f) \in {"yes", "no"}
        BY <2>1 DEF FieldVerdict, Verdict, Order
      <3> QED
        BY <3>1
    <2>2. CASE l.op # "exists" /\ x = Missing
      <3>1. FieldVerdict(l, f) = "no"
        BY <2>2 DEF FieldVerdict, Comparisons, Order
      <3> QED
        BY <3>1
    <2> QED
      BY <2>1, <2>2
  <1>3. l.path \in DOMAIN f
    BY <1>2 DEF Get
  <1>4. CASE l.op \in Order
    <2>1. Numeric(l.value)
      BY <1>4 DEF ValidField
    <2>2. FieldVerdict(l, f) =
            IF Numeric(x) /\ Numeric(l.value) THEN Verdict(Compares(l.op, Decimal(x), Decimal(l.value))) ELSE "raise"
      BY <1>2, <1>4 DEF FieldVerdict, Order
    <2> HIDE DEF x
    <2>3. ~Numeric(x)
      BY <1>1, <2>1, <2>2
    <2> QED
      BY <1>3, <2>3 DEF x
  <1>5. CASE l.op \in {"eq", "ne"}
    <2>1. EqualVerdict(l.path, x, l.value) = "raise"
      BY <1>1, <1>2, <1>5 DEF FieldVerdict, Order, Negate
    <2>2. l.path = "amount"
      BY <1>1, <2>1 DEF EqualVerdict
    <2> QED
      BY <1>3, <2>2
  <1>6. CASE l.op \in {"in", "not_in"}
    BY <1>1, <1>2, <1>6 DEF FieldVerdict, Order
  <1>7. CASE l.op = "contains"
    BY <1>3, <1>7
  <1> QED
    BY <1>2, <1>4, <1>5, <1>6, <1>7 DEF Comparisons, Order

\* The facts on which a validated condition raises.
FactsRaise(c, f) ==
  \E l \in Fields(c) : /\ l.path \in DOMAIN f
                       /\ l.path = "amount" \/ l.op = "contains" \/ ~Numeric(Get(f, l.path))

LEMMA OnlyFactsRaise ==
  ASSUME NEW f
  PROVE  \A c \in Conditions : ValidRaisesOnFacts(c, f)
  <1> DEFINE Raising(c) == When(c, f) = "raise" /\ (\E n \in Nat : ValidAt[<<c, n>>]) /\ ~FactsRaise(c, f)
             Bad == {c \in Conditions : Raising(c)}
  <1>1. ASSUME Bad # {} PROVE FALSE
    <2>1. PICK c \in Bad : \A d \in Bad : Nesting[c] <= Nesting[d]
      <3>1. Bad \subseteq Conditions /\ Nesting \in [Conditions -> Nat]
        BY ConditionsAssumption
      <3> HIDE DEF Bad
      <3> QED
        BY <1>1, <3>1, Shallowest
    <2>2. c \in Conditions /\ When(c, f) = "raise" /\ ~FactsRaise(c, f)
      OBVIOUS
    <2>3. PICK n \in Nat : ValidAt[<<c, n>>]
      OBVIOUS
    <2>4. ASSUME NEW d \in Parts(c) PROVE When(d, f) # "raise"
      <3>1. d \in Conditions /\ Nesting[d] < Nesting[c]
        BY <2>2, PartsIs
      <3>2. Nesting[d] \in Nat /\ Nesting[c] \in Nat
        BY <2>2, <3>1, ConditionsAssumption
      <3>3. d \notin Bad
        <4> HIDE DEF Bad
        <4> QED
          BY <2>1, <3>1, <3>2
      <3>4. ValidAt[<<d, n + 1>>] /\ n + 1 \in Nat
        BY <2>2, <2>3, ValidIs
      <3>5. Fields(d) \subseteq Fields(c)
        BY <2>2, ClausesAre DEF Fields
      <3>6. ~FactsRaise(d, f)
        BY <2>2, <3>5 DEF FactsRaise
      <3> QED
        BY <3>1, <3>3, <3>4, <3>6
    <2> HIDE DEF Bad
    <2>5. PICK i \in DOMAIN c : ClauseVerdict(c[i], Answers(f), f) = "raise"
      BY <2>2, ClausesSettle
    <2>6. CASE c[i].key = "field"
      <3>1. c[i].op \in Comparisons /\ FieldVerdict(c[i], f) = "raise"
        BY <2>2, <2>5, <2>6, ClauseIs DEF ClauseVerdict
      <3>2. ValidField(c[i])
        BY <2>2, <2>3, <2>6, ValidIs
      <3>3. c[i] \in Fields(c)
        BY <2>2, <2>6, ClausesAre DEF Fields
      <3> QED
        BY <2>2, <3>1, <3>2, <3>3, FieldRaises DEF FactsRaise
    <2>7. CASE c[i].key \in {"all", "any"}
      <3>1. ToSet(c[i].of) \subseteq Parts(c) /\ \E d \in ToSet(c[i].of) : When(d, f) = "raise"
        BY <2>2, <2>5, <2>7, ClauseSettles
      <3> QED
        BY <2>4, <3>1
    <2>8. CASE c[i].key = "not"
      <3>1. c[i].of[1] \in Parts(c) /\ Negate(When(c[i].of[1], f)) = "raise"
        BY <2>2, <2>5, <2>8, ClauseSettles
      <3>2. When(c[i].of[1], f) = "raise"
        BY <3>1 DEF Negate, Verdict
      <3> QED
        BY <2>4, <3>1, <3>2
    <2> QED
      BY <2>2, <2>6, <2>7, <2>8, ClauseIs
  <1>2. ASSUME NEW c \in Conditions PROVE ValidRaisesOnFacts(c, f)
    <2>1. ~Raising(c)
      BY <1>1
    <2>2. 0 \in Nat
      OBVIOUS
    <2> QED
      BY <2>1, <2>2 DEF ValidRaisesOnFacts, Valid, FactsRaise
  <1> QED
    BY <1>2

-----------------------------------------------------------------------------
(* The sort *)

USE PolicyAssumption

\* What the policies of one moment are evaluated from.
Snapshot(rows, docs, then) ==
  /\ DOMAIN rows \subseteq Policies
  /\ DOMAIN docs = DOMAIN rows
  /\ DOMAIN then = DOMAIN rows
  /\ \A p \in DOMAIN rows :
       /\ docs[p] = then[p].document /\ docs[p] \in Documents
       /\ rows[p].priority = then[p].priority /\ rows[p].priority \in Int

LEMMA Severities ==
  /\ Severity("allow") = 1 /\ Severity("require_approval") = 2 /\ Severity("deny") = 3
  /\ \A a : Severity(a) \in 0 .. 3
  /\ \A a : Severity(a) > 0 <=> a \in Terminal
  /\ \A a \in {"warn", "redact", "rate_limit"} : Severity(a) = 0 /\ a # "constraints"
  BY DEF Severity, Terminal

\* A match is a rule of a policy.
LEMMA MatchIs ==
  ASSUME NEW docs, NEW facts, NEW m
  PROVE  m \in Matches(docs, facts) <=>
           \E p \in DOMAIN docs : \E i \in DOMAIN docs[p].rules :
             m = <<p, i>> /\ InScope(docs[p], facts) = "yes" /\ When(docs[p].rules[i].when, facts) = "yes"
  <1>1. ASSUME m \in Matches(docs, facts)
        PROVE  \E p \in DOMAIN docs : \E i \in DOMAIN docs[p].rules :
                 m = <<p, i>> /\ InScope(docs[p], facts) = "yes" /\ When(docs[p].rules[i].when, facts) = "yes"
    <2>1. PICK p \in DOMAIN docs : m \in MatchesOf(p, docs[p], facts)
      BY <1>1 DEF Matches
    <2> QED
      BY <2>1 DEF MatchesOf
  <1>2. ASSUME NEW p \in DOMAIN docs, NEW i \in DOMAIN docs[p].rules, m = <<p, i>>,
               InScope(docs[p], facts) = "yes", When(docs[p].rules[i].when, facts) = "yes"
        PROVE  m \in Matches(docs, facts)
    <2>1. m \in MatchesOf(p, docs[p], facts)
      BY <1>2 DEF MatchesOf
    <2> QED
      BY <2>1 DEF Matches
  <1> QED
    BY <1>1, <1>2

\* The policies that say something are those with a rule that matches.
LEMMA SayIs ==
  ASSUME NEW rows, NEW docs, NEW then, NEW facts, Snapshot(rows, docs, then), NEW action, NEW p
  PROVE  p \in Say(then, facts, action) <=>
           \E m \in Matches(docs, facts) : m[1] = p /\ Rule(docs, m).action = action
  <1>1. ASSUME p \in Say(then, facts, action)
        PROVE  \E m \in Matches(docs, facts) : m[1] = p /\ Rule(docs, m).action = action
    <2>1. p \in DOMAIN docs /\ docs[p] = then[p].document /\ InScope(docs[p], facts) = "yes"
      BY <1>1 DEF Say, Speaking, Snapshot
    <2>2. PICK i \in DOMAIN docs[p].rules :
            docs[p].rules[i].action = action /\ When(docs[p].rules[i].when, facts) = "yes"
      BY <1>1, <2>1 DEF Say
    <2>3. <<p, i>> \in Matches(docs, facts)
      BY <2>1, <2>2, MatchIs
    <2>4. <<p, i>>[1] = p /\ <<p, i>>[2] = i
      OBVIOUS
    <2> QED
      BY <2>2, <2>3, <2>4 DEF Rule
  <1>2. ASSUME NEW m \in Matches(docs, facts), m[1] = p, Rule(docs, m).action = action
        PROVE  p \in Say(then, facts, action)
    <2>1. PICK q \in DOMAIN docs : \E i \in DOMAIN docs[q].rules :
             m = <<q, i>> /\ InScope(docs[q], facts) = "yes" /\ When(docs[q].rules[i].when, facts) = "yes"
      BY MatchIs
    <2>2. PICK i \in DOMAIN docs[q].rules :
             m = <<q, i>> /\ InScope(docs[q], facts) = "yes" /\ When(docs[q].rules[i].when, facts) = "yes"
      BY <2>1
    <2>3. q = p /\ docs[p].rules[i].action = action
      BY <1>2, <2>2 DEF Rule
    <2>4. p \in DOMAIN then /\ docs[p] = then[p].document
      BY <2>3 DEF Snapshot
    <2> QED
      BY <2>2, <2>3, <2>4 DEF Say, Speaking
  <1> QED
    BY <1>1, <1>2

LEMMA TerminalsFinite ==
  ASSUME NEW rows, NEW docs, NEW then, NEW facts, Snapshot(rows, docs, then)
  PROVE  IsFiniteSet(Terminals(docs, facts))
  <1> DEFINE D == DOMAIN docs
             pieces == {MatchesOf(p, docs[p], facts) : p \in D}
  <1>1. IsFiniteSet(D)
    BY FS_Subset DEF Snapshot
  <1>2. IsFiniteSet(pieces)
    <2>1. [p \in D |-> MatchesOf(p, docs[p], facts)] \in Surjection(D, pieces)
      BY DEF Surjection
    <2> HIDE DEF pieces
    <2> QED
      BY <1>1, <2>1, FS_Surjection
  <1>3. ASSUME NEW p \in D PROVE IsFiniteSet(MatchesOf(p, docs[p], facts))
    <2>1. docs[p] \in Documents
      BY DEF Snapshot
    <2>2. Len(docs[p].rules) \in Int /\ DOMAIN docs[p].rules = 1 .. Len(docs[p].rules) /\ 1 \in Int
      BY <2>1
    <2>3. IsFiniteSet(DOMAIN docs[p].rules)
      BY <2>2, FS_Interval
    <2>4. IsFiniteSet({p})
      BY FS_Singleton
    <2>5. IsFiniteSet({p} \X DOMAIN docs[p].rules)
      BY <2>3, <2>4, FS_Product
    <2>6. MatchesOf(p, docs[p], facts) \in SUBSET ({p} \X DOMAIN docs[p].rules)
      BY DEF MatchesOf
    <2> QED
      BY <2>5, <2>6, FS_Subset
  <1>4. IsFiniteSet(UNION pieces)
    <2>1. \A T \in pieces : IsFiniteSet(T)
      BY <1>3
    <2> HIDE DEF pieces
    <2> QED
      BY <1>2, <2>1, FS_UNION
  <1>5. Terminals(docs, facts) \in SUBSET (UNION pieces)
    BY DEF Terminals, Matches
  <1> QED
    BY <1>4, <1>5, FS_Subset

\* The terms of the sort key.
LEMMA Keys ==
  ASSUME NEW rows, NEW docs, NEW then, NEW facts, Snapshot(rows, docs, then),
         NEW m \in Terminals(docs, facts)
  PROVE  /\ m[1] \in DOMAIN docs /\ m[1] \in Nat \ {0} /\ m[2] \in Nat
         /\ rows[m[1]].priority \in Int
         /\ Severity(Rule(docs, m).action) \in 1 .. 3
         /\ Rule(docs, m).action \in Terminal
         /\ m \in Matches(docs, facts)
  <1>1. m \in Matches(docs, facts) /\ Severity(Rule(docs, m).action) > 0
    BY DEF Terminals
  <1>2. PICK p \in DOMAIN docs : \E i \in DOMAIN docs[p].rules : m = <<p, i>>
    BY <1>1, MatchIs
  <1>3. PICK i \in DOMAIN docs[p].rules : m = <<p, i>>
    BY <1>2
  <1>4. m[1] = p /\ m[2] = i
    BY <1>3
  <1>5. p \in Policies /\ p \in DOMAIN rows /\ docs[p] \in Documents
    BY DEF Snapshot
  <1>6. i \in Nat /\ p \in Nat \ {0}
    <2>1. DOMAIN docs[p].rules = 1 .. Len(docs[p].rules) /\ Len(docs[p].rules) \in Nat
      BY <1>5
    <2>2. Policies \subseteq Nat \ {0}
      OBVIOUS
    <2>3. i \in Nat
      BY <2>1
    <2> QED
      BY <1>5, <2>2, <2>3
  <1>7. rows[p].priority \in Int
    BY <1>5 DEF Snapshot
  <1>8. Severity(Rule(docs, m).action) \in 0 .. 3 /\ Rule(docs, m).action \in Terminal
    BY <1>1, Severities
  <1> QED
    BY <1>1, <1>4, <1>6, <1>7, <1>8

\* The sort has a first rule, if any rule with an action that decides matches.
LEMMA WinnerIs ==
  ASSUME NEW rows, NEW docs, NEW then, NEW facts, Snapshot(rows, docs, then), Terminals(docs, facts) # {}
  PROVE  /\ Winner(rows, docs, facts) \in Terminals(docs, facts)
         /\ \A n \in Terminals(docs, facts) : Before(Winner(rows, docs, facts), n, rows, docs)
  <1> DEFINE T == Terminals(docs, facts)
             R == {mn \in T \X T : Before(mn[1], mn[2], rows, docs)}
  <1>1. \A m, n \in T : <<m, n>> \in R <=> Before(m, n, rows, docs)
    OBVIOUS
  <1>2. \A m \in T : /\ m[1] \in Nat /\ m[2] \in Nat /\ rows[m[1]].priority \in Int
                     /\ Severity(Rule(docs, m).action) \in Int
    BY Keys
  <1> HIDE DEF T, R
  <1>3. \A m, n \in T : Before(m, n, rows, docs) \/ Before(n, m, rows, docs)
    BY <1>2 DEF Before
  <1>4. \A l, m, n \in T : Before(l, m, rows, docs) /\ Before(m, n, rows, docs) => Before(l, n, rows, docs)
    BY <1>2 DEF Before
  <1>5. IsFiniteSet(T) /\ T # {}
    BY TerminalsFinite DEF T
  <1>6. \E m \in T : \A n \in T : <<m, n>> \in R
    BY <1>1, <1>3, <1>4, <1>5, FirstOf
  <1>7. \E m \in T : \A n \in T : Before(m, n, rows, docs)
    BY <1>1, <1>6
  <1> QED
    BY <1>7 DEF Winner, T

-----------------------------------------------------------------------------
(* evaluate *)

\* The obligations of an answer that did not fail are what the policies say besides.
LEMMA DutiesSay ==
  ASSUME NEW rows, NEW docs, NEW then, NEW facts, Snapshot(rows, docs, then),
         NEW a \in {"warn", "redact", "rate_limit"}
  PROVE  /\ Say(then, facts, a) \subseteq DOMAIN then
         /\ \A p \in DOMAIN then : <<a, p>> \in Duties(docs, facts) <=> p \in Say(then, facts, a)
  <1>1. ASSUME NEW p \in DOMAIN then, <<a, p>> \in Duties(docs, facts)
        PROVE  p \in Say(then, facts, a)
    <2>1. PICK m \in Matches(docs, facts) : <<a, p>> = <<Rule(docs, m).action, m[1]>>
      BY <1>1 DEF Duties
    <2>2. m[1] = p /\ Rule(docs, m).action = a
      BY <2>1
    <2> QED
      BY <2>2, SayIs
  <1>2. ASSUME NEW p \in Say(then, facts, a)
        PROVE  p \in DOMAIN then /\ <<a, p>> \in Duties(docs, facts)
    <2>1. PICK m \in Matches(docs, facts) : m[1] = p /\ Rule(docs, m).action = a
      BY SayIs
    <2>2. m \notin Terminals(docs, facts)
      BY <2>1, Severities DEF Terminals
    <2> QED
      BY <2>1, <2>2 DEF Duties, Say, Speaking
  <1> QED
    BY <1>1, <1>2

\* What evaluate answers follows from the policies it is given, and names one of them
\* with the version it was given.
LEMMA EvaluateRight ==
  ASSUME NEW rows, NEW docs, NEW then, NEW facts, Snapshot(rows, docs, then),
         NEW answer, answer = Evaluate(rows, docs, facts)
  PROVE  /\ Follows(answer, then, facts)
         /\ answer.policy # 0 =>
              answer.policy \in DOMAIN rows /\ answer.version = rows[answer.policy].current
  <1> DEFINE raised == \E p \in DOMAIN then : Raises(then[p].document, facts)
             says(action) == Top(then, facts, action) # {}
  <1>1. raised <=> \E p \in DOMAIN docs : Raises(docs[p], facts)
    BY DEF Snapshot
  <1>2. CASE raised
    <2>1. answer = Denied
      BY <1>1, <1>2 DEF Evaluate
    <2>2. answer.policy = 0 /\ answer.decision = "deny"
      BY <2>1 DEF Denied
    <2> QED
      BY <1>2, <2>2 DEF Follows
  <1>3. CASE ~raised /\ Terminals(docs, facts) = {}
    <2>1. answer = [Denied EXCEPT !.obligations = Duties(docs, facts)]
      BY <1>1, <1>3 DEF Evaluate
    <2>2. answer.policy = 0 /\ answer.decision = "deny" /\ answer.obligations = Duties(docs, facts)
      BY <2>1 DEF Denied
    <2>3. \A a \in Terminal : Say(then, facts, a) = {}
      <3>1. ASSUME NEW a \in Terminal, NEW p \in Say(then, facts, a) PROVE FALSE
        <4>1. PICK m \in Matches(docs, facts) : m[1] = p /\ Rule(docs, m).action = a
          BY SayIs
        <4> QED
          BY <1>3, <4>1, Severities DEF Terminals
      <3> QED
        BY <3>1
    <2>4. ~says("allow") /\ ~says("require_approval") /\ ~says("deny")
      BY <2>3 DEF Top, Terminal
    <2>5. \A a \in {"warn", "redact", "rate_limit"} :
            {p \in DOMAIN then : <<a, p>> \in answer.obligations} = Say(then, facts, a)
      BY <2>2, DutiesSay
    <2> QED
      BY <2>2, <2>3, <2>4, <2>5 DEF Follows
  <1>4. CASE ~raised /\ Terminals(docs, facts) # {}
    <2> DEFINE w == Winner(rows, docs, facts)
               a == Rule(docs, w).action
               p == w[1]
    <2>1. answer = Chosen(rows, docs, w, Duties(docs, facts))
      BY <1>1, <1>4 DEF Evaluate
    <2>2. /\ answer.decision = a /\ answer.policy = p /\ answer.version = rows[p].current
          /\ answer.obligations = Duties(docs, facts) \cup Constraints(docs, w)
      BY <2>1 DEF Chosen
    <2>3. w \in Terminals(docs, facts) /\ \A n \in Terminals(docs, facts) : Before(w, n, rows, docs)
      BY <1>4, WinnerIs
    <2> HIDE DEF w
    <2>4. /\ p \in DOMAIN docs /\ p \in Nat \ {0} /\ rows[p].priority \in Int
          /\ Severity(a) \in 1 .. 3 /\ a \in Terminal /\ w \in Matches(docs, facts)
      BY <2>3, Keys
    <2>5. p \in Say(then, facts, a)
      BY <2>4, SayIs
    <2>6. ASSUME NEW b \in Terminal, NEW q \in Say(then, facts, b)
          PROVE  /\ q \in DOMAIN docs /\ q \in Nat
                 /\ then[q].priority \in Int /\ then[p].priority \in Int
                 /\ \/ then[q].priority < then[p].priority
                    \/ /\ then[q].priority = then[p].priority
                       /\ Severity(b) < Severity(a) \/ (Severity(b) = Severity(a) /\ p <= q)
      <3>1. PICK n \in Matches(docs, facts) : n[1] = q /\ Rule(docs, n).action = b
        BY SayIs
      <3>2. n \in Terminals(docs, facts)
        BY <3>1, Severities DEF Terminals
      <3>3. /\ q \in DOMAIN docs /\ q \in Nat /\ rows[q].priority \in Int /\ Severity(b) \in Int
        BY <3>1, <3>2, Keys
      <3>4. Before(w, n, rows, docs)
        BY <2>3, <3>2
      <3>5. \/ rows[q].priority < rows[p].priority
            \/ /\ rows[q].priority = rows[p].priority
               /\ Severity(b) < Severity(a) \/ (Severity(b) = Severity(a) /\ p <= q)
        BY <2>4, <3>1, <3>3, <3>4 DEF Before
      <3>6. rows[q].priority = then[q].priority /\ rows[p].priority = then[p].priority
        BY <2>4, <3>3 DEF Snapshot
      <3> QED
        BY <2>4, <3>3, <3>5, <3>6
    <2> HIDE DEF a, p
    <2>7. p \in Top(then, facts, a)
      BY <2>5, <2>6 DEF Top
    <2>8. ASSUME NEW b \in Terminal, NEW q \in Top(then, facts, b)
          PROVE  Severity(b) <= Severity(a) /\ (b = a => p <= q)
      <3>1. q \in Say(then, facts, b) /\ then[p].priority <= then[q].priority
        BY <2>4, <2>5 DEF Top
      <3>2. Severity(b) \in Int /\ Severity(a) \in Int
        BY Severities
      <3> QED
        BY <2>6, <3>1, <3>2
    <2>9. says(a) /\ \A b \in Terminal : says(b) => Severity(b) <= Severity(a)
      BY <2>7, <2>8
    <2>10. /\ a = "allow" <=> says("allow") /\ ~says("require_approval") /\ ~says("deny")
           /\ a = "require_approval" <=> says("require_approval") /\ ~says("deny")
      <3> HIDE DEF says
      <3> QED
        BY <2>4, <2>9, Severities DEF Terminal
    <2>11. \A b \in {"warn", "redact", "rate_limit"} :
             {q \in DOMAIN then : <<b, q>> \in answer.obligations} = Say(then, facts, b)
      <3>1. ASSUME NEW b \in {"warn", "redact", "rate_limit"} PROVE \A q : <<b, q>> \notin Constraints(docs, w)
        BY DEF Constraints
      <3> QED
        BY <2>2, <3>1, DutiesSay
    <2>12. p \in DOMAIN rows
      BY <2>4 DEF Snapshot
    <2> QED
      BY <1>4, <2>2, <2>4, <2>7, <2>8, <2>10, <2>11, <2>12 DEF Follows
  <1> QED
    BY <1>2, <1>3, <1>4

-----------------------------------------------------------------------------
(* Edits and readers *)

Row == [exists : BOOLEAN, priority : Int, scope : Scopes, enabled : BOOLEAN, current : Nat]

\* A row points to a version that is there.
PoliciesOK ==
  /\ policy \in [Policies -> Row]
  /\ version \in [Policies -> Seq(Documents)]
  /\ \A p \in Policies :
       IF policy[p].exists THEN policy[p].current \in 1 .. Len(version[p]) ELSE version[p] = << >>

\* The versions of the policies a reader has read rows of are still there, and what it has
\* of their documents is what they were.
ReadingOK(x, v) ==
  x.at = "reading" =>
    /\ DOMAIN x = {"at", "facts", "rows", "todo", "docs", "then"}
    /\ DOMAIN x.rows \subseteq Policies /\ x.todo \subseteq DOMAIN x.rows
    /\ DOMAIN x.then = DOMAIN x.rows
    /\ DOMAIN x.docs = DOMAIN x.rows \ x.todo
    /\ \A p \in DOMAIN x.rows :
         /\ x.rows[p].priority \in Int /\ x.then[p].priority = x.rows[p].priority
         /\ x.rows[p].current \in 1 .. Len(v[p]) /\ x.then[p].document = v[p][x.rows[p].current]
    /\ \A p \in DOMAIN x.docs : x.docs[p] = x.then[p].document

DecidedOK(x, v) ==
  x.at = "decided" =>
    /\ Follows(x.answer, x.then, x.facts)
    /\ x.answer.policy # 0 =>
         /\ x.answer.policy \in Policies
         /\ x.answer.version \in 1 .. Len(v[x.answer.policy])
         /\ x.then[x.answer.policy].document = v[x.answer.policy][x.answer.version]

ReadersOK ==
  /\ reader = [r \in Readers |-> reader[r]]
  /\ \A r \in Readers : ReadingOK(reader[r], version) /\ DecidedOK(reader[r], version)

Inv == PoliciesOK /\ ReadersOK

LEMMA InitInv == Init => Inv
  <1> SUFFICES ASSUME Init PROVE Inv
    OBVIOUS
  <1>1. Absent \in Row /\ Absent.exists = FALSE
    BY DEF Absent, Row, Scopes
  <1>2. << >> \in Seq(Documents)
    BY EmptySeq
  <1>3. PoliciesOK
    BY <1>1, <1>2 DEF Init, PoliciesOK
  <1>4. ReadersOK
    BY DEF Init, ReadersOK, ReadingOK, DecidedOK, Idle
  <1> QED
    BY <1>3, <1>4 DEF Inv

\* Versions are only added.
Grows(v, w) == \A p \in Policies : Len(v[p]) <= Len(w[p]) /\ \A i \in 1 .. Len(v[p]) : w[p][i] = v[p][i]

LEMMA GrowsKeeps ==
  ASSUME NEW v \in [Policies -> Seq(Documents)], NEW w \in [Policies -> Seq(Documents)], Grows(v, w), NEW x
  PROVE  /\ ReadingOK(x, v) => ReadingOK(x, w)
         /\ DecidedOK(x, v) => DecidedOK(x, w)
  <1>1. \A p \in Policies : Len(v[p]) \in Nat /\ Len(w[p]) \in Nat
    BY LenProperties
  <1>2. ASSUME NEW p \in Policies, NEW i \in 1 .. Len(v[p]) PROVE i \in 1 .. Len(w[p]) /\ w[p][i] = v[p][i]
    BY <1>1 DEF Grows
  <1>3. ReadingOK(x, v) => ReadingOK(x, w)
    <2>1. SUFFICES ASSUME ReadingOK(x, v), x.at = "reading" PROVE ReadingOK(x, w)
      BY DEF ReadingOK
    <2>2. ASSUME NEW p \in DOMAIN x.rows
          PROVE  x.rows[p].current \in 1 .. Len(w[p]) /\ x.then[p].document = w[p][x.rows[p].current]
      <3>1. p \in Policies /\ x.rows[p].current \in 1 .. Len(v[p]) /\ x.then[p].document = v[p][x.rows[p].current]
        BY <2>1 DEF ReadingOK
      <3> QED
        BY <1>2, <3>1
    <2> QED
      BY <2>1, <2>2 DEF ReadingOK
  <1>4. DecidedOK(x, v) => DecidedOK(x, w)
    BY <1>2 DEF DecidedOK
  <1> QED
    BY <1>3, <1>4

LEMMA EditInv ==
  ASSUME Inv, PoliciesOK', Grows(version, version'), UNCHANGED reader PROVE Inv'
  <1>1. version \in [Policies -> Seq(Documents)] /\ version' \in [Policies -> Seq(Documents)]
    BY DEF Inv, PoliciesOK
  <1>2. \A x : /\ ReadingOK(x, version) => ReadingOK(x, version')
               /\ DecidedOK(x, version) => DecidedOK(x, version')
    BY <1>1, GrowsKeeps
  <1> QED
    BY <1>2 DEF Inv, ReadersOK

LEMMA CreateInv ==
  ASSUME Inv, NEW p \in Policies, NEW doc \in Documents, NEW priority \in Priorities, NEW scope \in Scopes,
         CreatePolicy(p, doc, priority, scope)
  PROVE  Inv'
  <1> DEFINE row == [exists |-> TRUE, priority |-> priority, scope |-> scope, enabled |-> TRUE, current |-> 1]
  <1>1. row \in Row /\ row.exists = TRUE /\ row.current = 1
    BY DEF Row
  <1>2. /\ policy' = [policy EXCEPT ![p] = row] /\ version' = [version EXCEPT ![p] = <<doc>>]
        /\ UNCHANGED reader /\ ~policy[p].exists
    BY DEF CreatePolicy
  <1> HIDE DEF row
  <1>3. <<doc>> \in Seq(Documents) /\ Len(<<doc>>) = 1
    OBVIOUS
  <1>4. version[p] = << >> /\ Len(version[p]) = 0
    BY <1>2 DEF Inv, PoliciesOK
  <1>5. version \in [Policies -> Seq(Documents)] /\ policy \in [Policies -> Row]
    BY DEF Inv, PoliciesOK
  <1>6. \A q \in Policies : q # p => policy'[q] = policy[q] /\ version'[q] = version[q]
    BY <1>2, <1>5
  <1>7. policy'[p] = row /\ version'[p] = <<doc>>
    BY <1>2, <1>5
  <1>8. PoliciesOK'
    BY <1>1, <1>2, <1>3, <1>5, <1>6, <1>7 DEF Inv, PoliciesOK
  <1>9. Grows(version, version')
    <2>1. ASSUME NEW q \in Policies
          PROVE  Len(version[q]) <= Len(version'[q]) /\ \A i \in 1 .. Len(version[q]) : version'[q][i] = version[q][i]
      <3>1. CASE q = p
        BY <1>3, <1>4, <1>7, <3>1
      <3>2. CASE q # p
        BY <1>5, <1>6, <3>2, LenProperties
      <3> QED
        BY <3>1, <3>2
    <2> QED
      BY <2>1 DEF Grows
  <1> QED
    BY <1>2, <1>8, <1>9, EditInv

LEMMA UpdateInv ==
  ASSUME Inv, NEW p \in Policies, NEW doc \in Documents, NEW priority \in Priorities, NEW scope \in Scopes,
         UpdatePolicy(p, doc, priority, scope)
  PROVE  Inv'
  <1> DEFINE row == [policy[p] EXCEPT !.priority = priority, !.scope = scope, !.current = @ + 1]
             seq == Append(version[p], doc)
  <1>1. version \in [Policies -> Seq(Documents)] /\ policy \in [Policies -> Row]
    BY DEF Inv, PoliciesOK
  <1>2. /\ policy' = [policy EXCEPT ![p] = row] /\ version' = [version EXCEPT ![p] = seq]
        /\ UNCHANGED reader /\ policy[p].exists
    BY <1>1 DEF UpdatePolicy
  <1>3. policy[p] \in Row /\ policy[p].current \in 1 .. Len(version[p])
    BY <1>1, <1>2 DEF Inv, PoliciesOK
  <1>4. row \in Row /\ row.exists = policy[p].exists /\ row.current = policy[p].current + 1
    <2>1. priority \in Int /\ policy[p].current + 1 \in Nat
      BY <1>3 DEF Row
    <2> QED
      BY <1>3, <2>1 DEF Row
  <1>5. /\ seq \in Seq(Documents) /\ Len(seq) = Len(version[p]) + 1 /\ Len(version[p]) \in Nat
        /\ \A i \in 1 .. Len(version[p]) : seq[i] = version[p][i]
    BY <1>1, AppendProperties, LenProperties
  <1> HIDE DEF row, seq
  <1>6. \A q \in Policies : q # p => policy'[q] = policy[q] /\ version'[q] = version[q]
    BY <1>1, <1>2
  <1>7. policy'[p] = row /\ version'[p] = seq
    BY <1>1, <1>2
  <1>8. row.current \in 1 .. Len(seq)
    BY <1>3, <1>4, <1>5
  <1>9. PoliciesOK'
    <2>1. policy' \in [Policies -> Row] /\ version' \in [Policies -> Seq(Documents)]
      BY <1>1, <1>2, <1>4, <1>5
    <2>2. \A q \in Policies :
            IF policy'[q].exists THEN policy'[q].current \in 1 .. Len(version'[q]) ELSE version'[q] = << >>
      BY <1>2, <1>4, <1>6, <1>7, <1>8 DEF Inv, PoliciesOK
    <2> QED
      BY <2>1, <2>2 DEF PoliciesOK
  <1>10. Grows(version, version')
    <2>1. ASSUME NEW q \in Policies
          PROVE  Len(version[q]) <= Len(version'[q]) /\ \A i \in 1 .. Len(version[q]) : version'[q][i] = version[q][i]
      <3>1. CASE q = p
        BY <1>5, <1>7, <3>1
      <3>2. CASE q # p
        BY <1>1, <1>6, <3>2, LenProperties
      <3> QED
        BY <3>1, <3>2
    <2> QED
      BY <2>1 DEF Grows
  <1> QED
    BY <1>2, <1>9, <1>10, EditInv

LEMMA StatusInv ==
  ASSUME Inv, NEW p \in Policies, NEW enabled \in BOOLEAN, PolicyStatus(p, enabled) PROVE Inv'
  <1> DEFINE row == [policy[p] EXCEPT !.enabled = enabled]
  <1>1. version \in [Policies -> Seq(Documents)] /\ policy \in [Policies -> Row]
    BY DEF Inv, PoliciesOK
  <1>2. policy' = [policy EXCEPT ![p] = row] /\ UNCHANGED <<version, reader>>
    BY <1>1 DEF PolicyStatus
  <1>3. policy[p] \in Row
    BY <1>1
  <1>4. row \in Row /\ row.exists = policy[p].exists /\ row.current = policy[p].current
    BY <1>3 DEF Row
  <1> HIDE DEF row
  <1>5. PoliciesOK'
    BY <1>1, <1>2, <1>4 DEF Inv, PoliciesOK
  <1>6. Grows(version, version')
    BY <1>1, <1>2, LenProperties DEF Grows
  <1> QED
    BY <1>2, <1>5, <1>6, EditInv

\* A step of one reader.
LEMMA ReaderInv ==
  ASSUME Inv, NEW r \in Readers, NEW x, reader' = [reader EXCEPT ![r] = x], UNCHANGED <<policy, version>>,
         ReadingOK(x, version), DecidedOK(x, version)
  PROVE  Inv'
  <1>1. PoliciesOK'
    BY DEF Inv, PoliciesOK
  <1>2. DOMAIN reader = Readers
    BY DEF Inv, ReadersOK
  <1>3. /\ reader' = [q \in Readers |-> reader'[q]]
        /\ \A q \in Readers : reader'[q] = IF q = r THEN x ELSE reader[q]
    BY <1>2
  <1>4. ReadersOK'
    BY <1>3 DEF Inv, ReadersOK
  <1> QED
    BY <1>1, <1>4 DEF Inv

LEMMA ReadPoliciesInv == ASSUME Inv, NEW r \in Readers, ReadPolicies(r) PROVE Inv'
  <1> DEFINE rows == {p \in Policies : Applies(policy[p])}
             row == [p \in rows |-> policy[p]]
             then == [p \in rows |-> [priority |-> policy[p].priority, document |-> DocumentOf(p, policy[p])]]
  <1>1. PICK facts \in Requests :
          reader' = [reader EXCEPT ![r] =
            [at |-> "reading", facts |-> facts, rows |-> row, todo |-> rows, docs |-> << >>, then |-> then]]
    BY DEF ReadPolicies
  <1> DEFINE x == [at |-> "reading", facts |-> facts, rows |-> row, todo |-> rows, docs |-> << >>, then |-> then]
  <1>2. \A p \in rows : /\ row[p] = policy[p] /\ then[p].priority = policy[p].priority
                        /\ then[p].document = version[p][policy[p].current]
                        /\ policy[p].priority \in Int /\ policy[p].current \in 1 .. Len(version[p])
    BY DEF Inv, PoliciesOK, Row, Applies, DocumentOf
  <1>3. DOMAIN row = rows /\ DOMAIN then = rows /\ rows \subseteq Policies /\ DOMAIN << >> = {}
    OBVIOUS
  <1>4. /\ x.at = "reading" /\ x.rows = row /\ x.todo = rows /\ x.docs = << >> /\ x.then = then
        /\ DOMAIN x = {"at", "facts", "rows", "todo", "docs", "then"}
    OBVIOUS
  <1>5. reader' = [reader EXCEPT ![r] = x] /\ UNCHANGED <<policy, version>>
    BY <1>1 DEF ReadPolicies
  <1> HIDE DEF x, row, then, rows
  <1>6. ReadingOK(x, version)
    BY <1>2, <1>3, <1>4 DEF ReadingOK
  <1>7. DecidedOK(x, version)
    BY <1>4 DEF DecidedOK
  <1> QED
    BY <1>5, <1>6, <1>7, ReaderInv

LEMMA ReadVersionInv == ASSUME Inv, NEW r \in Readers, NEW p \in Policies, ReadVersion(r, p) PROVE Inv'
  <1> DEFINE y == reader[r]
             doc == DocumentOf(p, y.rows[p])
             docs == With(y.docs, p, doc)
             x == [y EXCEPT !.todo = @ \ {p}, !.docs = docs]
  <1>1. ReadingOK(y, version) /\ y.at = "reading" /\ p \in y.todo
    BY DEF Inv, ReadersOK, ReadVersion
  <1>2. DOMAIN y = {"at", "facts", "rows", "todo", "docs", "then"}
    BY <1>1 DEF ReadingOK
  <1>3. reader' = [reader EXCEPT ![r] = x] /\ UNCHANGED <<policy, version>>
    <2>1. reader' = [reader EXCEPT ![r].todo = @ \ {p}, ![r].docs = With(@, p, DocumentOf(p, reader[r].rows[p]))]
          /\ UNCHANGED <<policy, version>>
      BY DEF ReadVersion
    <2>2. DOMAIN reader = Readers
      BY DEF Inv, ReadersOK
    <2>3. reader' = [reader EXCEPT ![r] = [y EXCEPT !.todo = @ \ {p}, !.docs = docs]]
      BY <2>1, <2>2
    <2> QED
      BY <2>1, <2>3
  <1>4. DOMAIN docs = DOMAIN y.docs \cup {p} /\ \A q \in DOMAIN docs : docs[q] = IF q = p THEN doc ELSE y.docs[q]
    BY DEF With
  <1>5. /\ x.at = y.at /\ x.rows = y.rows /\ x.todo = y.todo \ {p} /\ x.docs = docs /\ x.then = y.then
        /\ DOMAIN x = {"at", "facts", "rows", "todo", "docs", "then"}
    <2> HIDE DEF y, docs
    <2> QED
      BY <1>2
  <1>6. p \in DOMAIN y.rows /\ doc = y.then[p].document
    BY <1>1 DEF ReadingOK, DocumentOf
  <1> HIDE DEF x, docs, doc, y
  <1>7. ReadingOK(x, version)
    BY <1>1, <1>4, <1>5, <1>6 DEF ReadingOK
  <1>8. DecidedOK(x, version)
    BY <1>1, <1>5 DEF DecidedOK
  <1> QED
    BY <1>3, <1>7, <1>8, ReaderInv

LEMMA DecideInv == ASSUME Inv, NEW r \in Readers, Decide(r) PROVE Inv'
  <1> DEFINE y == reader[r]
             answer == Evaluate(y.rows, y.docs, y.facts)
             x == [at |-> "decided", facts |-> y.facts, then |-> y.then, answer |-> answer]
  <1>1. ReadingOK(y, version) /\ y.at = "reading" /\ y.todo = {}
    BY DEF Inv, ReadersOK, Decide
  <1>2. reader' = [reader EXCEPT ![r] = x] /\ UNCHANGED <<policy, version>>
    BY DEF Decide
  <1>3. x.at = "decided" /\ x.facts = y.facts /\ x.then = y.then /\ x.answer = answer
    OBVIOUS
  <1>4. version \in [Policies -> Seq(Documents)]
    BY DEF Inv, PoliciesOK
  <1> HIDE DEF x, y
  <1>5. Snapshot(y.rows, y.docs, y.then)
    <2>1. ASSUME NEW p \in DOMAIN y.rows PROVE y.docs[p] = y.then[p].document /\ y.docs[p] \in Documents
      <3>1. p \in Policies /\ y.rows[p].current \in 1 .. Len(version[p])
        BY <1>1, <2>1 DEF ReadingOK
      <3>2. version[p][y.rows[p].current] \in Documents
        <4>1. version[p] \in Seq(Documents)
          BY <1>4, <3>1
        <4> QED
          BY <3>1, <4>1, ElementOfSeq
      <3> QED
        BY <1>1, <2>1, <3>2 DEF ReadingOK
    <2> QED
      BY <1>1, <2>1 DEF ReadingOK, Snapshot
  <1>6. /\ Follows(answer, y.then, y.facts)
        /\ answer.policy # 0 => answer.policy \in DOMAIN y.rows /\ answer.version = y.rows[answer.policy].current
    <2> DEFINE rows == y.rows
               docs == y.docs
               then == y.then
               facts == y.facts
    <2>1. Snapshot(rows, docs, then) /\ answer = Evaluate(rows, docs, facts)
      BY <1>5
    <2> HIDE DEF rows, docs, then, facts, answer
    <2>2. /\ Follows(answer, then, facts)
          /\ answer.policy # 0 => answer.policy \in DOMAIN rows /\ answer.version = rows[answer.policy].current
      BY <2>1, EvaluateRight
    <2> QED
      BY <2>2 DEF rows, docs, then, facts
  <1> HIDE DEF answer
  <1>7. DecidedOK(x, version)
    BY <1>1, <1>3, <1>6 DEF DecidedOK, ReadingOK
  <1>8. ReadingOK(x, version)
    BY <1>3 DEF ReadingOK
  <1> QED
    BY <1>2, <1>7, <1>8, ReaderInv

LEMMA AnswerInv == ASSUME Inv, NEW r \in Readers, Answer(r) PROVE Inv'
  <1>1. ReadingOK(Idle, version) /\ DecidedOK(Idle, version)
    BY DEF ReadingOK, DecidedOK, Idle
  <1> QED
    BY <1>1, ReaderInv DEF Answer

LEMMA StepInv == Inv /\ [Next]_vars => Inv'
  <1> SUFFICES ASSUME Inv, [Next]_vars PROVE Inv'
    OBVIOUS
  <1>1. CASE Next
    BY <1>1, CreateInv, UpdateInv, StatusInv, ReadPoliciesInv, ReadVersionInv, DecideInv, AnswerInv DEF Next
  <1>2. CASE UNCHANGED vars
    BY <1>2 DEF vars, Inv, PoliciesOK, ReadersOK
  <1> QED
    BY <1>1, <1>2

\* For any policies and edits, and whatever conditions say of the facts: a decision is the
\* one that the policies gave at the moment their rows were read.
THEOREM SnapshotDecides == Spec => []DecisionFollowsSnapshot
  <1>1. Inv => DecisionFollowsSnapshot
    BY DEF Inv, ReadersOK, DecidedOK, DecisionFollowsSnapshot
  <1> QED
    BY <1>1, InitInv, StepInv, PTL DEF Spec

\* For any set of conditions, however deeply nested, and any facts: what _when answers is
\* what the three-valued reading says, an exception apart; without a negation a missing
\* fact opens nothing; and a validated condition raises only for its facts.
THEOREM ConditionsAnswer ==
  \A facts : \A c \in Conditions :
    AnswersMeaning(c, facts) /\ MissingNeverOpens(c, facts) /\ ValidRaisesOnFacts(c, facts)
  BY AnswersAgree, NothingOpens, OnlyFactsRaise

\* So whatever conditions the policies hold and whatever a request's facts are, the
\* conditions never turn a comparison that cannot be decided into a decision.
THEOREM FailClosedHolds == Spec => []ConditionsFailClosed
  <1>1. ConditionsFailClosed
    BY ConditionsAnswer DEF ConditionsFailClosed
  <1> QED
    BY <1>1, PTL
=============================================================================
