-------------------------- MODULE PolicyConditions --------------------------
(***************************************************************************)
(* The conditions of a policy (agentguard_policy): how a "when" object is    *)
(* validated when the policy is stored, and what it says of the facts of a   *)
(* request when the policy is evaluated.                                    *)
(*                                                                         *)
(* A condition is the sequence of the clauses of the object, in their order. *)
(* A clause is [key |-> "all" | "any" | "not", of |-> conditions] or a       *)
(* comparison [key |-> "field", path, op, value].  Facts are a function from *)
(* the paths that are present to values; a value is a record with a type t.  *)
(* An evaluation that raises an exception is the third verdict, "raise".     *)
(***************************************************************************)
EXTENDS Integers, Sequences, SequencesExt

CONSTANTS
  Conditions,   \* "when" objects, with those nested in them
  Nesting,      \* Nesting[c]: how deeply objects are nested in c
  FactSets,     \* facts of requests
  Numeral,      \* the number spelled by a text that spells one
  Fragments,    \* pairs of texts, the first of them part of the second
  MaxDepth      \* nesting allowed by _validate_when, 16 in the code

Missing == [t |-> "missing"]
Order == {"gt", "gte", "lt", "lte"}
Comparisons == Order \cup {"exists", "eq", "ne", "in", "not_in", "contains"}
Registry == {"agent", "tool", "team", "workspace", "organization"}

\* A condition is a finite tree, as JSON is.
ASSUME ConditionsAssumption ==
  /\ Nesting \in [Conditions -> Nat]
  /\ \A c \in Conditions :
       /\ Len(c) \in Nat /\ DOMAIN c = 1 .. Len(c)
       /\ \A i \in DOMAIN c :
            \/ c[i].key = "field" /\ c[i].op \in Comparisons
            \/ /\ c[i].key \in {"all", "any", "not"}
               /\ Len(c[i].of) \in Nat /\ DOMAIN c[i].of = 1 .. Len(c[i].of)
               /\ c[i].key = "not" => Len(c[i].of) = 1
               /\ \A k \in DOMAIN c[i].of :
                    c[i].of[k] \in Conditions /\ Nesting[c[i].of[k]] < Nesting[c]

-----------------------------------------------------------------------------
(* Values *)

\* _get: objects of the registry stand for their id, or their name without one.
Get(facts, path) ==
  IF path \notin DOMAIN facts THEN Missing
  ELSE IF facts[path].t = "object" /\ path \in Registry THEN facts[path].key
  ELSE facts[path]

\* _decimal succeeds: a finite number or a text that spells one.
Numeric(x) == x.t = "num" \/ (x.t = "text" /\ x.v \in DOMAIN Numeral)

Decimal(x) == IF x.t = "num" THEN x.v ELSE Numeral[x.v]

SameKind(x, y) == (x.t = "bool") <=> (y.t = "bool")

Plain(x) == IF x.t = "bool" THEN [t |-> "num", v |-> IF x.v THEN 1 ELSE 0] ELSE x

\* Python's ==, for which True is 1.
Equal(x, y) ==
  \/ Plain(x) = Plain(y)
  \/ /\ x.t = "list" /\ y.t = "list"
     /\ Len(x.v) = Len(y.v)
     /\ \A i \in DOMAIN x.v : Plain(x.v[i]) = Plain(y.v[i])

\* Python's "expected in actual", for a text or a list.
Within(x, y) ==
  IF y.t = "text" THEN x.v = y.v \/ <<x.v, y.v>> \in Fragments
  ELSE \E e \in ToSet(y.v) : Equal(x, e)

-----------------------------------------------------------------------------
(* _when *)

Verdict(b) == IF b THEN "yes" ELSE "no"

Compares(op, m, n) ==
  CASE op = "gt" -> m > n [] op = "gte" -> m >= n [] op = "lt" -> m < n [] op = "lte" -> m <= n

\* eq and ne; amounts that are not Booleans are compared as numbers.
EqualVerdict(path, x, y) ==
  IF path = "amount" /\ x.t # "bool"
    THEN IF Numeric(x) /\ Numeric(y) THEN Verdict(Decimal(x) = Decimal(y)) ELSE "raise"
    ELSE Verdict(Equal(x, y) /\ SameKind(x, y))

\* Faulty: what cannot be decided is turned round as well.
NegateAnything(v) == IF v = "yes" THEN "no" ELSE "yes"

Negate(v) == IF v = "raise" THEN "raise" ELSE Verdict(v = "no")

\* The verdict of one comparison.
FieldVerdict(clause, facts) ==
  LET x == Get(facts, clause.path)
      y == clause.value
  IN CASE clause.op = "exists" -> Verdict((x # Missing) = y.v)
       [] clause.op # "exists" /\ x = Missing -> "no"
       [] clause.op \in Order /\ x # Missing ->
            IF Numeric(x) /\ Numeric(y) THEN Verdict(Compares(clause.op, Decimal(x), Decimal(y))) ELSE "raise"
       [] clause.op = "eq" /\ x # Missing -> EqualVerdict(clause.path, x, y)
       [] clause.op = "ne" /\ x # Missing -> Negate(EqualVerdict(clause.path, x, y))
       [] clause.op = "in" /\ x # Missing -> Verdict(\E e \in ToSet(y.v) : Equal(x, e) /\ SameKind(x, e))
       [] clause.op = "not_in" /\ x # Missing -> Verdict(\A e \in ToSet(y.v) : ~(Equal(x, e) /\ SameKind(x, e)))
       [] clause.op = "contains" /\ x # Missing ->
            IF x.t \notin {"text", "list"} THEN "no"
            ELSE IF x.t = "text" /\ y.t # "text" THEN "raise"
            ELSE Verdict(Within(y, x))

\* Evaluation stops at the first verdict that settles it, or at the first exception.
FirstOther(vs, v) ==
  LET other == {i \in DOMAIN vs : vs[i] # v}
  IN IF other = {} THEN v ELSE vs[CHOOSE i \in other : \A j \in other : i <= j]

\* The verdict of one clause, when the nested conditions have the verdicts w.
ClauseVerdict(clause, w, facts) ==
  CASE clause.key = "all" -> FirstOther([k \in DOMAIN clause.of |-> w[clause.of[k]]], "yes")
    [] clause.key = "any" -> FirstOther([k \in DOMAIN clause.of |-> w[clause.of[k]]], "no")
    [] clause.key = "not" -> Negate(w[clause.of[1]])
    [] clause.key = "field" -> FieldVerdict(clause, facts)

When(condition, facts) ==
  LET w[c \in Conditions] == FirstOther([i \in DOMAIN c |-> ClauseVerdict(c[i], w, facts)], "yes")
  IN w[condition]

-----------------------------------------------------------------------------
(* _validate_when *)

ValidField(clause) ==
  /\ clause.op \in {"in", "not_in"} => clause.value.t = "list"
  /\ clause.op = "exists" => clause.value.t = "bool"
  /\ clause.op \in Order => Numeric(clause.value)
  /\ clause.value.t \in {"text", "num", "bool", "list", "none"}

\* ValidAt[c, depth]: c is accepted at this depth.
ValidAt[x \in Conditions \X Nat] ==
  /\ x[2] <= MaxDepth
  /\ \A clause \in ToSet(x[1]) :
       IF clause.key = "field" THEN ValidField(clause)
       ELSE clause.of # << >> /\ \A c \in ToSet(clause.of) : ValidAt[<<c, x[2] + 1>>]

Valid(condition) == ValidAt[<<condition, 0>>]

-----------------------------------------------------------------------------
(* Reference *)

\* Three-valued conjunction and disjunction, in which order plays no part and an
\* exception is an unknown.
Both(S) == IF "no" \in S THEN "no" ELSE IF "raise" \in S THEN "raise" ELSE "yes"
Either(S) == IF "yes" \in S THEN "yes" ELSE IF "raise" \in S THEN "raise" ELSE "no"

Opposite(v) == CASE v = "yes" -> "no" [] v = "no" -> "yes" [] v = "raise" -> "raise"

\* The meaning of one clause, when the nested conditions have the meanings m.
ClauseMeaning(clause, m, facts) ==
  CASE clause.key = "all" -> Both({m[c] : c \in ToSet(clause.of)})
    [] clause.key = "any" -> Either({m[c] : c \in ToSet(clause.of)})
    [] clause.key = "not" -> Opposite(m[clause.of[1]])
    [] clause.key = "field" -> FieldVerdict(clause, facts)

Meaning(condition, facts) ==
  LET m[c \in Conditions] == Both({ClauseMeaning(clause, m, facts) : clause \in ToSet(c)})
  IN m[condition]

\* The conditions directly within a condition, and all those within it.
Parts(c) == UNION {ToSet(clause.of) : clause \in {x \in ToSet(c) : x.key # "field"}}

Inside[c \in Conditions] == {c} \cup UNION {Inside[d] : d \in Parts(c)}

Clauses(c) == UNION {ToSet(d) : d \in Inside[c]}

Fields(c) == {clause \in Clauses(c) : clause.key = "field"}

Positive(c) ==
  \A clause \in Clauses(c) :
    clause.key # "not" /\ (clause.key = "field" => ~(clause.op = "exists" /\ clause.value.v = FALSE))

Forget(facts, path) == [p \in DOMAIN facts \ {path} |-> facts[p]]

\* Where _when answers at all, it answers what the three-valued reading says.
AnswersMeaning(c, f) ==
  IF When(c, f) = "raise" THEN \E l \in Fields(c) : FieldVerdict(l, f) = "raise"
  ELSE When(c, f) = Meaning(c, f)

\* Without a negation a missing fact never opens what the fact would have closed.
MissingNeverOpens(c, f) ==
  Positive(c) => \A p \in DOMAIN f : When(c, Forget(f, p)) = "yes" => When(c, f) # "no"

\* A condition that was validated raises only where a fact is no number, an amount is
\* compared or a text is searched.
ValidRaisesOnFacts(c, f) ==
  Valid(c) /\ When(c, f) = "raise" =>
    \E l \in Fields(c) : /\ l.path \in DOMAIN f
                         /\ l.path = "amount" \/ l.op = "contains" \/ ~Numeric(Get(f, l.path))
=============================================================================
