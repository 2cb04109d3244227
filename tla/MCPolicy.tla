------------------------------ MODULE MCPolicy ------------------------------
(* A small instance of PolicyEngine with the conditions of PolicyConditions. *)
EXTENDS MCPolicyCases, PolicyEngine

MCNumeral == [s \in {"7"} |-> 7]
MCFragments == {<<"prod", "prod-eu">>}

MCConditions == AllConditions
MCNesting == AllNesting

\* Documents: one says what to do of any request, one of large amounts, one of a resource,
\* whatever its amount, and one that raises for an amount that is no number.
doc(subject, resource, rules) == [subject |-> subject, resource |-> resource, rules |-> rules]
rule(when, action, constrained) == [when |-> when, action |-> action, constrained |-> constrained]

Large == <<field("amount", "gt", num(5))>>
Prod == <<field("resource", "contains", text("prod"))>>

MCDocuments ==
  {doc(<<>>, <<>>, <<rule(<<>>, "allow", TRUE)>>),
   doc(<<>>, Prod, <<rule(<<>>, "warn", FALSE), rule(Large, "require_approval", FALSE)>>),
   doc(<<>>, <<>>, <<rule(Large, "deny", FALSE), rule(<<>>, "allow", FALSE)>>),
   doc(<<>>, <<>>, <<rule(<<field("amount", "gt", text("seven"))>>, "allow", FALSE)>>)}

MCRequests ==
  {[p \in {"amount", "resource"} |-> IF p = "amount" THEN num(7) ELSE text("prod-eu")],
   [p \in {"amount", "resource"} |-> IF p = "amount" THEN text("seven") ELSE text("prod-eu")],
   [p \in {"resource"} |-> text("test")]}

MCFactSets == AllFacts \cup MCRequests
=============================================================================
