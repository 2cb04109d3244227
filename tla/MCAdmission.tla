---------------------------- MODULE MCAdmission ----------------------------
(* A small organization: a plan that Stripe's events change, the admins and *)
(* agents that use its capacity.  Properties of Billing and Admission.      *)
EXTENDS Admission, TLC

CONSTANTS e1, e2, e3, h1, h2, k1, c1, c2, r1, r2, r3

MCPlans == {"free", "pro"}
MCPlanOf == [e \in Events |-> CASE e = e1 -> "pro" [] e = e2 -> "free" [] e = e3 -> NoChange]
MCCapacity == [p \in Plans |-> [k \in Kinds |-> IF p = "pro" /\ k = "agents" THEN 2 ELSE 1]]
MCActions == [p \in Plans |-> IF p = "pro" THEN 2 ELSE 1]
MCWindow == [l \in 1 .. 2 |-> l]
MCQuantity == [l \in 1 .. 2 |-> 3 - l]
MCLiveSets == {{h1, h2, k1, e1, e2, e3}, {c1, c2, h1, e1, e2}, {r1, r2, r3}, {r1, r2, h1, e1, e2}}

RequestSymmetry == Permutations(Requests)
=============================================================================
