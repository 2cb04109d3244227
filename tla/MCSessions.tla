----------------------------- MODULE MCSessions -----------------------------
(* A small instance of Sessions: two requests at a time. *)
EXTENDS Sessions, TLC

CONSTANTS h1, h2, s1, s2, s3, l1, f1

MCScenarios ==
  {{"password"}, {"password", "refresh"}, {"magic link", "refresh", "logout"}, {"oauth", "magic link"}}

RowSymmetry == Permutations(Sessions) \cup Permutations(Handlers)
=============================================================================
