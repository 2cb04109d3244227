---------------------------- MODULE MCAuditChain ----------------------------
(* Small instances of AuditChain. *)
EXTENDS AuditChain, TLC

CONSTANTS a1, a2, w1, w2

\* Transactions are interchangeable, and so are archive jobs.
MCSymmetry == Permutations(Appenders) \cup Permutations(Workers)
=============================================================================
