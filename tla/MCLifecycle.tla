---------------------------- MODULE MCLifecycle ----------------------------
(* Small instances of Lifecycle: one budget row that every request charges. *)
EXTENDS Lifecycle

CONSTANTS r1, r2, h1, h2, monthly, MonthlyLimit

MCUsages == {monthly}
MCLimit == [u \in MCUsages |-> MonthlyLimit]
MCAmount == [r \in Requests |-> 1]
MCCharged == [r \in Requests |-> MCUsages]

\* What administrators change in the runs: everything but the adapter; a kill switch
\* only; the adapter of r1's tool.
AllButAdapter == [r \in Requests |-> AllControls \ {"adapter"}]
KillOnly == [r \in Requests |-> {"kill"}]
AdapterOfR1 == [r \in Requests |-> IF r = r1 THEN {"adapter"} ELSE {}]
=============================================================================
