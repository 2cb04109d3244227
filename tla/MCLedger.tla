------------------------------ MODULE MCLedger ------------------------------
(* Six requests of different sizes on two budgets they share in part: the *)
(* limits leave room for some of them only, so reservations compete.       *)
EXTENDS Ledger, TLC

CONSTANTS r1, r2, r3, r4, r5, r6, daily, monthly

MCLimit == daily :> 3 @@ monthly :> 5
MCAmount == r1 :> 1 @@ r2 :> 2 @@ r3 :> 3 @@ r4 :> 0 @@ r5 :> 1 @@ r6 :> 1
MCCharged ==
  r1 :> {daily, monthly} @@ r2 :> {daily, monthly} @@ r3 :> {monthly}
    @@ r4 :> {daily, monthly} @@ r5 :> {daily, monthly} @@ r6 :> {daily}
MCAdmissible == {r1, r2, r3, r4, r6}
=============================================================================
