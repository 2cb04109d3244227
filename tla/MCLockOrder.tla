---------------------------- MODULE MCLockOrder ----------------------------
(* A small instance of LockOrder: a remote and an SDK request of one agent that *)
(* share one of two budgets.                                                    *)
EXTENDS LockOrder

CONSTANTS h1, h2, w1, remote, sdk, agent, daily, monthly

MCAgentOf == [r \in Requests |-> agent]
MCCharged == [r \in Requests |-> {daily, monthly}]
=============================================================================
