------------------------ MODULE MCAccountCoordinator ------------------------
(* Jobs of the shapes the code has: a reconciliation of two accounts, two    *)
(* retried cleanups and two refreshes.  Three meet in the lifecycle lane and *)
(* three in the lane of one account.  A sign-in or a removal is a            *)
(* reconciliation that stops after its first account.                       *)
EXTENDS AccountCoordinator, TLC

CONSTANTS reconciliation, cleanup1, cleanup2, refresh1, refresh2, a1, a2, l1, l2, life, none

MCAccounts == {a1, a2}
MCLanes == {l1, l2}

MCPlan ==
  reconciliation :> [lifecycle |-> TRUE, accounts |-> <<a1, a2>>]
  @@ cleanup1 :> [lifecycle |-> TRUE, accounts |-> <<>>]
  @@ cleanup2 :> [lifecycle |-> TRUE, accounts |-> <<>>]
  @@ refresh1 :> [lifecycle |-> FALSE, accounts |-> <<a1>>]
  @@ refresh2 :> [lifecycle |-> FALSE, accounts |-> <<a1>>]
MCJobs == DOMAIN MCPlan

=============================================================================
