----------------------------- MODULE MCSavings ------------------------------
(***************************************************************************)
(* A small instance of Savings: alice and bob start with stable, and any    *)
(* of it may reach the contract as a deposit or as a plain transfer.         *)
(***************************************************************************)
EXTENDS Savings, TLC

CONSTANTS alice, bob

StartingStable == (alice :> 5) @@ (bob :> 3) @@ [a \in Accounts |-> 0]
=============================================================================
