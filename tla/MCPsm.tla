------------------------------- MODULE MCPsm -------------------------------
(***************************************************************************)
(* A small instance of Psm; a basis point is a quarter.                     *)
(***************************************************************************)
EXTENDS Psm, TLC

CONSTANTS alice, bob

StartingStable == (bob :> 1) @@ [a \in Accounts |-> 0]
StartingReserve == (alice :> 3) @@ (bob :> 2) @@ [a \in Accounts |-> 0]
=============================================================================
