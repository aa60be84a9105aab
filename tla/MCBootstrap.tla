----------------------------- MODULE MCBootstrap ----------------------------
(***************************************************************************)
(* The script's default configuration, with one reporter beside the         *)
(* operator.                                                                 *)
(***************************************************************************)
EXTENDS Bootstrap

CONSTANTS alice, chain_contract

Reporters == <<operator, alice>>
ReadyChain == {{chain_contract}}
AnyChain == {{}, {chain_contract},
             {chain_contract, "con_collateral_token", "con_reserve_token"}}
=============================================================================
