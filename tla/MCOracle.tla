------------------------------ MODULE MCOracle ------------------------------
(***************************************************************************)
(* A small instance of Oracle.                                              *)
(***************************************************************************)
EXTENDS Oracle

CONSTANTS alice, bob, carol, dave, COL
=============================================================================
