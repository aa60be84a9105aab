------------------------------ MODULE Decimal -------------------------------
(***************************************************************************)
(* The fixed-point decimals of the contract runtime.  A decimal is an      *)
(* integer number of quanta, SCALE quanta to 1 (the runtime keeps 30        *)
(* decimal places, so SCALE is 10^30 there); products and quotients round   *)
(* down to a whole quantum.                                                 *)
(***************************************************************************)
EXTENDS Integers

CONSTANT SCALE

ASSUME ScaleAssumption == SCALE \in Nat \ {0}

\* decimal * decimal and decimal / decimal; b is positive in every quotient.
Mul(a, b) == (a * b) \div SCALE
Div(a, b) == (a * SCALE) \div b

AtMost(a, limit) == IF a > limit THEN limit ELSE a

\* Mutant: the floor under a difference is forgotten.
AtLeastZero_Unfloored(a) == a
AtLeastZero(a) == IF a < 0 THEN 0 ELSE a
=============================================================================
