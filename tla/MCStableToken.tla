--------------------------- MODULE MCStableToken ----------------------------
(***************************************************************************)
(* Small instances of the stable token whose accounts are interchangeable.  *)
(***************************************************************************)
EXTENDS SignedToken, TLC

AccountSymmetry == Permutations(Accounts)
=============================================================================
