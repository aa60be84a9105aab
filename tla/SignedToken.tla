---------------------------- MODULE SignedToken -----------------------------
(***************************************************************************)
(* The stable token with the signer of the last transaction recorded, so    *)
(* that a property can tell who moved a balance.                            *)
(***************************************************************************)
EXTENDS StableToken

VARIABLE signer

SignedInit == Init /\ signer = NoOne
SignedNext == \E caller \in Accounts : Call(caller) /\ signer' = caller
SignedSpec == SignedInit /\ [][SignedNext]_<<vars, signer>>

\* Consent: a balance falls only in a transaction its holder signed, or in one
\* that uses up at least as much of an allowance the holder gave the signer,
\* whatever approvals, re-approvals and delegated transfers came before.
DebitsAreAuthorised ==
    [][\A a \in Accounts : balances'[a] < balances[a] =>
          \/ signer' = a
          \/ approvals[<<a, signer'>>] - approvals'[<<a, signer'>>] >= balances[a] - balances'[a]]_vars
=============================================================================
