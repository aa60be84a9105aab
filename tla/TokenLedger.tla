---------------------------- MODULE TokenLedger -----------------------------
(***************************************************************************)
(* What one call of a token contract does to its balances and its supply.  *)
(* A ledger is a record of the two; the contracts that call the stable      *)
(* token in the middle of a transaction chain these operators, and revert   *)
(* the transaction when one of the calls would fail.                        *)
(***************************************************************************)
EXTENDS Integers

\* Mutant of Moved: both balances are read before either is written, so an
\* account that pays itself is credited for nothing.
Moved_StaleRead(balances, from, to, amount) ==
    [balances EXCEPT ![from] = balances[from] - amount, ![to] = balances[to] + amount]

\* The balances after amount moves between two accounts (or from one to itself).
Moved(balances, from, to, amount) ==
    [[balances EXCEPT ![from] = @ - amount] EXCEPT ![to] = @ + amount]

\* The assertions of transfer and burn on the account that pays.
CanPay(balances, from, amount) == amount > 0 /\ balances[from] >= amount

LedgerTransfer(ledger, from, to, amount) ==
    [ledger EXCEPT !.balances = Moved(@, from, to, amount)]

LedgerMint(ledger, to, amount) ==
    [balances     |-> [ledger.balances EXCEPT ![to] = @ + amount],
     total_supply |-> ledger.total_supply + amount]

LedgerBurn(ledger, from, amount) ==
    [balances     |-> [ledger.balances EXCEPT ![from] = @ - amount],
     total_supply |-> ledger.total_supply - amount]
=============================================================================
