---------------------------- MODULE StableToken -----------------------------
(***************************************************************************)
(* contracts/con_stable_token.s.py: the stable token.  Every exported       *)
(* function is one atomic transaction of its caller (ctx.caller, a user or   *)
(* another contract): an assertion that fails reverts it, so an action is    *)
(* enabled exactly when none fails.                                          *)
(***************************************************************************)
EXTENDS Integers, FiniteSets, Sums, TokenLedger

CONSTANTS Accounts,         \* every address, of users and of contracts
          NoOne,            \* proposed_governor when no handoff is pending
          Amounts,          \* the amounts calls are made with
          InitialSupplies,  \* initial_supply of the constructor
          MetadataKeys,     \* keys of the metadata hash
          MetadataValues,
          SupplyKey,        \* the key "total_supply"
          MaxSupply         \* bound: no mint takes the supply above it

ASSUME TokenAssumption ==
    /\ IsFiniteSet(Accounts)
    /\ NoOne \notin Accounts
    /\ Amounts \subseteq Nat
    /\ InitialSupplies \subseteq Nat
    /\ MetadataValues \subseteq Nat
    /\ SupplyKey \in MetadataKeys
    /\ MaxSupply \in Nat

VARIABLES balances, approvals, controllers, metadata,
          governor, proposed_governor, total_supply

vars == <<balances, approvals, controllers, metadata,
          governor, proposed_governor, total_supply>>

-----------------------------------------------------------------------------
\* @construct seed: the deployer may name another holder and another governor.
Init ==
    /\ governor \in Accounts
    /\ proposed_governor = NoOne
    /\ total_supply \in InitialSupplies
    /\ \E resolved_holder \in Accounts :
          balances = [a \in Accounts |-> IF a = resolved_holder THEN total_supply ELSE 0]
    /\ approvals = [pair \in Accounts \X Accounts |-> 0]
    /\ controllers = [a \in Accounts |-> FALSE]
    /\ metadata \in {m \in [MetadataKeys -> MetadataValues \cup {total_supply}] :
                        m[SupplyKey] = total_supply}

require_governor(caller) == caller = governor
require_controller(caller) == controllers[caller] = TRUE

start_governance_transfer(caller, new_governor) ==
    /\ require_governor(caller)
    /\ proposed_governor' = new_governor
    /\ UNCHANGED <<balances, approvals, controllers, metadata, governor, total_supply>>

accept_governance(caller) ==
    /\ proposed_governor # NoOne
    /\ caller = proposed_governor
    /\ governor' = proposed_governor
    /\ proposed_governor' = NoOne
    /\ UNCHANGED <<balances, approvals, controllers, metadata, total_supply>>

set_controller(caller, account, enabled) ==
    /\ require_governor(caller)
    /\ controllers' = [controllers EXCEPT ![account] = enabled]
    /\ UNCHANGED <<balances, approvals, metadata, governor, proposed_governor, total_supply>>

\* The allowance is set, not increased: a second approve replaces the first.
approve(caller, amount, to) ==
    /\ amount >= 0
    /\ approvals' = [approvals EXCEPT ![<<caller, to>>] = amount]
    /\ UNCHANGED <<balances, controllers, metadata, governor, proposed_governor, total_supply>>

transfer(caller, amount, to) ==
    /\ CanPay(balances, caller, amount)
    /\ balances' = Moved(balances, caller, to, amount)
    /\ UNCHANGED <<approvals, controllers, metadata, governor, proposed_governor, total_supply>>

\* Mutant of transfer_from: the allowance is checked and never used up.
transfer_from_UnspentAllowance(caller, amount, to, main_account) ==
    /\ approvals[<<main_account, caller>>] >= amount
    /\ CanPay(balances, main_account, amount)
    /\ balances' = Moved(balances, main_account, to, amount)
    /\ UNCHANGED <<approvals, controllers, metadata, governor, proposed_governor, total_supply>>

transfer_from(caller, amount, to, main_account) ==
    /\ approvals[<<main_account, caller>>] >= amount
    /\ CanPay(balances, main_account, amount)
    /\ approvals' = [approvals EXCEPT ![<<main_account, caller>>] = @ - amount]
    /\ balances' = Moved(balances, main_account, to, amount)
    /\ UNCHANGED <<controllers, metadata, governor, proposed_governor, total_supply>>

mint(caller, amount, to) ==
    /\ require_controller(caller)
    /\ amount > 0
    /\ total_supply + amount <= MaxSupply
    /\ balances' = [balances EXCEPT ![to] = @ + amount]
    /\ total_supply' = total_supply + amount
    /\ metadata' = [metadata EXCEPT ![SupplyKey] = total_supply']
    /\ UNCHANGED <<approvals, controllers, governor, proposed_governor>>

\* Mutant of burn: the balance is not checked first.
burn_Unchecked(caller, amount) ==
    /\ amount > 0
    /\ balances' = [balances EXCEPT ![caller] = @ - amount]
    /\ total_supply' = total_supply - amount
    /\ metadata' = [metadata EXCEPT ![SupplyKey] = total_supply']
    /\ UNCHANGED <<approvals, controllers, governor, proposed_governor>>

burn(caller, amount) ==
    /\ CanPay(balances, caller, amount)
    /\ balances' = [balances EXCEPT ![caller] = @ - amount]
    /\ total_supply' = total_supply - amount
    /\ metadata' = [metadata EXCEPT ![SupplyKey] = total_supply']
    /\ UNCHANGED <<approvals, controllers, governor, proposed_governor>>

change_metadata(caller, key, value) ==
    /\ require_governor(caller)
    /\ key # SupplyKey
    /\ metadata' = [metadata EXCEPT ![key] = value]
    /\ UNCHANGED <<balances, approvals, controllers, governor, proposed_governor, total_supply>>

\* One transaction of caller.
Call(caller) ==
    \/ \E a \in Accounts : start_governance_transfer(caller, a)
    \/ accept_governance(caller)
    \/ \E a \in Accounts, enabled \in BOOLEAN : set_controller(caller, a, enabled)
    \/ \E amount \in Amounts, to \in Accounts : approve(caller, amount, to)
    \/ \E amount \in Amounts, to \in Accounts : transfer(caller, amount, to)
    \/ \E amount \in Amounts, to \in Accounts, main \in Accounts :
          transfer_from(caller, amount, to, main)
    \/ \E amount \in Amounts, to \in Accounts : mint(caller, amount, to)
    \/ \E amount \in Amounts : burn(caller, amount)
    \/ \E key \in MetadataKeys, value \in MetadataValues : change_metadata(caller, key, value)

Next == \E caller \in Accounts : Call(caller)

Spec == Init /\ [][Next]_vars

-----------------------------------------------------------------------------
TypeOK ==
    /\ balances \in [Accounts -> Nat]
    /\ approvals \in [Accounts \X Accounts -> Nat]
    /\ controllers \in [Accounts -> BOOLEAN]
    /\ metadata \in [MetadataKeys -> Nat]
    /\ governor \in Accounts
    /\ proposed_governor \in Accounts \cup {NoOne}
    /\ total_supply \in Nat

\* Conservation: whatever sequence of transfers, delegated transfers, mints and
\* burns ran (an account may pay itself), the supply the contract reports is
\* the sum of the balances, and so is the copy it publishes in its metadata.
SupplyIsSumOfBalances ==
    /\ total_supply = Total(balances)
    /\ metadata[SupplyKey] = total_supply
=============================================================================
