------------------------------ MODULE Savings -------------------------------
(***************************************************************************)
(* contracts/con_savings.s.py: a pool of stable whose shares are a token.   *)
(* Its assets are whatever stable the contract holds, so a fee routed to it  *)
(* is a plain transfer that raises what every share is worth.  The stable    *)
(* token is modelled by its balances; depositors have approved the deposit.  *)
(***************************************************************************)
EXTENDS Integers, FiniteSets, Sums, Decimal, TokenLedger

CONSTANTS Users,            \* addresses that sign transactions
          con_savings,      \* the contract's own address, ctx.this
          NoOne,
          InitialGovernor,
          InitialStable,    \* stable held by each account at the start
          Amounts,          \* assets, shares and allowances in calls
          Spenders,         \* accounts that are given allowances
          Nominees,         \* arguments of start_governance_transfer
          MetadataKeys, MetadataValues, SupplyKey

Accounts == Users \cup {con_savings}

ASSUME SavingsAssumption ==
    /\ IsFiniteSet(Users)
    /\ con_savings \notin Users
    /\ NoOne \notin Accounts
    /\ InitialGovernor \in Users
    /\ InitialStable \in [Accounts -> Nat]
    /\ Amounts \subseteq Nat
    /\ Spenders \subseteq Accounts
    /\ Nominees \subseteq Users
    /\ MetadataValues \subseteq Nat
    /\ SupplyKey \in MetadataKeys

VARIABLES stable, balances, approvals, share_supply, metadata, governor, proposed_governor

shares == <<balances, share_supply, metadata>>
governance == <<governor, proposed_governor>>
vars == <<stable, shares, approvals, governance>>

-----------------------------------------------------------------------------
Init ==
    /\ stable = InitialStable
    /\ balances = [a \in Accounts |-> 0]
    /\ approvals = [pair \in Accounts \X Accounts |-> 0]
    /\ share_supply = 0
    /\ metadata \in {m \in [MetadataKeys -> MetadataValues \cup {0}] : m[SupplyKey] = 0}
    /\ governor = InitialGovernor
    /\ proposed_governor = NoOne

current_total_assets == stable[con_savings]

\* Mutant: counts the deposit among the assets it is priced against.
preview_deposit_AfterTransfer(assets) ==
    IF share_supply <= 0 \/ current_total_assets <= 0 THEN assets
    ELSE Div(Mul(assets, share_supply), current_total_assets + assets)

preview_deposit(assets) ==
    IF share_supply <= 0 \/ current_total_assets <= 0 THEN assets
    ELSE Div(Mul(assets, share_supply), current_total_assets)

\* Mutant: takes the redeemed shares off the supply before it divides by it.
preview_redeem_ReducedSupply(shares_in) ==
    IF share_supply = shares_in THEN current_total_assets
    ELSE Div(Mul(shares_in, current_total_assets), share_supply - shares_in)

\* Mutant: rounds in favour of whoever leaves.
preview_redeem_RoundsUp(shares_in) ==
    (Mul(shares_in, current_total_assets) * SCALE + share_supply - 1) \div share_supply

\* The last shares redeemed may leave what the product lost in the pool.
preview_redeem(shares_in) == Div(Mul(shares_in, current_total_assets), share_supply)

SetSupply(supply) ==
    /\ share_supply' = supply
    /\ metadata' = [metadata EXCEPT ![SupplyKey] = supply]

\* A deposit worth less than one share reverts before it moves any stable.
deposit(caller, assets) ==
    LET minted == preview_deposit(assets)
    IN  /\ assets > 0
        /\ minted > 0
        /\ CanPay(stable, caller, assets)
        /\ stable' = Moved(stable, caller, con_savings, assets)
        /\ balances' = [balances EXCEPT ![caller] = @ + minted]
        /\ SetSupply(share_supply + minted)
        /\ UNCHANGED <<approvals, governance>>

\* Mutant: burns nothing.
withdraw_KeepsSupply(caller, burned) ==
    LET assets == preview_redeem(burned)
    IN  /\ CanPay(balances, caller, burned)
        /\ share_supply > 0
        /\ CanPay(stable, con_savings, assets)
        /\ stable' = Moved(stable, con_savings, caller, assets)
        /\ balances' = [balances EXCEPT ![caller] = @ - burned]
        /\ UNCHANGED <<share_supply, metadata, approvals, governance>>

\* Mutant: the balance of shares is not checked.
withdraw_Unchecked(caller, burned) ==
    LET assets == preview_redeem(burned)
    IN  /\ burned > 0
        /\ share_supply > 0
        /\ CanPay(stable, con_savings, assets)
        /\ stable' = Moved(stable, con_savings, caller, assets)
        /\ balances' = [balances EXCEPT ![caller] = @ - burned]
        /\ SetSupply(share_supply - burned)
        /\ UNCHANGED <<approvals, governance>>

withdraw(caller, burned) ==
    LET assets == preview_redeem(burned)
    IN  /\ CanPay(balances, caller, burned)
        /\ share_supply > 0
        /\ CanPay(stable, con_savings, assets)
        /\ stable' = Moved(stable, con_savings, caller, assets)
        /\ balances' = [balances EXCEPT ![caller] = @ - burned]
        /\ SetSupply(share_supply - burned)
        /\ UNCHANGED <<approvals, governance>>

transfer(caller, amount, to) ==
    /\ CanPay(balances, caller, amount)
    /\ balances' = Moved(balances, caller, to, amount)
    /\ UNCHANGED <<stable, share_supply, metadata, approvals, governance>>

approve(caller, amount, to) ==
    /\ amount >= 0
    /\ approvals' = [approvals EXCEPT ![<<caller, to>>] = amount]
    /\ UNCHANGED <<stable, shares, governance>>

transfer_from(caller, amount, to, main_account) ==
    /\ approvals[<<main_account, caller>>] >= amount
    /\ CanPay(balances, main_account, amount)
    /\ approvals' = [approvals EXCEPT ![<<main_account, caller>>] = @ - amount]
    /\ balances' = Moved(balances, main_account, to, amount)
    /\ UNCHANGED <<stable, share_supply, metadata, governance>>

start_governance_transfer(caller, new_governor) ==
    /\ caller = governor
    /\ proposed_governor' = new_governor
    /\ UNCHANGED <<stable, shares, approvals, governor>>

accept_governance(caller) ==
    /\ proposed_governor # NoOne
    /\ caller = proposed_governor
    /\ governor' = proposed_governor
    /\ proposed_governor' = NoOne
    /\ UNCHANGED <<stable, shares, approvals>>

change_metadata(caller, key, value) ==
    /\ caller = governor
    /\ key # SupplyKey
    /\ metadata' = [metadata EXCEPT ![key] = value]
    /\ UNCHANGED <<stable, balances, share_supply, approvals, governance>>

\* A transfer of stable outside the contract: a routed fee, a gift, a payment.
HolderTransfers(caller, amount, to) ==
    /\ CanPay(stable, caller, amount)
    /\ stable' = Moved(stable, caller, to, amount)
    /\ UNCHANGED <<shares, approvals, governance>>

Call(caller) ==
    \/ \E amount \in Amounts :
          \/ deposit(caller, amount)
          \/ withdraw(caller, amount)
          \/ \E to \in Accounts :
                \/ transfer(caller, amount, to)
                \/ \E main \in Accounts : transfer_from(caller, amount, to, main)
                \/ HolderTransfers(caller, amount, to)
    \/ \E amount \in Amounts \cup {0}, to \in Spenders : approve(caller, amount, to)
    \/ \E user \in Nominees : start_governance_transfer(caller, user)
    \/ accept_governance(caller)
    \/ \E key \in MetadataKeys, value \in MetadataValues : change_metadata(caller, key, value)

Next == \E caller \in Users : Call(caller)

Spec == Init /\ [][Next]_vars

-----------------------------------------------------------------------------
TypeOK ==
    /\ stable \in [Accounts -> Nat]
    /\ balances \in [Accounts -> Nat]
    /\ approvals \in [Accounts \X Accounts -> Nat]
    /\ share_supply \in Nat
    /\ metadata \in [MetadataKeys -> Nat]
    /\ governor \in Users
    /\ proposed_governor \in Users \cup {NoOne}

\* Every share in the supply is held by somebody and no other is: what all
\* holders redeem together is never more, or less, than the whole pool.
SupplyIsSumOfShares ==
    /\ share_supply = Total(balances)
    /\ metadata[SupplyKey] = share_supply

\* Depositors cannot lose their principal: a share, bought for 1 stable by the
\* first depositor, never covers less than 1 stable of the assets, whatever
\* deposits and withdrawals rounded.
SharesWorthPar == current_total_assets >= share_supply

\* Nobody dilutes the others: no step lowers the assets behind one share, until
\* the last share is gone.
SharePriceNeverFalls ==
    [][share_supply > 0 /\ share_supply' > 0 =>
          current_total_assets' * share_supply >= current_total_assets * share_supply']_vars

\* A deposit keeps its worth, however far gifts have raised the price of a share:
\* what it mints is worth the assets paid up to less than one quantum of a share
\* at the price before, and the product's rounding, which is less than one more
\* quantum of stable once the supply is at least 1.
DepositsKeepTheirWorth ==
    [][\A a \in Users :
          LET paid == stable[a] - stable'[a]
              minted == balances'[a] - balances[a]
          IN  paid > 0 /\ minted > 0 =>
                 (paid * share_supply' - minted * current_total_assets')
                    < current_total_assets + SCALE]_vars
=============================================================================
