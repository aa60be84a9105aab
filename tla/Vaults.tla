------------------------------- MODULE Vaults -------------------------------
(***************************************************************************)
(* contracts/con_vaults.s.py: the debt engine.  Owners lock collateral in   *)
(* vaults and mint the stable token against it; debt grows by a per-type     *)
(* rate accumulator and is held as shares; a vault below the liquidation     *)
(* ratio is liquidated in part or auctioned.                                 *)
(*                                                                          *)
(* Every exported function is one atomic transaction.  An action is the      *)
(* whole handler with the token calls it makes; it is enabled exactly when   *)
(* no assertion of the handler, or of the token and oracle calls in it,      *)
(* fails.  Before a call that pulls stable or collateral the caller has      *)
(* approved the amount (allowances are modelled in StableToken).             *)
(***************************************************************************)
EXTENDS Integers, FiniteSets, Sums, Decimal, TokenLedger

CONSTANTS
    Users,              \* addresses that sign transactions
    con_vaults,         \* the contract's own address, ctx.this
    FeeReceivers,       \* addresses governance may name as savings or treasury
    NoOne,              \* None or "" where an address is expected
    Collaterals,        \* collateral token contracts
    InitialGovernor,
    InitialStable,      \* stable held before the first vault (minted elsewhere)
    InitialCollateral,
    Prices,             \* oracle prices; 0 when get_price reverts
    InitialPrice,
    DUST, BPS_DENOMINATOR, SECONDS_PER_YEAR,
    InitialSavings, InitialTreasury,
    NewTypes,           \* arguments of add_vault_type
    ActiveChoices, FeeChoices, LimitChoices, RatioChoices, AuctionChoices, SurplusChoices,
                        \* arguments of the set_vault_type_* calls
    PauseChoices, ReceiverChoices, NomineeChoices,
                        \* arguments of the other governance calls
    CollateralAmounts,  \* collateral locked or withdrawn
    DebtAmounts,        \* stable minted
    PaymentAmounts,     \* stable repaid, by whoever pays
    BidAmounts,
    LossAmounts,        \* stable covered, recapitalised or swept
    TransferAmounts,    \* stable moved between holders
    MaxVaults,          \* bound on vault_count
    MaxTypes,           \* bound on vault_type_count
    MaxTime             \* bound on now and on every auction end time

Accounts == Users \cup {con_vaults} \cup FeeReceivers
VaultIds == 1..MaxVaults
TypeIds == 1..MaxTypes

Ratios == [min_collateral_ratio_bps : Nat, liquidation_ratio_bps : Nat,
           liquidation_bonus_bps : Nat,
           partial_liquidation_target_ratio_bps : Nat \cup {NoOne}]
Limits == [debt_ceiling : Nat, min_debt : Nat]
AuctionTerms == [auction_duration_seconds : Nat, min_bid_increment_bps : Nat,
                 extension_window_seconds : Nat, bid_extension_seconds : Nat]
TypeArguments == [collateral_contract : Collaterals, ratios : Ratios, limits : Limits,
                  auction : AuctionTerms, stability_fee_bps : Nat, surplus_buffer_bps : Nat]

ASSUME VaultsAssumption ==
    /\ IsFiniteSet(Accounts)
    /\ con_vaults \notin Users
    /\ NoOne \notin Accounts \cup Collaterals \cup Nat
    /\ InitialGovernor \in Users
    /\ {InitialSavings, InitialTreasury} \cup ReceiverChoices \subseteq FeeReceivers \cup {NoOne}
    /\ NomineeChoices \subseteq Users
    /\ PauseChoices \cup ActiveChoices \subseteq BOOLEAN
    /\ InitialStable \in [Accounts -> Nat]
    /\ InitialCollateral \in [Collaterals -> [Accounts -> Nat]]
    /\ Prices \subseteq Nat
    /\ InitialPrice \in Prices
    /\ DUST \in Nat
    /\ BPS_DENOMINATOR \in Nat \ {0}
    /\ SECONDS_PER_YEAR \in Nat \ {0}
    /\ NewTypes \subseteq TypeArguments
    /\ RatioChoices \subseteq Ratios
    /\ LimitChoices \subseteq Limits
    /\ AuctionChoices \subseteq AuctionTerms
    /\ FeeChoices \subseteq Nat
    /\ SurplusChoices \subseteq Nat
    /\ CollateralAmounts \cup DebtAmounts \cup PaymentAmounts \subseteq Nat
    /\ BidAmounts \cup LossAmounts \cup TransferAmounts \subseteq Nat
    /\ MaxVaults \in Nat
    /\ MaxTypes \in Nat
    /\ MaxTime \in Nat

VARIABLES
    now,            \* the block time
    price,          \* what the oracle answers for each collateral
    stable,         \* the stable token's ledger
    collateral,     \* the balances of each collateral token
    vault_types,    \* the settings of each vault type
    books,          \* the accounting fields of vault_types
    vault_type_count,
    vaults,
    vault_count,
    auction_bids,   \* stable escrowed by <<vault_id, bidder>>
    savings_contract, treasury_address, governor, proposed_governor, paused

tokens == <<stable, collateral>>
types == <<vault_types, books, vault_type_count>>
positions == <<vaults, vault_count, auction_bids>>
wiring == <<savings_contract, treasury_address, governor, proposed_governor, paused>>
vars == <<now, price, tokens, types, positions, wiring>>
-----------------------------------------------------------------------------
(* Records. *)

\* A type id that has not been added: every field reads as its fallback.
NoType == [collateral_contract |-> NoOne, active |-> FALSE,
           ratios |-> [min_collateral_ratio_bps |-> 0, liquidation_ratio_bps |-> 0,
                       liquidation_bonus_bps |-> 0,
                       partial_liquidation_target_ratio_bps |-> NoOne],
           limits |-> [debt_ceiling |-> 0, min_debt |-> 0],
           auction |-> [auction_duration_seconds |-> 0, min_bid_increment_bps |-> 0,
                        extension_window_seconds |-> 0, bid_extension_seconds |-> 0],
           stability_fee_bps |-> 0, surplus_buffer_bps |-> 0]

NewBooks(time) ==
    [rate_accumulator |-> SCALE, last_rate_time |-> time,
     normalized_debt_total |-> 0, principal_outstanding |-> 0,
     auction_debt_locked |-> 0, auction_principal_locked |-> 0,
     surplus_buffer |-> 0, bad_debt |-> 0]

NoVault == [owner |-> NoOne, vault_type_id |-> 0, open |-> FALSE,
            collateral_amount |-> 0, debt_shares |-> 0, principal |-> 0,
            auction_open |-> FALSE, auction_settled |-> FALSE, auction_end_time |-> 0,
            auction_highest_bidder |-> NoOne, auction_highest_bid |-> 0,
            auction_debt_snapshot |-> 0, auction_principal_snapshot |-> 0]

-----------------------------------------------------------------------------
(* Debt and its rate. *)

elapsed_seconds(since) == AtLeastZero(now - since)

\* Simple interest since the last accrual, compounded at each accrual.
current_rate(vt) ==
    LET factor == SCALE + ((vault_types[vt].stability_fee_bps
                              * elapsed_seconds(books[vt].last_rate_time) * SCALE)
                             \div SECONDS_PER_YEAR) \div BPS_DENOMINATOR
    IN  Mul(books[vt].rate_accumulator, factor)

\* The books of a type after accrue_vault_type.
accrued(vt) ==
    [books[vt] EXCEPT !.rate_accumulator = current_rate(vt), !.last_rate_time = now]

current_total_debt(vt) ==
    Mul(books[vt].normalized_debt_total, current_rate(vt)) + books[vt].auction_debt_locked

vault_live_debt(vault) == Mul(vault.debt_shares, current_rate(vault.vault_type_id))

without_dust(value) == IF value <= DUST THEN 0 ELSE value

\* Nothing left worth keeping, or at least the smallest debt the type allows.
RemainderAllowed(vt, debt) == debt <= DUST \/ debt >= vault_types[vt].limits.min_debt

-----------------------------------------------------------------------------
(* Collateral ratios.  get_price reverts while the oracle has no fresh quorum. *)

current_oracle_price(vt) == price[vault_types[vt].collateral_contract]
OracleAnswers(vt) == current_oracle_price(vt) > 0

collateral_value(vt, amount) == Mul(amount, current_oracle_price(vt))

\* collateralization_bps_for(...) >= ratio_bps; a debt of zero has a ratio of 10^18
\* without asking the oracle.
MeetsRatio(vt, amount, debt, ratio_bps) ==
    \/ debt <= 0
    \/ /\ OracleAnswers(vt)
       /\ collateral_value(vt, amount) * BPS_DENOMINATOR >= ratio_bps * debt

MeetsMinRatio(vt, amount, debt) ==
    MeetsRatio(vt, amount, debt, vault_types[vt].ratios.min_collateral_ratio_bps)

\* The guard shared by liquidate and open_liquidation_auction.
Liquidatable(vault) ==
    LET vt == vault.vault_type_id
    IN  /\ vault.open
        /\ ~vault.auction_open
        /\ vault_live_debt(vault) > 0
        /\ OracleAnswers(vt)
        /\ ~MeetsRatio(vt, vault.collateral_amount, vault_live_debt(vault),
                       vault_types[vt].ratios.liquidation_ratio_bps)

partial_liquidation_target_ratio(vt) ==
    LET ratios == vault_types[vt].ratios
    IN  IF ratios.partial_liquidation_target_ratio_bps = NoOne
        THEN ratios.min_collateral_ratio_bps
        ELSE ratios.partial_liquidation_target_ratio_bps

collateral_out_for_repayment(vt, repay_amount) ==
    Div((repay_amount * (BPS_DENOMINATOR + vault_types[vt].ratios.liquidation_bonus_bps))
            \div BPS_DENOMINATOR,
        current_oracle_price(vt))

\* What a liquidator must repay for the vault to reach the target ratio when
\* collateral worth the repayment and the bonus leaves it.
required_partial_repayment(vault) ==
    LET vt == vault.vault_type_id
        debt == vault_live_debt(vault)
        target == partial_liquidation_target_ratio(vt)
        numerator == debt * target
                       - collateral_value(vt, vault.collateral_amount) * BPS_DENOMINATOR
        denominator == target - (BPS_DENOMINATOR + vault_types[vt].ratios.liquidation_bonus_bps)
    IN  IF debt <= 0 \/ numerator <= 0 THEN 0
        ELSE IF denominator <= 0 THEN debt
        ELSE AtMost(numerator \div denominator, debt)

partial_possible(vault) ==
    LET required == required_partial_repayment(vault)
    IN  /\ required > 0
        /\ required < vault_live_debt(vault)
        /\ collateral_out_for_repayment(vault.vault_type_id, required) <= vault.collateral_amount

-----------------------------------------------------------------------------
(* Money that comes in pays the stability fee first, then principal. *)

split_payment(debt, principal_due, amount) ==
    LET fee == AtMost(amount, AtLeastZero(debt - principal_due))
    IN  [fee |-> fee, principal |-> AtMost(amount - fee, principal_due)]

NoPayment == [fee |-> 0, principal |-> 0]

buffer_amount(vt, fee) == (fee * vault_types[vt].surplus_buffer_bps) \div BPS_DENOMINATOR

fee_destination ==
    IF savings_contract # NoOne THEN savings_contract
    ELSE IF treasury_address # NoOne THEN treasury_address
    ELSE governor

\* Mutant: forgets to burn the principal it has collected.
PaidOut_WithoutBurn(ledger, vt, split) ==
    LedgerTransfer(ledger, con_vaults, fee_destination, split.fee - buffer_amount(vt, split.fee))

\* The ledger after route_fee_income and burn_principal; a fee routed to the
\* contract itself stays where it is.
PaidOut(ledger, vt, split) ==
    LedgerBurn(LedgerTransfer(ledger, con_vaults, fee_destination,
                              split.fee - buffer_amount(vt, split.fee)),
               con_vaults, split.principal)

\* No token call made from the contract's own balance failed.
Solvent(ledger) == ledger.balances[con_vaults] >= 0

\* Mutant: takes the shares off the total at the rate of the last accrual.
LiveRepayment_StaleRate(vault, amount) ==
    LET vt == vault.vault_type_id
        debt == vault_live_debt(vault)
        paid == AtMost(amount, debt)
        split == split_payment(debt, vault.principal, paid)
    IN  [vault |-> [vault EXCEPT !.debt_shares = without_dust(@ - Div(paid, current_rate(vt))),
                                 !.principal = without_dust(@ - split.principal)],
         books |-> [accrued(vt) EXCEPT
                       !.normalized_debt_total = @ - Div(paid, books[vt].rate_accumulator),
                       !.principal_outstanding = @ - split.principal,
                       !.surplus_buffer = @ + buffer_amount(vt, split.fee)],
         split |-> split]

\* apply_live_repayment: the vault, its type's books and what was paid.
LiveRepayment(vault, amount) ==
    LET vt == vault.vault_type_id
        rate == current_rate(vt)
        debt == Mul(vault.debt_shares, rate)
        paid == AtMost(amount, debt)
        split == split_payment(debt, vault.principal, paid)
        shares_paid == Div(paid, rate)
    IN  [vault |-> [vault EXCEPT !.debt_shares = without_dust(@ - shares_paid),
                                 !.principal = without_dust(@ - split.principal)],
         books |-> [accrued(vt) EXCEPT !.normalized_debt_total = @ - shares_paid,
                                       !.principal_outstanding = @ - split.principal,
                                       !.surplus_buffer = @ + buffer_amount(vt, split.fee)],
         split |-> split]

\* apply_auction_repayment, against the debt frozen when the auction opened.
AuctionRepayment(vault, amount) ==
    LET vt == vault.vault_type_id
        debt == vault.auction_debt_snapshot
        paid == AtMost(amount, debt)
        split == split_payment(debt, vault.auction_principal_snapshot, paid)
    IN  [vault |-> [vault EXCEPT !.auction_debt_snapshot = without_dust(@ - paid),
                                 !.auction_principal_snapshot = without_dust(@ - split.principal)],
         books |-> [books[vt] EXCEPT !.auction_debt_locked = @ - paid,
                                     !.auction_principal_locked = @ - split.principal,
                                     !.surplus_buffer = @ + buffer_amount(vt, split.fee)],
         split |-> split]

\* Mutant: leaves the frozen debt in the vault.
clear_auction_KeepsSnapshot(vault) ==
    [vault EXCEPT !.auction_open = FALSE, !.auction_end_time = 0,
                  !.auction_highest_bidder = NoOne, !.auction_highest_bid = 0]

clear_auction(vault) ==
    [vault EXCEPT !.auction_open = FALSE, !.auction_end_time = 0,
                  !.auction_highest_bidder = NoOne, !.auction_highest_bid = 0,
                  !.auction_debt_snapshot = 0, !.auction_principal_snapshot = 0]

\* Mutant: the record of a closed vault keeps its collateral and stays open.
close_vault_record_LeavesOpen(vault) ==
    [clear_auction(vault) EXCEPT !.debt_shares = 0, !.principal = 0]

\* close_vault_record, with the collateral handed out.
close_vault_record(vault) ==
    [clear_auction(vault) EXCEPT !.open = FALSE, !.collateral_amount = 0,
                                 !.debt_shares = 0, !.principal = 0]

\* restore_auction_to_live: the frozen debt becomes shares at today's rate.
\* type_books are the type's books after any repayment.
RestoredVault(vault) ==
    IF vault.auction_debt_snapshot <= 0 THEN clear_auction(vault)
    ELSE [clear_auction(vault) EXCEPT
             !.debt_shares = Div(vault.auction_debt_snapshot, current_rate(vault.vault_type_id)),
             !.principal = vault.auction_principal_snapshot]

RestoredBooks(vault, type_books) ==
    LET restored == RestoredVault(vault)
    IN  [type_books EXCEPT
            !.rate_accumulator = current_rate(vault.vault_type_id),
            !.last_rate_time = now,
            !.auction_debt_locked = @ - vault.auction_debt_snapshot,
            !.auction_principal_locked = @ - vault.auction_principal_snapshot,
            !.normalized_debt_total = @ + restored.debt_shares,
            !.principal_outstanding = @ + restored.principal]

\* Mutant: asks for the increment alone.
min_next_bid_IncrementOnly(vault) ==
    (vault.auction_highest_bid
        * vault_types[vault.vault_type_id].auction.min_bid_increment_bps) \div BPS_DENOMINATOR

min_next_bid(vault) ==
    (vault.auction_highest_bid
        * (BPS_DENOMINATOR + vault_types[vault.vault_type_id].auction.min_bid_increment_bps))
      \div BPS_DENOMINATOR

-----------------------------------------------------------------------------
Init ==
    /\ now = 0
    /\ price = [c \in Collaterals |-> InitialPrice]
    /\ stable = [balances |-> InitialStable, total_supply |-> Total(InitialStable)]
    /\ collateral = InitialCollateral
    /\ vault_types = [vt \in TypeIds |-> NoType]
    /\ books = [vt \in TypeIds |-> NewBooks(0)]
    /\ vault_type_count = 0
    /\ vaults = [v \in VaultIds |-> NoVault]
    /\ vault_count = 0
    /\ auction_bids = [pair \in VaultIds \X Accounts |-> 0]
    /\ savings_contract = InitialSavings
    /\ treasury_address = InitialTreasury
    /\ governor = InitialGovernor
    /\ proposed_governor = NoOne
    /\ paused = FALSE

-----------------------------------------------------------------------------
(* Vault lifecycle. *)

create_vault(caller, vt, collateral_amount, debt_amount) ==
    LET c == vault_types[vt].collateral_contract
        new_vault_id == vault_count + 1
        shares == Div(debt_amount, current_rate(vt))
    IN  /\ ~paused
        /\ c # NoOne
        /\ vault_types[vt].active
        /\ debt_amount > 0
        /\ debt_amount >= vault_types[vt].limits.min_debt
        /\ vault_count < MaxVaults
        /\ current_total_debt(vt) + debt_amount <= vault_types[vt].limits.debt_ceiling
        /\ MeetsMinRatio(vt, collateral_amount, debt_amount)
        /\ CanPay(collateral[c], caller, collateral_amount)
        /\ collateral' = [collateral EXCEPT ![c] = Moved(@, caller, con_vaults, collateral_amount)]
        /\ vault_count' = new_vault_id
        /\ vaults' = [vaults EXCEPT ![new_vault_id] =
                         [NoVault EXCEPT !.owner = caller, !.vault_type_id = vt, !.open = TRUE,
                                         !.collateral_amount = collateral_amount,
                                         !.debt_shares = shares, !.principal = debt_amount]]
        /\ books' = [books EXCEPT ![vt] =
                        [accrued(vt) EXCEPT !.normalized_debt_total = @ + shares,
                                            !.principal_outstanding = @ + debt_amount]]
        /\ stable' = LedgerMint(stable, caller, debt_amount)
        /\ UNCHANGED <<now, price, vault_types, vault_type_count, auction_bids, wiring>>

\* What most vault calls require of the vault.
LiveVault(v) == vaults[v].open /\ ~vaults[v].auction_open
OwnLiveVault(caller, v) == LiveVault(v) /\ vaults[v].owner = caller

CollateralOf(v) == vault_types[vaults[v].vault_type_id].collateral_contract

deposit_collateral(caller, v, amount) ==
    LET c == CollateralOf(v)
    IN  /\ OwnLiveVault(caller, v)
        /\ CanPay(collateral[c], caller, amount)
        /\ collateral' = [collateral EXCEPT ![c] = Moved(@, caller, con_vaults, amount)]
        /\ vaults' = [vaults EXCEPT ![v].collateral_amount = @ + amount]
        /\ UNCHANGED <<now, price, stable, types, vault_count, auction_bids, wiring>>

withdraw_collateral(caller, v, amount) ==
    LET vt == vaults[v].vault_type_id
        c == CollateralOf(v)
        new_collateral == vaults[v].collateral_amount - amount
    IN  /\ ~paused
        /\ OwnLiveVault(caller, v)
        /\ new_collateral >= 0
        /\ MeetsMinRatio(vt, new_collateral, vault_live_debt(vaults[v]))
        /\ CanPay(collateral[c], con_vaults, amount)
        /\ collateral' = [collateral EXCEPT ![c] = Moved(@, con_vaults, caller, amount)]
        /\ vaults' = [vaults EXCEPT ![v].collateral_amount = new_collateral]
        /\ books' = [books EXCEPT ![vt] = accrued(vt)]
        /\ UNCHANGED <<now, price, stable, vault_types, vault_type_count, vault_count,
                       auction_bids, wiring>>

borrow(caller, v, amount) ==
    LET vt == vaults[v].vault_type_id
        new_debt == vault_live_debt(vaults[v]) + amount
        shares_added == Div(amount, current_rate(vt))
    IN  /\ ~paused
        /\ OwnLiveVault(caller, v)
        /\ amount > 0
        /\ current_total_debt(vt) + amount <= vault_types[vt].limits.debt_ceiling
        /\ new_debt >= vault_types[vt].limits.min_debt
        /\ MeetsMinRatio(vt, vaults[v].collateral_amount, new_debt)
        /\ vaults' = [vaults EXCEPT ![v] = [vaults[v] EXCEPT !.debt_shares = @ + shares_added,
                                                             !.principal = @ + amount]]
        /\ books' = [books EXCEPT ![vt] =
                        [accrued(vt) EXCEPT !.normalized_debt_total = @ + shares_added,
                                            !.principal_outstanding = @ + amount]]
        /\ stable' = LedgerMint(stable, caller, amount)
        /\ UNCHANGED <<now, price, collateral, vault_types, vault_type_count, vault_count,
                       auction_bids, wiring>>

\* Anybody may repay; the remainder has to be zero or a debt the type allows.
repay(caller, v, amount) ==
    LET vt == vaults[v].vault_type_id
        done == LiveRepayment(vaults[v], amount)
    IN  /\ LiveVault(v)
        /\ amount <= vault_live_debt(vaults[v])
        /\ CanPay(stable.balances, caller, amount)
        /\ RemainderAllowed(vt, vault_live_debt(done.vault))
        /\ vaults' = [vaults EXCEPT ![v] = done.vault]
        /\ books' = [books EXCEPT ![vt] = done.books]
        /\ stable' = PaidOut(LedgerTransfer(stable, caller, con_vaults, amount), vt, done.split)
        /\ Solvent(stable')
        /\ UNCHANGED <<now, price, collateral, vault_types, vault_type_count, vault_count,
                       auction_bids, wiring>>

\* The collateral goes back in a transfer that reverts when there is none.
close_vault(caller, v) ==
    LET vt == vaults[v].vault_type_id
        c == CollateralOf(v)
        debt == vault_live_debt(vaults[v])
        done == LiveRepayment(vaults[v], debt)
    IN  /\ OwnLiveVault(caller, v)
        /\ debt > 0 => CanPay(stable.balances, caller, debt)
        /\ CanPay(collateral[c], con_vaults, vaults[v].collateral_amount)
        /\ stable' = PaidOut(LedgerTransfer(stable, caller, con_vaults, debt), vt, done.split)
        /\ Solvent(stable')
        /\ vaults' = [vaults EXCEPT ![v] = close_vault_record(done.vault)]
        /\ books' = [books EXCEPT ![vt] = done.books]
        /\ collateral' = [collateral EXCEPT ![c] =
                             Moved(@, con_vaults, caller, vaults[v].collateral_amount)]
        /\ UNCHANGED <<now, price, vault_types, vault_type_count, vault_count,
                       auction_bids, wiring>>

-----------------------------------------------------------------------------
(* Liquidation. *)

\* The call after its check for a pause.  repay_amount = 0 stands for None: the
\* quoted repayment.
Liquidation(caller, v, repay_amount) ==
    LET vt == vaults[v].vault_type_id
        c == CollateralOf(v)
        required == required_partial_repayment(vaults[v])
        repaid == IF repay_amount = 0 THEN required ELSE repay_amount
        collateral_paid == collateral_out_for_repayment(vt, repaid)
        done == LiveRepayment(vaults[v], repaid)
        left == [done.vault EXCEPT !.collateral_amount = @ - collateral_paid]
        remaining_debt == vault_live_debt(left)
        closes == remaining_debt <= DUST
        paid_out == Moved(collateral[c], con_vaults, caller, collateral_paid)
    IN  /\ Liquidatable(vaults[v])
        /\ partial_possible(vaults[v])
        /\ repaid >= required
        /\ repaid <= vault_live_debt(vaults[v])
        /\ left.collateral_amount >= 0
        /\ CanPay(stable.balances, caller, repaid)
        /\ CanPay(collateral[c], con_vaults, collateral_paid)
        /\ \/ closes /\ paid_out[con_vaults] >= left.collateral_amount
           \/ /\ ~closes
              /\ remaining_debt >= vault_types[vt].limits.min_debt
              /\ MeetsMinRatio(vt, left.collateral_amount, remaining_debt)
        /\ stable' = PaidOut(LedgerTransfer(stable, caller, con_vaults, repaid), vt, done.split)
        /\ Solvent(stable')
        /\ collateral' = [collateral EXCEPT ![c] =
                             IF closes
                             THEN Moved(paid_out, con_vaults, vaults[v].owner, left.collateral_amount)
                             ELSE paid_out]
        /\ vaults' = [vaults EXCEPT ![v] = IF closes THEN close_vault_record(left) ELSE left]
        /\ books' = [books EXCEPT ![vt] = done.books]
        /\ UNCHANGED <<now, price, vault_types, vault_type_count, vault_count,
                       auction_bids, wiring>>

\* Mutant: open while the protocol is paused.
liquidate_IgnoresPause(caller, v, repay_amount) == Liquidation(caller, v, repay_amount)

liquidate(caller, v, repay_amount) == ~paused /\ Liquidation(caller, v, repay_amount)

liquidate_fast(caller, v) == liquidate(caller, v, 0)

\* Debt and principal leave the live totals and are frozen in the vault.
open_liquidation_auction(v) ==
    LET vt == vaults[v].vault_type_id
        debt == vault_live_debt(vaults[v])
        end_time == now + vault_types[vt].auction.auction_duration_seconds
    IN  /\ ~paused
        /\ Liquidatable(vaults[v])
        /\ end_time <= MaxTime
        /\ vaults' = [vaults EXCEPT ![v] =
                         [vaults[v] EXCEPT
                             !.debt_shares = 0, !.principal = 0,
                             !.auction_open = TRUE, !.auction_end_time = end_time,
                             !.auction_highest_bidder = NoOne, !.auction_highest_bid = 0,
                             !.auction_debt_snapshot = debt,
                             !.auction_principal_snapshot = vaults[v].principal]]
        /\ books' = [books EXCEPT ![vt] =
                        [accrued(vt) EXCEPT
                            !.normalized_debt_total = @ - vaults[v].debt_shares,
                            !.principal_outstanding = @ - vaults[v].principal,
                            !.auction_debt_locked = @ + debt,
                            !.auction_principal_locked = @ + vaults[v].principal]]
        /\ UNCHANGED <<now, price, tokens, vault_types, vault_type_count, vault_count,
                       auction_bids, wiring>>

\* A bidder escrows only what its bid adds to its own earlier one; a bid close
\* to the end moves the end.
bid(caller, v, bid_amount) ==
    LET terms == vault_types[vaults[v].vault_type_id].auction
        added == bid_amount - auction_bids[<<v, caller>>]
        end_time == vaults[v].auction_end_time
        extended == /\ terms.extension_window_seconds > 0
                    /\ end_time - now <= terms.extension_window_seconds
        new_end_time == IF extended THEN end_time + terms.bid_extension_seconds ELSE end_time
    IN  /\ vaults[v].open /\ vaults[v].auction_open
        /\ now < end_time
        /\ bid_amount > 0
        /\ bid_amount >= min_next_bid(vaults[v])
        /\ CanPay(stable.balances, caller, added)
        /\ new_end_time <= MaxTime
        /\ stable' = LedgerTransfer(stable, caller, con_vaults, added)
        /\ auction_bids' = [auction_bids EXCEPT ![<<v, caller>>] = bid_amount]
        /\ vaults' = [vaults EXCEPT ![v] = [vaults[v] EXCEPT !.auction_highest_bidder = caller,
                                                             !.auction_highest_bid = bid_amount,
                                                             !.auction_end_time = new_end_time]]
        /\ UNCHANGED <<now, price, collateral, types, vault_count, wiring>>

\* The owner's way out while nobody has bid.  The whole of repay_amount is
\* pulled, also when the frozen debt is smaller.
cure_auction(caller, v, repay_amount) ==
    LET vt == vaults[v].vault_type_id
        c == CollateralOf(v)
        done == IF repay_amount > 0 THEN AuctionRepayment(vaults[v], repay_amount)
                ELSE [vault |-> vaults[v], books |-> books[vt], split |-> NoPayment]
        remaining_debt == done.vault.auction_debt_snapshot
    IN  /\ vaults[v].open /\ vaults[v].auction_open
        /\ vaults[v].owner = caller
        /\ vaults[v].auction_highest_bid <= 0
        /\ repay_amount > 0 => CanPay(stable.balances, caller, repay_amount)
        /\ stable' = PaidOut(LedgerTransfer(stable, caller, con_vaults, repay_amount), vt, done.split)
        /\ Solvent(stable')
        /\ \/ /\ remaining_debt <= 0
              /\ collateral[c][con_vaults] >= vaults[v].collateral_amount
              /\ collateral' = [collateral EXCEPT ![c] =
                                   Moved(@, con_vaults, caller, vaults[v].collateral_amount)]
              /\ vaults' = [vaults EXCEPT ![v] = close_vault_record(done.vault)]
              /\ books' = [books EXCEPT ![vt] = done.books]
           \/ /\ remaining_debt > 0
              /\ remaining_debt >= vault_types[vt].limits.min_debt
              /\ MeetsMinRatio(vt, vaults[v].collateral_amount, remaining_debt)
              /\ vaults' = [vaults EXCEPT ![v] = RestoredVault(done.vault)]
              /\ books' = [books EXCEPT ![vt] = RestoredBooks(done.vault, done.books)]
              /\ UNCHANGED collateral
        /\ UNCHANGED <<now, price, vault_types, vault_type_count, vault_count,
                       auction_bids, wiring>>

\* Mutant: restores the vault whatever the price.
cancel_auction_if_safe_AnyPrice(v) ==
    LET vt == vaults[v].vault_type_id
    IN  /\ vaults[v].open /\ vaults[v].auction_open
        /\ vaults[v].auction_highest_bid <= 0
        /\ vaults' = [vaults EXCEPT ![v] = RestoredVault(vaults[v])]
        /\ books' = [books EXCEPT ![vt] = RestoredBooks(vaults[v], books[vt])]
        /\ UNCHANGED <<now, price, tokens, vault_types, vault_type_count, vault_count,
                       auction_bids, wiring>>

\* Mutant: restores the vault although somebody has bid.
cancel_auction_if_safe_DespiteBids(v) ==
    LET vt == vaults[v].vault_type_id
    IN  /\ vaults[v].open /\ vaults[v].auction_open
        /\ MeetsMinRatio(vt, vaults[v].collateral_amount, vaults[v].auction_debt_snapshot)
        /\ vaults' = [vaults EXCEPT ![v] = RestoredVault(vaults[v])]
        /\ books' = [books EXCEPT ![vt] = RestoredBooks(vaults[v], books[vt])]
        /\ UNCHANGED <<now, price, tokens, vault_types, vault_type_count, vault_count,
                       auction_bids, wiring>>

\* Anybody, while nobody has bid, once the price makes the frozen debt safe.
cancel_auction_if_safe(v) ==
    LET vt == vaults[v].vault_type_id
    IN  /\ vaults[v].open /\ vaults[v].auction_open
        /\ vaults[v].auction_highest_bid <= 0
        /\ MeetsMinRatio(vt, vaults[v].collateral_amount, vaults[v].auction_debt_snapshot)
        /\ vaults' = [vaults EXCEPT ![v] = RestoredVault(vaults[v])]
        /\ books' = [books EXCEPT ![vt] = RestoredBooks(vaults[v], books[vt])]
        /\ UNCHANGED <<now, price, tokens, vault_types, vault_type_count, vault_count,
                       auction_bids, wiring>>

\* The winner's escrow pays fee, then principal, then the owner; what it does
\* not reach of the frozen debt is bad debt.
settle_auction(v) ==
    LET vt == vaults[v].vault_type_id
        c == CollateralOf(v)
        debt == vaults[v].auction_debt_snapshot
        winner == vaults[v].auction_highest_bidder
        winning_bid == vaults[v].auction_highest_bid
        split == split_payment(debt, vaults[v].auction_principal_snapshot, winning_bid)
        excess == winning_bid - split.fee - split.principal
    IN  /\ vaults[v].open /\ vaults[v].auction_open
        /\ now >= vaults[v].auction_end_time
        /\ winner # NoOne
        /\ books' = [books EXCEPT ![vt] =
                        [books[vt] EXCEPT
                            !.auction_debt_locked = @ - debt,
                            !.auction_principal_locked = @ - vaults[v].auction_principal_snapshot,
                            !.surplus_buffer = @ + buffer_amount(vt, split.fee),
                            !.bad_debt = @ + AtLeastZero(debt - winning_bid)]]
        /\ stable' = LedgerTransfer(PaidOut(stable, vt, split), con_vaults, vaults[v].owner, excess)
        /\ Solvent(stable')
        /\ auction_bids' = [auction_bids EXCEPT ![<<v, winner>>] = 0]
        /\ vaults' = [vaults EXCEPT ![v] =
                         [close_vault_record(vaults[v]) EXCEPT !.auction_settled = TRUE]]
        /\ CanPay(collateral[c], con_vaults, vaults[v].collateral_amount)
        /\ collateral' = [collateral EXCEPT ![c] =
                             Moved(@, con_vaults, winner, vaults[v].collateral_amount)]
        /\ UNCHANGED <<now, price, vault_types, vault_type_count, vault_count, wiring>>

\* Mutant: a pause stops refunds.
claim_refund_NotWhilePaused(caller, v) ==
    LET refund == auction_bids[<<v, caller>>]
    IN  /\ ~paused
        /\ vaults[v].auction_settled
        /\ CanPay(stable.balances, con_vaults, refund)
        /\ auction_bids' = [auction_bids EXCEPT ![<<v, caller>>] = 0]
        /\ stable' = LedgerTransfer(stable, con_vaults, caller, refund)
        /\ UNCHANGED <<now, price, collateral, types, vaults, vault_count, wiring>>

claim_refund(caller, v) ==
    LET refund == auction_bids[<<v, caller>>]
    IN  /\ vaults[v].auction_settled
        /\ CanPay(stable.balances, con_vaults, refund)
        /\ auction_bids' = [auction_bids EXCEPT ![<<v, caller>>] = 0]
        /\ stable' = LedgerTransfer(stable, con_vaults, caller, refund)
        /\ UNCHANGED <<now, price, collateral, types, vaults, vault_count, wiring>>

-----------------------------------------------------------------------------
(* Losses and surplus of a type.  An amount of 0 stands for None: all of it. *)

\* Mutant: burns surplus that stays in the books.
cover_bad_debt_KeepsBuffer(vt, amount) ==
    LET coverable == AtMost(books[vt].surplus_buffer, books[vt].bad_debt)
        covered == IF amount = 0 THEN coverable ELSE amount
    IN  /\ covered <= coverable
        /\ CanPay(stable.balances, con_vaults, covered)
        /\ books' = [books EXCEPT ![vt].bad_debt = @ - covered]
        /\ stable' = LedgerBurn(stable, con_vaults, covered)
        /\ UNCHANGED <<now, price, collateral, vault_types, vault_type_count, positions, wiring>>

\* Anybody: burns buffered surplus against recorded bad debt.
cover_bad_debt(vt, amount) ==
    LET coverable == AtMost(books[vt].surplus_buffer, books[vt].bad_debt)
        covered == IF amount = 0 THEN coverable ELSE amount
    IN  /\ covered <= coverable
        /\ CanPay(stable.balances, con_vaults, covered)
        /\ books' = [books EXCEPT ![vt] = [books[vt] EXCEPT !.surplus_buffer = @ - covered,
                                                            !.bad_debt = @ - covered]]
        /\ stable' = LedgerBurn(stable, con_vaults, covered)
        /\ UNCHANGED <<now, price, collateral, vault_types, vault_type_count, positions, wiring>>

\* Anybody, and for any type id, one that has not been added included.
recapitalize(caller, vt, amount) ==
    LET bad_debt_reduced == AtMost(amount, books[vt].bad_debt)
    IN  /\ CanPay(stable.balances, caller, amount)
        /\ books' = [books EXCEPT ![vt] =
                        [books[vt] EXCEPT
                            !.bad_debt = @ - bad_debt_reduced,
                            !.surplus_buffer = @ + (amount - bad_debt_reduced)]]
        /\ stable' = LedgerBurn(LedgerTransfer(stable, caller, con_vaults, amount),
                                con_vaults, bad_debt_reduced)
        /\ UNCHANGED <<now, price, collateral, vault_types, vault_type_count, positions, wiring>>

sweep_surplus(caller, vt, amount) ==
    LET swept == IF amount = 0 THEN books[vt].surplus_buffer ELSE amount
    IN  /\ caller = governor
        /\ books[vt].bad_debt <= 0
        /\ swept <= books[vt].surplus_buffer
        /\ CanPay(stable.balances, con_vaults, swept)
        /\ books' = [books EXCEPT ![vt].surplus_buffer = @ - swept]
        /\ stable' = LedgerTransfer(stable, con_vaults, fee_destination, swept)
        /\ UNCHANGED <<now, price, collateral, vault_types, vault_type_count, positions, wiring>>

-----------------------------------------------------------------------------
(* Governance.  A setting takes effect at once, for debt already accruing too. *)

ValidRatios(r) ==
    /\ r.min_collateral_ratio_bps > 0
    /\ r.liquidation_ratio_bps > 0
    /\ r.liquidation_ratio_bps <= r.min_collateral_ratio_bps
    /\ r.partial_liquidation_target_ratio_bps # NoOne =>
          r.partial_liquidation_target_ratio_bps >= r.min_collateral_ratio_bps
ValidLimits(limits) == limits.debt_ceiling > 0
ValidAuction(terms) == terms.auction_duration_seconds > 0
ValidSurplus(bps) == bps <= BPS_DENOMINATOR

\* A new type starts from empty books, also when its id was recapitalised before.
add_vault_type(caller, arguments) ==
    LET vt == vault_type_count + 1
    IN  /\ caller = governor
        /\ vault_type_count < MaxTypes
        /\ ValidRatios(arguments.ratios)
        /\ ValidLimits(arguments.limits)
        /\ ValidAuction(arguments.auction)
        /\ ValidSurplus(arguments.surplus_buffer_bps)
        /\ vault_type_count' = vt
        /\ vault_types' = [vault_types EXCEPT ![vt] =
                [collateral_contract |-> arguments.collateral_contract, active |-> TRUE,
                 ratios |-> arguments.ratios, limits |-> arguments.limits,
                 auction |-> arguments.auction,
                 stability_fee_bps |-> arguments.stability_fee_bps,
                 surplus_buffer_bps |-> arguments.surplus_buffer_bps]]
        /\ books' = [books EXCEPT ![vt] = NewBooks(now)]
        /\ UNCHANGED <<now, price, tokens, positions, wiring>>

\* The setters of one group of settings; only the first checks that the type exists.
ChangeType(caller, vt, settings) ==
    /\ caller = governor
    /\ vault_types' = [vault_types EXCEPT ![vt] = settings]
    /\ UNCHANGED <<now, price, tokens, books, vault_type_count, positions, wiring>>

set_vault_type_active(caller, vt, active) ==
    /\ vault_types[vt].collateral_contract # NoOne
    /\ ChangeType(caller, vt, [vault_types[vt] EXCEPT !.active = active])

\* Does not accrue first: the new fee also prices the time since the last accrual.
set_vault_type_fee(caller, vt, stability_fee_bps) ==
    ChangeType(caller, vt, [vault_types[vt] EXCEPT !.stability_fee_bps = stability_fee_bps])

set_vault_type_limits(caller, vt, limits) ==
    /\ ValidLimits(limits)
    /\ ChangeType(caller, vt, [vault_types[vt] EXCEPT !.limits = limits])

set_vault_type_ratios(caller, vt, ratios) ==
    /\ ValidRatios(ratios)
    /\ ChangeType(caller, vt, [vault_types[vt] EXCEPT !.ratios = ratios])

set_vault_type_auction_config(caller, vt, terms) ==
    /\ ValidAuction(terms)
    /\ ChangeType(caller, vt, [vault_types[vt] EXCEPT !.auction = terms])

set_vault_type_surplus_buffer_bps(caller, vt, bps) ==
    /\ ValidSurplus(bps)
    /\ ChangeType(caller, vt, [vault_types[vt] EXCEPT !.surplus_buffer_bps = bps])

set_paused(caller, value) ==
    /\ caller = governor
    /\ paused' = value
    /\ UNCHANGED <<now, price, tokens, types, positions,
                   savings_contract, treasury_address, governor, proposed_governor>>

set_savings_contract(caller, target) ==
    /\ caller = governor
    /\ savings_contract' = target
    /\ UNCHANGED <<now, price, tokens, types, positions,
                   treasury_address, governor, proposed_governor, paused>>

set_treasury_address(caller, address) ==
    /\ caller = governor
    /\ treasury_address' = address
    /\ UNCHANGED <<now, price, tokens, types, positions,
                   savings_contract, governor, proposed_governor, paused>>

start_governance_transfer(caller, new_governor) ==
    /\ caller = governor
    /\ proposed_governor' = new_governor
    /\ UNCHANGED <<now, price, tokens, types, positions,
                   savings_contract, treasury_address, governor, paused>>

accept_governance(caller) ==
    /\ proposed_governor # NoOne
    /\ caller = proposed_governor
    /\ governor' = proposed_governor
    /\ proposed_governor' = NoOne
    /\ UNCHANGED <<now, price, tokens, types, positions,
                   savings_contract, treasury_address, paused>>

-----------------------------------------------------------------------------
(* The world outside: block time, the oracle, and token holders. *)

Tick ==
    /\ now < MaxTime
    /\ now' = now + 1
    /\ UNCHANGED <<price, tokens, types, positions, wiring>>

OracleMoves(c, quote) ==
    /\ quote # price[c]
    /\ price' = [price EXCEPT ![c] = quote]
    /\ UNCHANGED <<now, tokens, types, positions, wiring>>

\* A transfer of the stable token between holders, to the contract included.
HolderTransfers(caller, amount, to) ==
    /\ CanPay(stable.balances, caller, amount)
    /\ stable' = LedgerTransfer(stable, caller, to, amount)
    /\ UNCHANGED <<now, price, collateral, types, positions, wiring>>

-----------------------------------------------------------------------------
OwnerCall(caller, v) ==
    \/ \E amount \in CollateralAmounts : deposit_collateral(caller, v, amount)
    \/ \E amount \in CollateralAmounts : withdraw_collateral(caller, v, amount)
    \/ \E amount \in DebtAmounts : borrow(caller, v, amount)
    \/ close_vault(caller, v)
    \/ \E amount \in PaymentAmounts \cup {0, vaults[v].auction_debt_snapshot} :
          cure_auction(caller, v, amount)

AnyonesCall(caller, v) ==
    \/ \E amount \in PaymentAmounts : repay(caller, v, amount)
    \/ \E amount \in PaymentAmounts \ {0} : liquidate(caller, v, amount)
    \/ liquidate_fast(caller, v)
    \/ \E amount \in BidAmounts : bid(caller, v, amount)
    \/ claim_refund(caller, v)

\* Calls whose effect does not depend on who signs them.
KeeperCall(v) ==
    \/ open_liquidation_auction(v)
    \/ cancel_auction_if_safe(v)
    \/ settle_auction(v)

LossCall(caller, vt) ==
    \/ \E amount \in LossAmounts : recapitalize(caller, vt, amount)
    \/ \E amount \in LossAmounts \cup {0} : sweep_surplus(caller, vt, amount)

TypeCall(caller, vt) ==
    \/ \E active \in ActiveChoices : set_vault_type_active(caller, vt, active)
    \/ \E fee \in FeeChoices : set_vault_type_fee(caller, vt, fee)
    \/ \E limits \in LimitChoices : set_vault_type_limits(caller, vt, limits)
    \/ \E ratios \in RatioChoices : set_vault_type_ratios(caller, vt, ratios)
    \/ \E terms \in AuctionChoices : set_vault_type_auction_config(caller, vt, terms)
    \/ \E bps \in SurplusChoices : set_vault_type_surplus_buffer_bps(caller, vt, bps)

GovernorCall(caller) ==
    \/ \E arguments \in NewTypes : add_vault_type(caller, arguments)
    \/ \E value \in PauseChoices : set_paused(caller, value)
    \/ \E target \in ReceiverChoices : set_savings_contract(caller, target)
    \/ \E address \in ReceiverChoices : set_treasury_address(caller, address)
    \/ \E user \in NomineeChoices : start_governance_transfer(caller, user)
    \/ accept_governance(caller)

Call(caller) ==
    \/ \E vt \in TypeIds, amount \in CollateralAmounts, debt \in DebtAmounts :
          create_vault(caller, vt, amount, debt)
    \/ \E v \in VaultIds : OwnerCall(caller, v) \/ AnyonesCall(caller, v)
    \/ \E vt \in TypeIds : LossCall(caller, vt) \/ TypeCall(caller, vt)
    \/ GovernorCall(caller)
    \/ \E amount \in TransferAmounts, to \in Accounts : HolderTransfers(caller, amount, to)

Next ==
    \/ \E caller \in Users : Call(caller)
    \/ \E v \in VaultIds : KeeperCall(v)
    \/ \E vt \in TypeIds, amount \in LossAmounts \cup {0} : cover_bad_debt(vt, amount)
    \/ \E c \in Collaterals, quote \in Prices : OracleMoves(c, quote)
    \/ Tick

Spec == Init /\ [][Next]_vars

\* Time passes, somebody (a bidder, a keeper) settles an auction that has ended,
\* which the contract lets anybody do, and losers claim their refunds.
FairSpec ==
    /\ Spec
    /\ WF_vars(Tick)
    /\ \A v \in VaultIds :
          WF_vars(settle_auction(v)) /\ \A a \in Users : WF_vars(claim_refund(a, v))

-----------------------------------------------------------------------------
(* Properties. *)

VaultRecords ==
    [owner : Users \cup {NoOne}, vault_type_id : TypeIds \cup {0}, open : BOOLEAN,
     collateral_amount : Nat, debt_shares : Nat, principal : Nat,
     auction_open : BOOLEAN, auction_settled : BOOLEAN, auction_end_time : Nat,
     auction_highest_bidder : Users \cup {NoOne}, auction_highest_bid : Nat,
     auction_debt_snapshot : Nat, auction_principal_snapshot : Nat]

BookRecords ==
    [rate_accumulator : Nat, last_rate_time : Nat,
     normalized_debt_total : Int, principal_outstanding : Int,
     auction_debt_locked : Int, auction_principal_locked : Int,
     surplus_buffer : Nat, bad_debt : Nat]

TypeSettings ==
    [collateral_contract : Collaterals \cup {NoOne}, active : BOOLEAN, ratios : Ratios,
     limits : Limits, auction : AuctionTerms, stability_fee_bps : Nat, surplus_buffer_bps : Nat]

TypeOK ==
    /\ now \in Nat
    /\ price \in [Collaterals -> Nat]
    /\ stable \in [balances : [Accounts -> Nat], total_supply : Nat]
    /\ collateral \in [Collaterals -> [Accounts -> Nat]]
    /\ vault_types \in [TypeIds -> TypeSettings]
    /\ books \in [TypeIds -> BookRecords]
    /\ vault_type_count \in 0..MaxTypes
    /\ vaults \in [VaultIds -> VaultRecords]
    /\ vault_count \in 0..MaxVaults
    /\ auction_bids \in [VaultIds \X Accounts -> Nat]
    /\ savings_contract \in FeeReceivers \cup {NoOne}
    /\ treasury_address \in FeeReceivers \cup {NoOne}
    /\ governor \in Users
    /\ proposed_governor \in Users \cup {NoOne}
    /\ paused \in BOOLEAN

\* Solvency of the contract in stable: its balance always covers every surplus
\* buffer and every bid in escrow at once, so each refund, settlement, cover
\* and sweep can be paid whatever was paid before it.
SurplusOf == [vt \in TypeIds |-> books[vt].surplus_buffer]
StableCustody ==
    stable.balances[con_vaults] >= Total(SurplusOf) + Total(auction_bids)

\* Solvency in collateral: for each collateral token the contract holds at
\* least what its vaults record, across every vault type that uses the token.
RecordedCollateral(c) ==
    [v \in VaultIds |-> IF vaults[v].open /\ CollateralOf(v) = c
                        THEN vaults[v].collateral_amount ELSE 0]
CollateralCustody ==
    \A c \in Collaterals : collateral[c][con_vaults] >= Total(RecordedCollateral(c))

\* The totals of a type never fall below what its vaults owe, live or in
\* auction: rounding and the dropping of dust only ever leave them too high, so
\* the debt ceiling counts every debt and no repayment drives a total negative.
OfType(vt, amount(_)) ==
    [v \in VaultIds |-> IF vaults[v].vault_type_id = vt THEN amount(vaults[v]) ELSE 0]
TotalsCoverVaults ==
    \A vt \in TypeIds :
        /\ books[vt].normalized_debt_total >= Total(OfType(vt, LAMBDA vault : vault.debt_shares))
        /\ books[vt].principal_outstanding >= Total(OfType(vt, LAMBDA vault : vault.principal))
        /\ books[vt].auction_debt_locked
              >= Total(OfType(vt, LAMBDA vault : vault.auction_debt_snapshot))
        /\ books[vt].auction_principal_locked
              >= Total(OfType(vt, LAMBDA vault : vault.auction_principal_snapshot))

\* Escrow and auction agree: while an auction runs its highest bid is escrowed
\* by its highest bidder and no other escrow exceeds it; escrow without a
\* running auction is a loser's refund of a settled one.  An auctioned vault
\* owes only its frozen debt, and still has the collateral the winner is owed.
EscrowMatchesAuction ==
    \A v \in VaultIds :
        /\ vaults[v].auction_open =>
              /\ vaults[v].open
              /\ vaults[v].debt_shares = 0 /\ vaults[v].principal = 0
              /\ vaults[v].collateral_amount > 0
              /\ \A a \in Accounts : auction_bids[<<v, a>>] <= vaults[v].auction_highest_bid
              /\ vaults[v].auction_highest_bidder # NoOne =>
                    auction_bids[<<v, vaults[v].auction_highest_bidder>>]
                        = vaults[v].auction_highest_bid
        /\ ~vaults[v].auction_open /\ ~vaults[v].auction_settled =>
              \A a \in Accounts : auction_bids[<<v, a>>] = 0

\* The stable in circulation beyond what existed before the first vault and
\* beyond the principal that vaults still owe, live or in auction, and the
\* recorded bad debt.
BookSum(amount(_)) == Total([vt \in TypeIds |-> amount(books[vt])])
Uncovered ==
    stable.total_supply - Total(InitialStable)
      - BookSum(LAMBDA b : b.principal_outstanding)
      - BookSum(LAMBDA b : b.auction_principal_locked)
      - BookSum(LAMBDA b : b.bad_debt)

\* Honest losses: no step lets stable circulate that nobody owes.  The only
\* slack is rounding: a settlement may drop the difference by which rounding had
\* put the frozen debt below its principal.
SettlementRounding ==
    Total([v \in VaultIds |->
              IF vaults'[v].auction_settled /\ ~vaults[v].auction_settled
              THEN AtLeastZero(vaults[v].auction_principal_snapshot
                                 - vaults[v].auction_debt_snapshot)
              ELSE 0])
BackingNeverErodes == [][Uncovered' <= Uncovered + SettlementRounding]_vars

\* Only time, the oracle and governance put a vault at risk: no call of an
\* owner, keeper, liquidator or bidder leaves a vault open to liquidation that
\* was not so before the call, whatever the call rounded or restored.
OnlyMarketEndangers ==
    [][now' = now /\ price' = price /\ vault_types' = vault_types =>
          \A v \in VaultIds : Liquidatable(vaults[v])' => Liquidatable(vaults[v])]_vars

\* An unsafe vault can always be dealt with by somebody other than its owner:
\* liquidated or auctioned, bid on, or settled.  README.md:78 promises so.
UnsafeVaultsHaveAnExit ==
    \A v \in VaultIds :
        LET vault == vaults[v]
            vt == vault.vault_type_id
            debt == IF vault.auction_open THEN vault.auction_debt_snapshot
                    ELSE vault_live_debt(vault)
        IN  /\ vault.open
            /\ OracleAnswers(vt)
            /\ ~MeetsRatio(vt, vault.collateral_amount, debt,
                           vault_types[vt].ratios.liquidation_ratio_bps)
            => \/ Liquidatable(vault)
               \/ vault.auction_open /\ now < vault.auction_end_time
               \/ vault.auction_highest_bidder # NoOne

\* A pause stops new risk: while the protocol is paused no stable is minted, no
\* vault enters an auction, and a vault gives up collateral only as it closes, all
\* of it at once, to the winner when its auction is settled and to its owner
\* otherwise.  Nobody borrows, withdraws from a vault that stays open, or
\* liquidates somebody else's, whatever was under way when the pause fell.
PauseStopsNewRisk ==
    [][paused =>
          /\ stable'.total_supply <= stable.total_supply
          /\ \A v \in VaultIds :
                /\ vaults'[v].auction_open => vaults[v].auction_open
                /\ vaults'[v].collateral_amount < vaults[v].collateral_amount =>
                      LET c == CollateralOf(v)
                          receiver == IF vaults'[v].auction_settled
                                      THEN vaults[v].auction_highest_bidder
                                      ELSE vaults[v].owner
                      IN  /\ ~vaults'[v].open
                          /\ collateral'[c][receiver]
                                = collateral[c][receiver] + vaults[v].collateral_amount]_vars

\* Escrow is released: whoever has stable escrowed on a vault gets the vault's
\* collateral or the stable back, because the auction ends and is settled and
\* every refund can be paid, even if the protocol is paused and never resumes.
EscrowIsReleased ==
    \A v \in VaultIds, a \in Users :
        auction_bids[<<v, a>>] > 0 ~> auction_bids[<<v, a>>] = 0
\* The auction of every vault, as module Auction sees it.  A vault its owner holds
\* is a lot the house may put up; nothing but its auction shows.
PhaseOf(vault) ==
    IF vault.auction_settled THEN "sold"
    ELSE IF vault.auction_open THEN "on_sale"
    ELSE IF vault.open THEN "held"
    ELSE IF vault.owner = NoOne THEN "none" ELSE "returned"

Lots == [v \in VaultIds |->
            [phase |-> PhaseOf(vaults[v]), seller |-> vaults[v].owner,
             leader |-> vaults[v].auction_highest_bidder, best |-> vaults[v].auction_highest_bid,
             ends |-> vaults[v].auction_end_time,
             stakes |-> [a \in Accounts |-> auction_bids[<<v, a>>]]]]

AH == INSTANCE Auction WITH LotIds <- VaultIds, Bidders <- Accounts, Nobody <- NoOne, lots <- Lots

\* The liquidation auctions are auctions: bids rise and stand, a vault with a bid
\* on it can only be settled, after the end and for the stake of its highest
\* bidder, and what the others staked waits for them.
ImplementsAuction == AH!Spec
=============================================================================
