-------------------------------- MODULE Psm --------------------------------
(***************************************************************************)
(* contracts/con_psm.s.py: the peg stability module.  It mints stable       *)
(* against a reserve token and redeems it at 1:1, less a fee that goes to    *)
(* the treasury in reserve.  It is one controller of the stable token among  *)
(* others: what those mint can be redeemed here too.  Callers have approved  *)
(* what the contract pulls.                                                  *)
(***************************************************************************)
EXTENDS Integers, FiniteSets, Sums, TokenLedger

CONSTANTS Users,            \* addresses that sign transactions
          con_psm,          \* the contract's own address, ctx.this
          NoOne,            \* "" or None where an address is expected
          BPS_DENOMINATOR,
          InitialGovernor, InitialTreasury,
          InitialStable,    \* balances of stable at the start
          InitialReserve,   \* balances of the reserve token at the start
          Amounts,          \* reserve paid in, stable redeemed, tokens moved
          FeeChoices,       \* fees in basis points, in set_fees and at the start
          ReceiverChoices,  \* arguments of set_treasury_address
          Nominees,         \* arguments of start_governance_transfer
          MaxElsewhere      \* bound on the stable that other controllers mint

Accounts == Users \cup {con_psm}

ASSUME PsmAssumption ==
    /\ IsFiniteSet(Users)
    /\ con_psm \notin Users
    /\ NoOne \notin Accounts
    /\ BPS_DENOMINATOR \in Nat \ {0}
    /\ InitialGovernor \in Users
    /\ {InitialTreasury} \cup ReceiverChoices \subseteq Accounts \cup {NoOne}
    /\ InitialStable \in [Accounts -> Nat]
    /\ InitialReserve \in [Accounts -> Nat]
    /\ Amounts \subseteq Nat
    /\ FeeChoices \subseteq Nat
    /\ Nominees \subseteq Users
    /\ MaxElsewhere \in Nat

VARIABLES stable,               \* the stable token's ledger
          reserve,              \* the reserve token's balances
          minted_elsewhere,     \* stable minted, less burned, by other controllers
          mint_fee_bps, redeem_fee_bps, treasury_address, governor, proposed_governor, paused

tokens == <<stable, reserve, minted_elsewhere>>
fees == <<mint_fee_bps, redeem_fee_bps>>
vars == <<tokens, fees, treasury_address, governor, proposed_governor, paused>>

-----------------------------------------------------------------------------
\* Mutant: a fee may take the whole amount.
ValidFee_Whole(bps) == bps >= 0 /\ bps <= BPS_DENOMINATOR
ValidFee(bps) == bps >= 0 /\ bps < BPS_DENOMINATOR

Init ==
    /\ stable = [balances |-> InitialStable, total_supply |-> Total(InitialStable)]
    /\ reserve = InitialReserve
    /\ minted_elsewhere = 0
    /\ mint_fee_bps \in {bps \in FeeChoices : ValidFee(bps)}
    /\ redeem_fee_bps \in {bps \in FeeChoices : ValidFee(bps)}
    /\ treasury_address = InitialTreasury
    /\ governor = InitialGovernor
    /\ proposed_governor = NoOne
    /\ paused = FALSE

fee_destination == IF treasury_address # NoOne THEN treasury_address ELSE governor

fee_on(amount, bps) == (amount * bps) \div BPS_DENOMINATOR

\* The reserve balances once the fee has left for its destination.
FeePaid(balances, fee) ==
    IF fee > 0 /\ fee_destination # con_psm
    THEN Moved(balances, con_psm, fee_destination, fee)
    ELSE balances

\* Mutant: mints the gross amount and pays the fee out of the reserve as well.
mint_stable_Gross(caller, reserve_amount) ==
    LET fee == fee_on(reserve_amount, mint_fee_bps)
    IN  /\ ~paused
        /\ CanPay(reserve, caller, reserve_amount)
        /\ reserve' = FeePaid(Moved(reserve, caller, con_psm, reserve_amount), fee)
        /\ stable' = LedgerMint(stable, caller, reserve_amount)
        /\ UNCHANGED <<minted_elsewhere, fees, treasury_address, governor, proposed_governor, paused>>

mint_stable(caller, reserve_amount) ==
    LET fee == fee_on(reserve_amount, mint_fee_bps)
        stable_out == reserve_amount - fee
    IN  /\ ~paused
        /\ stable_out > 0
        /\ CanPay(reserve, caller, reserve_amount)
        /\ reserve' = FeePaid(Moved(reserve, caller, con_psm, reserve_amount), fee)
        /\ stable' = LedgerMint(stable, caller, stable_out)
        /\ UNCHANGED <<minted_elsewhere, fees, treasury_address, governor, proposed_governor, paused>>

\* Mutant: pays the redeemer in full and the fee on top.
redeem_stable_FeeOnTop(caller, stable_amount) ==
    LET fee == fee_on(stable_amount, redeem_fee_bps)
    IN  /\ ~paused
        /\ reserve[con_psm] >= stable_amount + fee
        /\ CanPay(stable.balances, caller, stable_amount)
        /\ stable' = LedgerBurn(LedgerTransfer(stable, caller, con_psm, stable_amount),
                                con_psm, stable_amount)
        /\ reserve' = FeePaid(Moved(reserve, con_psm, caller, stable_amount), fee)
        /\ UNCHANGED <<minted_elsewhere, fees, treasury_address, governor, proposed_governor, paused>>

redeem_stable(caller, stable_amount) ==
    LET fee == fee_on(stable_amount, redeem_fee_bps)
        reserve_out == stable_amount - fee
    IN  /\ ~paused
        /\ reserve_out > 0
        /\ reserve[con_psm] >= reserve_out + fee
        /\ CanPay(stable.balances, caller, stable_amount)
        /\ stable' = LedgerBurn(LedgerTransfer(stable, caller, con_psm, stable_amount),
                                con_psm, stable_amount)
        /\ reserve' = FeePaid(Moved(reserve, con_psm, caller, reserve_out), fee)
        /\ UNCHANGED <<minted_elsewhere, fees, treasury_address, governor, proposed_governor, paused>>

-----------------------------------------------------------------------------
set_fees(caller, mint_bps, redeem_bps) ==
    /\ caller = governor
    /\ ValidFee(mint_bps) /\ ValidFee(redeem_bps)
    /\ mint_fee_bps' = mint_bps
    /\ redeem_fee_bps' = redeem_bps
    /\ UNCHANGED <<tokens, treasury_address, governor, proposed_governor, paused>>

set_treasury_address(caller, address) ==
    /\ caller = governor
    /\ treasury_address' = address
    /\ UNCHANGED <<tokens, fees, governor, proposed_governor, paused>>

set_paused(caller, value) ==
    /\ caller = governor
    /\ paused' = value
    /\ UNCHANGED <<tokens, fees, treasury_address, governor, proposed_governor>>

start_governance_transfer(caller, new_governor) ==
    /\ caller = governor
    /\ proposed_governor' = new_governor
    /\ UNCHANGED <<tokens, fees, treasury_address, governor, paused>>

accept_governance(caller) ==
    /\ proposed_governor # NoOne
    /\ caller = proposed_governor
    /\ governor' = proposed_governor
    /\ proposed_governor' = NoOne
    /\ UNCHANGED <<tokens, fees, treasury_address, paused>>

-----------------------------------------------------------------------------
(* The rest of the protocol. *)

\* Another controller (con_vaults) mints against a vault, or burns a repayment.
ElsewhereMints(caller, amount) ==
    /\ amount > 0
    /\ minted_elsewhere + amount <= MaxElsewhere
    /\ minted_elsewhere' = minted_elsewhere + amount
    /\ stable' = LedgerMint(stable, caller, amount)
    /\ UNCHANGED <<reserve, fees, treasury_address, governor, proposed_governor, paused>>

ElsewhereBurns(caller, amount) ==
    /\ CanPay(stable.balances, caller, amount)
    /\ minted_elsewhere' = minted_elsewhere - amount
    /\ stable' = LedgerBurn(stable, caller, amount)
    /\ UNCHANGED <<reserve, fees, treasury_address, governor, proposed_governor, paused>>

HolderTransfers(caller, amount, to) ==
    /\ CanPay(stable.balances, caller, amount)
    /\ stable' = LedgerTransfer(stable, caller, to, amount)
    /\ UNCHANGED <<reserve, minted_elsewhere, fees, treasury_address,
                   governor, proposed_governor, paused>>

ReserveTransfers(caller, amount, to) ==
    /\ CanPay(reserve, caller, amount)
    /\ reserve' = Moved(reserve, caller, to, amount)
    /\ UNCHANGED <<stable, minted_elsewhere, fees, treasury_address,
                   governor, proposed_governor, paused>>

Call(caller) ==
    \/ \E amount \in Amounts :
          \/ mint_stable(caller, amount)
          \/ redeem_stable(caller, amount)
          \/ ElsewhereMints(caller, amount)
          \/ ElsewhereBurns(caller, amount)
          \/ \E to \in Accounts : HolderTransfers(caller, amount, to)
          \/ \E to \in Accounts : ReserveTransfers(caller, amount, to)
    \/ \E mint_bps \in FeeChoices, redeem_bps \in FeeChoices : set_fees(caller, mint_bps, redeem_bps)
    \/ \E address \in ReceiverChoices : set_treasury_address(caller, address)
    \/ \E value \in BOOLEAN : set_paused(caller, value)
    \/ \E user \in Nominees : start_governance_transfer(caller, user)
    \/ accept_governance(caller)

Next == \E caller \in Users : Call(caller)

Spec == Init /\ [][Next]_vars

-----------------------------------------------------------------------------
TypeOK ==
    /\ stable \in [balances : [Accounts -> Nat], total_supply : Nat]
    /\ reserve \in [Accounts -> Nat]
    /\ minted_elsewhere \in Int
    /\ mint_fee_bps \in {bps \in Nat : bps < BPS_DENOMINATOR}
    /\ redeem_fee_bps \in {bps \in Nat : bps < BPS_DENOMINATOR}
    /\ treasury_address \in Accounts \cup {NoOne}
    /\ governor \in Users
    /\ proposed_governor \in Users \cup {NoOne}
    /\ paused \in BOOLEAN

\* The peg: all stable that neither existed before nor was minted by other
\* controllers is matched by reserve in the contract, through every change of
\* the fees, of the treasury (the contract itself included) and of the mix of
\* stable that is redeemed.
FullyBacked ==
    stable.total_supply <= Total(InitialStable) + minted_elsewhere + reserve[con_psm]

\* Reserve leaves the contract only against stable that is burned, whoever
\* receives it: a fee is never paid out of what backs the others.
ReserveLeavesOnlyForStable ==
    [][reserve'[con_psm] < reserve[con_psm] =>
          reserve[con_psm] - reserve'[con_psm] <= stable.total_supply - stable'.total_supply]_vars
=============================================================================
