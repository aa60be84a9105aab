------------------------------ MODULE Protocol ------------------------------
(***************************************************************************)
(* The contracts together: the vaults, the peg stability module and the     *)
(* savings pool on one stable token.  Vaults mint what the PSM redeems, the  *)
(* PSM mints what repays vaults, both pay the savings, and savings hold what *)
(* either minted.  The operations are those of Vaults, Psm and Savings; only *)
(* the ledger they share is joined here.  The PSM's settings are fixed, and  *)
(* shares are not moved between holders.                                     *)
(***************************************************************************)
EXTENDS Vaults

CONSTANTS con_psm, con_savings,     \* the other contracts' own addresses
          InitialReserve,           \* balances of the reserve token at the start
          PsmFee,                   \* mint_fee_bps and redeem_fee_bps
          PsmAmounts,               \* reserve paid in
          RedeemAmounts,            \* stable redeemed
          SavingsAmounts,           \* stable deposited
          ShareAmounts              \* shares redeemed

ASSUME ProtocolAssumption ==
    /\ {con_psm, con_savings} \subseteq FeeReceivers
    /\ con_psm # con_savings
    /\ {con_psm, con_savings} \cap (Users \cup {con_vaults}) = {}   \* contracts sign nothing
    /\ InitialReserve \in [Accounts -> Nat]
    /\ PsmFee \in 0..(BPS_DENOMINATOR - 1)
    /\ PsmAmounts \cup RedeemAmounts \cup SavingsAmounts \cup ShareAmounts \subseteq Nat

VARIABLES reserve,          \* the reserve token's balances
          share_balances,   \* the savings contract's shares
          share_supply

pool == <<share_balances, share_supply>>
protocol_vars == <<vars, reserve, pool>>

\* The PSM on the shared ledger, paying its fees to its own governor.
P == INSTANCE Psm WITH
        Users <- Accounts \ {con_psm}, InitialTreasury <- NoOne, Amounts <- PsmAmounts,
        FeeChoices <- {PsmFee}, ReceiverChoices <- {}, Nominees <- {}, MaxElsewhere <- 0,
        minted_elsewhere <- 0, mint_fee_bps <- PsmFee, redeem_fee_bps <- PsmFee,
        treasury_address <- NoOne, paused <- FALSE

\* The savings pool on the shared ledger.
SV == INSTANCE Savings WITH
        Users <- Accounts \ {con_savings}, Amounts <- SavingsAmounts, Spenders <- {},
        Nominees <- {}, MetadataKeys <- {"total_supply"}, MetadataValues <- {},
        SupplyKey <- "total_supply", stable <- stable.balances, balances <- share_balances,
        approvals <- 0, metadata <- [key \in {"total_supply"} |-> share_supply],
        InitialStable <- InitialStable

ProtocolInit ==
    /\ Init
    /\ reserve = InitialReserve
    /\ share_balances = [a \in Accounts |-> 0]
    /\ share_supply = 0

unshared == <<now, price, collateral, types, positions, wiring>>

mint_stable(caller, amount) == UNCHANGED <<unshared, pool>> /\ P!mint_stable(caller, amount)
redeem_stable(caller, amount) == UNCHANGED <<unshared, pool>> /\ P!redeem_stable(caller, amount)

\* The transfer of the assets is the token's; the pool says how much.
deposit(caller, assets) ==
    /\ CanPay(stable.balances, caller, assets)
    /\ stable' = LedgerTransfer(stable, caller, con_savings, assets)
    /\ UNCHANGED <<unshared, reserve>>
    /\ SV!deposit(caller, assets)

withdraw(caller, burned) ==
    /\ CanPay(share_balances, caller, burned)
    /\ stable' = LedgerTransfer(stable, con_savings, caller, SV!preview_redeem(burned))
    /\ UNCHANGED <<unshared, reserve>>
    /\ SV!withdraw(caller, burned)

ProtocolNext ==
    \/ Next /\ UNCHANGED <<reserve, pool>>
    \/ \E caller \in Users :
          \/ \E amount \in PsmAmounts : mint_stable(caller, amount)
          \/ \E amount \in RedeemAmounts : redeem_stable(caller, amount)
          \/ \E assets \in SavingsAmounts : deposit(caller, assets)
          \/ \E burned \in ShareAmounts : withdraw(caller, burned)

ProtocolSpec == ProtocolInit /\ [][ProtocolNext]_protocol_vars

-----------------------------------------------------------------------------
\* The peg of the whole system: whatever mixture of vaults, liquidations, losses,
\* recapitalisations, mints and redemptions runs, stable that no vault owes, no
\* bad debt records and no reserve backs does not appear.  A vault may be repaid
\* with stable of the PSM and the PSM drained by stable of a vault; neither
\* leaves the sum short.
Unbacked == Uncovered - reserve[con_psm]
SystemBackingNeverErodes == [][Unbacked' <= Unbacked + SettlementRounding]_protocol_vars

\* Who saves cannot be diluted by anything the rest of the protocol does: fees
\* of the vaults and the sweep of a surplus raise what a share is worth, and
\* losses and redemptions leave it alone.
SaversNeverLose ==
    [][share_supply > 0 /\ share_supply' > 0 =>
          stable'.balances[con_savings] * share_supply
             >= stable.balances[con_savings] * share_supply']_protocol_vars
=============================================================================
