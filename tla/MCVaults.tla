------------------------------ MODULE MCVaults ------------------------------
(***************************************************************************)
(* Small instances of Vaults.  A decimal has 4 quanta to 1 and a basis      *)
(* point is a quarter, so a price of 4 is 1.0 and a ratio of 6 is 150%; a    *)
(* year is one tick of the clock.                                            *)
(***************************************************************************)
EXTENDS Vaults, TLC

CONSTANTS alice, bob, carol, gov, collateral_token, treasury, con_savings

\* Holders of stable and collateral before the first vault.
Holding(amounts) == [a \in Accounts |-> IF a \in DOMAIN amounts THEN amounts[a] ELSE 0]

NoStable == Holding(<<>>)
BobHasStable == Holding(bob :> 8)
BiddersHaveStable == Holding(alice :> 3 @@ bob :> 7 @@ carol :> 7)
BothHaveCollateral == [c \in Collaterals |-> Holding(alice :> 10 @@ bob :> 8)]
AliceHasCollateral == [c \in Collaterals |-> Holding(alice :> 10)]

StandardRatios == [min_collateral_ratio_bps |-> 6, liquidation_ratio_bps |-> 5,
                   liquidation_bonus_bps |-> 0, partial_liquidation_target_ratio_bps |-> NoOne]
StandardLimits == [debt_ceiling |-> 16, min_debt |-> 4]
StandardAuction == [auction_duration_seconds |-> 1, min_bid_increment_bps |-> 1,
                    extension_window_seconds |-> 1, bid_extension_seconds |-> 1]

StandardType == [collateral_contract |-> collateral_token,
                 ratios |-> StandardRatios, limits |-> StandardLimits,
                 auction |-> StandardAuction,
                 stability_fee_bps |-> 1, surplus_buffer_bps |-> 1]
StandardTypes == {StandardType}

\* All of a fee is kept to cover losses.
AuctionTypes == {[StandardType EXCEPT !.surplus_buffer_bps = 4]}

\* Debts small enough for a part of one to be repaid.
GovernedTypes == {[StandardType EXCEPT !.limits.min_debt = 2]}

TighterLimits == {[debt_ceiling |-> 4, min_debt |-> 6]}
TighterRatios == {[StandardRatios EXCEPT !.min_collateral_ratio_bps = 10,
                                         !.liquidation_ratio_bps = 9]}
LongerAuctions == {[StandardAuction EXCEPT !.auction_duration_seconds = 2]}

\* A basis point of an eighth: 200%, 150%, and a bonus of 12.5%.
LiquidationTypes ==
    {[StandardType EXCEPT
        !.ratios = [min_collateral_ratio_bps |-> 16, liquidation_ratio_bps |-> 12,
                    liquidation_bonus_bps |-> 1, partial_liquidation_target_ratio_bps |-> NoOne],
        !.limits = [debt_ceiling |-> 16, min_debt |-> 2],
        !.stability_fee_bps = 2]}
=============================================================================
