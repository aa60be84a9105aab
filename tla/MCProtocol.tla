----------------------------- MODULE MCProtocol -----------------------------
(***************************************************************************)
(* A small instance of the contracts together, in the units of MCVaults: an  *)
(* owner with collateral and reserve, who also saves, and a governor.        *)
(***************************************************************************)
EXTENDS Protocol, TLC

CONSTANTS alice, bob, gov, collateral_token, treasury

Holding(amounts) == [a \in Accounts |-> IF a \in DOMAIN amounts THEN amounts[a] ELSE 0]

AliceHasStable == Holding(alice :> 3)
AliceHasCollateral == [c \in Collaterals |-> Holding(alice :> 10)]
AliceHasReserve == Holding(alice :> 4)

\* 150%, 125%, a fee of a quarter a tick, half of it kept as a buffer.
BufferedTypes ==
    {[collateral_contract |-> collateral_token,
      ratios |-> [min_collateral_ratio_bps |-> 6, liquidation_ratio_bps |-> 5,
                  liquidation_bonus_bps |-> 0, partial_liquidation_target_ratio_bps |-> NoOne],
      limits |-> [debt_ceiling |-> 16, min_debt |-> 4],
      auction |-> [auction_duration_seconds |-> 1, min_bid_increment_bps |-> 1,
                   extension_window_seconds |-> 1, bid_extension_seconds |-> 1],
      stability_fee_bps |-> 1, surplus_buffer_bps |-> 2]}
=============================================================================
