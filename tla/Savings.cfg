\* Two holders and 8 quanta of stable: prices from 1 up to 8 assets per share,
\* with both roundings of every deposit and withdrawal between them.
SPECIFICATION Spec
CONSTANTS
    alice = alice
    bob = bob
    con_savings = con_savings
    NoOne = NoOne
    Users = {alice, bob}
    InitialGovernor = alice
    SCALE = 2
    InitialStable <- StartingStable
    Amounts = {1, 2, 3}
    Spenders = {bob}
    Nominees = {bob}
    MetadataKeys = {"total_supply", "token_name"}
    MetadataValues = {0}
    SupplyKey = "total_supply"
INVARIANTS TypeOK SupplyIsSumOfShares SharesWorthPar
PROPERTIES SharePriceNeverFalls DepositsKeepTheirWorth
