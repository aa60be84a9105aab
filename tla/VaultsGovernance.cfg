\* Every call of the governor, before, between and after the calls on one vault.
SPECIFICATION Spec
CONSTANTS
    alice = alice
    bob = bob
    carol = carol
    gov = gov
    con_vaults = con_vaults
    treasury = treasury
    con_savings = con_savings
    collateral_token = collateral_token
    NoOne = NoOne
    Users = {alice, bob, gov}
    FeeReceivers = {treasury, con_savings}
    Collaterals = {collateral_token}
    InitialGovernor = gov
    InitialSavings = NoOne
    InitialTreasury = treasury
    InitialStable <- BobHasStable
    InitialCollateral <- AliceHasCollateral
    SCALE = 4
    BPS_DENOMINATOR = 4
    SECONDS_PER_YEAR = 1
    DUST = 1
    Prices = {0, 4}
    InitialPrice = 4
    NewTypes <- GovernedTypes
    ActiveChoices = {FALSE}
    FeeChoices = {0}
    LimitChoices <- TighterLimits
    RatioChoices <- TighterRatios
    AuctionChoices <- LongerAuctions
    SurplusChoices = {4}
    PauseChoices = {TRUE, FALSE}
    ReceiverChoices = {NoOne, con_savings}
    NomineeChoices = {bob}
    CollateralAmounts = {2, 8}
    DebtAmounts = {4}
    PaymentAmounts = {}
    BidAmounts = {4}
    LossAmounts = {}
    TransferAmounts = {}
    MaxVaults = 1
    MaxTypes = 1
    MaxTime = 2
PROPERTIES PauseStopsNewRisk
CHECK_DEADLOCK FALSE
