\* Two owners of one vault type: fees accrue, debts are drawn, repaid, liquidated in part and closed.
SPECIFICATION Spec
CONSTANTS
    alice = alice
    bob = bob
    carol = carol
    gov = gov
    con_vaults = con_vaults
    treasury = treasury
    con_savings = con_savings
    collateral_token = collateral_token
    NoOne = NoOne
    Users = {alice, bob}
    FeeReceivers = {treasury}
    Collaterals = {collateral_token}
    InitialGovernor = alice
    InitialSavings = NoOne
    InitialTreasury = treasury
    InitialStable <- NoStable
    InitialCollateral <- BothHaveCollateral
    SCALE = 4
    BPS_DENOMINATOR = 8
    SECONDS_PER_YEAR = 1
    DUST = 1
    Prices = {3, 4}
    InitialPrice = 4
    NewTypes <- LiquidationTypes
    ActiveChoices = {}
    FeeChoices = {}
    LimitChoices = {}
    RatioChoices = {}
    AuctionChoices = {}
    SurplusChoices = {}
    PauseChoices = {}
    ReceiverChoices = {}
    NomineeChoices = {}
    CollateralAmounts = {8}
    DebtAmounts = {4}
    PaymentAmounts = {1}
    BidAmounts = {}
    LossAmounts = {}
    TransferAmounts = {8}
    MaxVaults = 2
    MaxTypes = 1
    MaxTime = 1
INVARIANTS CollateralCustody TotalsCoverVaults
PROPERTIES BackingNeverErodes
CHECK_DEADLOCK FALSE
