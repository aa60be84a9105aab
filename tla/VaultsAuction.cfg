\* One vault that falls below the ratio, an owner who may cure, two bidders.
SPECIFICATION FairSpec
CONSTANTS
    alice = alice
    bob = bob
    carol = carol
    gov = gov
    con_vaults = con_vaults
    treasury = treasury
    con_savings = con_savings
    collateral_token = collateral_token
    NoOne = NoOne
    Users = {alice, bob, carol, gov}
    FeeReceivers = {treasury}
    Collaterals = {collateral_token}
    InitialGovernor = gov
    InitialSavings = NoOne
    InitialTreasury = treasury
    InitialStable <- BiddersHaveStable
    InitialCollateral <- AliceHasCollateral
    SCALE = 4
    BPS_DENOMINATOR = 4
    SECONDS_PER_YEAR = 1
    DUST = 1
    Prices = {2, 4}
    InitialPrice = 4
    NewTypes <- AuctionTypes
    ActiveChoices = {}
    FeeChoices = {}
    LimitChoices = {}
    RatioChoices = {}
    AuctionChoices = {}
    SurplusChoices = {}
    PauseChoices = {TRUE, FALSE}
    ReceiverChoices = {}
    NomineeChoices = {}
    CollateralAmounts = {8}
    DebtAmounts = {4}
    PaymentAmounts = {2, 6}
    BidAmounts = {1, 2, 4, 6, 7}
    LossAmounts = {}
    TransferAmounts = {}
    MaxVaults = 1
    MaxTypes = 1
    MaxTime = 4
INVARIANTS TypeOK TotalsCoverVaults EscrowMatchesAuction
PROPERTIES OnlyMarketEndangers EscrowIsReleased ImplementsAuction
CHECK_DEADLOCK FALSE
