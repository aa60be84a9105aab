\* One vault, prices and one bid: enough for an auction that ends without bids.
SPECIFICATION Spec
CONSTANTS
    alice = alice
    bob = bob
    carol = carol
    gov = gov
    con_vaults = con_vaults
    treasury = treasury
    con_savings = con_savings
    collateral_token = collateral_token
    NoOne = NoOne
    Users = {alice, bob, gov}
    FeeReceivers = {treasury}
    Collaterals = {collateral_token}
    InitialGovernor = gov
    InitialSavings = NoOne
    InitialTreasury = treasury
    InitialStable <- BobHasStable
    InitialCollateral <- AliceHasCollateral
    SCALE = 4
    BPS_DENOMINATOR = 4
    SECONDS_PER_YEAR = 1
    DUST = 1
    Prices = {2, 4}
    InitialPrice = 4
    NewTypes <- StandardTypes
    ActiveChoices = {}
    FeeChoices = {}
    LimitChoices = {}
    RatioChoices = {}
    AuctionChoices = {}
    SurplusChoices = {}
    PauseChoices = {}
    ReceiverChoices = {}
    NomineeChoices = {}
    CollateralAmounts = {8}
    DebtAmounts = {4}
    PaymentAmounts = {}
    BidAmounts = {4}
    LossAmounts = {}
    TransferAmounts = {}
    MaxVaults = 1
    MaxTypes = 1
    MaxTime = 2
INVARIANTS UnsafeVaultsHaveAnExit
CHECK_DEADLOCK FALSE
