\* Vaults, PSM and savings on one ledger: fees, losses, their cover and redemptions.
SPECIFICATION ProtocolSpec
CONSTANTS
    alice = alice
    bob = bob
    gov = gov
    con_vaults = con_vaults
    treasury = treasury
    con_savings = con_savings
    con_psm = con_psm
    InitialReserve <- AliceHasReserve
    PsmFee = 1
    PsmAmounts = {4}
    RedeemAmounts = {3}
    SavingsAmounts = {3}
    ShareAmounts = {3}
    collateral_token = collateral_token
    NoOne = NoOne
    Users = {alice, gov}
    FeeReceivers = {treasury, con_savings, con_psm}
    Collaterals = {collateral_token}
    InitialGovernor = gov
    InitialSavings = con_savings
    InitialTreasury = treasury
    InitialStable <- AliceHasStable
    InitialCollateral <- AliceHasCollateral
    SCALE = 4
    BPS_DENOMINATOR = 4
    SECONDS_PER_YEAR = 1
    DUST = 1
    Prices = {2, 4}
    InitialPrice = 4
    NewTypes <- BufferedTypes
    ActiveChoices = {}
    FeeChoices = {}
    LimitChoices = {}
    RatioChoices = {}
    AuctionChoices = {}
    SurplusChoices = {}
    PauseChoices = {}
    ReceiverChoices = {}
    NomineeChoices = {}
    CollateralAmounts = {8}
    DebtAmounts = {4}
    PaymentAmounts = {5}
    BidAmounts = {3}
    LossAmounts = {2}
    TransferAmounts = {}
    MaxVaults = 1
    MaxTypes = 2
    MaxTime = 2
INVARIANTS StableCustody
PROPERTIES SystemBackingNeverErodes SaversNeverLose
CHECK_DEADLOCK FALSE
