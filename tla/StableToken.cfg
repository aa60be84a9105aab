\* Three accounts, so that payer, payee and spender can all differ or coincide.
SPECIFICATION SignedSpec
CONSTANTS
    Accounts = {alice, bob, con_vaults}
    NoOne = NoOne
    Amounts = {0, 1}
    InitialSupplies = {0, 1}
    SupplyKey = "total_supply"
    MetadataKeys = {"total_supply", "token_name"}
    MetadataValues = {0, 1}
    MaxSupply = 2
SYMMETRY AccountSymmetry
INVARIANTS TypeOK SupplyIsSumOfBalances
PROPERTIES DebitsAreAuthorised
