\* Fees of 0 and 25% (100% is refused), a treasury that may be anybody, nobody, or the contract.
SPECIFICATION Spec
CONSTANTS
    alice = alice
    bob = bob
    con_psm = con_psm
    NoOne = NoOne
    Users = {alice, bob}
    BPS_DENOMINATOR = 4
    InitialGovernor = alice
    InitialTreasury = bob
    InitialStable <- StartingStable
    InitialReserve <- StartingReserve
    Amounts = {1, 4}
    FeeChoices = {0, 1, 4}
    ReceiverChoices = {NoOne, con_psm}
    Nominees = {bob}
    MaxElsewhere = 2
INVARIANTS TypeOK FullyBacked
PROPERTIES ReserveLeavesOnlyForStable
