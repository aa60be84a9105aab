SPECIFICATION FairSpec
CONSTANTS
    operator = operator
    governance = governance
    NoOne = NoOne
    alice = alice
    chain_contract = chain_contract
    oracle_reporters <- Reporters
    ChainContracts = {chain_contract}
    InitiallyDeployed <- AnyChain
    Rerouted = {"psm_treasury"}
    MaxFaults = 1
INVARIANTS TypeOK OneVaultTypePerGivenUp
PROPERTIES CompletedRunsWireTheProtocol AcceptedIsOutOfReach RunsConverge
