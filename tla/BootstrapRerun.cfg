SPECIFICATION FairSpec
CONSTANTS
    operator = operator
    governance = governance
    NoOne = NoOne
    alice = alice
    chain_contract = chain_contract
    oracle_reporters <- Reporters
    ChainContracts = {chain_contract}
    InitiallyDeployed <- ReadyChain
    Rerouted = {"psm_treasury"}
    MaxFaults = 0
PROPERTIES OnlyFaultsFailRuns
