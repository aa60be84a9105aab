\* Four possible reporters of one asset; reports expire after one tick, or never.
SPECIFICATION Spec
CONSTANTS
    alice = alice
    bob = bob
    carol = carol
    dave = dave
    NoOne = NoOne
    NoReport = NoReport
    Accounts = {alice, bob, carol, dave}
    Assets = {COL}
    COL = COL
    InitialGovernor = alice
    Prices = {1, 4}
    Quorums = {1, 2}
    MaxAges = {0, 1}
    Candidates = {bob, carol, dave}
    Nominees = {bob}
    MaxTime = 2
INVARIANTS TypeOK QuorumOfDistinctReporters MinorityCannotSetPrice
