SPECIFICATION FairSpec
CONSTANTS
    alice = alice
    bob = bob
    carol = carol
    Users = {alice, bob, carol}
    governance = governance
    NoOne = NoOne
    InitialMembers <- ThreeMembers
    InitialWeights <- AliceWeighsTwo
    InitialGovernor = carol
    ThresholdNumerator = 2
    ThresholdDenominator = 3
    EmergencyNumerator = 1
    EmergencyDenominator = 1
    ProposalExpiry = 2
    MinPatchDelay = 2
    EmergencyPatchDelay = 1
    PatchIds = {patch}
    NoPatch = NoPatch
    Heights = {1, 2}
    Calls <- MemberCalls
    Candidates = {alice}
    Weights = {2}
    Nominees = {governance}
    MaxProposals = 2
    MaxTime = 2
INVARIANTS TypeOK SharesDecide SchedulesFollowVotes
PROPERTIES ImplementsBallot GovernedByVotes ProposalsAreSettled
CHECK_DEADLOCK FALSE
