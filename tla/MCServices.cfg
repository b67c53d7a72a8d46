CONSTANTS
    wallet = wallet
    queryManager = queryManager
    cliJob = cliJob
    clientJob = clientJob
    Jobs <- MCJobs
    JobOf <- MCJobOf
    Holders <- MCHolders
    MintAmounts = {6}
    MaxTokens = 6
    ListTargets <- MCListTargets
    ExactLimit = 4
    InitialTokens <- MCInitialTokens
    InitialAllowance <- MCInitialAllowance
    MaxGasPrice = 2
    ReportNodes = {rn1, rn2}
    Reports <- MCReports
    Amounts <- MCAmounts
    Timestamps = {0, 7}
    MaxProofs = 2
    Processes = {pr1, pr2}
    Messages <- MCMessages
    Foreign <- MCForeign
    MaxPublished = 3
    MaxChanged = 1
    Chains = {5, 137}
    DevChains = {5}
    Groups <- MCGroups
    GroupSize <- MCGroupSize
    BatchSize = 2
    MaxRuns <- MCMaxRuns
    MaxCrashes = 2
    MaxBeats = 2
SPECIFICATION ServicesSpec
INVARIANTS
    StakesMatchReports
    SpendingWithinAgreed
    LoneStakeIsAllowed
    ProofsVerify
    DecodedAsSent
    FileNamesWiring
    NamedManagersPay
    EachAccountOnce
    StakedOnceOrCutShort
PROPERTIES
    EveryJobEnds
CHECK_DEADLOCK FALSE
