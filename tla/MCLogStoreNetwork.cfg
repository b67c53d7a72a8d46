CONSTANTS
    a1 = a1
    a2 = a2
    s1 = s1
    r1 = r1
    NoAddress = NoAddress
    NodeManagerAccount = NodeManagerAccount
    OwnerAccount = OwnerAccount
    StoreManagerAccount = StoreManagerAccount
    QueryManagerAccount = QueryManagerAccount
    EmptyId = EmptyId
    NoContent = NoContent
    Addresses <- MCAddresses
    Accounts <- MCAccounts
    InitialTokens <- MCTokens
    Streams <- MCStreams
    Ids <- MCIds
    Contents <- MCContents
    ProofLists <- MCProofs
    Amounts = {1}
    FeeAmounts = {1}
    Buffers = {1}
    StakeRequired = 1
    Precision = 2
    MaxBlock = 2
SPECIFICATION NetworkSpec
CONSTRAINT Bounded
INVARIANT CustodyExact
PROPERTY FeesOnlyForReports
