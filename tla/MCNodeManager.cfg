CONSTANTS
    a1 = a1
    a2 = a2
    r1 = r1
    NoAddress = NoAddress
    NodeManagerAccount = NodeManagerAccount
    OwnerAccount = OwnerAccount
    Addresses <- MCAddresses
    Accounts <- MCAccounts
    InitialTokens <- MCTokens
    Reports <- MCReports
    Amounts = {1, 2}
    StakeRequired = 2
    MaxBlock = 1
SPECIFICATION ManagerSpec
INVARIANT LedgerBalances
INVARIANT AccessFollowsStake
PROPERTY OnlyRemovalStrands
PROPERTY WealthPreserved
PROPERTY RegistrySpec
