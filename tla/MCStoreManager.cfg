CONSTANTS
    u1 = u1
    u2 = u2
    u3 = u3
    s1 = s1
    s2 = s2
    Users <- MCUsers
    Streams <- MCStreams
    StoreManagerAccount = StoreManagerAccount
    ParentAccount = ParentAccount
    Accounts <- MCAccounts
    StoreTokens <- MCTokens
    StakeAmounts = {1, 2}
    CaptureAmounts = {0, 1, 2, 3}
SPECIFICATION StoreSpec
INVARIANT StoresHoldTokens
PROPERTY ListFollowsStakes
CHECK_DEADLOCK FALSE
