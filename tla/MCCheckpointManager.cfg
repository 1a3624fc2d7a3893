SPECIFICATION FairSpec
CONSTANTS
    s1 = s1
    s2 = s2
    f1 = f1
    f2 = f2
    g1 = g1
    Shares <- MCShares
    Files <- MCFiles
    shareOf <- MCshareOf
    NoEntry = NoEntry
    MaxPasses = 2
CHECK_DEADLOCK FALSE
INVARIANTS
    CompleteSharesAreScanned
PROPERTIES
    WalksAreDecided
