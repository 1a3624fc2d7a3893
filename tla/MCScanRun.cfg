SPECIFICATION FairSpec
CONSTANTS
    h1 = h1
    h2 = h2
    NoHost = NoHost
    Hosts <- MCHosts
    MaxRuns = 2
CHECK_DEADLOCK FALSE
INVARIANTS
    EveryReturnCleansUp
    ReturnedRunIsSaved
    MarkedHostsWereScanned
    NilAccountsForEveryHost
PROPERTIES
    RunEnds
