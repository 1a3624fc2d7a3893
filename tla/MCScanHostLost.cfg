SPECIFICATION HostSpec
CONSTANTS
    w1 = w1
    f1 = f1
    f2 = f2
    g1 = g1
    s1 = s1
    s2 = s2
    NoJob = NoJob
    NoShare = NoShare
    NoEntry = NoEntry
    Workers <- MCOneWorker
    Jobs <- MCFiles
    Shares <- MCShares
    shareOf <- MCshareOf
    Recovered <- MCRecovered
    ContentJobs <- MCContent
    QueueSize = 1
    BatchSize = 2
    MaxFindings = 1
CHECK_DEADLOCK FALSE
INVARIANTS
    RecordedFilesAreReported
