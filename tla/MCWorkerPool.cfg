SPECIFICATION FairSpec
CONSTANTS
    w1 = w1
    w2 = w2
    j1 = j1
    j2 = j2
    j3 = j3
    NoJob = NoJob
    Workers <- MCWorkers
    Jobs <- MCJobs
    ContentJobs <- MCContentJobs
    QueueSize = 2
    MaxFindings = 1
CHECK_DEADLOCK FALSE
INVARIANTS
    NilMeansDelivered
PROPERTIES
    ImplementsJobDelivery
    ScanReturns
