SPECIFICATION Spec
CONSTANTS
    h1 = h1
    h2 = h2
    NoHost = NoHost
    Hosts <- MCOneHost
    MaxRuns = 1
CHECK_DEADLOCK FALSE
INVARIANTS
    ReportHasMetrics
