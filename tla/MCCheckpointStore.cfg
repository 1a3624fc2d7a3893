SPECIFICATION FairSpec
CONSTANTS
    HostNames <- MCHosts
    ShareNames <- MCNames
    PathNames <- MCNames
    normalizeKey <- MCnormalizeKey
    NoKey = NoKey
    Sizes = {1}
    Times = {9}
    NoTime = NoTime
    LegacyState = LegacyState
    NoState = NoState
    Absent = Absent
    Torn = Torn
    Foreign = Foreign
    MaxIOErrors = 1
INVARIANTS
    NeverTorn
PROPERTIES
    ImplementsDurableProgress
    CloseReturns
    MarksBecomeDurable
