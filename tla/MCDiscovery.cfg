SPECIFICATION DiscoverySpec
CONSTANTS
    None = None
    OtherNC = OtherNC
    own = own
    foreign = foreign
    h1 = h1
    h2 = h2
    a1 = a1
    c1 = c1
    c2 = c2
    Domains <- MCDomains
    Options <- MCOptions
    Machines <- MCMachines
    Targets <- MCTargets
    Checkers <- MCCheckers
    Configs <- MCConfigs
    Directories <- MCDirectories
CHECK_DEADLOCK FALSE
INVARIANTS
    SearchesAreBound
    UsersWordIsKept
    NilMeansChecked
PROPERTIES
    ResolveEnds
