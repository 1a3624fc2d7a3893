SPECIFICATION Spec
CONSTANTS
    Finding <- MCFinding
    Aspect <- MCAspect
    Has <- MCHas
    Blank = ""
    RuleLists <- MCRuleLists
    OutputSets <- MCOutputSets
    HostLimit = 2
INVARIANTS
    NothingIsLostSilently
    OutputsAreNested
    SuppressionIsAudited
    NoFileIsLeftOpen
CHECK_DEADLOCK FALSE
