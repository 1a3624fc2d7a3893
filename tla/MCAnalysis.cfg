SPECIFICATION Spec
CONSTANTS
    Fold <- MCFold
    Bare <- MCBare
    ClientDepth <- MCClientDepth
    BatchSize <- MCBatchSize
    RuleRank <- MCRuleRank
    Ext <- MCExt
    PathRank <- MCPathRank
    Hosts <- MCHosts
    Shares <- MCShares
    ScopeConfigs <- MCScopeConfigs
    ConfigFiles <- MCConfigFiles
    FlagSets <- MCFlagSets
    Launches <- MCLaunches
    RuleLists <- MCRuleLists
    Files <- MCFiles
    FileFindings <- MCFileFindings
    FileMetas <- MCFileMetas
    Findings <- MCFindings
    Reports <- MCReports
    Plantings <- MCPlantings
    SeedFindings <- MCSeedFindings
    SeedEntry <- MCSeedEntry
CHECK_DEADLOCK FALSE
INVARIANTS
    ScopeIsExactlyScanned
    WantedFilesAreReadAndEvaluated
    TesterShowsWhatTheScanFinds
    RulesStayWithTheConfiguration
    MoreEvidenceRaisesTheScore
    CorrelationIsExact
    ActionableLocationsAreShown
    ExportedSecretsAreShown
    SavedReportsCompareAlike
    VerificationAddsUp
