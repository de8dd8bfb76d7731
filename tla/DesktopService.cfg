CONSTANTS
    Hashes = {h1, h2}
    Lookups = {c1}
    FoundTtl = 2
    NotFoundTtl = 1
    SyncInterval = 1
    MaxEntries = 1
    MaxNow = 2
    MaxIntelFaults = 1
    Scans = {s1, s2}
    PlainScans = {s2}
    MaxSessions = 1
    UploadLimit = 1
    MaxRewrites = 1
    win = win
    micro = micro
    vm = vm
    Order <- MCOrder
    MicroVms = {micro}
    PortableVms = {vm}
    Analyses = {a1}
    MaxTests = 1
    MaxSampleWrites = 1
    Releases <- MCReleases
    Installed <- MCInstalled
    Precedence <- MCPrecedence
    MaxUpdateFaults = 2
    Settings = {d, v1}
    Default = d
    Savers = {c1, c2}
    MaxFileFaults = 2
    Findings <- MCFindings
    Combos <- MCCombos
    ScriptFindings <- MCScriptFindings
    ScriptCombos <- MCScriptCombos
    PluginLimit = 2
    ScriptLimit = 1
    MaxArchiveEntries = 2
    MaxFileScans = 2
SPECIFICATION FairSpec
INVARIANT
    NoManufacturedVerdict
    CachedAnswerWithinTtl
    MaliciousEvidenceWins
    SafeIsBacked
    SlotsAreExact
    FinishedMeansReleased
    LaunchedWhereAccepted
    ResultsAreOwn
    AcceptedIsStaged
    CountedOnce
    MarkersAreHonest
    SafeIsEarned
    MaliciousIsKept
    MoreFindingsNeverMilder
    ScriptScoreIsMeasured
    ServiceInv
PROPERTY
    ImportEnds
    ScansEnd
    AnalysesEnd
    NeverRollsBack
    SettingsSurvive
CHECK_DEADLOCK FALSE
