CONSTANTS
    Paths = {"o"}
    TextPaths = {}
    OpaquePaths = {"o"}
    MaySkip = TRUE
    LinkPaths = {}
    Identities = {i}
    Columns = {c}
    Schemas <- MCSchemas
    FinalStages = {"exact"}
    Platforms = {p, q}
    HostRejects = TRUE
    MaxGeneration = 3
    MaxListings = 2
    MaxListed = 1
    MaxExports = 1
    MaxHostCalls = 1
    NoFile = NoFile
    NoIdentity = NoIdentity
    NoMetadata = NoMetadata
    NoPreview = NoPreview
    NoSql = NoSql
    NoSnapshot = NoSnapshot
    NoEntry = NoEntry
SPECIFICATION Spec
SYMMETRY MCSymmetry
CHECK_DEADLOCK FALSE
INVARIANT SourcesApart SettingsRemembered BusyMeansRunning WorkIsListed
PROPERTY ExportOwnSettings
