CONSTANTS
    Paths = {"t", "b"}
    TextPaths = {"t"}
    OpaquePaths = {}
    MaySkip = FALSE
    LinkPaths = {}
    Identities = {i}
    Columns = {}
    Schemas <- MCSchemas
    FinalStages = {"exact"}
    Platforms = {p}
    HostRejects = FALSE
    MaxGeneration = 3
    MaxListings = 1
    MaxListed = 2
    MaxExports = 1
    MaxHostCalls = 0
    NoFile = NoFile
    NoIdentity = NoIdentity
    NoMetadata = NoMetadata
    NoPreview = NoPreview
    NoSql = NoSql
    NoSnapshot = NoSnapshot
    NoEntry = NoEntry
SPECIFICATION FairSpec
CHECK_DEADLOCK FALSE
PROPERTY BusyEnds SelectionSettles
