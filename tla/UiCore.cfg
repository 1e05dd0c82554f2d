CONSTANTS
    Paths = {"t", "b"}
    TextPaths = {"t"}
    OpaquePaths = {}
    MaySkip = FALSE
    LinkPaths = {}
    Identities = {it, ib}
    Columns = {c}
    Schemas <- MCSchemas
    FinalStages = {"sampled", "exact"}
    Platforms = {p}
    HostRejects = FALSE
    MaxGeneration = 3
    MaxListings = 1
    MaxListed = 2
    MaxExports = 0
    MaxHostCalls = 0
    NoFile = NoFile
    NoIdentity = NoIdentity
    NoMetadata = NoMetadata
    NoPreview = NoPreview
    NoSql = NoSql
    NoSnapshot = NoSnapshot
    NoEntry = NoEntry
SPECIFICATION Spec
SYMMETRY MCSymmetry
CHECK_DEADLOCK FALSE
INVARIANT DisplayIsOneAnalysis SqlFresh
PROPERTY SupersededTaskWritesNothing AnalysisKeepsEdits
