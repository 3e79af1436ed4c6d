SPECIFICATION MCSpec
CONSTANTS
    Nobody = Nobody
    Callers = {1, 2}
    Evidence <- SomeEvidence
    ContextChars = 3
    MaxImages = 1
    HasKey = TRUE
    MaxRetries = 1
    Batches = 2
    MaxPairs = 1
    Directories <- SomeDirectories
    MaxTag = 2
    MaxOrphans = 1
    Installers = {1, 2}
    Parts <- PartNames
    MaxEdits = 2
    Engines <- EngineNames
    Needed <- ModelNames
    Identity = "identity"
    Files <- SomeFiles
    MaxUnits = 3
    Sizes <- SomeSizes
    Processes = {1, 2}
    Timeout = 1
    Grace = 1
    Outlines <- SomeOutlines
    Texts <- PageTexts
    Fanout = 2
    MaxNodes = 5
    MaxSteps = 3
    MaxPdfPages = 8
    MaxChoices = 2
    MaxPages = 3
    DrawnPages = {2, 11, 13}
    MaxDrawn = 12
    Held <- DocumentOfVersion
    Title <- Titles
    Home <- VersionOfChunk
    Refs <- NamesInChunk
    Closeness <- ScoreOfChunk
    PageSize = 2
    MaxLimit = 3
    Units <- SomeUnits
    References <- DocumentsReferredTo
    Rankings <- SomeRankings
    Scores <- SomeScores
    Indexings <- SomeIndexings
    MinRelevance = 1
    SeedLimit = 4
    MaxEvidence = 4
    GraphLimit = 2
    PoolLimit = 4
    RrfK = 60
    MaxVersion = 2
    Starters = {1, 2}
    Supported <- SchemaOfRelease
    Legacy <- RowsBefore
    Catalogue <- EnginePair
    Visual = "multimodal"
    Anything = "graphmind"
    Settings <- SomeSettings
    Beginnings <- SomeBeginnings
    Limits = {2, 3, 5}
    SectionTexts <- SomeSections
    MaxChanges = 3
INVARIANTS PartsAreWellFormed InstallationIsWhole ReadinessIsBounded ParsingIsSound ModelsAreShared ShownAsItIs RetrievalIsComplete
CHECK_DEADLOCK FALSE
