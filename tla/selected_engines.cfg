SPECIFICATION Spec
CONSTANTS
    v1 = v1
    v2 = v2
    None = None
    EngineOrder <- TwoEngines
    Hybrid = "graphmind"
    Varying = {"multimodal"}
    Selections <- HybridOrAll
    Versions = {v1, v2}
    MaxJobs = 3
    MaxDeletions = 1
    MaxRetries = 1
    MaxFaults = 1
SYMMETRY VersionSymmetry
INVARIANTS TypeOK ServedIndexIsComplete CleanupLeavesNothing
PROPERTY KeepsCatalogue
CHECK_DEADLOCK FALSE
