SPECIFICATION Spec
CONSTANTS
    v1 = v1
    v2 = v2
    None = None
    EngineOrder <- TwoEngines
    Hybrid = "graphmind"
    Varying = {"multimodal"}
    Selections <- HybridOrAll
    Versions = {v1}
    MaxJobs = 2
    MaxDeletions = 1
    MaxRetries = 0
    MaxFaults = 1
INVARIANT NoBuildOutlivesItsSource
CHECK_DEADLOCK FALSE
