SPECIFICATION Spec
CONSTANTS
    i1 = i1
    i2 = i2
    v1 = v1
    v2 = v2
    None = None
    Importers = {i1}
    Versions = {v1, v2}
    MaxDeletions = 1
    MaxRetries = 1
    MaxFaults = 1
SYMMETRY VersionSymmetry
INVARIANTS TypeOK ServedSourceIsComplete CleanupLeavesNothing
PROPERTIES RestoredAfterCleanup KeepsCatalogue
CHECK_DEADLOCK FALSE
