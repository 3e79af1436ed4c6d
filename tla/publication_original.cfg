SPECIFICATION Spec
CONSTANTS
    i1 = i1
    i2 = i2
    v1 = v1
    v2 = v2
    None = None
    Importers = {i1, i2}
    Versions = {v1}
    MaxDeletions = 1
    MaxRetries = 0
    MaxFaults = 0
SYMMETRY ImporterSymmetry
PROPERTY ServedOriginalIsKept
CHECK_DEADLOCK FALSE
