SPECIFICATION LiveSpec
CONSTANTS
    i1 = i1
    i2 = i2
    v1 = v1
    v2 = v2
    None = None
    Importers = {i1}
    Versions = {v1}
    MaxDeletions = 1
    MaxRetries = 1
    MaxFaults = 2
PROPERTY DeletionCompletes
CHECK_DEADLOCK FALSE
