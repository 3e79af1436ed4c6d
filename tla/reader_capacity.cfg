CONSTANTS
    r1 = r1
    r2 = r2
    r3 = r3
    v1 = v1
    v2 = v2
    None = None
    Requests = {r1, r2, r3}
    Versions = {}
    MaxConcurrent = 1
    MaxQueued = 1
    MaxChanges = 0
    MaxLosses = 0
SPECIFICATION Spec
SYMMETRY RequestSymmetry
INVARIANT CapacityIsConserved
CHECK_DEADLOCK FALSE
