CONSTANTS
    r1 = r1
    r2 = r2
    r3 = r3
    v1 = v1
    v2 = v2
    None = None
    Requests = {r1}
    Versions = {v1, v2}
    MaxConcurrent = 1
    MaxQueued = 1
    MaxChanges = 2
    MaxLosses = 2
SPECIFICATION LiveSpec
INVARIANT TypeOK
PROPERTIES WithdrawnIsNotServed RevokedIsNotServed CancelledIsDiscarded WorkEnds
CHECK_DEADLOCK FALSE
