SPECIFICATION MCSpec
CONSTANTS
    o1 = o1
    o2 = o2
    Nobody = Nobody
    Operators = {o1, o2}
    MaxEpoch = 2
    MaxLate = 2
    r1 = r1
    r2 = r2
    reader = reader
    resume = resume
    None = None
    Pages = {reader, resume}
    Requests = {r1, r2}
    PageOf <- OnePage
    MaxSignIns = 1
    MaxIssued = 3
    MaxFaults = 1
SYMMETRY Symmetry
INVARIANTS IdentityTypeOK SignOutIsFinal RenewedTokensReachTheBrowser WorkRunsOnce ClearedOnlyWhenOver
PROPERTIES DeletionStands ReportedIsRevoked
CHECK_DEADLOCK FALSE
