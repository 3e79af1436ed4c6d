SPECIFICATION Spec
CONSTANTS
    o1 = o1
    o2 = o2
    application = application
    keycloak = keycloak
    None = None
    Partial = Partial
    Operators = {o1, o2}
    StopOrder <- TwoRoles
    UpdateRoles = {"reader", "chroma"}
    SealedRoles = {"reader"}
    JavaRoles = {"chroma"}
    Roots = {application, keycloak}
    MaxCommands = 3
    MaxStarts = 1
    MaxWrites = 1
    MaxFaults = 1
SYMMETRY OperatorSymmetry
INVARIANTS TypeOK CleanStopKillsNothing SnapshotIsOneMoment MixedStateIsNotServed
PROPERTY HalfUpdateIsFrozen
CHECK_DEADLOCK FALSE
