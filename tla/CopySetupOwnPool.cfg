SPECIFICATION Spec
CONSTANTS
    Requested = 2
    Grants <- MCGrants
    Modes <- MCModes
    SizeImages <- MCSizes
    Programs <- MCPrograms
INVARIANT OwnPoolOnly
CHECK_DEADLOCK FALSE
