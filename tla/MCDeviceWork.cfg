SPECIFICATION Spec
CONSTANTS
    Serials = {d1, d2}
    None = None
    Settings = {"write", "delete", "auto"}
    QueueDepth = 2
    MaxPlugs = 3
    MaxCalls = 2
SYMMETRY DeviceSymmetry
CHECK_DEADLOCK FALSE
INVARIANTS OneAutomaticAttempt LeftoverCancelHarmless WorkOwed
PROPERTIES ChangesAuthorised RecoveryHolds DeleteRecorded
