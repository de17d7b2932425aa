SPECIFICATION UsbSpec
CONSTANTS
    Identities = {1, 2}
    NoIdentity = 0
    MaxRevision = 4
    MaxCount = 2
    AUTO_SYNC_RETRY_LIMIT = 1
    retry_unclean_readonly_close_once = FALSE
    NumSlots = 1
    MaxAttach = 2
    MaxCalls = 1
    CONTROL_QUEUE_DEPTH = 4
CHECK_DEADLOCK FALSE
INVARIANTS AutoSyncBounded
PROPERTIES GoneIsClosed
