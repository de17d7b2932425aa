SPECIFICATION UsbSpec
CONSTANTS
    Identities = {1, 2}
    NoIdentity = 0
    MaxRevision = 4
    MaxCount = 2
    AUTO_SYNC_RETRY_LIMIT = 1
    retry_unclean_readonly_close_once = TRUE
    NumSlots = 2
    MaxAttach = 2
    MaxCalls = 0
    CONTROL_QUEUE_DEPTH = 4
CHECK_DEADLOCK FALSE
INVARIANTS BusyAccounted PinnedTarget
 
