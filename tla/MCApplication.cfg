SPECIFICATION Spec
CONSTANTS
    Identities = {a1, a2}
    NoIdentity = none
    MaxRevision = 3
    MaxCount = 2
    AUTO_SYNC_RETRY_LIMIT = 1
    retry_unclean_readonly_close_once = TRUE
INVARIANTS OneRecovery
PROPERTIES ConflictDisarms ConflictLatched
