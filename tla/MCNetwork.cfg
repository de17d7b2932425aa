SPECIFICATION NetSpec
CONSTANTS
    NetworkIds = {n1, n2}
    NoNetwork = none
    STARTUP_TIMEOUT = 1
    STARTUP_ATTEMPT_LIMIT = 2
    RECONNECT_TIMEOUT = 2
    HEALTH_PROBE_INTERVAL = 2
    HEALTH_FAILURE_THRESHOLD = 2
    ACTION_LIMIT = 8
    FAULT_REBOOT_DELAY = 2
    GUARD_RESET = 2
INVARIANT NeverStranded
PROPERTIES TransferLock ReconnectEnds FaultReboots ImplementsView
