CONSTANTS
    Networks = {n1, n2}
    None = none
    PromptEvents = TRUE
    Threshold = 2
    MaxEvents = 2
SPECIFICATION RadioSpec
INVARIANT HotspotIsUp
PROPERTIES JoinedForReal LossNoticed
