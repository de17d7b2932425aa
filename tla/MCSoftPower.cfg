SPECIFICATION Spec
CONSTANTS
    Debounce = 2
    Hold = 4
    Window = 5
    Confirm = 11
    Patience = 1
    Attempts = 2
    MaxAsked = 1
    MaxPresses = 3
INVARIANTS FormatConfirmed SleepsUnmounted SleepsSynced
PROPERTIES FilesKept HoldAnswered
