\* Bootstrap and Sync of two cursors with one fault of any kind.
SPECIFICATION FairSpec
CONSTANTS
    MaxHead = 2
    MaxCalls = 0
    MaxFaults = 1
    Faults = {"error", "unauthorized", "refused", "closed", "fragment", "expired",
              "capacity", "store", "lifecycle", "slow", "restart", "reset"}
    Opened = {"new"}
    MaxIds = 3
    Slots = 3
    MaxMail = 3
INVARIANTS
    OneCursorRequest
    LatchesReleased
    NoForeignWork
PROPERTIES
    CatchesUp
