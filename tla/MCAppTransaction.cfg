SPECIFICATION Spec
CONSTANTS
    MaxRequests = 3
    MaxLoose = 1
    MaxBacklog = 1
    MaxFaults = 1
INVARIANTS
    ResolvedIsDurable
    RejectedIsUndone
    HandlesAgree
PROPERTIES
    EverythingSettles
CHECK_DEADLOCK FALSE
