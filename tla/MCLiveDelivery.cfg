\* Two slots, a commit at any moment, one failed negotiation and one failed pull.
SPECIFICATION FairSpec
CONSTANTS
    s1 = s1
    s2 = s2
    Sockets <- MCSockets
    Loads <- MCLoads
    MaxHead = 2
    MaxRestarts = 1
    MaxFailures = 1
INVARIANTS
    NoLostWakeup
    FramesContiguous
    ReleasedIsDrained
PROPERTIES
    CommitsDelivered
    CloseResolves
CHECK_DEADLOCK FALSE
