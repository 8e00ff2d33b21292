SPECIFICATION MCSpec
CONSTANTS
    Keys = {1, 2}
    Vals = {1, 2}
    Bad = {2}
    Calls = {c1, c2}
    MaxCommits = 2
    MaxReadFailures = 1
    MaxResets = 1
    Uses = {"watch", "stream"}
    Reads <- MCReads
    Storing <- MCStoring
    Loads <- MCLoadsOrIdle
INVARIANTS
    ObserversConverge
    ConnectionAgrees
PROPERTIES
    StoppedIsReleased
    ConnectionSettles
CHECK_DEADLOCK FALSE
