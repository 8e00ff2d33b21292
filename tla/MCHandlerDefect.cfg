SPECIFICATION FairSyncSpec
CONSTANTS
    p1 = p1
    p2 = p2
    d2 = d2
    d3 = d3
    Me = o1
    MaxFaults = 2
    Pushes = {p1, p2}
    Owners = {o1}
    Digests = {d2, d3}
    CountOf <- MCCountOf
    Defective <- OneDefect
    MaxBatch = 2
    GroupSize = 2
    NoDigest = NoDigest
    NoOwner = NoOwner
    NoPush = NoPush
CHECK_DEADLOCK FALSE
PROPERTY HandlerDefectRejectsItsCall
