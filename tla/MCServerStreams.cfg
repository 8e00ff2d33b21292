SPECIFICATION MCSpec
CONSTANTS
    Stream = {1, 2}
    Record = {1, 2}
    Tx = {1, 2, 3}
    Workloads <- MCWorkloads
    GreatestHead = 4
    Retries = 1
    NoTx = 0
    a1 = a1
    a2 = a2
    a3 = a3
    b1 = b1
    A = A
    B = B
    Keys = {a1, a2, a3, b1}
    Models = {A, B}
    ModelOf <- MCModelOf
    PageSize = 3
    UnitTarget = 1
    MaxHead = 3
INVARIANTS
    NoMissedInvalidation
    WakesMatchCommits
    OrderlyNeverDeadlock
    PlansValidate
    PrefixProven
    ComponentsAtomic
    PagesProgress
PROPERTIES
    PositionsAboveHead
CHECK_DEADLOCK FALSE
