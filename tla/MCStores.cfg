SPECIFICATION MCSpec
CONSTANTS
    p1 = p1
    p2 = p2
    d2 = d2
    d3 = d3
    dx = dx
    Pushes = {p1, p2}
    Owners = {o1, o2}
    Digests = {d2, d3, dx}
    CountOf <- MCCountOf
    Defective <- MCDefective
    MaxBatch = 2
    GroupSize = 2
    NoDigest = NoDigest
    NoOwner = NoOwner
    NoPush = NoPush
    a1 = a1
    a2 = a2
    b1 = b1
    A = A
    B = B
    Keys = {a1, a2, b1}
    BootKeys = {a1, a2}
    PlanOf <- MCPlanOf
    MaxHead = 3
    MaxPlans = 2
SYMMETRY Symmetry
INVARIANTS
    ExactlyOnce
    AnswersCommitted
    DecidedInOrder
    ResultsRetained
    StatementsMatch
    Coverage
    Converged
PROPERTIES
    NoRegress
