SPECIFICATION FairSpec
CONSTANTS
    c1 = c1
    c2 = c2
    c3 = c3
    known = known
    new = new
    k1 = k1
    k2 = k2
    k3 = k3
    x1 = x1
    x2 = x2
    None = None
    Calls = {c1, c2, c3}
    Subjects = {known, new}
    RateKeys = {k1, k2, k3}
    Sessions = {x1, x2}
    Opinions <- MCOpinions
    Workloads <- MCWorkloads
    Limit = 1
    MaxTracked = 1
    Attempts = 3
    StoreFaults = TRUE
INVARIANTS
    TypeOK
    LimitHolds
    SessionEnds
    AnswersAreHonest
    BootstrapIsOrderly
    PaidAsBooked
PROPERTIES
    SessionKeepsToken
    EveryCallIsAnswered
CHECK_DEADLOCK FALSE
