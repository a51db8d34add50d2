SPECIFICATION ApiSpec
CONSTANTS
    w1 = w1
    w2 = w2
    e1 = e1
    e2 = e2
    a1 = a1
    a2 = a2
    a3 = a3
    c1 = c1
    c2 = c2
    c3 = c3
    c4 = c4
    None = None
    Webhooks = {w1, w2}
    Events = {e1, e2}
    AliasOf <- MCAliasOf
    MatchedBy <- MCMatchedBy
    MaxOf <- MCMaxOf
    StoreFaults = TRUE
    MaxCrashes = 1
    Requests = {c1, c2, c3, c4}
    Workloads <- MCWorkloads
    Environment = "prod"
    Root = "root"
    Earlier = {a1, a2, a3}
    ReplayLimit = 2
    MaxStreams = 1
    LastMinute = 3
INVARIANTS
    TypeOK
    NobodyForgotten
    BookedAsHappened
    StreamsAreWhole
    KeysAreMetered
PROPERTIES
    AckIsFinal
    EveryDeliveryEnds
CHECK_DEADLOCK FALSE
