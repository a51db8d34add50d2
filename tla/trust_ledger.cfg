SPECIFICATION Spec
CONSTANTS
    a = a
    v = v
    k1 = k1
    w1 = w1
    w2 = w2
    w3 = w3
    served = served
    boasted = boasted
    praised = praised
    overturned = overturned
    harm = harm
    gone = gone
    market = market
    NoDomain = NoDomain
    NaN = NaN
    Null = Null
    NoKey = NoKey
    NoStamp = NoStamp
    Default = Default
    Subjects = {a, v}
    Registered = {a}
    Validators = {a, v}
    Executors = {a, v}
    Keys = {k1}
    Reports <- MCReports
    About <- MCAbout
    Content <- MCContent
    Workloads <- MCWorkloads
    Foreign <- MCForeign
    IdOrder <- MCIdOrder
    SameIssuer <- MCSameIssuer
    SameInfra <- MCSameInfra
    Neutral = {}
    Recent = 1
    Medium = 2
    MaxEvidence = 3
    MaxNow = 1
    MaxCrashes = 1
    MaxExports = 1
    MaxImports = 1
INVARIANTS
    TypeOK
    EvidenceTakesEffect
    OwnRetryIsAccepted
    DenialIsConsistent
    SelectionIsSound
PROPERTIES
    RefusalChangesNothing
    HistoryStands
    QuarantineIsAnnounced
CHECK_DEADLOCK FALSE
