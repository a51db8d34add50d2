SPECIFICATION FairSpec
CONSTANTS
    w1 = w1
    w2 = w2
    a1 = a1
    a2 = a2
    b1 = b1
    Nobody = Nobody
    Runs = {a1}
    Workers = {w1, w2}
    WorkerOf <- MCWorkerOf
    Events = {}
    Failures = {f1}
    Receipts = {1, 2}
    Referenced = {1, 2}
    Batch = 2
    Postgres = TRUE
    MaxLapses = 0
    MaxCrashes = 0
PROPERTIES
    SettlementOnlyAdvances
CHECK_DEADLOCK FALSE
