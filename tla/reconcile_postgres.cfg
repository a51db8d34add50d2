SPECIFICATION FairSpec
CONSTANTS
    w1 = w1
    w2 = w2
    a1 = a1
    a2 = a2
    b1 = b1
    Nobody = Nobody
    Runs = {a1, a2, b1}
    Workers = {w1, w2}
    WorkerOf <- MCWorkerOf
    Events = {}
    Failures = {}
    Receipts = {1, 2}
    Referenced = {2}
    Batch = 2
    Postgres = TRUE
    MaxLapses = 1
    MaxCrashes = 1
INVARIANTS
    OneRunReconciles
PROPERTIES
    DecidedIsSettled
CHECK_DEADLOCK FALSE
