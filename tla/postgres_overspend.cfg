SPECIFICATION FairSpec
CONSTANTS
    t1 = t1
    t2 = t2
    t3 = t3
    t4 = t4
    alice = alice
    bob = bob
    n1 = n1
    n3 = n3
    r1 = r1
    Txs = {t1, t2, t3, t4}
    Payers = {alice, bob}
    PayerOf <- MCPayerOf
    NoncesOf <- MCNoncesOf
    ReferencesOf <- MCReferencesOf
    LimitOf <- MCLimitOf
INVARIANTS
    SpendWithinLimit
CHECK_DEADLOCK FALSE
