SPECIFICATION FairSpec
CONSTANTS
    m1 = m1
    m2 = m2
    m3 = m3
    p1 = p1
    p2 = p2
    p3 = p3
    r1 = r1
    alice = alice
    None = None
    Calls = {c1, c2}
    Keys = {k1}
    Payloads = {p1, p2, p3}
    Payments = {m1, m2, m3}
    Payers = {alice}
    Refs = {r1}
    PaymentOf <- MCPaymentOf
    PayerOf <- MCPayerOf
    RefOf <- MCRefOf
    LimitOf <- MCLimitOf
    StoreFaults = FALSE
    Expiring = {}
PROPERTIES
    BusyMeansInProgress
CHECK_DEADLOCK FALSE
