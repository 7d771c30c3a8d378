SPECIFICATION FairSessionsSpec
CONSTANTS
    Payments = {p1}
    NoPayment = NoPayment
    Amounts = {1, 2}
    Keys = {}
    NoKey = NoKey
    Sessions = {s1, s2}
    NoSession = NoSession
    Calls = {c1, c2}
INVARIANTS
    PaidIsPosted
    NoSecondCharge
PROPERTIES
    EndedSessionSettles
CHECK_DEADLOCK FALSE
