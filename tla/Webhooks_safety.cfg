SPECIFICATION WSpec
CONSTANTS
    p1 = p1
    p2 = p2
    d1 = d1
    d2 = d2
    d3 = d3
    d4 = d4
    c1 = c1
    c2 = c2
    c3 = c3
    Payments = {p1}
    NoPayment = NoPayment
    Amounts = {1, 2}
    Keys = {}
    NoKey = NoKey
    Deliveries = {d1, d2, d3, d4}
    Carries <- AnonymousSuccess
    ProviderIds = {"a", "b"}
    NoId = NoId
    Millis = {1, 2}
    Clients = {c1, c2, c3}
    Requests = {d1, d2, d3, d4, c1, c2, c3}
    MaxInFlight = 7
    Handlers = {"create", "edit", "cancel", "cancelSession"}
    MaxCrashes = 1
SYMMETRY MCSymmetry
INVARIANTS
    WTypeOK
    LockProtectsRow
    AnsweredIsLogged
    AnsweredSuccessIsProcessed
    CapturedAtMostOnce
