SPECIFICATION FairWSpec
CONSTANTS
    p1 = p1
    p2 = p2
    d1 = d1
    d2 = d2
    d3 = d3
    d4 = d4
    c1 = c1
    c2 = c2
    c3 = c3
    Payments = {p1, p2}
    NoPayment = NoPayment
    Amounts = {1, 2}
    Keys = {k1}
    NoKey = NoKey
    Deliveries = {d1, d2, d3}
    Carries <- DuplicateSuccess
    ProviderIds = {"a", "b"}
    NoId = NoId
    Millis = {1}
    Clients = {c1, c2}
    Requests = {d1, d2, d3, c1, c2}
    MaxInFlight = 5
    Handlers = {"create", "captureLocked"}
    MaxCrashes = 1
INVARIANTS
    OnePaymentPerKey
PROPERTIES
    ImplementsContract
    KnownPaymentIsAnswered
