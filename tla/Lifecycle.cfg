SPECIFICATION Spec
CONSTANTS
    Payments = {p1}
    NoPayment = NoPayment
    Amounts = {1, 2}
    Keys = {k1}
    NoKey = NoKey
    Requests = {r1, r2, r3, r4, r5}
    Clients = {r1, r2, r3, r4, r5}
    MaxInFlight = 3
    Handlers <- AllHandlers
SYMMETRY MCSymmetry
INVARIANTS
    LedgerExplainsStatus
    FeesAreOfCapturedAmount
PROPERTIES
    OnlyOvertakenBreakContract
    TipsDriftByStaleReads
