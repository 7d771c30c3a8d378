SPECIFICATION AftermathSpec
CONSTANTS
    k0 = k0
    k1 = k1
    k2 = k2
    Payments = {p1, p2, p3, p4}
    NoPayment = NoPayment
    Amounts = {1, 2}
    Keys = {k0, k1, k2}
    NoKey = NoKey
    Requests = {r1}
    Clients = {r1}
    MaxInFlight = 1
    Handlers <- MCHandlers
    Jobs = {j1, j2, j3}
    RefundIds = {}
    NoRefund = NoRefund
    DisputeIds = {}
    SplitKeys = {k0}
    Part <- MCPart
    PartAmounts = {1, 2}
    MaxCalls = 0
SYMMETRY MCSymmetry
INVARIANTS
    SplitChargedOnce
