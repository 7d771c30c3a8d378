SPECIFICATION AftermathSpec
CONSTANTS
    k0 = k0
    k1 = k1
    k2 = k2
    Payments = {p1, p2}
    NoPayment = NoPayment
    Amounts = {1, 2}
    Keys = {k0, k1, k2}
    NoKey = NoKey
    Requests = {r1}
    Clients = {r1}
    MaxInFlight = 1
    Handlers <- MCHandlers
    Jobs = {j1, j2, j3}
    RefundIds = {f1, f2}
    NoRefund = NoRefund
    DisputeIds = {d1}
    SplitKeys = {k0}
    Part <- MCPart
    PartAmounts = {2}
    MaxCalls = 2
SYMMETRY MCSymmetry
INVARIANTS
    RefundsWithinPayment
    StatusTellsRefunds
    LedgerFollowsReturns
    NetRevenueIsLedgerNet
PROPERTIES
    TerminalRefundIsFinal
    OnlyRefundsRevive
