SPECIFICATION Spec
CONSTANTS
    Methods = {m1, m2}
    Schedules = {f1, f2}
    Payments = {p1}
    Settlements = {s1}
    Terminals = {t1, t2}
    Fields = {api, secret}
    PatchFields = {secret}
    Values = {v1}
    Channels = {qris}
    Null = Null
    Terms <- MCTerms
    Changes <- MCChanges
    Amounts = {5}
    Scale = 10
    Dates = {d1, d2}
    Serials = {x1}
    Requests = {r1, r2, r3}
SYMMETRY MCSymmetry
INVARIANTS
    FeesAddUp
    FeeIsWithinLimits
PROPERTIES
    PatchKeepsForeignSettings
    SettledOnce
