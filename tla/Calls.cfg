SPECIFICATION FrontSpec
CONSTANTS
    a1 = a1
    a2 = a2
    Transfers = {c1, c2, c3}
    AccountIds = {a1, a2}
    MaxAmount = 1
    MaxBalance = 2
    Marks = {m1}
    NoMark = NoMark
    Body <- MCBody
INVARIANTS
    MadeOncePerKey
    SuccessWasMade
    BlockedForAReason
CHECK_DEADLOCK FALSE
