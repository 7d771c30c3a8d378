SPECIFICATION FairSpec
CONSTANTS
    Shifts = {s1}
    NoShift = NoShift
    Cashiers = {k1}
    Days = {1, 2}
    Floats = {1}
    MaxCash = 1
    Requests = {r1, r2, r3}
    PoolSize = 2
INVARIANTS
    
    ForceClosedIsFlagged
    DayRecordAddsUp
PROPERTIES
    DayIsClosedOnce
    BegunIsAnswered
