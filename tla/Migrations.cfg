SPECIFICATION Spec
CONSTANTS
    Runs = {a, b}
CHECK_DEADLOCK FALSE
INVARIANTS
    FreshDatabaseStarts
