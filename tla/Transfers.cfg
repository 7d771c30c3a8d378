SPECIFICATION FairSpec
CONSTANTS
    Transfers = {t1, t2, t3}
    AccountIds = {1, 2, 3}
    Unknown = {0}
    MaxAmount = 1
    Funded = {1, 2}
    Funds = 1
INVARIANTS
    TypeOK
    NoOverdraft
    ChainSkipsOvertaken
    EntriesExplainBalance
PROPERTIES
    ImplementsContract
    BegunIsDecided
