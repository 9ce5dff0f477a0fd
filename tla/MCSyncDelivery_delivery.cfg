SPECIFICATION FairSpec
CONSTANTS
    PersistEvery = 2
    Portion = 2
    MaxMsgs = 3
    Budget <- FullBudget
CHECK_DEADLOCK FALSE
INVARIANTS
    TypeOK
    NothingLost
    TokenNotAhead
    NoReprocessing
    UnsavedWindow
PROPERTIES
    ImplementsMailbox
