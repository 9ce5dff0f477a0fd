\* Two uploading threads, claims, one fault of each kind.
CONSTANTS
    MaxKeys = 4
    Low = 2
    Retries = 3
    Levels = 2
    CountReported = TRUE
    Budget <- MCBudget
SPECIFICATION FairSpec
INVARIANTS
    TypeOK
    PoolUsable
    FallbackUsable
    SharedIsHonest
PROPERTIES
    Refilled
