\* A server whose sync responses never carry the key count.
CONSTANTS
    MaxKeys = 4
    Low = 2
    Retries = 3
    Levels = 2
    CountReported = FALSE
    Budget <- MCNoFaults
SPECIFICATION FairSpec
PROPERTIES
    Refilled
