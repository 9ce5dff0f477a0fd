SPECIFICATION FairSpec
CONSTANTS
    Ops = {"start", "stop", "pause"}
    MaxFailures = 3
    MaxOps = 3
CHECK_DEADLOCK FALSE
PROPERTY StopReturns
