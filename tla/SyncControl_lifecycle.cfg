SPECIFICATION FairSpec
CONSTANTS
    Ops = {"start", "stop", "pause", "resume"}
    MaxFailures = 3
    MaxOps = 7
CHECK_DEADLOCK FALSE
INVARIANTS
    TypeOK
    NoWorkerAfterStop
    AuthErrorIsFinal
    PauseQuiesces
PROPERTY StopReturnsUnlessLost
