SPECIFICATION Spec
CONSTANTS
    PersistEvery = 3
    Portion = 2
    MaxMsgs = 2
    Budget <- CrashBudget
INVARIANT ReplayWasConsumed
