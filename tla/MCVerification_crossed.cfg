SPECIFICATION FairSpec
CONSTANTS
    Starter = Starter
    Responder = Responder
    Setups <- MCPublished
    MaxTrouble = 1
CHECK_DEADLOCK FALSE
PROPERTY BothReachDone
