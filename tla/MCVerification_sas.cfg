SPECIFICATION FairSpec
CONSTANTS
    Starter = Starter
    Responder = Responder
    Setups <- MCSetups
    MaxTrouble = 2
CHECK_DEADLOCK FALSE
INVARIANTS
    TypeOK
    VerifiedTogether
    MismatchHasCause
PROPERTY BothFinish
