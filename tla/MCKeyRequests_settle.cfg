SPECIFICATION FairSpec
CONSTANTS
    k1 = k1
    k2 = k2
    room = room
    alice = alice
    e1 = e1
    e2 = e2
    Keys <- MCKeys
    RoomOf <- MCRoomOf
    SenderOf <- MCSenderOf
    Events <- MCEvents
    KeyOf <- MCKeyOf
    Threads = {t1}
    MaxAttempts = 2
    Delay <- MCDelay
    MaxAge = 2
    DeferAge = 1
    RearmAge = 1
    RearmWindow = 1
    RebootAge <- MCRebootAge
    Budgets <- MCBudgets
    Cap = 1
    GaveUpCap = 1
    GateMax = 1
CHECK_DEADLOCK FALSE
INVARIANTS
    TypeOK
    KeepsAsking
    AttemptsBounded
    GaveUpOnce
PROPERTY EveryRequestSettles
