SPECIFICATION Spec
CONSTANTS
    bob = bob
    carol = carol
    t1 = t1
    t2 = t2
    Members <- MCMembers
    Threads = {t1, t2}
    Ops <- MCOps
    Failures = {"members", "query", "claim", "put"}
    RotateAfter = 1
    Drain = 1
    MaxSession = 2
    Otks <- FewOtks
    Stale <- OldOtks
CHECK_DEADLOCK FALSE
INVARIANTS
    TypeOK
    RotationBound
    TornIsRetired
    
PROPERTIES
    FlagSetHonestly
