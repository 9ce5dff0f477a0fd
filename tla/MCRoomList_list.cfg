SPECIFICATION Spec
CONSTANTS
    a = a
    b = b
    c = c
    Rooms = {a, b, c}
    NoRoom = NoRoom
    Times <- MCTimes
    MaxQueue = 1
    Changes = 4
    UiCalls = 2
SYMMETRY RoomSymmetry
CHECK_DEADLOCK FALSE
INVARIANTS
    TypeOK
    IndexExact
    ListIsCurrent
    ViewFollows
