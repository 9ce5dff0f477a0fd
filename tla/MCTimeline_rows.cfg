SPECIFICATION Spec
CONSTANTS
    Cap = 3
    Page = 2
    MaxEvents = 6
    Old = 2
    Own = {3, 4}
    Late = {2}
    Reactions = {5}
    Root <- MCRoot
    Budget <- MCBudget
CHECK_DEADLOCK FALSE
INVARIANTS
    TypeOK
    IndexExact
    SeenExact
    NoGhost
    NothingMissing
    CountBounded
