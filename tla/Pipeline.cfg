SPECIFICATION FairSpec
CONSTANTS
    PP = 4
    M = 5
    Rounds = 2
    Capacities = {0, 1}
INVARIANTS
    TypeOK
    SlotsMatch
    GradientsMatch
    LiveBound
    StopsOnlyAtCrossingSends
PROPERTIES
    Completes
CHECK_DEADLOCK FALSE
