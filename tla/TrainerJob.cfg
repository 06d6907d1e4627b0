SPECIFICATION Spec
CONSTANTS
    Arrangements <- MCArrangements
    Starts = {0, 1}
    Steps = 2
    MaxLaunches = 2
INVARIANTS
    IdsOfThisLaunch
    BatchOfThisStep
PROPERTIES
    JobEnds
CHECK_DEADLOCK FALSE
