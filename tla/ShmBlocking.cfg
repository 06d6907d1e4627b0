SPECIFICATION FairSpec
CONSTANTS
    MaxCalls = 3
    CallerIds <- MCCallerIds
    ServerTimeout = TRUE
    ClientTimeout = FALSE
INVARIANTS
    TypeOK
PROPERTIES
    RefinesRpc
    ServedWhileRunning
    ServerStops
CHECK_DEADLOCK FALSE
