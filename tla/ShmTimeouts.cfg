SPECIFICATION ClientFairSpec
CONSTANTS
    MaxCalls = 3
    CallerIds <- MCCallerIds
    ServerTimeout = FALSE
    ClientTimeout = TRUE
INVARIANTS
    TokenConservation
    CleanUntilTimeout
    LagBound
PROPERTIES
    GenerateReturns
CHECK_DEADLOCK FALSE
