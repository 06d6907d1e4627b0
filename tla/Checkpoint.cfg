SPECIFICATION FairSpec
CONSTANTS
    N = 3
    Steps = 5
    Every = 2
    MaxLaunches = 3
INVARIANTS
    TypeOK
    LatestCoherent
    RanksAgree
    NoRankFails
    SameStep
    RefusesOnlyIncomplete
PROPERTIES
    LatestAdvances
    TrainingCompletes
CHECK_DEADLOCK FALSE
