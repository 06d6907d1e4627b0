SPECIFICATION Spec
CONSTANTS
    Arrangements <- MCArrangements
    Modes = {"full", "owner", "flat"}
    BucketSizes = {1, 3, 4}
    Size <- MCSize
    MaxSteps = 2
INVARIANTS
    CollectivesMatch
    ReplicasAgree
    EveryGradientOnce
