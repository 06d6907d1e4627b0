SPECIFICATION MCSpec
CONSTANTS
    MaxAxis = 4
    MaxWorld = 12
    MaxLayers = 5
    CpGroups <- MCCpGroups
    MaxLength = 5
    MaxSteps = 5
    MaxWidth = 4
    MaxTp = 3
    MaxHeads = 6
    MaxDepth = 3
INVARIANTS
    TensorGradients
CHECK_DEADLOCK FALSE
