SPECIFICATION Spec
CONSTANTS
    Kernels <- MCKernels
    Threads = 2
    K = 4
    TileCols = 1
INVARIANTS
    VariantsAgree
CHECK_DEADLOCK FALSE
