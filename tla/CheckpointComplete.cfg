SPECIFICATION Spec
CONSTANTS
    N = 3
    Steps = 3
    Every = 1
    MaxLaunches = 3
INVARIANTS
    CompleteResumeAgrees
CHECK_DEADLOCK FALSE
