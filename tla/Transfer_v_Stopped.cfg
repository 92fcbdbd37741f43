SPECIFICATION Spec
CONSTANTS
    NumFiles = 1
    Size <- OneFile
    Slab = 2
    MaxConcurrent = 1
    Failures = {}
INVARIANTS StopIsFinal
CHECK_DEADLOCK FALSE
