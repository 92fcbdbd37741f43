SPECIFICATION Spec
CONSTANTS
    NumFiles = 2
    Size <- TwoFiles
    Slab = 2
    MaxConcurrent = 1
    Failures = {"read", "drop", "lost"}
INVARIANTS TypeOK SavedIsComplete SavedMeansDone SlotsWellUsed OnlyAccepted
PROPERTY CancelledSticks
CHECK_DEADLOCK FALSE
