SPECIFICATION Spec
CONSTANTS
    Width = 64
    MaxAttempt = 66
    MaxTimers = 3
PROPERTY BackoffRamps
