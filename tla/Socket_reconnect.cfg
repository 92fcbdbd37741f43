SPECIFICATION FairSpec
CONSTANTS
    Width = 64
    MaxAttempt = 8
    MaxTimers = 3
INVARIANTS TypeOK RetryPending
PROPERTIES BackoffRamps LinkSpec Recovers
