SPECIFICATION FairSpec
CONSTANTS
    NumFiles = 2
    Size <- WithEmpty
    Slab = 2
    MaxConcurrent = 1
    Failures = {}
INVARIANT DoneMeansSent
PROPERTIES AcceptedArrives ChannelReleased SenderRowSettles
CHECK_DEADLOCK FALSE
