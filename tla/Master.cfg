SPECIFICATION FairSpec
CONSTANTS
    mWorkerNum = 2
    MaxCrashes = 2
    MaxForkFails = 1
    MaxDetached = 2
INVARIANTS InTable Channels
PROPERTIES Replaced Stops
CHECK_DEADLOCK FALSE
