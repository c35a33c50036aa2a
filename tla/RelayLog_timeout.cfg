SPECIFICATION FairSpec
CONSTANTS
    MasterLog <- MCMasterLog
    MaxSize = 3
    SlaveTransRetries = 1
    MaxFaults = 2
    None = None
INVARIANT RetriedFromScratch
CHECK_DEADLOCK FALSE
