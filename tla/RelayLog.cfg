SPECIFICATION FairSpec
CONSTANTS
    MasterLog <- MCMasterLog
    MaxSize = 3
    SlaveTransRetries = 1
    MaxFaults = 2
    None = None
INVARIANT TypeOK
INVARIANT AppliedInOrder
INVARIANT PositionsTrue
INVARIANT IdleMeansCaughtUp
PROPERTY CatchesUp
CHECK_DEADLOCK FALSE
