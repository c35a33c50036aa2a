SPECIFICATION FairSpec
CONSTANTS
    Thread = {"t1", "t2", "t3"}
    Io = "io"
    Mutex = {"m"}
    RwLock = {"l"}
    Plays <- MCPlays
    MaxDepth = 2
    None = None
INVARIANT LatchesExact
INVARIANT MutexNoLostWakeup
INVARIANT RwNoLostWakeup
PROPERTY WaitEnds
