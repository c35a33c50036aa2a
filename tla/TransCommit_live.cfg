SPECIFICATION FairSpec
CONSTANTS
    t1 = t1
    t2 = t2
    t3 = t3
    e1 = e1
    Flusher = Flusher
    Nobody = Nobody
    Txn = {t1, t2, t3}
    NoBinlog = {}
    NoXA = {t3}
    FlushLogAtTrxCommit = 1
    SyncBinlog = 1
    Crashes = {"os"}
    WriteErrors = FALSE
    MaxCrashes = 2
    MaxFiles = 2
INVARIANT EngineMatchesBinlog
INVARIANT OnlyLastLogMatters
INVARIANT SameOrder
PROPERTY ImplementsAtomicCommit
PROPERTY CommitEnds
PROPERTY RotationEnds
