SPECIFICATION FairSpec
CONSTANTS
    t1 = t1
    t2 = t2
    t3 = t3
    e1 = e1
    Flusher = Flusher
    Nobody = Nobody
    Txn = {t1, t2}
    NoBinlog = {}
    NoXA = {}
    FlushLogAtTrxCommit = 1
    SyncBinlog = 1
    Crashes = {}
    WriteErrors = TRUE
    MaxCrashes = 0
    MaxFiles = 1
INVARIANT EngineMatchesBinlog
\* a COMMIT that waits for the mutex of a failed one stops for good
CHECK_DEADLOCK FALSE
