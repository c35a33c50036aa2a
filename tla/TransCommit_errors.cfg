SPECIFICATION Spec
CONSTANTS
    t1 = t1
    t2 = t2
    t3 = t3
    e1 = e1
    Flusher = Flusher
    Nobody = Nobody
    Txn = {t1, t2, e1}
    NoBinlog = {e1}
    NoXA = {}
    FlushLogAtTrxCommit = 2
    SyncBinlog = 2
    Crashes = {"mysqld"}
    WriteErrors = TRUE
    MaxCrashes = 2
    MaxFiles = 2
INVARIANT TypeOK
INVARIANT NothingUnlogged
INVARIANT CommitIsDurable
