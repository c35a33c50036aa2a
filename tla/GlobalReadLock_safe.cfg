\* a FLUSH that waits for a table whose writer missed the broadcast stops for good
CHECK_DEADLOCK FALSE
SPECIFICATION Spec
CONSTANTS
    Flusher = {f1, f2}
    Committer = {c1}
    Definer = {d1}
    Writer = {w1}
    Killable = {f1, c1}
    MaxFlushes = 2
    None = None
    f1 = f1
    f2 = f2
    c1 = c1
    d1 = d1
    w1 = w1
    w2 = w2
INVARIANT TypeOK
INVARIANT CountersExact
INVARIANT QuietUnderReadLock
