SPECIFICATION FairSpec
CONSTANTS
    Flusher = {f1, f2}
    Committer = {c1}
    Definer = {d1}
    Writer = {}
    Killable = {f1}
    MaxFlushes = 2
    None = None
    f1 = f1
    f2 = f2
    c1 = c1
    d1 = d1
    w1 = w1
    w2 = w2
PROPERTY MakeBlockCommitEnds
PROPERTY WaitersProceed
