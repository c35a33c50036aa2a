SPECIFICATION FairSpec
CONSTANTS
    Flusher = {f1}
    Committer = {c1}
    Definer = {}
    Writer = {w1}
    Killable = {}
    MaxFlushes = 1
    None = None
    f1 = f1
    f2 = f2
    c1 = c1
    d1 = d1
    w1 = w1
    w2 = w2
PROPERTY FlushEnds
