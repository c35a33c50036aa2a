SPECIFICATION FairSpec
CONSTANTS
    Key = {1, 2, 3}
    InitRecs = {1, 2}
    InitMarked = {}
    Trx = {"a", "b", "c"}
    TableMode <- AllIX
    Begun = {"a", "b"}
    Reads <- WaitsReads
    Inserters = {"b", "c"}
    Modifiers = {}
    AutoInc = {"b", "c"}
    TimesOut = {"c"}
    MaxSplits = 0
    MaxOps <- WaitsMaxOps
    ReleaseInterval = 1
    Sup = Sup
    SupL = SupL
    Tab = Tab
    None = None
PROPERTY WaitEnds
CHECK_DEADLOCK FALSE
