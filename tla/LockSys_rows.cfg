SPECIFICATION Spec
CONSTANTS
    Key = {1, 2, 3}
    InitRecs = {1, 3}
    InitMarked = {3}
    Trx = {"a", "b", "c"}
    TableMode <- AllIX
    Begun = {"a", "b", "c"}
    Reads <- RowsReads
    Inserters = {"a", "b"}
    Modifiers = {"c"}
    AutoInc = {}
    TimesOut = {}
    MaxSplits = 1
    MaxOps <- RowsMaxOps
    ReleaseInterval = 1000
    Sup = Sup
    SupL = SupL
    Tab = Tab
    None = None
INVARIANT ImplicitIsExplicit
INVARIANT HoldersCompatible
INVARIANT NoForgottenWaiters
INVARIANT NoUnseenDeadlock
PROPERTY RepeatableReads
CHECK_DEADLOCK FALSE
