SPECIFICATION FairSpec
CONSTANTS
    Reader = {"r1", "r2"}
    Writer = {"w"}
    Admin = "root"
    Query = {"q1", "q2"}
    Table = {"t1", "t2", "m"}
    Myisam = {"m"}
    Plays <- MCPlays
    NPackets = 2
    None = None
CHECK_DEADLOCK FALSE
INVARIANT NoStaleResult
INVARIANT SameAsView
INVARIANT WriterOwnsBlock
INVARIANT ListsExact
PROPERTY StatementsEnd
