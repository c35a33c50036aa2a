SPECIFICATION Spec
CONSTANTS
    Reader = {"r1", "r2"}
    Writer = {"w"}
    Admin = "root"
    Query = {"q1", "q2"}
    Table = {"t1", "t2", "m"}
    Myisam = {"m"}
    Plays <- ConcurrentPlays
    NPackets = 1
    None = None
CHECK_DEADLOCK FALSE
INVARIANT EveryResultFresh
