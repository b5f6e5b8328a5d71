SPECIFICATION FairSpec
CONSTANTS
    p1 = p1  p2 = p2  none = none
    Procs = {p1, p2}
    NoProc = none
    MaxPublish = 1
    Overlap = FALSE
    Faults = {"crash", "torn", "fail", "late", "log", "timeout", "interrupt"}
    MaxSession = 2
    MaxPosts = 1
    MaxTroubles = 2
INVARIANTS TypeOK SessionExclusive CrashSafe PostsAccounted
PROPERTIES PhasesKept SessionsGoOn
