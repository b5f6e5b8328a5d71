SPECIFICATION Spec
CONSTANTS
    p1 = p1  p2 = p2  none = none
    Procs = {p1, p2}
    NoProc = none
    MaxPublish = 1
    Overlap = TRUE
    Faults = {}
    MaxSession = 1
    MaxPosts = 1
    MaxTroubles = 0
INVARIANT SessionExclusive
