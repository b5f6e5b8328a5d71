SPECIFICATION Spec
CONSTANTS
    s1 = s1  s2 = s2  p1 = p1  t1 = t1
    Sessions = {s1, s2}
    Posts = {p1}
    Texts = {t1}
    MaxPerPost = 2
    Cooldown = 1
    Day = 3
    Inactivity = 1
    Faults = {"refused", "unheard", "store", "crash", "disconnect"}
    MaxTime = 4
    MaxTxs = 3
    MaxTroubles = 1
SYMMETRY SessionSymmetry
INVARIANTS TypeOK RecordedWithinLimit RefusedForOthers
CHECK_DEADLOCK FALSE
