SPECIFICATION Spec
CONSTANTS
    p1 = p1
    p2 = p2
    p3 = p3
    p4 = p4
    ann = ann
    ben = ben
    Posts = {p1, p2, p3, p4}
    NoPost = NoPost
    Recipients = {ann, ben}
    Author <- MCAuthor
    TipAmount <- MCTipAmount
    BetAmounts = {1, 2}
    DailyCap = 4
    SessionCap = 3
    MaxTips = 2
    MaxPerRecipient = 1
    MinSessions = 2
    MaxDays = 2
    MaxSessions = 4
    Faults = {"api", "unsent", "unheard", "crash"}
    MaxTroubles = 2
INVARIANTS TypeOK DayWithinCap TippedOnce RecipientBounded WarmUpFirst
CHECK_DEADLOCK FALSE
