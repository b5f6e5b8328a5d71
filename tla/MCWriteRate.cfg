SPECIFICATION Spec
CONSTANTS
    s1 = s1  s2 = s2  w1 = w1  w2 = w2  r1 = r1
    Sessions = {s1}
    Tools = {w1}
    Reactors = {r1}
    DailyLimit = 2
    HourlyLimit = 1
    Day = 2
    Hour = 1
    PublishCap = 1
    DailyReactive = 1
    ReactiveBase = 1
    ReactiveHourly = 1
    Faults = {"abort", "fail", "late"}
    MaxTime = 2
    MaxPosts = 3
INVARIANTS TypeOK SlotsCovered SlotsAccounted RecordedWithinLimits SequentialWithinLimits

