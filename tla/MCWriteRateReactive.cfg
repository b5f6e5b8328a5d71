SPECIFICATION Spec
CONSTANTS
    s1 = s1  s2 = s2  w1 = w1  w2 = w2  r1 = r1
    Sessions = {}
    Tools = {}
    Reactors = {r1}
    DailyLimit = 14
    HourlyLimit = 5
    Day = 24
    Hour = 1
    PublishCap = 2
    DailyReactive = 4
    ReactiveBase = 4
    ReactiveHourly = 2
    Faults = {}
    MaxTime = 2
    MaxPosts = 6
INVARIANTS ReactiveHourlyWithinLimit
