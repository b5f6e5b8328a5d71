SPECIFICATION Spec
CONSTANTS
    a = a  b = b  h1 = h1  c1 = c1
    Sources = {a, b}
    Hooks = {h1}
    Commands = {c1}
    Starting = {"quarantined", "active", "degraded", "archived"}
    Overall <- Ratings
    PromotionPasses = 2
    DegradedRating = 40
    DegradedFailures = 2
    RecoveryRating = 60
    StaleDays = 1
    DeprecatedDays = 1
    ArchiveFailures = 2
    SampleSize = 1
    MaxDays = 2
    MaxRuns = 3
INVARIANTS TypeOK WholeUnlessShared
PROPERTY OneTestAtATime
CHECK_DEADLOCK FALSE
