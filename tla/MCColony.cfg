SPECIFICATION FairSpec
CONSTANTS
    MaxTx = 6
    Kind <- MCKind
    Parent <- MCParent
    SyncPage = 2
    ChainWindow = 3
    FeedWindow = 2
    FillPage = 4
    FillLimit = 2
    Faults = {"api", "chain", "crash"}
    MaxTroubles = 2
INVARIANTS TypeOK PassedIsKept WalkLeavesNoGap CacheCurrent
PROPERTIES FullUnlessOvertaken NewestArrive
