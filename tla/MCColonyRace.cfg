SPECIFICATION Spec
CONSTANTS
    MaxTx = 2
    Kind <- MCPosts
    Parent <- MCNoParents
    SyncPage = 2
    ChainWindow = 2
    FeedWindow = 1
    FillPage = 4
    FillLimit = 2
    Faults = {}
    MaxTroubles = 0
PROPERTY KnownPostsSkipped
