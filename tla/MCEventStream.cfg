SPECIFICATION Spec
CONSTANTS
    f1 = f1  f2 = f2  o1 = o1  s1 = s1
    Feeds = {f1}
    Opinions = {}
    Streams = {s1}
    FeedLimit = 2
    MaxReconnect = 1
    Faults = {"error", "stream", "throw", "action", "stop", "crash"}
    MaxPosts = 2
    MaxTroubles = 2
PROPERTIES RepeatsExplained
