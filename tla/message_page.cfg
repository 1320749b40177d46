SPECIFICATION FairPageSpec
CHECK_DEADLOCK FALSE
CONSTANTS
    u1 = u1
    g1 = g1
    User = {u1}
    Group = {g1}
    Traffic <- MCTraffic
    NoRow = NoRow
    Empty = Empty
    MaxRequests = 5
    MaxRetries = 1
INVARIANTS InOrder CrashNeedsStranger ClickShows
PROPERTIES MessagesShown
