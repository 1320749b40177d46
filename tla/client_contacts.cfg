SPECIFICATION FairSpec
CONSTANTS
    u1 = u1
    u2 = u2
    g1 = g1
    User = {u1, u2}
    Group = {g1}
    Contacts <- MCContacts
    NoRow = NoRow
    Empty = Empty
    MaxRequests = 3
    MaxRetries = 1
INVARIANTS TypeOK TimerRuns CacheTrue ContactsComplete SignInUsable
PROPERTIES RetriesEnd ContactsShown
