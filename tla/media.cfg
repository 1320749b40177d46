SPECIFICATION FairSpec
CHECK_DEADLOCK FALSE
CONSTANTS
    a = a
    b = b
    c = c
    User <- MCUser
    Requests <- MCRequests
INVARIANTS ShownWhole ShownOnce NothingKept
PROPERTIES SuccessIsShown
