SPECIFICATION FairSpec
CONSTANTS
    Atts = {a1}
    NoAtt = NoAtt
    Total = 2
    Window = 1
    Budget = 2
    Offline = {}
    MaxStalls = 0
    MaxRetries = 1
    MaxRestarts = 1
INVARIANTS WindowAccounts PendingIsOwned
PROPERTY FetchEnds
CHECK_DEADLOCK FALSE
