CONSTANTS
    m1 = m1
    NoMb = NoMb
    d1 = d1
    d2 = d2
    k1 = k1
    k2 = k2
    Mailboxes = {m1}
    Deposits = {d1, d2}
    Clients = {k1, k2}
    FailureThreshold = 2
    FrameCap = 2
    DeleteCap = 1
    MaxCmds = 2
    MaxStops = 1
SPECIFICATION PollFairSpec
INVARIANTS NothingDropped OneCardPerVersion
PROPERTIES DepositsSurface 
CHECK_DEADLOCK FALSE
