CONSTANTS
    a = a
    b = b
    c = c
    d1 = d1
    d2 = d2
    d3 = d3
    n1 = n1
    c1 = c1
    NoUser = NoUser
    Users <- UsersABC
    Ids <- DepositIds
    Nonces = {n1}
    Conns = {c1}
    Sizes = {1, 2, 3}
    Ttls = {0, 9}
    MaxTime = 2
    MaxRestarts = 1
    MaxDepositSize = 2
    MinTtl = 1
    MaxTtl = 3
    DefaultTtl = 1
    RecipientCap = 2
    GlobalCap = 3
    MaxRecipients = 2
    MaxConnections = 1
    MaxDeleteIds = 1
    DepositsPerMin = 1
    FetchesPerMin = 1
    GlobalPerMin = 2
    ChallengeTtl = 1
SPECIFICATION Spec
SYMMETRY Symmetric
INVARIANTS CapsHold NonceUsedOnce 
PROPERTY KeepsPromise
