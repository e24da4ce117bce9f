\* Two frames in transit, one deposit at a time, a card change, a restart, and
\* the recipient's dedup and history rows swept.
CONSTANTS
    Msgs = {m1}
    MaxWire = 2
    Ids = {d1}
    Swept = {"seen", "history"}
    MaxCards = 1
    MaxRestarts = 1
SPECIFICATION Spec
INVARIANTS DeliveredIsTrue  NothingLostSilently SurfacedAtMostOnce
CHECK_DEADLOCK FALSE
