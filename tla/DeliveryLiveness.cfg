\* A stable card, with and without a mailbox.
CONSTANTS
    Msgs = {m1}
    MaxWire = 1
    Ids = {d1}
    Swept = {}
    MaxCards = 0
    MaxRestarts = 0
SPECIFICATION FairSpec
PROPERTY EventuallySettled
CHECK_DEADLOCK FALSE
