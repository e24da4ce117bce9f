SPECIFICATION Spec
CONSTANTS
    Atts = {a1}
    NoAtt = NoAtt
    Total = 2
    Window = 1
    Budget = 1
    Offline = {a1}
    MaxStalls = 1
    MaxRetries = 0
    MaxRestarts = 0
INVARIANTS CompleteMeansWhole ReceivedOnce NoChunkDiscarded
CHECK_DEADLOCK FALSE
