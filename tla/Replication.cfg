SPECIFICATION Spec
CONSTANTS
    Points = {a, b}
    Large = {b}
    None = None
    MaxPacket = 2
    MaxQueue = 2
    MaxMsgSeq = 2
    MaxUpdates = 1
    MaxFaults = 2
INVARIANTS TypeOK BackfillBounded LossReported
PROPERTY CatchesUp
