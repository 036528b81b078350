SPECIFICATION Spec
CONSTANTS
    Points = {a}
    Large = {}
    None = None
    MaxPacket = 2
    MaxQueue = 2
    MaxMsgSeq = 2
    MaxUpdates = 1
    MaxFaults = 1
PROPERTY ReplayRecorded
