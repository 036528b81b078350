SPECIFICATION FairSpec
CONSTANTS
    Nodes = {n1, n2}
    NoNode = NoNode
    KeepAliveCountLimit = 2
    MissingInstanceActive = FALSE
    NumStamps = 7
    MaxLag = 2
    WriteLag = 1
    MaxFaults = 1
    MaxEdits = 1
INVARIANTS
    TypeOK
    TakeoverNeedsStall
    YieldsAtNextReading
PROPERTIES
    LiveNodeKeepsRole
    Converges
