SPECIFICATION FairSpec
CONSTANTS
    NaN = NaN
    Missing = Missing
    w1 = w1
    w2 = w2
    Workers = {w1, w2}
    Points <- Both
    Config <- MCConfig
    NewPoints <- OneDigital
    Shard <- MCShard
    Updates <- MCUpdates
    Timestamped = TRUE
    ChangeQueueSize = 2
    WriteQueueSize = 3
    RtWriteMaxBatch = 2
    MaxUpdates = 3
    MaxFaults = 2
CHECK_DEADLOCK FALSE
INVARIANTS TypeOK FreshWhenQuiet SoeExactlyOnce
PROPERTIES PerPointOrder Drains
