SPECIFICATION Spec
CONSTANTS
    Nodes = {n1, n2}
    NoNode = NoNode
    Limit = 4
    Keeps = TRUE
    MaxLag = 2
    MaxSlow = 2
    MaxFaults = 2
    MaxEdits = 1
PROPERTY TakeoverNeedsStall
