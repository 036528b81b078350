SPECIFICATION Spec
CONSTANTS
    Nodes = {n1, n2}
    NoNode = NoNode
    Limit = 4
    Keeps = FALSE
    MaxLag = 2
    MaxSlow = 3
    MaxFaults = 3
    MaxEdits = 2
INVARIANTS TypeOK
PROPERTIES TakeoverNeedsStall Converges
