SPECIFICATION Spec
CONSTANTS
    NaN = NaN
    Nodes = {"n1", "n2"}
    Points = {1, 2, 3}
    Configs <- Chains
    Readings <- Measures
    MaxFloat = 1000000
    MaxPending = 2
    MaxChanges = 1
    MaxMoves = 1
INVARIANTS TypeOK AtMostOneLateCycle
PROPERTY Settles
