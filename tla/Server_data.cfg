SPECIFICATION Spec
CONSTANTS
    a = a
    b = b
    c = c
    Points = {a, b, c}
    Interrogated = {a, c}
    Types = {1, 3}
    Type <- MCType
    Inverted = {a}
    Unknown = Unknown
    MultiActive = FALSE
    BatchSize = 2
    MaxChanges = 2
    MaxDrops = 2
    MaxFaults = 1
INVARIANT TypeOK
PROPERTIES EventsNotLost InterrogationRepairs
