SPECIFICATION Spec
CONSTANTS
    None = None
    Requests <- SameObject
    MaxFaults = 0
CHECK_DEADLOCK FALSE
INVARIANT ExecutedAsOrdered
