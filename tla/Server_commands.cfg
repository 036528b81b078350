SPECIFICATION Spec
CONSTANTS
    Sessions = {m1, m2}
    Points = {p, q, r}
    Sbo = {p, q}
    None = None
    MaxRequests = 6
    MaxFaults = 1
CHECK_DEADLOCK FALSE
INVARIANTS TypeOK UndisturbedNotRefused
PROPERTY GrantNeedsSelect
