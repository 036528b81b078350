SPECIFICATION Spec
CONSTANTS
    None = None
    Requests <- Distinct
    MaxFaults = 3
CHECK_DEADLOCK FALSE
INVARIANTS
    TypeOK
    ExecutedAsOrdered
    CancelledNotExecuted
    GoodMeansExecuted
PROPERTIES StaleNotSent ImplementsContract
