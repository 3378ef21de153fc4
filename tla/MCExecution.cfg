\* Three connections, one more than the relay admits; two requests for a
\* budget of one; two lines into a spool that holds one.
CONSTANTS
    Conns = {k1, k2, k3}
    MaxConnections = 2
    MaxCalls = 1
    Capacity = 1
    MaxLines = 2
    MaxFrames = 2
SPECIFICATION Spec
INVARIANTS
    TypeOK
    BudgetHolds
    SlotsAccounted
    AcceptedAreWritten
    ClosesTheRun
    NothingLeftBehind
PROPERTIES
    Returns
CHECK_DEADLOCK FALSE
