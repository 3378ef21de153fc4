\* A pipeline over two items, interrupted once and resumed.
CONSTANTS
    A1 = A1
    B1 = B1
    A2 = A2
    B2 = B2
    Calls = {A1, B1, A2, B2}
    Never = Never
    Ceiling = 4
    Scripts <- PipeScripts
    MaxConcurrent = 2
    ResidentCap = 2
    AppendsMayFail = FALSE
    MaxSessions = 2
SPECIFICATION Spec
INVARIANT
    WholeBatchesResume
CHECK_DEADLOCK FALSE
