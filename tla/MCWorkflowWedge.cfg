\* One session whose children may hang, and every append succeeds.
CONSTANTS
    A1 = A1
    B1 = B1
    A2 = A2
    B2 = B2
    Calls = {A1, B1, A2, B2}
    Never = Never
    Ceiling = 3
    Scripts <- FailScripts
    MaxConcurrent = 2
    ResidentCap = 2
    AppendsMayFail = FALSE
    MaxSessions = 1
SPECIFICATION HangSpec
PROPERTY
    SessionEnds
CHECK_DEADLOCK FALSE
