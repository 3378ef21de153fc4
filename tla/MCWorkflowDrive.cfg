\* Two items, two stages, two sessions; the fourth call is refused.
CONSTANTS
    A1 = A1
    B1 = B1
    A2 = A2
    B2 = B2
    Calls = {A1, B1, A2, B2}
    Never = Never
    Ceiling = 3
    Scripts <- AllScripts
    MaxConcurrent = 2
    ResidentCap = 2
    AppendsMayFail = TRUE
    MaxSessions = 2
SPECIFICATION FairSpec
INVARIANTS
    TypeOK
    ChildrenAreAccounted
    ScriptSawTheLog
    RefusalsAreClean
PROPERTIES
    KeepsPromise
    SessionEnds
CHECK_DEADLOCK FALSE
