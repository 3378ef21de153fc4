\* Three processes: one dies holding the lock, the two others both find the
\* sentinel stale.
CONSTANTS
    Procs = {P1, P2, P3}
    Projects = {alpha, beta}
    Digests = {d1}
    Items = {}
    Answers = {}
    NoAnswer = NoAnswer
    NoEntry = NoEntry
    NoEvent = NoEvent
    NoCall = NoCall
    Environments <- Recovering
    MaxCalls = 4
    MaxCrashes = 1
SPECIFICATION Spec
PROPERTIES
    NoResurrection
CHECK_DEADLOCK FALSE
