\* Two processes over two projects; one of them may die holding the lock.
CONSTANTS
    Procs = {P1, P2}
    Projects = {alpha, beta}
    Digests = {d1, d2}
    Items = {skill}
    Answers = {blocked}
    NoAnswer = NoAnswer
    NoEntry = NoEntry
    NoEvent = NoEvent
    NoCall = NoCall
    Environments <- RecoveringOrShort
    MaxCalls = 3
    MaxCrashes = 1
SPECIFICATION FairSpec
INVARIANTS
    TypeOK
    OneWriter
    LogReplaysToStore
PROPERTIES
    ImplementsLedger
    EveryCallReturns
CHECK_DEADLOCK FALSE
