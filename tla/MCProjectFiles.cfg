\* Two processes and two projects; a ledger of three entries, so
\* that a revert of two has room for its own and a revert of three has not.
CONSTANTS
    Procs = {p, q}
    Projects = {A, B}
    Texts = {t}
    Missing = Missing
    None = None
    MaxEntries = 3
    MaxCommands = 3
SPECIFICATION Spec
SYMMETRY Symmetry
INVARIANTS
    TypeOK
    ActiveHasPointer
    OriginalIsKept
PROPERTIES
    EndRestores
    RevertReachesThePoint
    RestoreWidensNobody
CHECK_DEADLOCK FALSE
