\* Two pids, so that each comes back; one launcher with two threads; one other
\* process that lists and kills.
CONSTANTS
    L = L
    Pids = {m, n}
    Launchers = {L}
    Threads = {t, u}
    LauncherOf <- OneLauncher
    Commands = {c}
    None = None
    MaxBirths = 3
    MaxOps = 3
SPECIFICATION Spec
SYMMETRY Symmetry
INVARIANTS
    TypeOK
    LeasesAreTold
    RunsAreTold
CHECK_DEADLOCK FALSE
