\* Three workers; of four children two need the project to themselves.
CONSTANTS
    Workers = {W1, W2, W3}
    Children = {a, b, s, t}
    Serial = {s, t}
    Nobody = Nobody
SPECIFICATION FairSpec
INVARIANTS
    TypeOK
    SwapAlone
PROPERTIES
    ImplementsChildren
    EveryChildReports
CHECK_DEADLOCK FALSE
