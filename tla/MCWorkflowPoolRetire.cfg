\* Two workers, one child.
CONSTANTS
    Workers = {W1, W2}
    Children = {a}
    Serial = {}
    Nobody = Nobody
SPECIFICATION FairSpec
PROPERTIES
    PoolRetires
CHECK_DEADLOCK FALSE
