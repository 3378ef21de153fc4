\* Three requests, two manifests, two toolsets, two changes by the user.
CONSTANTS
    Requests = {r1, r2, r3}
    Sets = Sets
    Plain = Plain
    Digests = {Sets, Plain}
    P = P
    Q = Q
    Toolsets = {P, Q}
    Declares <- DeclaresHere
    Default <- DefaultHere
    None = None
    MaxChanges = 2
SPECIFICATION Spec
INVARIANTS
    TypeOK
    CallKeepsItsAuthority
    TrustIsFollowed
    NobodyIsWedged
SYMMETRY Alike
CHECK_DEADLOCK FALSE
