\* One process of each kind; one layer; a skill of the project and one of the library.
CONSTANTS
    Reviewers = {R}
    Carriers = {C}
    Loaders = {L}
    Layers = {manifest}
    Declarations = {tools, more}
    Preferences = {old, new}
    Items = {own, lib}
    Inline = {own}
    Contents = {c1, c2}
    Unpinned = Unpinned
    None = None
    MaxEdits = 2
    MaxCommands = 3
    MaxEvents = 4
SPECIFICATION Spec
SYMMETRY Symmetry
INVARIANTS
    TypeOK
    TrustedWasReviewed
    ServedWasApproved
    RefusedIsNotServed
    RefusedStaysBlocked
CHECK_DEADLOCK FALSE
